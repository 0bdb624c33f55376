------------------------------ MODULE MuxClock ------------------------------
(***************************************************************************)
(* The time limit of CMuxInterleaver::Read (basemux.cpp): GetTime extends  *)
(* the 32-bit tick count of the system to 64 bits by counting the times it *)
(* is seen to wrap, and Read waits for what is left of its limit each time *)
(* round its loop.  What Read does with the queues is Interleaver's; here  *)
(* a wait ends at any time (a packet came), and a scan finds a packet to   *)
(* deliver or does not.  Only the muxing thread calls Read.                *)
(***************************************************************************)
EXTENDS Integers

CONSTANTS
  Wrap,         \* 2^32, scaled down: where a DWORD wraps
  TimeLimit,    \* the timeout ThreadProc passes, 40 ms
  MaxTicks      \* bound: how long the model runs

ASSUME TicksAssumption ==
  /\ MaxTicks \in Nat /\ Wrap \in Nat /\ TimeLimit \in Nat
  /\ TimeLimit < Wrap - 1                 \* not INFINITE

VARIABLES
  ticks,        \* milliseconds since the interleaver was made; GetTickCount shows the last bits
  counter,      \* offset and last_gt
  read,         \* where Read is, its end_time, when its wait times out
  seen          \* history: ticks at the last GetTime and at the call of Read, and whether a wrap was missed

tickVars == <<ticks, counter, read, seen>>

TickInit ==
  /\ ticks \in 0..(Wrap - 1)
  /\ counter = [offset |-> 0, last |-> ticks]
  /\ read = [at |-> "idle", end |-> 0, until |-> 0]
  /\ seen = [last |-> ticks, call |-> ticks, missed |-> 0]

Wrapped(c) == ticks % Wrap < c.last

Counted(c) ==
  [offset |-> IF Wrapped(c) THEN c.offset + Wrap ELSE c.offset, last |-> ticks % Wrap]
Value(c) == c.last + c.offset

(* Every call of GetTime moves the counter; two wraps between two calls    *)
(* count as one, and one that comes back to where it began not at all.     *)
GetTime ==
  /\ counter' = Counted(counter)
  /\ seen' = [seen EXCEPT !.last = ticks,
                          !.missed = @ + (ticks - seen.last) - (Value(Counted(counter)) - Value(counter))]

TickPasses == ticks < MaxTicks /\ ticks' = ticks + 1 /\ UNCHANGED <<counter, read, seen>>

-----------------------------------------------------------------------------
BeginRead ==
  /\ read.at = "idle"
  /\ counter' = Counted(counter)
  /\ seen' = [last |-> ticks, call |-> ticks, missed |-> 0]
  /\ read' = [at |-> "limit", end |-> Value(Counted(counter)) + TimeLimit, until |-> 0]
  /\ UNCHANGED ticks

(* end_time - GetTime() is given to the wait as a DWORD.                   *)
BeginWait ==
  /\ read.at = "limit"
  /\ GetTime
  /\ read' = [read EXCEPT !.at = "waiting", !.until = ticks + ((read.end - Value(Counted(counter))) % Wrap)]
  /\ UNCHANGED ticks

(* A packet comes, the wait ends.                                          *)
EndWait ==
  /\ read.at = "waiting"
  /\ read' = [read EXCEPT !.at = "woken"]
  /\ UNCHANGED <<ticks, counter, seen>>

WaitTimeout ==
  /\ read.at = "waiting" /\ ticks >= read.until
  /\ read' = [read EXCEPT !.at = "timeout"]
  /\ UNCHANGED <<ticks, counter, seen>>

CheckLimit ==
  /\ read.at = "woken"
  /\ GetTime
  /\ read' = [read EXCEPT !.at = IF Value(Counted(counter)) > read.end THEN "timeout" ELSE "scanning"]
  /\ UNCHANGED ticks

(* The scan delivers a packet, or goes round the loop.  ThreadProc takes a *)
(* timeout as an occasion to look for requests.                            *)
EndScan ==
  /\ read.at = "scanning"
  /\ \E next \in {"idle", "limit"} : read' = [read EXCEPT !.at = next]
  /\ UNCHANGED <<ticks, counter, seen>>

AfterTimeout ==
  /\ read.at = "timeout"
  /\ read' = [read EXCEPT !.at = "idle"]
  /\ UNCHANGED <<ticks, counter, seen>>

TickNext == TickPasses \/ BeginRead \/ BeginWait \/ EndWait \/ WaitTimeout \/ CheckLimit \/ EndScan \/ AfterTimeout

TickSpec == TickInit /\ [][TickNext]_tickVars

-----------------------------------------------------------------------------
(* Read gives up no earlier than its limit, across any number of wraps of  *)
(* the tick count, seen or missed between its calls.                       *)
NeverTooEarly == read.at = "timeout" => ticks - seen.call >= TimeLimit

(* A wait that began within the limit ends with it: what is left of the    *)
(* limit never counts time twice.  Once the limit has run out between      *)
(* CheckLimit and the next wait, the DWORD wraps and only a packet or an   *)
(* abort ends the wait in reasonable time.                                 *)
WaitsAsLongAsLeft ==
  (read.at = "waiting" /\ seen.last - seen.call <= TimeLimit) => read.until = seen.call + TimeLimit

(* No wrap is counted that was not there: within a call of Read the time   *)
(* GetTime shows to have passed is the true one or whole turns less.       *)
WrapsAreCounted == seen.missed >= 0 /\ seen.missed % Wrap = 0

(* The muxer's clock (basemux.cpp, GetTime and Read): the limit of a Read  *)
(* is neither cut short nor counted twice by the wraps of the tick count.  *)
TimeLimitsKept == NeverTooEarly /\ WaitsAsLongAsLeft /\ WrapsAreCounted
=============================================================================
