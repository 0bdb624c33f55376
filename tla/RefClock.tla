---------------------------- MODULE RefClock ----------------------------
(***************************************************************************)
(* CBaseReferenceClock (refclock.cpp) and its CAMSchedule (schedule.cpp):   *)
(* a time-ordered list of advises, and a thread that sleeps until the first *)
(* of them is due and signals every one that is.                            *)
(*                                                                         *)
(* Times are in units of half a millisecond, the smallest step SetTimeDelta *)
(* distinguishes.  The wake-up of the thread is measured by the system's    *)
(* timer, the advises by the clock's private time, which SetTimeDelta moves.*)
(***************************************************************************)
EXTENDS Integers, SequencesExt

CONSTANTS
  MaxTime,        \* bound: the private time the model runs to
  MaxAdvises,     \* bound: the number of advises made
  AdviseTimes,    \* the times advised for
  Periods,        \* the periods of the periodic ones
  Deltas          \* the corrections an application makes by SetTimeDelta

ASSUME ClockBounds ==
  /\ MaxTime \in Nat /\ MaxAdvises \in Nat /\ Deltas \subseteq Int
  /\ AdviseTimes \subseteq Nat \ {0} /\ Periods \subseteq Nat \ {0}

VARIABLES
  sched,        \* CAMSchedule's list: packets [cookie, time, period, start]
  count,        \* m_dwAdviseCount
  lastCookie,   \* m_dwNextCookie
  schedEvent,   \* m_ev, auto-reset
  private,      \* m_rtPrivateTime
  advisor,      \* the thread: [pc, wake, now], wake the time it
                \* still sleeps by the system's timer, or Never
  signals,      \* cookie -> times its event or semaphore was signalled
  cancelled,    \* the cookies Unadvise found
  slack         \* sum of the deltas too small to wake the thread for

cvars == <<sched, count, lastCookie, schedEvent, private,
           advisor, signals, cancelled, slack>>

Millisecond == 2
Never == -1             \* INFINITE: the timer is not set
MaxSlack == 2           \* bound: of slack

ClockInit ==
  /\ sched = <<>> /\ count = 0 /\ lastCookie = 0 /\ schedEvent = FALSE
  /\ private = 0
  /\ advisor = [pc |-> "sleeping", wake |-> Never, now |-> 0]
  /\ signals = <<>> /\ cancelled = {} /\ slack = 0

\* The lock of the list is Advise's for as long as its loop runs.
Unlocked == advisor.pc # "signalling"

\* Faulty variant, to show that the run can fail: at the end of the list.
InsertLast(s, time, at) == at = Len(s) + 1

\* Before the first packet that is not earlier.
InsertsAt(s, time, at) ==
  /\ \A i \in 1..(at - 1) : s[i].time < time
  /\ at <= Len(s) => s[at].time >= time

AddAdvisePacket(time, period) ==
  LET p == [cookie |-> lastCookie + 1, time |-> time, period |-> period,
            start |-> time]
  IN  /\ lastCookie < MaxAdvises /\ Unlocked
      /\ \E at \in 1..(Len(sched) + 1) :
           /\ InsertsAt(sched, time, at)
           /\ sched' = InsertAt(sched, at, p)
           /\ schedEvent' = (schedEvent \/ at = 1)
      /\ count' = count + 1 /\ lastCookie' = lastCookie + 1
      /\ signals' = Append(signals, 0)
      /\ UNCHANGED <<private, advisor, cancelled, slack>>

AdviseTime     == \E t \in AdviseTimes : AddAdvisePacket(t, 0)
AdvisePeriodic == \E t \in AdviseTimes, d \in Periods : AddAdvisePacket(t, d)

Unadvise ==
  \E i \in DOMAIN sched :
    /\ Unlocked
    /\ sched' = RemoveAt(sched, i) /\ count' = count - 1
    /\ cancelled' = cancelled \cup {sched[i].cookie}
    /\ UNCHANGED <<lastCookie, schedEvent, private, advisor,
                   signals, slack>>

\* AdviseThread: woken by the event or the timer, it reads the private time,
AdvisorWakes ==
  /\ advisor.pc = "sleeping" /\ (schedEvent \/ advisor.wake = 0)
  /\ schedEvent' = FALSE
  /\ advisor' = [advisor EXCEPT !.pc = "awake", !.now = private]
  /\ slack' = 0
  /\ UNCHANGED <<sched, count, lastCookie, private, signals, cancelled>>

HeadIsDue == sched # <<>> /\ Head(sched).time <= advisor.now + Millisecond

\* Behind every packet that is not later.
ShuntsTo(s, time, at) ==
  /\ \A i \in 1..(at - 1) : s[i].time <= time
  /\ at <= Len(s) => s[at].time > time

ShuntHead ==
  LET time == Head(sched).time + Head(sched).period IN
  \E at \in 1..Len(sched) :
    /\ ShuntsTo(Tail(sched), time, at)
    /\ sched' = InsertAt(Tail(sched), at, [Head(sched) EXCEPT !.time = time])

\* ... signals all that is due within a millisecond, a periodic advise once for
\* every period, one turn of the loop of Advise at a time,
SignalHead ==
  /\ advisor.pc # "sleeping" /\ HeadIsDue
  /\ signals' = [signals EXCEPT ![Head(sched).cookie] = @ + 1]
  /\ \/ Head(sched).period > 0 /\ ShuntHead /\ UNCHANGED count
     \/ Head(sched).period = 0 /\ sched' = Tail(sched) /\ count' = count - 1
  /\ advisor' = [advisor EXCEPT !.pc = "signalling"]
  /\ UNCHANGED <<lastCookie, schedEvent, private, cancelled, slack>>

\* ... and sleeps until the next is.  It runs at time-critical priority: the
\* steps take no time.
AdvisorSleeps ==
  /\ advisor.pc # "sleeping" /\ ~HeadIsDue
  /\ LET ms == (Head(sched).time - advisor.now) \div Millisecond
     IN  advisor' = [pc |-> "sleeping", now |-> 0,
                     wake |-> IF sched = <<>> THEN Never ELSE ms * Millisecond]
  /\ UNCHANGED <<sched, count, lastCookie, schedEvent, private, signals,
                 cancelled, slack>>

\* A correction of more than half a millisecond wakes the thread, if the count
\* of advises, which is read without the lock, says that there are any.
SetTimeDelta ==
  \E d \in Deltas :
    /\ private + d \in 0..MaxTime
    /\ private' = private + d
    /\ schedEvent' = (schedEvent \/ (d > 1 /\ count > 0))
    /\ slack' = IF d = 1 THEN slack + 1 ELSE slack
    /\ slack' <= MaxSlack
    /\ UNCHANGED <<sched, count, lastCookie, advisor, signals, cancelled>>

\* GetPrivateTime adds what the system's time has advanced.  A thread that is
\* due to wake does, before the time goes on.
Tick ==
  /\ private < MaxTime
  /\ advisor.pc = "sleeping" /\ ~schedEvent /\ advisor.wake # 0
  /\ private' = private + 1
  /\ advisor' = [advisor EXCEPT !.wake = IF @ = Never THEN @ ELSE @ - 1]
  /\ UNCHANGED <<sched, count, lastCookie, schedEvent, signals, cancelled, slack>>

ClockNext ==
  \/ AdviseTime \/ AdvisePeriodic \/ Unadvise \/ SetTimeDelta
  \/ AdvisorWakes \/ SignalHead \/ AdvisorSleeps \/ Tick

ClockSpec == ClockInit /\ [][ClockNext]_cvars

-----------------------------------------------------------------------------
\* The thread never sleeps past the first advise: it will be woken by the
\* event, or by a timer that ends when the advise is due, late by no more than
\* the corrections that were too small to wake it (AddAdvisePacket, Unadvise
\* and SetTimeDelta against the sleep of AdviseThread).
NoAdviseOverslept ==
  advisor.pc = "sleeping" /\ ~schedEvent /\ sched # <<>> =>
    /\ advisor.wake # Never
    /\ advisor.wake <= (Head(sched).time - private) + slack

\* Every advise is accounted for: a one-shot one is signalled exactly once or
\* still in the list or cancelled, a periodic one has been signalled once for
\* every period behind it, and the list is in the order of time.
AdvisesAccounted ==
  /\ count = Len(sched)
  /\ \A i \in 1..(Len(sched) - 1) : sched[i].time <= sched[i + 1].time
  /\ \A i \in DOMAIN sched :
       LET p == sched[i] IN p.time = p.start + signals[p.cookie] * p.period
  /\ \A c \in 1..lastCookie :
       LET listed == {i \in DOMAIN sched : sched[i].cookie = c} IN
       IF listed # {} THEN \A i \in listed : sched[i].period = 0 => signals[c] = 0
       ELSE c \in cancelled \/ signals[c] = 1

\* CAMSchedule and its thread lose no advise and are late for none.
AdvisesKept == AdvisesAccounted /\ NoAdviseOverslept
=============================================================================
