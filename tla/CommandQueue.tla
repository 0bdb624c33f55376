---------------------------- MODULE CommandQueue ----------------------------
(***************************************************************************)
(* CCmdQueue and CDeferredCommand (ctlutil.cpp): commands that a filter    *)
(* carries out at a time of presentation or of the stream.                 *)
(*                                                                         *)
(* Actors: the application, which queues, cancels and postpones commands;  *)
(* the filter, which is run, stopped and given clocks; the worker thread,  *)
(* which takes due commands and invokes them; the clock (external), which  *)
(* sets m_evDue once for every advise.  A method that holds m_Lock is one  *)
(* step.  CDeferredCommand has no lock of its own: where two calls on one  *)
(* command meet, or a command is used that has been freed, m_pQueue may be *)
(* read as NULL after it was tested, and Postpone does not test it; the    *)
(* clash is recorded and what would follow it is not looked at.            *)
(***************************************************************************)
EXTENDS Integers, Sequences, FiniteSets, SequencesExt

CONSTANTS Commands,
          Clocks,       \* the reference clocks the graph may choose; all show the same time
          CommandTimes,        \* bound: the times of commands
          MaxTime,      \* bound: of the clock
          Offset        \* the stream time offset of every Run

NoTime == 0
NoClock == "none"
Nobody == "nobody"

ASSUME CommandBounds ==
    /\ Nobody \notin Commands /\ NoClock \notin Clocks
    /\ CommandTimes \subseteq Nat \ {NoTime} /\ Offset \in Nat /\ MaxTime \in Nat

VARIABLES now,       \* the clocks' time
          cmd,       \* the deferred commands: m_time, m_bStream, m_pQueue # NULL, reference count, the application's
                     \* reference and call in progress
          lists,     \* m_listPresentation and m_listStream
          queue,     \* m_pClock, m_bRunning, m_evDue, m_dwAdvise, m_tCurrentAdvise
          invoker,   \* what the worker thread does, with which command, whether it was given a reference on it and, history,
                     \* whether it was asked for ahead of its time or postponed since
          ran        \* history: how often each command was carried out, whether one was early, whether SetSyncSource
                     \* found a clock set, whether there was a clash

qvars == <<now, cmd, lists, queue, invoker, ran>>

Idle == [at |-> "idle", cmd |-> Nobody, counted |-> FALSE, ahead |-> FALSE]
NoAdvise == [clock |-> NoClock, time |-> NoTime, armed |-> FALSE]

QueueInit ==
    /\ now = 1
    /\ cmd = [c \in Commands |-> [time |-> NoTime, stream |-> FALSE, queued |-> FALSE, refs |-> 0, app |-> "none"]]
    /\ lists = [presentation |-> <<>>, stream |-> <<>>]
    /\ queue = [clock |-> NoClock, running |-> FALSE, due |-> FALSE, advise |-> NoAdvise, current |-> NoTime]
    /\ invoker = Idle
    /\ ran = [times |-> [c \in Commands |-> 0], early |-> FALSE, rewired |-> FALSE, clash |-> FALSE]

ListOf(c) == IF cmd[c].stream THEN "stream" ELSE "presentation"

-----------------------------------------------------------------------------
(* The advise follows the lists.                                           *)

\* Presentation times of the heads of the lists that count.
Heads(q, l, k) ==
    {k[l.presentation[i]].time : i \in {1} \cap DOMAIN l.presentation} \cup
    {k[l.stream[i]].time + Offset : i \in {j \in {1} \cap DOMAIN l.stream : q.running}}

\* Mutant: an advise that is still to fire is kept.
SetTimeAdviseOnce(q, l, k) ==
    LET heads == Heads(q, l, k)
        earliest == CHOOSE t \in heads : \A u \in heads : t <= u
    IN  IF q.clock = NoClock \/ heads = {} \/ q.advise.armed THEN q
        ELSE [q EXCEPT !.due = FALSE, !.current = earliest,
                       !.advise = [clock |-> q.clock, time |-> earliest, armed |-> TRUE]]

\* The event is reset whenever there is a clock; a new advise is asked for only when the earliest time is another one
\* than last time.
SetTimeAdvise(q, l, k) ==
    LET heads == Heads(q, l, k)
        earliest == CHOOSE t \in heads : \A u \in heads : t <= u
    IN  IF q.clock = NoClock THEN q
        ELSE IF heads = {} \/ earliest = q.current THEN [q EXCEPT !.due = FALSE]
        ELSE [q EXCEPT !.due = FALSE, !.current = earliest,
                       !.advise = [clock |-> q.clock, time |-> earliest, armed |-> TRUE]]

\* External: the clock signals an advise once, at its time or as soon as it is late; a thread in the wait is released.
ClockSignals ==
    /\ queue.advise.armed /\ queue.advise.time <= now
    /\ queue' = [queue EXCEPT !.due = TRUE, !.advise.armed = FALSE]
    /\ invoker' = IF invoker.at = "blocked" THEN [invoker EXCEPT !.at = "looking"] ELSE invoker
    /\ UNCHANGED <<now, cmd, lists, ran>>

Tick == now < MaxTime /\ now' = now + 1 /\ UNCHANGED <<cmd, lists, queue, invoker, ran>>

-----------------------------------------------------------------------------
(* The lists.  The queue holds a reference on what is in them.             *)

\* In front of the first command that comes later, or at the end.
InsertCommand(c, k) ==
    LET name == IF k[c].stream THEN "stream" ELSE "presentation"
        Comes(i) == k[lists[name][i]].time
    IN  \E at \in 1..(Len(lists[name]) + 1) :
            /\ \A i \in 1..(at - 1) : Comes(i) <= k[c].time
            /\ at <= Len(lists[name]) => Comes(at) > k[c].time
            /\ cmd' = k
            /\ lists' = [lists EXCEPT ![name] = InsertAt(@, at, c)]
            /\ queue' = SetTimeAdvise(queue, lists', k)

\* VFW_E_NOT_FOUND leaves everything as it is.
RemoveCommand(c, k) ==
    LET list == lists[ListOf(c)]
    IN  IF \A i \in DOMAIN list : list[i] # c
        THEN cmd' = k /\ UNCHANGED <<lists, queue>>
        ELSE \E at \in DOMAIN list :
             /\ list[at] = c /\ \A i \in 1..(at - 1) : list[i] # c
             /\ cmd' = [k EXCEPT ![c].refs = @ - 1]
             /\ lists' = [lists EXCEPT ![ListOf(c)] = RemoveAt(@, at)]
             /\ queue' = SetTimeAdvise(queue, lists', k)

-----------------------------------------------------------------------------
(* The application.  New returns a command that only the list holds: the   *)
(* caller's reference is added when m_Lock has been let go.                *)

Clash ==
    /\ ran' = [ran EXCEPT !.clash = TRUE]
    /\ UNCHANGED <<now, cmd, lists, queue, invoker>>

InInvoke(c) == invoker.cmd = c /\ invoker.at = "invoked"

New(c) ==
    \E t \in CommandTimes, s \in BOOLEAN :
        /\ cmd[c].refs = 0 /\ ~cmd[c].queued /\ cmd[c].time = NoTime
        /\ InsertCommand(c, [cmd EXCEPT ![c] = [time |-> t, stream |-> s, queued |-> TRUE, refs |-> 1, app |-> "new"]])
        /\ UNCHANGED <<now, invoker, ran>>

\* External: the caller of New; the worker may have carried the command out and released the last reference.
AddRefNew(c) ==
    /\ cmd[c].app = "new"
    /\ IF cmd[c].refs = 0 THEN Clash
       ELSE /\ cmd' = [cmd EXCEPT ![c].app = "holds", ![c].refs = @ + 1]
            /\ UNCHANGED <<now, lists, queue, invoker, ran>>

Cancel(c) ==
    /\ cmd[c].app = "holds" /\ cmd[c].queued
    /\ IF InInvoke(c) THEN Clash
       ELSE /\ RemoveCommand(c, [cmd EXCEPT ![c].queued = FALSE])
            /\ UNCHANGED <<now, invoker, ran>>

CheckTime(t, stream) ==
    queue.clock # NoClock /\ (stream => queue.running) /\ (IF stream THEN t + Offset ELSE t) <= now

\* m_pQueue is not tested.  A time that has not passed; off the list, given its new time and inserted again: the lock is dropped in between.
Postpone(c) ==
    /\ cmd[c].app = "holds"
    /\ IF InInvoke(c) \/ ~cmd[c].queued THEN Clash
       ELSE /\ \E t \in CommandTimes : /\ ~CheckTime(t, cmd[c].stream)
                                       /\ RemoveCommand(c, [cmd EXCEPT ![c].app = "postponing", ![c].time = t])
            /\ invoker' = IF invoker.cmd = c THEN [invoker EXCEPT !.ahead = TRUE] ELSE invoker
            /\ UNCHANGED <<now, ran>>

Requeue(c) ==
    /\ cmd[c].app = "postponing"
    /\ InsertCommand(c, [cmd EXCEPT ![c].app = "holds", ![c].refs = @ + 1])
    /\ UNCHANGED <<now, invoker, ran>>

ReleaseCommand(c) ==
    /\ cmd[c].app = "holds"
    /\ cmd' = [cmd EXCEPT ![c].app = "none", ![c].refs = @ - 1]
    /\ UNCHANGED <<now, lists, queue, invoker, ran>>

-----------------------------------------------------------------------------
(* The filter.                                                             *)

\* The old clock's advise is killed, if it is the same clock again too; m_tCurrentAdvise is kept.
SetSyncSource(clock) ==
    /\ queue' = SetTimeAdvise([queue EXCEPT !.clock = clock, !.advise = NoAdvise], lists, cmd)
    /\ ran' = [ran EXCEPT !.rewired = @ \/ queue.clock # NoClock]
    /\ UNCHANGED <<now, cmd, lists, invoker>>

RunQueue ==
    /\ ~queue.running
    /\ queue' = SetTimeAdvise([queue EXCEPT !.running = TRUE], lists, cmd)
    /\ UNCHANGED <<now, cmd, lists, invoker, ran>>

EndRun ==
    /\ queue.running
    /\ queue' = SetTimeAdvise([queue EXCEPT !.running = FALSE], lists, cmd)
    /\ UNCHANGED <<now, cmd, lists, invoker, ran>>

-----------------------------------------------------------------------------
(* The worker thread.                                                      *)

PresentationHead == {lists.presentation[i] : i \in {1} \cap DOMAIN lists.presentation}
StreamHead == {lists.stream[i] : i \in {1} \cap DOMAIN lists.stream}

\* The command GetDueCommand looks at: a stream command only while running, and only when it is earlier.
Earliest ==
    IF queue.running
    THEN {c \in PresentationHead : \A s \in StreamHead : cmd[c].time <= cmd[s].time + Offset} \cup
         {s \in StreamHead : \A c \in PresentationHead : cmd[s].time + Offset < cmd[c].time}
    ELSE PresentationHead

Take(c, counted, ahead) ==
    /\ invoker' = [at |-> "got", cmd |-> c, counted |-> counted, ahead |-> ahead]
    /\ cmd' = IF counted THEN [cmd EXCEPT ![c].refs = @ + 1] ELSE cmd

GetDueCommand ==
    /\ invoker.at \in {"looking", "idle"}
    /\ LET due == {c \in Earliest : CheckTime(cmd[c].time, cmd[c].stream)}
       IN  \/ \E c \in due : Take(c, TRUE, FALSE)
           \/ due = {} /\ invoker' = [invoker EXCEPT !.at = "unlocked"] /\ UNCHANGED cmd
    /\ UNCHANGED <<now, lists, queue, ran>>

\* The lock is dropped before the wait; the time-out of the wait gives E_ABORT.
WaitForDue ==
    /\ invoker.at \in {"unlocked", "blocked"}
    /\ invoker' = [invoker EXCEPT !.at = IF queue.due THEN "looking" ELSE IF invoker.at = "unlocked" THEN "blocked" ELSE "idle"]
    /\ UNCHANGED <<now, cmd, lists, queue, ran>>

\* A presentation command that is due; a stream command before this stream time; a presentation command before this
\* stream time is presented, which is returned without a reference.
GetCommandDueFor(rtStream) ==
    LET past == {c \in PresentationHead : CheckTime(cmd[c].time, FALSE)}
        streamed == {s \in StreamHead : cmd[s].time <= rtStream}
        coming == {c \in PresentationHead : queue.running /\ cmd[c].time <= rtStream + Offset}
    IN  /\ invoker.at = "idle"
        /\ \/ \E c \in past : Take(c, TRUE, FALSE)
           \/ past = {} /\ \E s \in streamed : Take(s, TRUE, TRUE)
           \/ past = {} /\ streamed = {} /\ \E c \in coming : Take(c, FALSE, TRUE)
        /\ UNCHANGED <<now, lists, queue, ran>>

\* Invoke: nothing is done with a command that has been cancelled.
Invoke ==
    LET c == invoker.cmd
        t == cmd[c].time + (IF cmd[c].stream THEN Offset ELSE 0)
    IN  /\ invoker.at = "got"
        /\ IF cmd[c].app = "postponing" \/ cmd[c].refs = 0 THEN Clash
           ELSE /\ IF cmd[c].queued
                   THEN /\ invoker' = [invoker EXCEPT !.at = "invoked"]
                        /\ ran' = [ran EXCEPT !.times[c] = @ + 1, !.early = @ \/ (t > now /\ ~invoker.ahead)]
                   ELSE invoker' = [invoker EXCEPT !.at = "release"] /\ UNCHANGED ran
                /\ UNCHANGED <<now, cmd, lists, queue>>

\* Taken off the list, "whether or not successful".
Invoked ==
    /\ invoker.at = "invoked"
    /\ RemoveCommand(invoker.cmd, [cmd EXCEPT ![invoker.cmd].queued = FALSE])
    /\ invoker' = [invoker EXCEPT !.at = "release"]
    /\ UNCHANGED <<now, ran>>

WorkerReleases ==
    /\ invoker.at = "release"
    /\ cmd' = [cmd EXCEPT ![invoker.cmd].refs = IF invoker.counted THEN @ - 1 ELSE @]
    /\ invoker' = Idle
    /\ UNCHANGED <<now, lists, queue, ran>>

QueueNext ==
    /\ ~ran.clash
    /\ \/ \E c \in Commands : \/ New(c) \/ AddRefNew(c) \/ Cancel(c)
                              \/ Postpone(c) \/ Requeue(c) \/ ReleaseCommand(c)
       \/ \E k \in Clocks \cup {NoClock} : SetSyncSource(k)
       \/ RunQueue \/ EndRun \/ GetDueCommand \/ WaitForDue \/ Invoke \/ Invoked \/ WorkerReleases
       \/ \E t \in CommandTimes : GetCommandDueFor(t)
       \/ ClockSignals \/ Tick

QueueSpec == QueueInit /\ [][QueueNext]_qvars

-----------------------------------------------------------------------------
(* Properties.                                                             *)

\* Commands of one list are carried out in the order of their times whatever was cancelled or postponed meanwhile, none
\* before its time but those asked for ahead of it or postponed when already taken, none twice, none that is still to
\* come after it was cancelled, and Invoke finds m_pQueue set when it comes to take the command off its list.
CarriedOutOnce ==
    /\ \A l \in DOMAIN lists : \A i, j \in DOMAIN lists[l] :
           i < j => lists[l][i] # lists[l][j] /\ cmd[lists[l][i]].time <= cmd[lists[l][j]].time
    /\ \A c \in Commands : ran.times[c] <= 1
    /\ \A c \in Commands : c \in Range(lists[ListOf(c)]) <=> cmd[c].queued /\ cmd[c].app # "postponing"
    /\ invoker.at = "invoked" => cmd[invoker.cmd].queued
    /\ ~ran.early

\* Every pointer to a command is counted: in a list, in the application, in the worker - but the one that New returned,
\* until its caller has added its reference, and one that GetCommandDueFor returned for the sake of a time to come,
\* where a caller that keeps to "returns an AddRef'd object" gives back a reference it was not given; the worker here
\* does not.
CommandsCounted ==
    \A c \in Commands :
        cmd[c].refs = Cardinality({l \in DOMAIN lists : c \in Range(lists[l])})
                      + (IF cmd[c].app \in {"holds", "postponing"} THEN 1 ELSE 0)
                      + (IF invoker.cmd = c /\ invoker.counted THEN 1 ELSE 0)

\* Until SetSyncSource takes a clock away, if only to set it again, commands that are all still to come have an advise
\* that fires no later than the first.  It is not so of a command that is overdue: m_evDue is reset with every change of
\* the lists and the time that has been advised is not advised again.
ComingIsAdvised ==
    LET heads == Heads(queue, lists, cmd)
    IN  queue.clock # NoClock /\ ~ran.rewired /\ (\A t \in heads : t > now) =>
            \A t \in heads : queue.due \/ (queue.advise.armed /\ queue.advise.time <= t)

\* CCmdQueue and CDeferredCommand, until two calls on one command meet or a freed one is used: a command is carried out
\* once, its references are those that are held, and it is not carried out before its time unasked.
CommandsSafe == ~ran.clash => CarriedOutOnce /\ CommandsCounted /\ ComingIsAdvised
=============================================================================
