---------------------------- MODULE SourceStream ----------------------------
(***************************************************************************)
(* CSource and CSourceStream (source.cpp): a source filter each of whose   *)
(* pins has a worker thread that fills buffers and delivers them, driven   *)
(* by commands (CAMThread, wxutil.cpp) that the thread which starts and    *)
(* stops the filter sends and waits for, holding the filter's state lock.  *)
(***************************************************************************)
EXTENDS Integers, FiniteSets

CONSTANTS PinCount,      \* bound: output pins
          PinBuffers     \* bound: buffers of each pin's allocator

ASSUME SourceBounds == PinCount \in Nat \ {0} /\ PinBuffers \in Nat

SrcPins == 1..PinCount

VARIABLES filter,        \* m_State and whether a Pause has failed
          control,       \* the controlling thread: where it is and at which pin
          pin,           \* per pin: thread handle, allocator committed, buffers with the receiver, worker's place
          request        \* per pin, CAMThread: m_EventSend, m_dwParam, m_EventComplete and the reply

srcvars == <<filter, control, pin, request>>

SourceInit ==
    /\ filter = [state |-> "stopped", failed |-> FALSE]
    /\ control = [at |-> "idle", pin |-> 1]
    /\ pin = [p \in SrcPins |-> [handle |-> FALSE, committed |-> FALSE, out |-> 0, worker |-> "dead"]]
    /\ request = [p \in SrcPins |-> [send |-> FALSE, param |-> "none", complete |-> FALSE, ok |-> TRUE]]

ThreadExists(p) == pin[p].handle

\* CallWorker sets the parameter and the event and waits for the answer.
CallWorker(p, cmd) ==
    /\ request' = [request EXCEPT ![p].send = TRUE, ![p].param = cmd]
    /\ control' = [at |-> cmd, pin |-> p]

Waiting(cmd) == control.at = cmd /\ request[control.pin].complete

Answered(p) == request' = [request EXCEPT ![p].complete = FALSE]

-----------------------------------------------------------------------------
(* Pause and Stop of the filter, pin by pin.                               *)

Pause ==
    /\ control.at = "idle"
    /\ IF filter.state = "stopped"
       THEN control' = [at |-> "activate", pin |-> 1] /\ UNCHANGED filter
       ELSE filter' = [filter EXCEPT !.state = "paused"] /\ UNCHANGED control
    /\ UNCHANGED <<pin, request>>

\* What Active did before it failed is left as it is: the base filter's Pause returns the error with the state still
\* stopped, so that Stop does nothing, until a Pause succeeds.
PauseFailed ==
    /\ filter' = [filter EXCEPT !.failed = TRUE]
    /\ control' = [at |-> "idle", pin |-> 1]

\* Active: commit, then Create, which fails when there is a thread already, then Init.
StreamActive ==
    LET p == control.pin IN
    /\ control.at = "activate"
    /\ \/ /\ ~ThreadExists(p)
          /\ pin' = [pin EXCEPT ![p].committed = TRUE, ![p].handle = TRUE, ![p].worker = "boot"]
          /\ CallWorker(p, "init")
          /\ UNCHANGED filter
       \/ /\ pin' = [pin EXCEPT ![p].committed = TRUE]
          /\ PauseFailed
          /\ UNCHANGED request

InitReplied ==
    /\ Waiting("init")
    /\ IF request[control.pin].ok
       THEN /\ request' = [request EXCEPT ![control.pin].complete = FALSE, ![control.pin].send = TRUE,
                                          ![control.pin].param = "pause"]
            /\ control' = [control EXCEPT !.at = "pause"]
            /\ UNCHANGED filter
       ELSE Answered(control.pin) /\ PauseFailed
    /\ UNCHANGED pin

PauseReplied ==
    /\ Waiting("pause")
    /\ Answered(control.pin)
    /\ IF control.pin < PinCount
       THEN control' = [at |-> "activate", pin |-> control.pin + 1] /\ UNCHANGED filter
       ELSE control' = [at |-> "idle", pin |-> 1] /\ filter' = [filter EXCEPT !.state = "paused"]
    /\ UNCHANGED pin

\* A filter may send CMD_RUN to its streams when it runs.
RunPin(p) ==
    /\ control.at = "idle" /\ filter.state = "paused" /\ ThreadExists(p)
    /\ CallWorker(p, "run")
    /\ UNCHANGED <<filter, pin>>

RunReplied ==
    /\ Waiting("run")
    /\ Answered(control.pin)
    /\ control' = [at |-> "idle", pin |-> 1]
    /\ UNCHANGED <<filter, pin>>

\* Does nothing when the filter is stopped, whatever its pins are doing.
Stop ==
    /\ control.at = "idle" /\ filter.state # "stopped"
    /\ control' = [at |-> "inactivate", pin |-> 1]
    /\ UNCHANGED <<filter, pin, request>>

\* Mutant: the worker is called with the allocator still committed.
StreamInactiveCallsFirst ==
    /\ control.at = "inactivate"
    /\ CallWorker(control.pin, "stop")
    /\ UNCHANGED <<filter, pin>>

\* Inactive: decommit first, so that a worker waiting for a buffer wakes up; then Stop, Exit, Close.
StreamInactive ==
    /\ control.at = "inactivate"
    /\ pin' = [pin EXCEPT ![control.pin].committed = FALSE]
    /\ CallWorker(control.pin, "stop")
    /\ UNCHANGED filter

StopReplied ==
    /\ Waiting("stop")
    /\ request' = [request EXCEPT ![control.pin].complete = FALSE, ![control.pin].send = TRUE,
                                  ![control.pin].param = "exit"]
    /\ control' = [control EXCEPT !.at = "exit"]
    /\ UNCHANGED <<filter, pin>>

ExitReplied ==
    /\ Waiting("exit")
    /\ Answered(control.pin)
    /\ control' = [control EXCEPT !.at = "close"]
    /\ UNCHANGED <<filter, pin>>

Close ==
    /\ control.at = "close" /\ pin[control.pin].worker = "dead"
    /\ pin' = [pin EXCEPT ![control.pin].handle = FALSE]
    /\ IF control.pin < PinCount
       THEN control' = [at |-> "inactivate", pin |-> control.pin + 1] /\ UNCHANGED filter
       ELSE control' = [at |-> "idle", pin |-> 1] /\ filter' = [filter EXCEPT !.state = "stopped"]
    /\ UNCHANGED request

-----------------------------------------------------------------------------
(* The worker of pin p.                                                    *)

Goes(p, where) == pin' = [pin EXCEPT ![p].worker = where]

Reply(p, ok) == request' = [request EXCEPT ![p].send = FALSE, ![p].complete = TRUE, ![p].ok = ok]

\* OnThreadCreate may fail: the thread answers and ends.
Initialises(p) ==
    /\ pin[p].worker = "boot" /\ request[p].send
    /\ \/ Reply(p, TRUE) /\ Goes(p, "wait")
       \/ Reply(p, FALSE) /\ Goes(p, "dead")
    /\ UNCHANGED <<filter, control>>

Commanded(p) ==
    /\ pin[p].worker = "wait" /\ request[p].send
    /\ Reply(p, TRUE)
    /\ Goes(p, CASE request[p].param = "exit" -> "dead"
                 [] request[p].param = "stop" -> "wait"
                 [] OTHER -> "loop")
    /\ UNCHANGED <<filter, control>>

\* The loop leaves CMD_STOP pending: ThreadProc reads it again and answers.
ChecksRequest(p) ==
    /\ pin[p].worker = "loop"
    /\ IF request[p].send /\ request[p].param # "stop" THEN Reply(p, TRUE) ELSE UNCHANGED request
    /\ Goes(p, IF ~request[p].send THEN "buffer" ELSE IF request[p].param = "stop" THEN "wait" ELSE "loop")
    /\ UNCHANGED <<filter, control>>

GetDeliveryBuffer(p) ==
    /\ pin[p].worker = "buffer"
    /\ pin[p].committed => pin[p].out < PinBuffers
    /\ pin' = [pin EXCEPT ![p].worker = IF pin[p].committed THEN "fill" ELSE "loop",
                          ![p].out = IF pin[p].committed THEN @ + 1 ELSE @]
    /\ UNCHANGED <<filter, control, request>>

\* End of the data or an error: the buffer is given back, the end of the stream delivered, and the loop is left.
FillBuffer(p) ==
    /\ pin[p].worker = "fill"
    /\ pin' \in {[pin EXCEPT ![p].worker = "deliver"], [pin EXCEPT ![p].worker = "wait", ![p].out = @ - 1]}
    /\ UNCHANGED <<filter, control, request>>

\* The receiver keeps the sample or has already released it; one that does not return S_OK ends the loop.
Deliver(p) ==
    /\ pin[p].worker = "deliver"
    /\ \E kept \in 0..1, next \in {"loop", "wait"} :
          pin' = [pin EXCEPT ![p].worker = next, ![p].out = @ - 1 + kept]
    /\ UNCHANGED <<filter, control, request>>

\* External: the receiver releases a sample it has kept.
ReceiverReleases(p) ==
    /\ pin[p].out > (IF pin[p].worker \in {"fill", "deliver"} THEN 1 ELSE 0)
    /\ pin' = [pin EXCEPT ![p].out = @ - 1]
    /\ UNCHANGED <<filter, control, request>>

SourceNext ==
    \/ Pause \/ StreamActive \/ InitReplied \/ PauseReplied \/ RunReplied
    \/ Stop \/ StreamInactive \/ StopReplied \/ ExitReplied \/ Close
    \/ \E p \in SrcPins : \/ RunPin(p) \/ Initialises(p) \/ Commanded(p) \/ ChecksRequest(p) \/ GetDeliveryBuffer(p)
                          \/ FillBuffer(p) \/ Deliver(p) \/ ReceiverReleases(p)

SourceSpec == SourceInit /\ [][SourceNext]_srcvars

-----------------------------------------------------------------------------
(* Properties.                                                             *)

\* A stopped filter has no worker and no committed allocator: nothing is delivered after Stop has returned.  A Pause
\* that failed is the exception.
SourceQuiet ==
    control.at = "idle" /\ filter.state = "stopped" /\ ~filter.failed =>
        \A p \in SrcPins : pin[p].worker = "dead" /\ ~ThreadExists(p) /\ ~pin[p].committed

\* A call to a worker is answered once, by a worker that is alive to answer it, and an answer never outlives its call:
\* the next call would take it for its own.
CallsAnsweredOnce ==
    \A p \in SrcPins :
        /\ request[p].complete => control.pin = p /\ control.at = request[p].param
        /\ request[p].send => pin[p].worker # "dead" /\ control.pin = p /\ control.at = request[p].param

\* The thread that stops the filter never waits for a worker that waits for a buffer: only the receiver could end that.
WorkerNotHeld ==
    control.at = "stop" => (pin[control.pin].worker = "buffer" => ~pin[control.pin].committed)

\* CSourceStream: Stop ends the worker and its session, whatever the worker was doing and whichever pins had started.
SourceSafe == SourceQuiet /\ CallsAnsweredOnce /\ WorkerNotHeld
=============================================================================
