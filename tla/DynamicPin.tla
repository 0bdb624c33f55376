----------------------------- MODULE DynamicPin -----------------------------
(***************************************************************************)
(* CDynamicOutputPin (amfilter.cpp): an output pin that the application    *)
(* blocks (IPinFlowControl::Block) to reconnect it while the graph runs.   *)
(*                                                                         *)
(* Every method that holds m_BlockStateLock is one step; the waits, for    *)
(* which the lock is dropped, separate steps.  Actors: the streaming       *)
(* thread, which brackets its use of the pin with StartUsingOutputPin and  *)
(* StopUsingOutputPin (the brackets nest), the application threads         *)
(* Callers, and the thread that starts, stops and flushes the filter.      *)
(* Any thread may unblock what another one blocked, or cancel a block that *)
(* is pending: the code does not check, and the thread whose Block was     *)
(* cancelled is told what it would be told of a blocked pin.               *)
(***************************************************************************)
EXTENDS Integers

CONSTANTS Callers,    \* application threads
          MaxDepth    \* bound: nesting of StartUsingOutputPin

NoCaller == "none"

\* A thread id of 0 and a null handle name no thread.
ASSUME CallersAssumption == NoCaller \notin Callers
VARIABLES block,      \* m_BlockState, caller thread id, notify handle, user count, the two manual-reset events
          caller,     \* what each application thread is doing, and its notification event
          robbed,     \* history: the application threads whose block another thread took away
          streamer,   \* the streaming thread: "out", "waiting", "woken", "using", "refused", "done" or a step of ChangeMediaType
          link        \* m_Connected, allocator committed, filter active

dvars == <<block, caller, robbed, streamer, link>>

DynInit ==
    /\ block = [state |-> "not_blocked", owner |-> NoCaller, notify |-> NoCaller, users |-> 0,
                unblock |-> TRUE, stop |-> FALSE]
    /\ caller = [c \in Callers |-> [at |-> "idle", event |-> FALSE]]
    /\ robbed = {}
    /\ streamer = "out"
    /\ link = [connected |-> TRUE, committed |-> FALSE, active |-> FALSE]

StreamingThreadUsingOutputPin == block.users > 0

\* ResetEvent(m_hUnblockOutputPinEvent), SetEvent on the caller's handle, BLOCKED.
Blocked(b) == [b EXCEPT !.unblock = FALSE, !.state = "blocked", !.notify = NoCaller]
Notified(c) == IF c = NoCaller THEN caller ELSE [caller EXCEPT ![c].event = TRUE]

-----------------------------------------------------------------------------
(* The application.                                                        *)

AsynchronousBlockOutputPin(c, next) ==
    LET pending == [block EXCEPT !.state = "pending", !.owner = c, !.notify = c]
        started == [caller EXCEPT ![c] = [at |-> next, event |-> ~StreamingThreadUsingOutputPin]]
    IN  /\ caller[c].at = "idle"
        /\ block.state = "not_blocked"
        /\ block' = IF StreamingThreadUsingOutputPin THEN pending ELSE Blocked(pending)
        /\ caller' = started
        /\ UNCHANGED <<robbed, streamer, link>>

\* Block with an event of the caller's returns at once; without, it waits for one of its own.
Block(c) == \E next \in {"async", "sync"} : AsynchronousBlockOutputPin(c, next)

BlockReturns(c) ==
    /\ caller[c].at \in {"sync", "async"} /\ caller[c].event
    /\ caller' = [caller EXCEPT ![c] = [at |-> "owns", event |-> FALSE]]
    /\ UNCHANGED <<block, robbed, streamer, link>>

Opened(b) == [b EXCEPT !.unblock = TRUE, !.state = "not_blocked", !.owner = NoCaller, !.notify = NoCaller]

\* Mutant: the pending block is cancelled without telling its caller.
UnblockSilently(c) ==
    /\ caller[c].at \in {"idle", "owns", "async"}
    /\ block' = IF block.state = "not_blocked" THEN block ELSE Opened(block)
    /\ caller' = [caller EXCEPT ![c] = [at |-> "idle", event |-> FALSE]]
    /\ robbed' = (robbed \cup ({block.owner} \cap Callers)) \ {c}
    /\ UNCHANGED <<streamer, link>>

\* Any thread that is not inside Block or the graph; also cancels a pending block.  S_FALSE if there is none.
UnblockOutputPin(c) ==
    /\ caller[c].at \in {"idle", "owns", "async"}
    /\ block' = IF block.state = "not_blocked" THEN block ELSE Opened(block)
    /\ caller' = [Notified(block.notify) EXCEPT ![c] = [at |-> "idle", event |-> FALSE]]
    /\ robbed' = (robbed \cup ({block.owner} \cap Callers)) \ {c}
    /\ UNCHANGED <<streamer, link>>

Reconnecting == \E c \in Callers : caller[c].at = "reconnecting"

\* What the pin is blocked for: the graph disconnects it and connects it to another filter, one at a time.
Disconnect(c) ==
    /\ caller[c].at = "owns" /\ ~Reconnecting /\ streamer # "reconnect"
    /\ link' = [link EXCEPT !.connected = FALSE, !.committed = FALSE]
    /\ caller' = [caller EXCEPT ![c].at = "reconnecting"]
    /\ UNCHANGED <<block, robbed, streamer>>

CompleteConnect(c) ==
    /\ caller[c].at = "reconnecting"
    /\ link' = [link EXCEPT !.connected = TRUE, !.committed = link.active]
    /\ caller' = [caller EXCEPT ![c].at = "owns"]
    /\ UNCHANGED <<block, robbed, streamer>>

-----------------------------------------------------------------------------
(* The streaming thread.                                                   *)

Admit == IF block.state = "blocked"
         THEN streamer' = "waiting" /\ UNCHANGED block
         ELSE streamer' = "using" /\ block' = [block EXCEPT !.users = @ + 1]

StartUsingOutputPin ==
    /\ streamer \in {"out", "woken"} \/ (streamer = "using" /\ block.users < MaxDepth)
    /\ Admit
    /\ UNCHANGED <<caller, robbed, link>>

\* WaitForMultipleObjects: the unblock event wins over the stop event.
Woken ==
    /\ streamer = "waiting" /\ (block.unblock \/ block.stop)
    /\ streamer' = IF block.unblock THEN "woken" ELSE "out"
    /\ UNCHANGED <<block, caller, robbed, link>>

StopUsingOutputPin ==
    LET left == [block EXCEPT !.users = @ - 1]
        hold == left.users = 0 /\ left.state # "not_blocked"
    IN  /\ streamer \in {"using", "refused"}
        /\ block' = IF hold THEN Blocked(left) ELSE left
        /\ caller' = IF hold THEN Notified(block.notify) ELSE caller
        /\ streamer' = IF left.users > 0 THEN streamer ELSE IF streamer = "refused" THEN "done" ELSE "out"
        /\ UNCHANGED <<robbed, link>>

\* The other pin accepts the new type, both ends take it and the allocator is given new buffers:
\* any of the calls may fail, which leaves the rest undone and makes the thread give up.
ChangeMediaType ==
    /\ \/ streamer = "using" /\ link.active /\ UNCHANGED link
          /\ streamer' \in IF link.connected THEN {"decommit", "refused"} ELSE {"refused"}
       \/ streamer = "decommit" /\ link' = [link EXCEPT !.committed = FALSE] /\ streamer' \in {"commit", "refused"}
       \/ streamer = "commit" /\ link' = [link EXCEPT !.committed = TRUE] /\ streamer' \in {"using", "refused"}
       \/ streamer = "commit" /\ streamer' = "refused" /\ UNCHANGED link
    /\ UNCHANGED <<block, caller, robbed>>

\* The other pin has no IPinConnection or does not accept: the graph (external) takes the connection apart and makes
\* another, or fails and leaves the pin as it was or without one.
DynamicReconnect ==
    /\ \/ streamer = "using" /\ link.active /\ link.connected /\ ~Reconnecting /\ streamer' = "refused" /\ UNCHANGED link
       \/ streamer = "using" /\ link.active /\ link.connected /\ ~Reconnecting /\ streamer' = "reconnect"
          /\ link' = [link EXCEPT !.connected = FALSE, !.committed = FALSE]
       \/ streamer = "reconnect" /\ streamer' = "using"
          /\ link' = [link EXCEPT !.connected = TRUE, !.committed = link.active]
       \/ streamer = "reconnect" /\ streamer' = "refused" /\ UNCHANGED link
    /\ UNCHANGED <<block, caller, robbed>>

-----------------------------------------------------------------------------
(* Start, stop and flush.  They hold the filter's lock, not the block      *)
(* state's; the filter is not started again before its thread is out, and  *)
(* only a connected pin is.                                                *)

Active ==
    /\ ~link.active /\ link.connected /\ streamer \in {"out", "done"}
    /\ link' = [link EXCEPT !.active = TRUE, !.committed = TRUE]
    /\ block' = [block EXCEPT !.stop = FALSE]
    /\ streamer' = "out"
    /\ UNCHANGED <<caller, robbed>>

Inactive ==
    /\ link.active /\ ~Reconnecting
    /\ link' = [link EXCEPT !.active = FALSE, !.committed = FALSE]
    /\ block' = [block EXCEPT !.stop = TRUE]
    /\ UNCHANGED <<caller, robbed, streamer>>

DeliverBeginFlush ==
    /\ link.active
    /\ block' = [block EXCEPT !.stop = TRUE]
    /\ UNCHANGED <<caller, robbed, streamer, link>>

DeliverEndFlush ==
    /\ link.active
    /\ block' = [block EXCEPT !.stop = FALSE]
    /\ UNCHANGED <<caller, robbed, streamer, link>>

DynNext ==
    \/ \E c \in Callers : Block(c) \/ BlockReturns(c) \/ UnblockOutputPin(c) \/ Disconnect(c) \/ CompleteConnect(c)
    \/ StartUsingOutputPin \/ Woken \/ StopUsingOutputPin \/ ChangeMediaType \/ DynamicReconnect
    \/ Active \/ Inactive \/ DeliverBeginFlush \/ DeliverEndFlush

DynSpec == DynInit /\ [][DynNext]_dvars

-----------------------------------------------------------------------------
(* Properties.                                                             *)

\* AssertValid: a notify handle exactly while a block is pending, an owner only of a block, no user of a blocked pin.
BlockStateValid ==
    /\ block.notify # NoCaller <=> block.state = "pending"
    /\ block.owner # NoCaller <=> block.state # "not_blocked"
    /\ block.state = "blocked" => ~StreamingThreadUsingOutputPin

\* A thread inside Block has its answer, or the pin is in use and the last user will give it; a thread that waits
\* for the pin is woken as soon as it is not blocked: no notification is lost between the two locks.
NobodyStranded ==
    /\ \A c \in Callers : caller[c].at \in {"sync", "async"} /\ ~caller[c].event =>
           block.state = "pending" /\ block.notify = c /\ StreamingThreadUsingOutputPin
    /\ block.unblock <=> block.state # "blocked"

\* The connection is not touched under a user: a thread whose block nobody else took away reconnects the pin alone, and
\* the thread that pushes data finds the pin connected, and its allocator committed unless the filter has stopped
\* meanwhile, except where a thread goes on with a block that it has lost.
QuietWhileReconnecting ==
    /\ \A c \in Callers \ robbed : caller[c].at = "reconnecting" => ~StreamingThreadUsingOutputPin
    /\ streamer = "using" => \/ link.connected /\ (link.active => link.committed)
                             \/ \E c \in robbed : caller[c].at = "reconnecting"

\* CDynamicOutputPin: blocking and unblocking, from several threads, the streaming thread and a reconnection keep out of
\* each other's way and forget nobody.
DynamicPinSafe == BlockStateValid /\ NobodyStranded /\ QuietWhileReconnecting
=============================================================================
