-------------------------- MODULE BaseClassProofs ---------------------------
(***************************************************************************)
(* Proofs about the base classes that filters are made of: the block       *)
(* protocol of CDynamicOutputPin, for any number of application threads    *)
(* and any nesting of the streaming thread's brackets; CSource with        *)
(* CSourceStream, for any number of pins; and CPullPin, for any number of  *)
(* buffers, any alignment and any ranges sought.                           *)
(***************************************************************************)
EXTENDS DynamicPin, SourceStream, PullPin, TLAPS

Steps == {"out", "waiting", "woken", "using", "refused", "done", "decommit", "commit", "reconnect"}

\* Between StartUsingOutputPin and the StopUsingOutputPin that matches it.
Inside == {"using", "decommit", "commit", "reconnect", "refused"}

BlockRecords ==
    [state : {"not_blocked", "pending", "blocked"}, owner : Callers \cup {NoCaller},
     notify : Callers \cup {NoCaller}, users : Nat, unblock : BOOLEAN, stop : BOOLEAN]
CallerRecords == [at : {"idle", "sync", "async", "owns", "reconnecting"}, event : BOOLEAN]

DynTypeOK ==
    /\ block \in BlockRecords
    /\ caller \in [Callers -> CallerRecords]
    /\ robbed \subseteq Callers
    /\ streamer \in Steps
    /\ link \in [connected : BOOLEAN, committed : BOOLEAN, active : BOOLEAN]

\* m_dwBlockCallerThreadID names the one thread that is past the start of Block, but for those that have lost their
\* block to another: nothing in the code says so.
OneOwner ==
    /\ \A c \in Callers \ robbed : caller[c].at # "idle" => block.owner = c
    /\ \A c \in Callers : c \in robbed \/ c = block.owner => caller[c].at # "idle"

\* The handle that is to be signalled is the owner's.
OwnerIsNotified == block.notify # NoCaller => block.notify = block.owner

\* Who has its answer has a blocked pin, while nobody takes the block away.
AnsweredMeansBlocked ==
    \A c \in Callers \ robbed :
        (caller[c].at # "idle" /\ caller[c].event) \/ caller[c].at \in {"owns", "reconnecting"} => block.state = "blocked"

\* The count of users is that of the brackets the streaming thread is in.
UsersCounted == StreamingThreadUsingOutputPin <=> streamer \in Inside

\* The pin is disconnected only in the hands of a caller or of the streaming thread that has it connected anew or gives
\* up; a connected pin of an active filter whose thread has not given up finds its allocator committed.
LinkKept ==
    /\ Reconnecting => ~link.connected /\ streamer # "reconnect"
    /\ ~link.connected => Reconnecting \/ streamer \in {"reconnect", "refused", "done"}
    /\ \A c, d \in Callers : caller[c].at = "reconnecting" /\ caller[d].at = "reconnecting" => c = d
    /\ streamer \in {"out", "waiting", "woken", "using"} /\ link.connected /\ link.active => link.committed

DynInv == /\ DynTypeOK /\ BlockStateValid /\ NobodyStranded /\ OneOwner /\ OwnerIsNotified /\ AnsweredMeansBlocked
          /\ UsersCounted /\ LinkKept

USE DEF dvars, Steps, Inside, BlockRecords, CallerRecords

(***************************************************************************)
(* What is safe follows from the invariant.                                *)
(***************************************************************************)
\* A pin that is being reconnected has no user, and its user finds it whole.
LEMMA QuietFromInv == DynInv => DynamicPinSafe
<1> SUFFICES ASSUME DynInv PROVE QuietWhileReconnecting
    BY DEF DynInv, DynamicPinSafe
<1>1. \A c \in Callers \ robbed : caller[c].at = "reconnecting" => ~StreamingThreadUsingOutputPin
    BY DEF DynInv, AnsweredMeansBlocked, BlockStateValid
<1>2. ASSUME streamer = "using"
      PROVE  (link.connected /\ (link.active => link.committed)) \/ \E c \in robbed : caller[c].at = "reconnecting"
    <2>1. CASE Reconnecting
        <3>1. StreamingThreadUsingOutputPin
            BY <1>2 DEF DynInv, UsersCounted
        <3> QED BY <1>1, <2>1, <3>1 DEF Reconnecting
    <2>2. CASE ~Reconnecting
        BY <1>2, <2>2 DEF DynInv, LinkKept, DynTypeOK
    <2> QED BY <2>1, <2>2
<1> QED BY <1>1, <1>2 DEF QuietWhileReconnecting

\* The initial state satisfies the invariant.
LEMMA DynStart == DynInit => DynInv
BY CallersAssumption DEF DynInit, DynInv, DynTypeOK, BlockStateValid, NobodyStranded, OneOwner, OwnerIsNotified, AnsweredMeansBlocked,
   UsersCounted, LinkKept, StreamingThreadUsingOutputPin, Reconnecting, NoCaller

-----------------------------------------------------------------------------
(* The application: one lemma per step, each of which moves one caller, or *)
(* signals another one's event.                                            *)

\* Who waits without an answer is the owner, whoever has lost a block.
LEMMA WaitingOwns ==
    ASSUME DynInv, NEW c \in Callers, caller[c].at \in {"sync", "async"}, ~caller[c].event
    PROVE  block.state = "pending" /\ block.notify = c /\ block.owner = c
BY CallersAssumption DEF DynInv, NobodyStranded, OwnerIsNotified

\* Block finds the pin free: every other caller is idle or has lost its block.
LEMMA BlockKeeps ==
    ASSUME DynInv, NEW c \in Callers, Block(c)
    PROVE  DynInv'
<1>1. PICK next \in {"async", "sync"} : AsynchronousBlockOutputPin(c, next)
    BY DEF Block
<1>2. /\ c \notin robbed /\ caller[c].at = "idle" /\ block.state = "not_blocked"
      /\ \A d \in Callers \ robbed : caller[d].at = "idle"
      /\ block.owner = NoCaller /\ block.notify = NoCaller /\ block.unblock
      /\ \A d \in Callers : caller[d].at \in {"sync", "async"} => caller[d].event
    BY <1>1, CallersAssumption DEF DynInv, OneOwner, BlockStateValid, NobodyStranded, AsynchronousBlockOutputPin, DynTypeOK
<1>3. /\ caller'[c] = [at |-> next, event |-> ~StreamingThreadUsingOutputPin]
      /\ \A d \in Callers : d # c => caller'[d] = caller[d]
      /\ streamer' = streamer /\ link' = link /\ robbed' = robbed
    BY <1>1 DEF AsynchronousBlockOutputPin, DynInv, DynTypeOK
<1>4. DynTypeOK'
    BY <1>1 DEF AsynchronousBlockOutputPin, Blocked, DynInv, DynTypeOK, StreamingThreadUsingOutputPin
<1>5. block'.users = block.users /\ block'.owner = c
    BY <1>1 DEF AsynchronousBlockOutputPin, Blocked, DynInv, DynTypeOK
<1>6. LinkKept'
    BY <1>2, <1>3 DEF DynInv, LinkKept, Reconnecting
<1>9. OneOwner'
    BY <1>2, <1>3, <1>5 DEF DynInv, OneOwner
<1>7. CASE StreamingThreadUsingOutputPin
    <2>1. block'.state = "pending" /\ block'.notify = c /\ block'.unblock /\ ~caller'[c].event
        BY <1>1, <1>2, <1>3, <1>7 DEF AsynchronousBlockOutputPin, DynInv, DynTypeOK
    <2>2. StreamingThreadUsingOutputPin'
        BY <1>5, <1>7 DEF StreamingThreadUsingOutputPin
    <2>3. BlockStateValid' /\ NobodyStranded'
        BY <1>2, <1>3, <1>5, <2>1, <2>2, CallersAssumption DEF BlockStateValid, NobodyStranded
    <2>4. OwnerIsNotified' /\ AnsweredMeansBlocked' /\ UsersCounted'
        BY <1>2, <1>3, <1>5, <1>7, <2>1, <2>2 DEF DynInv, OwnerIsNotified, AnsweredMeansBlocked, UsersCounted
    <2> QED BY <1>4, <1>6, <1>9, <2>3, <2>4 DEF DynInv
<1>8. CASE ~StreamingThreadUsingOutputPin
    <2>1. block'.state = "blocked" /\ block'.notify = NoCaller /\ ~block'.unblock /\ caller'[c].event
        BY <1>1, <1>3, <1>8 DEF AsynchronousBlockOutputPin, Blocked, DynInv, DynTypeOK
    <2>2. ~StreamingThreadUsingOutputPin'
        BY <1>5, <1>8 DEF StreamingThreadUsingOutputPin
    <2>3. BlockStateValid' /\ NobodyStranded'
        BY <1>2, <1>3, <1>5, <2>1, <2>2, CallersAssumption DEF BlockStateValid, NobodyStranded
    <2>4. OwnerIsNotified' /\ AnsweredMeansBlocked' /\ UsersCounted'
        BY <1>2, <1>3, <1>5, <1>8, <2>1, <2>2 DEF DynInv, OwnerIsNotified, AnsweredMeansBlocked, UsersCounted
    <2> QED BY <1>4, <1>6, <1>9, <2>3, <2>4 DEF DynInv
<1> QED BY <1>7, <1>8

\* The caller that has its answer goes on with the pin blocked.
LEMMA ReturnKeeps ==
    ASSUME DynInv, NEW c \in Callers, BlockReturns(c)
    PROVE  DynInv'
<1>1. DynTypeOK'
    BY DEF DynInv, DynTypeOK, BlockReturns
<1>2. BlockStateValid' /\ UsersCounted'
    BY DEF DynInv, BlockStateValid, UsersCounted, BlockReturns, StreamingThreadUsingOutputPin
<1>3. NobodyStranded' /\ OneOwner' /\ OwnerIsNotified' /\ AnsweredMeansBlocked'
    BY DEF DynInv, DynTypeOK, NobodyStranded, OneOwner, OwnerIsNotified, AnsweredMeansBlocked, BlockReturns, StreamingThreadUsingOutputPin
<1>4. \A d \in Callers : caller'[d].at = "reconnecting" <=> caller[d].at = "reconnecting"
    BY DEF DynInv, DynTypeOK, BlockReturns
<1>5. LinkKept'
    BY <1>4 DEF DynInv, LinkKept, BlockReturns, Reconnecting
<1> QED BY <1>1, <1>2, <1>3, <1>5 DEF DynInv

\* Unblocking, or cancelling a block that is pending: the owner is told, and has lost its block if it is another thread.
LEMMA UnblockKeeps ==
    ASSUME DynInv, NEW c \in Callers, UnblockOutputPin(c)
    PROVE  DynInv'
<1>0. /\ block' = IF block.state = "not_blocked" THEN block ELSE Opened(block)
      /\ robbed' = (robbed \cup ({block.owner} \cap Callers)) \ {c} /\ streamer' = streamer /\ link' = link
      /\ caller[c].at \in {"idle", "owns", "async"}
    BY DEF UnblockOutputPin
<1>1. /\ caller' \in [Callers -> CallerRecords]
      /\ caller'[c].at = "idle" /\ ~caller'[c].event
      /\ \A d \in Callers \ {c} : /\ caller'[d].at = caller[d].at
                                  /\ d = block.notify => caller'[d].event
                                  /\ d # block.notify => caller'[d] = caller[d]
    <2> DEFINE idle == [at |-> "idle", event |-> FALSE]
    <2>1. CASE block.notify = NoCaller
        <3>1. caller' = [caller EXCEPT ![c] = idle]
            BY <2>1 DEF UnblockOutputPin, Notified
        <3> QED BY <2>1, <3>1, CallersAssumption DEF DynInv, DynTypeOK
    <2>2. CASE block.notify # NoCaller
        <3>1. caller' = [[caller EXCEPT ![block.notify].event = TRUE] EXCEPT ![c] = idle] /\ block.notify \in Callers
            BY <2>2 DEF UnblockOutputPin, Notified, DynInv, DynTypeOK
        <3> DEFINE n == block.notify
                   told == [caller EXCEPT ![n].event = TRUE]
        <3>2. n \in Callers /\ caller \in [Callers -> CallerRecords]
            BY <3>1 DEF DynInv, DynTypeOK
        <3>3. caller' = [told EXCEPT ![c] = idle]
            BY <3>1
        <3> HIDE DEF n
        <3>4. told \in [Callers -> CallerRecords]
            BY <3>2
        <3>5. told[n].at = caller[n].at /\ told[n].event /\ \A d \in Callers \ {n} : told[d] = caller[d]
            BY <3>2
        <3> HIDE DEF told
        <3>6. caller' \in [Callers -> CallerRecords]
            BY <3>3, <3>4
        <3>7. caller'[c] = idle /\ \A d \in Callers \ {c} : caller'[d] = told[d]
            BY <3>3, <3>4
        <3> QED BY <3>2, <3>5, <3>6, <3>7 DEF n
    <2> QED BY <2>1, <2>2
<1>2. block' \in BlockRecords /\ block'.users = block.users /\ block'.state = "not_blocked"
      /\ block'.owner = NoCaller /\ block'.notify = NoCaller /\ block'.unblock
    <2>1. CASE block.state = "not_blocked"
        BY <1>0, <2>1 DEF DynInv, DynTypeOK, BlockStateValid, NobodyStranded
    <2>2. CASE block.state # "not_blocked"
        BY <1>0, <2>2 DEF Opened, DynInv, DynTypeOK
    <2> QED BY <2>1, <2>2
<1>4. DynTypeOK'
    BY <1>0, <1>1, <1>2 DEF DynInv, DynTypeOK
<1>5. BlockStateValid' /\ UsersCounted'
    BY <1>0, <1>2 DEF DynInv, BlockStateValid, UsersCounted, StreamingThreadUsingOutputPin
<1>6. NobodyStranded'
    <2> SUFFICES ASSUME NEW d \in Callers, caller'[d].at \in {"sync", "async"}, ~caller'[d].event PROVE FALSE
        BY <1>2 DEF NobodyStranded
    <2>1. d # c /\ d # block.notify /\ caller[d].at \in {"sync", "async"} /\ ~caller[d].event
        BY <1>1
    <2> QED BY <2>1, WaitingOwns
<1>7. OneOwner' /\ OwnerIsNotified' /\ AnsweredMeansBlocked'
    <2>1. \A d \in Callers \ robbed' : caller'[d].at = "idle"
        <3> SUFFICES ASSUME NEW d \in Callers \ robbed', d # c PROVE caller[d].at = "idle"
            BY <1>1
        <3>1. d \notin robbed /\ d # block.owner
            BY <1>0
        <3> QED BY <3>1 DEF DynInv, OneOwner
    <2>2. ASSUME NEW d \in robbed' PROVE caller'[d].at # "idle"
        <3>1. d \in Callers /\ d # c /\ (d \in robbed \/ d = block.owner)
            BY <1>0 DEF DynInv, DynTypeOK
        <3>2. CASE d \in robbed
            BY <1>1, <3>1, <3>2 DEF DynInv, OneOwner
        <3>3. CASE d = block.owner
            BY <1>1, <3>1, <3>3 DEF DynInv, OneOwner
        <3> QED BY <3>1, <3>2, <3>3
    <2>3. OneOwner'
        BY <1>2, <2>1, <2>2, CallersAssumption DEF OneOwner
    <2>4. OwnerIsNotified' /\ AnsweredMeansBlocked'
        BY <1>2, <2>1 DEF OwnerIsNotified, AnsweredMeansBlocked
    <2> QED BY <2>3, <2>4
<1>8. LinkKept'
    <2>1. \A d \in Callers : caller'[d].at = "reconnecting" <=> caller[d].at = "reconnecting"
        BY <1>0, <1>1
    <2> QED BY <1>0, <2>1 DEF DynInv, LinkKept, Reconnecting
<1> QED BY <1>4, <1>5, <1>6, <1>7, <1>8 DEF DynInv

\* The connection is taken away and given back by the owner of a blocked pin, or by one that has lost its block.
LEMMA ReconnectKeeps ==
    ASSUME DynInv, NEW c \in Callers, Disconnect(c) \/ CompleteConnect(c)
    PROVE  DynInv'
<1>1. /\ block' = block /\ streamer' = streamer /\ robbed' = robbed
      /\ \E at \in {"owns", "reconnecting"} : caller' = [caller EXCEPT ![c].at = at]
      /\ caller[c].at \in {"owns", "reconnecting"}
    BY DEF Disconnect, CompleteConnect
<1>3. /\ \A d \in Callers : d # c => caller'[d] = caller[d]
      /\ caller'[c].event = caller[c].event /\ caller'[c].at \in {"owns", "reconnecting"}
    BY <1>1 DEF DynInv, DynTypeOK
<1>4. DynTypeOK'
    <2>1. caller' \in [Callers -> CallerRecords]
        BY <1>1 DEF DynInv, DynTypeOK
    <2>2. link' \in [connected : BOOLEAN, committed : BOOLEAN, active : BOOLEAN]
        BY DEF DynInv, DynTypeOK, Disconnect, CompleteConnect
    <2> QED BY <1>1, <2>1, <2>2 DEF DynInv, DynTypeOK
<1>5. BlockStateValid' /\ NobodyStranded' /\ UsersCounted'
    BY <1>1, <1>3 DEF DynInv, BlockStateValid, NobodyStranded, UsersCounted, StreamingThreadUsingOutputPin
<1>6. OneOwner' /\ OwnerIsNotified' /\ AnsweredMeansBlocked'
    BY <1>1, <1>3 DEF DynInv, OneOwner, OwnerIsNotified, AnsweredMeansBlocked
<1>7. LinkKept'
    <2>1. CASE Disconnect(c)
        <3>1. ~link'.connected /\ ~Reconnecting /\ streamer # "reconnect"
            BY <2>1 DEF Disconnect, DynInv, DynTypeOK
        <3>2. caller'[c].at = "reconnecting"
            BY <2>1 DEF Disconnect, DynInv, DynTypeOK
        <3>3. \A d \in Callers : caller'[d].at = "reconnecting" => d = c
            BY <1>3, <3>1 DEF Reconnecting
        <3>4. Reconnecting'
            BY <3>2 DEF Reconnecting
        <3> QED BY <1>1, <3>1, <3>3, <3>4 DEF LinkKept
    <2>2. CASE CompleteConnect(c)
        <3>1. link'.connected /\ link'.committed = link'.active
            BY <2>2 DEF CompleteConnect, DynInv, DynTypeOK
        <3>2. caller'[c].at = "owns" /\ caller[c].at = "reconnecting"
            BY <2>2 DEF CompleteConnect, DynInv, DynTypeOK
        <3>3. ~Reconnecting'
            BY <1>3, <3>2 DEF DynInv, LinkKept, Reconnecting
        <3> QED BY <3>1, <3>3 DEF LinkKept, Reconnecting
    <2> QED BY <2>1, <2>2
<1> QED BY <1>4, <1>5, <1>6, <1>7 DEF DynInv

-----------------------------------------------------------------------------
(* The streaming thread.                                                   *)

\* A thread is admitted only to a pin that is not blocked; the last one out hands a pending block to its caller.
LEMMA StartKeeps ==
    ASSUME DynInv, StartUsingOutputPin
    PROVE  DynInv'
<1>1. CASE block.state = "blocked"
    <2>1. block' = block /\ caller' = caller /\ link' = link /\ robbed' = robbed /\ streamer' = "waiting"
        BY <1>1 DEF StartUsingOutputPin, Admit
    <2>2. streamer \in {"out", "woken"}
        BY <1>1 DEF StartUsingOutputPin, DynInv, BlockStateValid, UsersCounted
    <2>3. Reconnecting' <=> Reconnecting
        BY <2>1 DEF Reconnecting
    <2> QED BY <2>1, <2>2, <2>3 DEF DynInv, DynTypeOK, BlockStateValid, NobodyStranded, OneOwner, OwnerIsNotified, AnsweredMeansBlocked,
               UsersCounted, LinkKept, StreamingThreadUsingOutputPin
<1>2. CASE block.state # "blocked"
    <2>1. block' = [block EXCEPT !.users = @ + 1] /\ caller' = caller /\ link' = link /\ robbed' = robbed /\ streamer' = "using"
        BY <1>2 DEF StartUsingOutputPin, Admit
    <2>2. streamer \in {"out", "using", "woken"}
        BY DEF StartUsingOutputPin
    <2>3. StreamingThreadUsingOutputPin'
        BY <2>1 DEF DynInv, DynTypeOK, StreamingThreadUsingOutputPin
    <2>4. DynTypeOK'
        BY <2>1 DEF DynInv, DynTypeOK
    <2>5. BlockStateValid' /\ NobodyStranded' /\ OneOwner' /\ OwnerIsNotified' /\ AnsweredMeansBlocked' /\ UsersCounted'
        BY <1>2, <2>1, <2>3 DEF DynInv, DynTypeOK, BlockStateValid, NobodyStranded, OneOwner, OwnerIsNotified, AnsweredMeansBlocked, UsersCounted
    <2>6. LinkKept'
        BY <2>1, <2>2 DEF DynInv, LinkKept, Reconnecting
    <2> QED BY <2>4, <2>5, <2>6 DEF DynInv
<1> QED BY <1>1, <1>2

\* Waking and changing the media type leave the block alone; a thread that gives up keeps its brackets.
LEMMA StreamKeeps ==
    ASSUME DynInv, Woken \/ ChangeMediaType \/ DynamicReconnect
    PROVE  DynInv'
<1>1. block' = block /\ caller' = caller /\ robbed' = robbed
    BY DEF Woken, ChangeMediaType, DynamicReconnect
<1>2. DynTypeOK'
    BY <1>1 DEF DynInv, DynTypeOK, Woken, ChangeMediaType, DynamicReconnect
<1>3. BlockStateValid' /\ NobodyStranded' /\ OneOwner' /\ OwnerIsNotified' /\ AnsweredMeansBlocked'
    BY <1>1 DEF DynInv, BlockStateValid, NobodyStranded, OneOwner, OwnerIsNotified, AnsweredMeansBlocked, StreamingThreadUsingOutputPin
<1>4. UsersCounted'
    BY <1>1 DEF DynInv, UsersCounted, Woken, ChangeMediaType, DynamicReconnect, StreamingThreadUsingOutputPin
<1>5. LinkKept'
    BY <1>1 DEF DynInv, DynTypeOK, LinkKept, Reconnecting, Woken, ChangeMediaType, DynamicReconnect
<1> QED BY <1>2, <1>3, <1>4, <1>5 DEF DynInv

LEMMA StopKeeps ==
    ASSUME DynInv, StopUsingOutputPin
    PROVE  DynInv'
<1> DEFINE left == [block EXCEPT !.users = @ - 1]
           hold == left.users = 0 /\ left.state # "not_blocked"
<1>1. StreamingThreadUsingOutputPin /\ block.state # "blocked" /\ streamer \in {"using", "refused"}
    BY DEF DynInv, UsersCounted, BlockStateValid, StopUsingOutputPin
<1>2. left.users = block.users - 1 /\ left.users \in Nat /\ left.state = block.state
    BY <1>1 DEF DynInv, DynTypeOK, StreamingThreadUsingOutputPin
<1>3. /\ left.users = block.users - 1 /\ left.users \in Nat /\ left.state = block.state
      /\ block' = IF hold THEN Blocked(left) ELSE left
      /\ caller' = IF hold THEN Notified(block.notify) ELSE caller
      /\ link' = link /\ robbed' = robbed
    BY <1>2 DEF StopUsingOutputPin
<1>4. streamer' = IF left.users > 0 THEN streamer ELSE IF streamer = "refused" THEN "done" ELSE "out"
    BY DEF StopUsingOutputPin
<1>5. UsersCounted'
    <2>1. block'.users = left.users
        BY <1>3 DEF Blocked, DynInv, DynTypeOK
    <2> QED BY <1>1, <1>3, <1>4, <2>1 DEF UsersCounted, StreamingThreadUsingOutputPin
<1>6. LinkKept'
    <2>1. \A c \in Callers : caller'[c].at = caller[c].at
        BY <1>3 DEF Notified, DynInv, DynTypeOK
    <2> QED BY <1>1, <1>3, <1>4, <2>1 DEF DynInv, LinkKept, Reconnecting
<1>7. CASE ~hold
    <2>1. block' = left /\ caller' = caller
        BY <1>3, <1>7
    <2>2. block.state = "pending" => left.users > 0
        <3>1. block.state = "pending" => ~(left.users = 0)
            BY <1>2, <1>7
        <3>2. left.users \in Nat
            BY <1>2
        <3> HIDE DEF left
        <3> QED BY <3>1, <3>2
    <2>3. DynTypeOK'
        BY <1>1, <1>3, <1>4, <2>1 DEF DynInv, DynTypeOK
    <2>4. BlockStateValid' /\ NobodyStranded' /\ OneOwner' /\ OwnerIsNotified' /\ AnsweredMeansBlocked'
        BY <1>1, <1>3, <2>1, <2>2 DEF DynInv, DynTypeOK, BlockStateValid, NobodyStranded, OneOwner, OwnerIsNotified, AnsweredMeansBlocked,
           StreamingThreadUsingOutputPin
    <2> QED BY <1>5, <1>6, <2>3, <2>4 DEF DynInv
<1>8. CASE hold
    <2>1. block.state = "pending" /\ block.notify \in Callers /\ block.owner # NoCaller
        BY <1>1, <1>3, <1>8 DEF DynInv, DynTypeOK, BlockStateValid
    <2>2. PICK c \in Callers : block.notify = c
        BY <2>1
    <2>3. caller' = [caller EXCEPT ![c].event = TRUE]
        BY <1>3, <1>8, <2>2, CallersAssumption DEF Notified
    <2>4. /\ block'.state = "blocked" /\ block'.notify = NoCaller /\ ~block'.unblock
          /\ block'.owner = block.owner /\ block'.users = 0
        BY <1>3, <1>8 DEF Blocked, DynInv, DynTypeOK
    <2>5. DynTypeOK'
        <3>1. left \in BlockRecords
            BY <1>3 DEF DynInv, DynTypeOK
        <3>2. block' = Blocked(left)
            BY <1>3, <1>8
        <3>3. block' \in BlockRecords
            <4> HIDE DEF left
            <4> QED BY <3>1, <3>2 DEF Blocked
        <3>4. caller' \in [Callers -> CallerRecords]
            BY <2>3 DEF DynInv, DynTypeOK
        <3>5. streamer' \in Steps
            BY <1>1, <1>4
        <3> QED BY <1>3, <3>3, <3>4, <3>5 DEF DynInv, DynTypeOK
    <2>6. BlockStateValid'
        BY <2>1, <2>4 DEF BlockStateValid, StreamingThreadUsingOutputPin
    <2>7. NobodyStranded' /\ AnsweredMeansBlocked'
        BY <2>2, <2>3, <2>4 DEF DynInv, DynTypeOK, NobodyStranded, AnsweredMeansBlocked
    <2>8. block.owner = c
        BY <2>1, <2>2, CallersAssumption DEF DynInv, OwnerIsNotified
    <2>9. OneOwner' /\ OwnerIsNotified'
        <3>1. \A d \in Callers : caller'[d].at = caller[d].at
            BY <2>3 DEF DynInv, DynTypeOK
        <3> QED BY <1>3, <2>4, <3>1 DEF DynInv, OneOwner, OwnerIsNotified
    <2> QED BY <1>5, <1>6, <2>5, <2>6, <2>7, <2>9 DEF DynInv
<1> QED BY <1>7, <1>8

-----------------------------------------------------------------------------
(* Start, stop and flush.                                                  *)

\* The stop event and the activity of the filter take no part in the block protocol.
LEMMA FilterKeeps ==
    ASSUME DynInv, Active \/ Inactive \/ DeliverBeginFlush \/ DeliverEndFlush
    PROVE  DynInv'
<1>1. /\ caller' = caller /\ robbed' = robbed
      /\ \E stop \in BOOLEAN : block' = [block EXCEPT !.stop = stop]
    BY DEF Active, Inactive, DeliverBeginFlush, DeliverEndFlush
<1>2. streamer' = streamer \/ (streamer \in {"out", "done"} /\ streamer' = "out" /\ link'.committed)
    BY DEF Active, Inactive, DeliverBeginFlush, DeliverEndFlush, DynInv, DynTypeOK
<1>3. DynTypeOK'
  <2>1. block' \in BlockRecords
    BY <1>1 DEF DynInv, DynTypeOK, BlockRecords
  <2>2. streamer' \in Steps
    BY <1>2 DEF DynInv, DynTypeOK, Steps
  <2>3. link' \in [connected : BOOLEAN, committed : BOOLEAN, active : BOOLEAN]
    BY DEF Active, Inactive, DeliverBeginFlush, DeliverEndFlush, DynInv, DynTypeOK
  <2> QED BY <1>1, <2>1, <2>2, <2>3 DEF DynInv, DynTypeOK
<1>4. BlockStateValid' /\ NobodyStranded' /\ OneOwner' /\ OwnerIsNotified' /\ AnsweredMeansBlocked' /\ UsersCounted'
    BY <1>1, <1>2 DEF DynInv, DynTypeOK, BlockStateValid, NobodyStranded, OneOwner, OwnerIsNotified, AnsweredMeansBlocked,
       UsersCounted, StreamingThreadUsingOutputPin
<1>5. LinkKept'
    <2>1. (Reconnecting' <=> Reconnecting) /\ link'.connected = link.connected
        BY <1>1 DEF Reconnecting, Active, Inactive, DeliverBeginFlush, DeliverEndFlush, DynInv, DynTypeOK
    <2>2. \/ link'.active /\ link'.committed /\ link.connected /\ streamer' = "out"
          \/ ~link'.active /\ streamer' = streamer
          \/ link' = link /\ streamer' = streamer
        BY DEF Active, Inactive, DeliverBeginFlush, DeliverEndFlush, DynInv, DynTypeOK
    <2>3. /\ Reconnecting => ~link.connected /\ streamer # "reconnect"
          /\ ~link.connected => Reconnecting \/ streamer \in {"reconnect", "refused", "done"}
          /\ \A c, d \in Callers : caller[c].at = "reconnecting" /\ caller[d].at = "reconnecting" => c = d
          /\ streamer \in {"out", "waiting", "woken", "using"} /\ link.connected /\ link.active => link.committed
        BY DEF DynInv, LinkKept
    <2> QED BY <1>1, <2>1, <2>2, <2>3 DEF LinkKept
<1> QED BY <1>3, <1>4, <1>5 DEF DynInv

\* Every step of the pin keeps the invariant.
LEMMA DynStepKeeps == DynInv /\ [DynNext]_dvars => DynInv'
<1> SUFFICES ASSUME DynInv, [DynNext]_dvars PROVE DynInv'
    OBVIOUS
<1>1. CASE UNCHANGED dvars
    BY <1>1 DEF DynInv, DynTypeOK, BlockStateValid, NobodyStranded, OneOwner, OwnerIsNotified, AnsweredMeansBlocked,
       UsersCounted, LinkKept, StreamingThreadUsingOutputPin, Reconnecting
<1>2. CASE \E c \in Callers : Block(c) \/ BlockReturns(c) \/ UnblockOutputPin(c) \/ Disconnect(c) \/ CompleteConnect(c)
    BY <1>2, BlockKeeps, ReturnKeeps, UnblockKeeps, ReconnectKeeps
<1>3. CASE StartUsingOutputPin \/ Woken \/ StopUsingOutputPin \/ ChangeMediaType \/ DynamicReconnect
    BY <1>3, StartKeeps, StreamKeeps, StopKeeps
<1>4. CASE Active \/ Inactive \/ DeliverBeginFlush \/ DeliverEndFlush
    BY <1>4, FilterKeeps
<1> QED BY <1>1, <1>2, <1>3, <1>4 DEF DynNext

(***************************************************************************)
(* CDynamicOutputPin, for any number of application threads: a block is    *)
(* granted only when the streaming thread is out of the pin, every thread  *)
(* that waits for an answer is owed one, and the thread that pushes data   *)
(* never finds the pin disconnected or its allocator decommitted under it, *)
(* but for a call whose block another thread has taken away.               *)
(***************************************************************************)
THEOREM BlockingIsSafe == DynSpec => []DynamicPinSafe
<1>1. DynSpec => []DynInv
    BY DynStart, DynStepKeeps, PTL DEF DynSpec
<1> QED BY <1>1, QuietFromInv, PTL

-----------------------------------------------------------------------------
(* A source and its workers.                                               *)

WorkerCalls == {"init", "pause", "run", "stop", "exit"}

PinRecords ==
    [handle : BOOLEAN, committed : BOOLEAN, out : Int,
     worker : {"dead", "boot", "wait", "loop", "buffer", "fill", "deliver"}]
RequestRecords == [send : BOOLEAN, param : WorkerCalls \cup {"none"}, complete : BOOLEAN, ok : BOOLEAN]

SourceTypes ==
    /\ filter \in [state : {"stopped", "paused"}, failed : BOOLEAN]
    /\ control \in [at : {"idle", "activate", "inactivate", "close"} \cup WorkerCalls, pin : SrcPins]
    /\ pin \in [SrcPins -> PinRecords]
    /\ request \in [SrcPins -> RequestRecords]

\* A worker that can take commands, and a pin that has none.
Alive(p) == pin[p].handle /\ pin[p].worker \notin {"dead", "boot"}
Clean(p) == pin[p].worker = "dead" /\ ~pin[p].handle /\ ~pin[p].committed

\* The handle of a thread is held for as long as the thread lives.
HandlesKept == \A p \in SrcPins : pin[p].worker # "dead" => ThreadExists(p)

\* A call is on its way or answered, not both.
OneAnswer == \A p \in SrcPins : ~(request[p].send /\ request[p].complete)

\* A worker boots for as long as nobody has answered its first call, which says whether it lives.
Boots ==
    /\ \A p \in SrcPins : pin[p].worker = "boot" <=> control.at = "init" /\ control.pin = p /\ request[p].send
    /\ control.at = "init" /\ request[control.pin].complete /\ request[control.pin].ok => Alive(control.pin)

\* Pins are started and stopped in their order.  A Pause that failed leaves any mixture, but no Stop follows it.
PinsInOrder ==
    /\ control.at \in {"activate", "init", "pause"} =>
         /\ filter.state = "stopped"
         /\ \A p \in SrcPins : p < control.pin => Alive(p)
         /\ ~filter.failed => \A p \in SrcPins : p > control.pin => Clean(p)
    /\ control.at = "activate" /\ ~filter.failed => Clean(control.pin)
    /\ control.at = "pause" => Alive(control.pin)
    /\ control.at \in {"idle", "run"} /\ filter.state = "paused" => \A p \in SrcPins : Alive(p)
    /\ control.at = "run" => filter.state = "paused"
    /\ control.at \in {"inactivate", "stop", "exit", "close"} =>
         /\ filter.state = "paused"
         /\ \A p \in SrcPins : p < control.pin => Clean(p)
         /\ \A p \in SrcPins : p > control.pin => Alive(p)
    /\ control.at \in {"inactivate", "stop"} => Alive(control.pin)
    /\ control.at \in {"stop", "exit", "close"} => ~pin[control.pin].committed
    /\ control.at = "exit" /\ request[control.pin].send => Alive(control.pin)

SourceInv == SourceTypes /\ CallsAnsweredOnce /\ HandlesKept /\ OneAnswer /\ Boots /\ PinsInOrder /\ SourceQuiet

Workers == {"dead", "boot", "wait", "loop", "buffer", "fill", "deliver"}

\* Records and functions of records, changed field by field, keep their types.
LEMMA WorkerTyped ==
  ASSUME NEW f \in [SrcPins -> PinRecords], NEW p \in SrcPins, NEW w \in Workers
  PROVE  [f EXCEPT ![p].worker = w] \in [SrcPins -> PinRecords]
<1>1. \A x \in PinRecords : [x EXCEPT !.worker = w] \in PinRecords
  BY DEF PinRecords, Workers
<1> QED BY <1>1

LEMMA OutTyped ==
  ASSUME NEW f \in [SrcPins -> PinRecords], NEW p \in SrcPins, NEW o \in Int
  PROVE  [f EXCEPT ![p].out = o] \in [SrcPins -> PinRecords]
<1>1. \A x \in PinRecords : [x EXCEPT !.out = o] \in PinRecords
  BY DEF PinRecords
<1> QED BY <1>1

LEMMA TakenTyped ==
  ASSUME NEW f \in [SrcPins -> PinRecords], NEW p \in SrcPins, NEW w \in Workers, NEW o \in Int
  PROVE  [f EXCEPT ![p].worker = w, ![p].out = o] \in [SrcPins -> PinRecords]
<1> DEFINE moved == [f EXCEPT ![p].worker = w]
<1>1. [f EXCEPT ![p].worker = w, ![p].out = o] = [moved EXCEPT ![p].out = o]
  OBVIOUS
<1>2. moved \in [SrcPins -> PinRecords]
  BY WorkerTyped
<1> HIDE DEF moved
<1> QED BY <1>1, <1>2, OutTyped

LEMMA CommittedTyped ==
  ASSUME NEW f \in [SrcPins -> PinRecords], NEW p \in SrcPins, NEW c \in BOOLEAN
  PROVE  [f EXCEPT ![p].committed = c] \in [SrcPins -> PinRecords]
<1>1. \A x \in PinRecords : [x EXCEPT !.committed = c] \in PinRecords
  BY DEF PinRecords
<1> QED BY <1>1

LEMMA HandleTyped ==
  ASSUME NEW f \in [SrcPins -> PinRecords], NEW p \in SrcPins, NEW h \in BOOLEAN
  PROVE  [f EXCEPT ![p].handle = h] \in [SrcPins -> PinRecords]
<1>1. \A x \in PinRecords : [x EXCEPT !.handle = h] \in PinRecords
  BY DEF PinRecords
<1> QED BY <1>1

LEMMA CreatedTyped ==
  ASSUME NEW f \in [SrcPins -> PinRecords], NEW p \in SrcPins, NEW c \in BOOLEAN, NEW h \in BOOLEAN, NEW w \in Workers
  PROVE  [f EXCEPT ![p].committed = c, ![p].handle = h, ![p].worker = w] \in [SrcPins -> PinRecords]
<1> DEFINE marked == [f EXCEPT ![p].committed = c]
           held == [marked EXCEPT ![p].handle = h]
<1>1. [f EXCEPT ![p].committed = c, ![p].handle = h, ![p].worker = w] = [held EXCEPT ![p].worker = w]
  OBVIOUS
<1>2. marked \in [SrcPins -> PinRecords]
  BY CommittedTyped
<1> HIDE DEF marked
<1>3. held \in [SrcPins -> PinRecords]
  BY <1>2, HandleTyped
<1> HIDE DEF held
<1> QED BY <1>1, <1>3, WorkerTyped

LEMMA AnsweredTyped ==
  ASSUME NEW f \in [SrcPins -> RequestRecords], NEW p \in SrcPins, NEW c \in BOOLEAN
  PROVE  [f EXCEPT ![p].complete = c] \in [SrcPins -> RequestRecords]
<1>1. \A x \in RequestRecords : [x EXCEPT !.complete = c] \in RequestRecords
  BY DEF RequestRecords
<1> QED BY <1>1

LEMMA SentTyped ==
  ASSUME NEW f \in [SrcPins -> RequestRecords], NEW p \in SrcPins, NEW s \in BOOLEAN, NEW m \in WorkerCalls
  PROVE  [f EXCEPT ![p].send = s, ![p].param = m] \in [SrcPins -> RequestRecords]
<1> DEFINE sent == [f EXCEPT ![p].send = s]
<1>1. \A x \in RequestRecords : [x EXCEPT !.send = s] \in RequestRecords /\ [x EXCEPT !.param = m] \in RequestRecords
  BY DEF RequestRecords
<1>2. [f EXCEPT ![p].send = s, ![p].param = m] = [sent EXCEPT ![p].param = m]
  OBVIOUS
<1>3. sent \in [SrcPins -> RequestRecords]
  BY <1>1
<1> HIDE DEF sent
<1> QED BY <1>1, <1>2, <1>3

LEMMA NextSentTyped ==
  ASSUME NEW f \in [SrcPins -> RequestRecords], NEW p \in SrcPins, NEW c \in BOOLEAN, NEW s \in BOOLEAN,
         NEW m \in WorkerCalls
  PROVE  [f EXCEPT ![p].complete = c, ![p].send = s, ![p].param = m] \in [SrcPins -> RequestRecords]
<1> DEFINE done == [f EXCEPT ![p].complete = c]
<1>1. [f EXCEPT ![p].complete = c, ![p].send = s, ![p].param = m] = [done EXCEPT ![p].send = s, ![p].param = m]
  OBVIOUS
<1>2. done \in [SrcPins -> RequestRecords]
  BY AnsweredTyped
<1> HIDE DEF done
<1>3. [done EXCEPT ![p].send = s, ![p].param = m] \in [SrcPins -> RequestRecords]
  BY <1>2, SentTyped, Zenon
<1> QED BY <1>1, <1>3

LEMMA RepliedTyped ==
  ASSUME NEW f \in [SrcPins -> RequestRecords], NEW p \in SrcPins, NEW s \in BOOLEAN, NEW c \in BOOLEAN,
         NEW k \in BOOLEAN
  PROVE  [f EXCEPT ![p].send = s, ![p].complete = c, ![p].ok = k] \in [SrcPins -> RequestRecords]
<1> DEFINE sent == [f EXCEPT ![p].send = s]
           done == [sent EXCEPT ![p].complete = c]
<1>1. [f EXCEPT ![p].send = s, ![p].complete = c, ![p].ok = k] = [done EXCEPT ![p].ok = k]
  OBVIOUS
<1>2. \A x \in RequestRecords : [x EXCEPT !.send = s] \in RequestRecords /\ [x EXCEPT !.ok = k] \in RequestRecords
  BY DEF RequestRecords
<1>3. sent \in [SrcPins -> RequestRecords]
  BY <1>2
<1> HIDE DEF sent
<1>4. done \in [SrcPins -> RequestRecords]
  BY <1>3, AnsweredTyped
<1> HIDE DEF done
<1> QED BY <1>1, <1>2, <1>4

LEMMA Booleans == TRUE \in BOOLEAN /\ FALSE \in BOOLEAN
  OBVIOUS

\* What leaves the calls and the control thread alone, and every worker as alive as it was.
LEMMA QuietStep ==
  ASSUME SourceInv, SourceTypes',
         filter' = filter, control' = control, request' = request,
         \A q \in SrcPins : /\ pin'[q].handle = pin[q].handle /\ pin'[q].committed = pin[q].committed
                            /\ pin'[q].worker = "dead" <=> pin[q].worker = "dead"
                            /\ pin'[q].worker = "boot" <=> pin[q].worker = "boot"
  PROVE  SourceInv'
<1>1. \A q \in SrcPins : (Alive(q)' <=> Alive(q)) /\ (Clean(q)' <=> Clean(q))
  BY DEF Alive, Clean
<1>2. control.pin \in SrcPins
  BY DEF SourceInv, SourceTypes
<1>3. CallsAnsweredOnce' /\ OneAnswer' /\ HandlesKept'
  BY DEF SourceInv, CallsAnsweredOnce, OneAnswer, HandlesKept, ThreadExists
<1>4. Boots'
  BY <1>1, <1>2 DEF SourceInv, Boots
<1>5. PinsInOrder'
  BY <1>1, <1>2 DEF SourceInv, PinsInOrder
<1>6. SourceQuiet'
  BY DEF SourceInv, SourceQuiet, ThreadExists
<1> QED BY <1>3, <1>4, <1>5, <1>6 DEF SourceInv

\* The answer of a worker.
LEMMA ReplyStep ==
  ASSUME SourceInv, NEW p \in SrcPins, NEW k \in BOOLEAN, NEW w \in Workers \ {"boot"},
         request[p].send, Reply(p, k), Goes(p, w), UNCHANGED <<filter, control>>,
         w = "dead" => (pin[p].worker = "boot" /\ ~k) \/ request[p].param = "exit",
         pin[p].worker # "dead"
  PROVE  SourceInv'
<1>0. /\ SourceTypes /\ CallsAnsweredOnce /\ OneAnswer /\ HandlesKept /\ Boots /\ PinsInOrder /\ SourceQuiet
      /\ control.pin = p /\ control.at = request[p].param /\ ~request[p].complete
      /\ filter' = filter /\ control' = control /\ ThreadExists(p)
  BY DEF SourceInv, CallsAnsweredOnce, OneAnswer, HandlesKept
<1>1. pin' \in [SrcPins -> PinRecords] /\ request' \in [SrcPins -> RequestRecords]
  <2>1. pin' \in [SrcPins -> PinRecords]
    BY <1>0, WorkerTyped DEF Goes, SourceTypes
  <2>2. request' = [request EXCEPT ![p].send = FALSE, ![p].complete = TRUE, ![p].ok = k]
    BY DEF Reply
  <2>3. request \in [SrcPins -> RequestRecords]
    BY <1>0 DEF SourceTypes
  <2>4. [request EXCEPT ![p].send = FALSE, ![p].complete = TRUE, ![p].ok = k] \in [SrcPins -> RequestRecords]
    BY <2>3, Booleans, RepliedTyped, Zenon
  <2> QED BY <2>1, <2>2, <2>4
<1>2. SourceTypes'
  BY <1>0, <1>1 DEF SourceTypes
<1>3. /\ ~request'[p].send /\ request'[p].complete /\ request'[p].ok = k /\ request'[p].param = request[p].param
      /\ \A q \in SrcPins \ {p} : request'[q] = request[q]
  BY <1>0 DEF Reply, SourceTypes, RequestRecords
<1>4. /\ pin'[p].worker = w /\ pin'[p].handle = pin[p].handle /\ pin'[p].committed = pin[p].committed
      /\ \A q \in SrcPins \ {p} : pin'[q] = pin[q]
  BY <1>0 DEF Goes, SourceTypes, PinRecords
<1>5. /\ \A q \in SrcPins \ {p} : (Alive(q)' <=> Alive(q)) /\ (Clean(q)' <=> Clean(q))
      /\ w # "dead" => Alive(p)'
  BY <1>0, <1>4 DEF Alive, Clean, ThreadExists
<1>6. CallsAnsweredOnce' /\ OneAnswer' /\ HandlesKept'
  <2>1. CallsAnsweredOnce'
    <3>1. ASSUME NEW q \in SrcPins PROVE CallsAnsweredOnce!(q)'
      BY <1>0, <1>3, <1>4 DEF CallsAnsweredOnce
    <3> QED BY <3>1 DEF CallsAnsweredOnce
  <2>2. OneAnswer'
    BY <1>0, <1>3 DEF OneAnswer
  <2>3. HandlesKept'
    BY <1>0, <1>4 DEF HandlesKept, ThreadExists
  <2> QED BY <2>1, <2>2, <2>3
<1>7. control.at = "init" => pin[p].worker = "boot"
  BY <1>0 DEF Boots
<1>8. control.at # "init" => pin[p].worker # "boot"
  BY <1>0 DEF Boots
<1>9. Boots'
  BY <1>0, <1>3, <1>4, <1>5, <1>7 DEF Boots
<1>10. control.at \in WorkerCalls
  BY <1>0 DEF SourceTypes, RequestRecords, WorkerCalls
<1>11. w = "dead" => control.at \in {"init", "exit"}
  BY <1>0, <1>8
<1>12. PinsInOrder'
  <2>1. /\ \A q \in SrcPins : q < control.pin \/ q > control.pin => q # p
        /\ \A q \in SrcPins \ {p} : (Alive(q) => Alive(q)') /\ (Clean(q) => Clean(q)')
    BY <1>0, <1>5 DEF SourceTypes, SrcPins
  <2>2. CASE control.at = "init"
    BY <1>0, <2>1, <2>2 DEF PinsInOrder
  <2>3. CASE control.at = "pause"
    BY <1>0, <1>5, <1>11, <2>1, <2>3 DEF PinsInOrder
  <2>4. CASE control.at = "run"
    BY <1>0, <1>5, <1>11, <2>1, <2>4 DEF PinsInOrder
  <2>5. CASE control.at = "stop"
    BY <1>0, <1>4, <1>5, <1>11, <2>1, <2>5 DEF PinsInOrder
  <2>6. CASE control.at = "exit"
    BY <1>0, <1>3, <1>4, <1>5, <2>1, <2>6 DEF PinsInOrder
  <2> QED BY <1>10, <2>2, <2>3, <2>4, <2>5, <2>6 DEF WorkerCalls
<1>13. SourceQuiet'
  BY <1>0, <1>10 DEF SourceQuiet, WorkerCalls
<1> QED BY <1>2, <1>6, <1>9, <1>12, <1>13 DEF SourceInv

\* Only the call that the control thread waits for is on its way or answered.
LEMMA OneCall ==
  ASSUME SourceInv
  PROVE  /\ \A q \in SrcPins : q # control.pin => ~request[q].send /\ ~request[q].complete
         /\ control.at \notin WorkerCalls => \A q \in SrcPins : ~request[q].send /\ ~request[q].complete
<1>1. ASSUME NEW q \in SrcPins, request[q].send \/ request[q].complete
      PROVE  control.pin = q /\ control.at \in WorkerCalls
  <2>1. control.pin = q /\ control.at = request[q].param
    BY <1>1 DEF SourceInv, CallsAnsweredOnce
  <2>2. request[q].param \in WorkerCalls \cup {"none"} /\ control.at # "none"
    BY DEF SourceInv, SourceTypes, RequestRecords, WorkerCalls
  <2> QED BY <2>1, <2>2
<1> QED BY <1>1

LEMMA NoneBoots ==
  ASSUME SourceInv, control.at # "init" \/ request[control.pin].complete
  PROVE  \A q \in SrcPins : pin[q].worker # "boot"
  BY DEF SourceInv, SourceTypes, OneAnswer, Boots

LEMMA ControlTyped ==
  ASSUME SourceInv
  PROVE  /\ control.pin \in SrcPins /\ control.pin \in Nat /\ control.pin <= PinCount /\ 1 \in SrcPins /\ PinCount \in Nat
         /\ control.pin < PinCount => control.pin + 1 \in SrcPins
         /\ \A q \in SrcPins : q \in Nat /\ 1 <= q /\ q <= PinCount
         /\ pin \in [SrcPins -> PinRecords] /\ request \in [SrcPins -> RequestRecords]
         /\ control.at \in {"idle", "activate", "inactivate", "close"} \cup WorkerCalls
         /\ filter.state \in {"stopped", "paused"} /\ filter.failed \in BOOLEAN
         /\ filter = [state |-> filter.state, failed |-> filter.failed]
         /\ control = [at |-> control.at, pin |-> control.pin]
  BY SourceBounds DEF SourceInv, SourceTypes, SrcPins

LEMMA AliveKept ==
  ASSUME pin' = pin
  PROVE  \A q \in SrcPins : (Alive(q)' <=> Alive(q)) /\ (Clean(q)' <=> Clean(q))
  BY DEF Alive, Clean

LEMMA PauseStep ==
  ASSUME SourceInv, Pause PROVE SourceInv'
<1>1. CASE filter.state = "stopped"
  <2>1. /\ SourceTypes /\ CallsAnsweredOnce /\ OneAnswer /\ HandlesKept /\ Boots /\ PinsInOrder /\ SourceQuiet
        /\ control.at = "idle" /\ control' = [at |-> "activate", pin |-> 1]
        /\ control'.at = "activate" /\ control'.pin = 1
        /\ filter' = filter /\ pin' = pin /\ request' = request
    BY <1>1 DEF Pause, SourceInv
  <2>2. /\ \A q \in SrcPins : ~request[q].send /\ ~request[q].complete
        /\ \A q \in SrcPins : pin[q].worker # "boot"
    BY <2>1, OneCall, NoneBoots DEF WorkerCalls
  <2>3. SourceTypes'
    BY <2>1, ControlTyped DEF SourceTypes
  <2>4. CallsAnsweredOnce' /\ OneAnswer' /\ HandlesKept' /\ Boots' /\ SourceQuiet'
    BY <2>1, <2>2 DEF CallsAnsweredOnce, OneAnswer, HandlesKept, ThreadExists, Boots, SourceQuiet
  <2>5. PinsInOrder'
    <3>1. ~filter.failed => \A q \in SrcPins : Clean(q)
      BY <1>1, <2>1 DEF SourceQuiet, Clean, ThreadExists
    <3>2. \A q \in SrcPins : ~(q < 1)
      BY ControlTyped
    <3> QED BY <1>1, <2>1, <3>1, <3>2, AliveKept, ControlTyped DEF PinsInOrder
  <2> QED BY <2>3, <2>4, <2>5 DEF SourceInv
<1>2. CASE filter.state # "stopped"
  <2>1. filter.state = "paused"
    BY <1>2, ControlTyped
  <2>2. filter' = filter
    BY <1>2, <2>1, ControlTyped DEF Pause
  <2>3. UNCHANGED srcvars
    BY <1>2, <2>2 DEF Pause, srcvars
  <2> QED BY <2>3 DEF srcvars, SourceInv, SourceTypes, CallsAnsweredOnce, OneAnswer, HandlesKept, ThreadExists, Boots,
               PinsInOrder, SourceQuiet, Alive, Clean
<1> QED BY <1>1, <1>2

LEMMA StreamActiveStep ==
  ASSUME SourceInv, StreamActive PROVE SourceInv'
<1> DEFINE p == control.pin
<1>1. /\ SourceTypes /\ CallsAnsweredOnce /\ OneAnswer /\ HandlesKept /\ Boots /\ PinsInOrder /\ SourceQuiet
      /\ control.at = "activate" /\ p \in SrcPins /\ filter.state = "stopped"
  BY ControlTyped DEF StreamActive, SourceInv, PinsInOrder
<1>2. /\ \A q \in SrcPins : ~request[q].send /\ ~request[q].complete
      /\ \A q \in SrcPins : pin[q].worker # "boot"
  BY <1>1, OneCall, NoneBoots DEF WorkerCalls
<1>3. CASE /\ ~ThreadExists(p)
           /\ pin' = [pin EXCEPT ![p].committed = TRUE, ![p].handle = TRUE, ![p].worker = "boot"]
           /\ CallWorker(p, "init")
           /\ UNCHANGED filter
  <2>1. /\ control' = [at |-> "init", pin |-> p] /\ control'.at = "init" /\ control'.pin = p
        /\ request' = [request EXCEPT ![p].send = TRUE, ![p].param = "init"]
        /\ filter' = filter
    BY <1>3 DEF CallWorker
  <2>2. pin' \in [SrcPins -> PinRecords]
    <3>1. "boot" \in Workers
      BY DEF Workers
    <3>2. [pin EXCEPT ![p].committed = TRUE, ![p].handle = TRUE, ![p].worker = "boot"] \in [SrcPins -> PinRecords]
      BY <3>1, Booleans, CreatedTyped, ControlTyped, Zenon
    <3> QED BY <1>3, <3>2
  <2>3. request' \in [SrcPins -> RequestRecords]
    <3>1. "init" \in WorkerCalls
      BY DEF WorkerCalls
    <3>2. [request EXCEPT ![p].send = TRUE, ![p].param = "init"] \in [SrcPins -> RequestRecords]
      BY <3>1, Booleans, SentTyped, ControlTyped, Zenon
    <3> QED BY <2>1, <3>2
  <2>4. SourceTypes'
    BY <1>1, <2>1, <2>2, <2>3 DEF SourceTypes, WorkerCalls
  <2>5. /\ pin'[p].committed /\ pin'[p].handle /\ pin'[p].worker = "boot"
        /\ \A q \in SrcPins \ {p} : pin'[q] = pin[q]
    BY <1>3, ControlTyped DEF PinRecords
  <2>6. /\ request'[p].send /\ request'[p].param = "init" /\ request'[p].complete = request[p].complete
        /\ \A q \in SrcPins \ {p} : request'[q] = request[q]
    BY <2>1, ControlTyped DEF RequestRecords
  <2>7. \A q \in SrcPins \ {p} : (Alive(q)' <=> Alive(q)) /\ (Clean(q)' <=> Clean(q))
    BY <2>5 DEF Alive, Clean
  <2> HIDE DEF p
  <2>8. CallsAnsweredOnce' /\ OneAnswer' /\ Boots' /\ SourceQuiet'
    <3>1. CallsAnsweredOnce' /\ OneAnswer'
      <4>1. /\ \A q \in SrcPins : ~request'[q].complete
            /\ \A q \in SrcPins \ {p} : ~request'[q].send
        BY <1>1, <1>2, <2>6
      <4>2. OneAnswer'
        BY <4>1 DEF OneAnswer
      <4>3. pin'[p].worker # "dead"
        BY <2>5
      <4> QED BY <2>1, <2>6, <4>1, <4>2, <4>3 DEF CallsAnsweredOnce
    <3>2. Boots'
      BY <1>1, <1>2, <2>1, <2>5, <2>6 DEF Boots
    <3>3. SourceQuiet'
      BY <2>1 DEF SourceQuiet
    <3> QED BY <3>1, <3>2, <3>3
  <2>9. HandlesKept'
    BY <1>1, <2>5 DEF HandlesKept, ThreadExists
  <2>10. PinsInOrder'
    <3>1. \A q \in SrcPins : q < p \/ q > p => q # p
      BY ControlTyped DEF p
    <3>2. /\ \A q \in SrcPins : q < p => Alive(q)
          /\ ~filter.failed => \A q \in SrcPins : q > p => Clean(q)
      BY <1>1 DEF PinsInOrder, p
    <3> QED BY <1>1, <2>1, <2>6, <2>7, <3>1, <3>2 DEF PinsInOrder
  <2> QED BY <2>4, <2>8, <2>9, <2>10 DEF SourceInv
<1>4. CASE /\ pin' = [pin EXCEPT ![p].committed = TRUE]
           /\ PauseFailed
           /\ UNCHANGED request
  <2>1. /\ control' = [at |-> "idle", pin |-> 1] /\ control'.at = "idle" /\ control'.pin = 1
        /\ request' = request /\ filter' = [state |-> "stopped", failed |-> TRUE]
        /\ filter'.state = "stopped" /\ filter'.failed = TRUE
    BY <1>1, <1>4, ControlTyped DEF PauseFailed
  <2>2. pin' \in [SrcPins -> PinRecords]
    <3>1. [pin EXCEPT ![p].committed = TRUE] \in [SrcPins -> PinRecords]
      BY Booleans, CommittedTyped, ControlTyped, Zenon
    <3> QED BY <1>4, <3>1
  <2>3. SourceTypes'
    BY <1>1, <2>1, <2>2, ControlTyped DEF SourceTypes
  <2>4. \A q \in SrcPins : pin'[q].worker = pin[q].worker /\ pin'[q].handle = pin[q].handle
    BY <1>4, ControlTyped DEF PinRecords
  <2>5. CallsAnsweredOnce' /\ OneAnswer' /\ HandlesKept' /\ Boots' /\ SourceQuiet'
    BY <1>1, <1>2, <2>1, <2>4 DEF CallsAnsweredOnce, OneAnswer, HandlesKept, ThreadExists, Boots, SourceQuiet
  <2>6. PinsInOrder'
    BY <2>1 DEF PinsInOrder
  <2> QED BY <2>3, <2>5, <2>6 DEF SourceInv
<1> QED BY <1>3, <1>4 DEF StreamActive

\* The control thread takes its answer, the last of a session or of a call to Run.
LEMMA InitRepliedStep ==
  ASSUME SourceInv, InitReplied PROVE SourceInv'
<1> DEFINE p == control.pin
<1>1. /\ SourceTypes /\ CallsAnsweredOnce /\ OneAnswer /\ HandlesKept /\ Boots /\ PinsInOrder /\ SourceQuiet
      /\ control.at = "init" /\ p \in SrcPins /\ filter.state = "stopped" /\ request[p].complete /\ ~request[p].send
      /\ pin' = pin
  BY ControlTyped DEF InitReplied, Waiting, SourceInv, PinsInOrder, OneAnswer
<1>2. /\ \A q \in SrcPins \ {p} : ~request[q].send /\ ~request[q].complete
      /\ \A q \in SrcPins : pin[q].worker # "boot"
  BY <1>1, OneCall, NoneBoots
<1>3. CASE request[p].ok
  <2>1. /\ request' = [request EXCEPT ![p].complete = FALSE, ![p].send = TRUE, ![p].param = "pause"]
        /\ control' = [at |-> "pause", pin |-> p] /\ control'.at = "pause" /\ control'.pin = p
        /\ filter' = filter
    BY <1>3, ControlTyped DEF InitReplied
  <2>2. request' \in [SrcPins -> RequestRecords]
    <3>1. "pause" \in WorkerCalls
      BY DEF WorkerCalls
    <3>2. [request EXCEPT ![p].complete = FALSE, ![p].send = TRUE, ![p].param = "pause"]
            \in [SrcPins -> RequestRecords]
      BY <3>1, Booleans, NextSentTyped, ControlTyped, Zenon
    <3> QED BY <2>1, <3>2
  <2>3. SourceTypes'
    BY <1>1, <2>1, <2>2 DEF SourceTypes, WorkerCalls
  <2>4. /\ ~request'[p].complete /\ request'[p].send /\ request'[p].param = "pause"
        /\ \A q \in SrcPins \ {p} : request'[q] = request[q]
    BY <2>1, ControlTyped DEF RequestRecords
  <2>5. Alive(p)
    BY <1>1, <1>3 DEF Boots
  <2>6. CallsAnsweredOnce' /\ OneAnswer'
    BY <1>1, <1>2, <2>1, <2>4, <2>5 DEF CallsAnsweredOnce, OneAnswer, Alive
  <2>7. HandlesKept' /\ Boots' /\ SourceQuiet'
    BY <1>1, <1>2, <2>1 DEF HandlesKept, ThreadExists, Boots, SourceQuiet
  <2>8. PinsInOrder'
    BY <1>1, <2>1, <2>5, AliveKept DEF PinsInOrder
  <2> QED BY <2>3, <2>6, <2>7, <2>8 DEF SourceInv
<1>4. CASE ~request[p].ok
  <2>1. /\ request' = [request EXCEPT ![p].complete = FALSE]
        /\ control' = [at |-> "idle", pin |-> 1] /\ control'.at = "idle" /\ control'.pin = 1
        /\ filter' = [state |-> "stopped", failed |-> TRUE]
        /\ filter'.state = "stopped" /\ filter'.failed = TRUE
    BY <1>1, <1>4, ControlTyped DEF InitReplied, Answered, PauseFailed
  <2>2. request' \in [SrcPins -> RequestRecords]
    BY <2>1, Booleans, AnsweredTyped, ControlTyped, Zenon
  <2>3. SourceTypes'
    BY <1>1, <2>1, <2>2, ControlTyped DEF SourceTypes
  <2>4. \A q \in SrcPins : ~request'[q].complete /\ ~request'[q].send
    BY <1>1, <1>2, <2>1, ControlTyped DEF RequestRecords
  <2>5. CallsAnsweredOnce' /\ OneAnswer' /\ HandlesKept' /\ Boots' /\ SourceQuiet' /\ PinsInOrder'
    BY <1>1, <1>2, <2>1, <2>4
       DEF CallsAnsweredOnce, OneAnswer, HandlesKept, ThreadExists, Boots, SourceQuiet, PinsInOrder
  <2> QED BY <2>3, <2>5 DEF SourceInv
<1> QED BY <1>3, <1>4

\* Answered leaves no call at all.
LEMMA AnsweredAll ==
  ASSUME SourceInv, request[control.pin].complete, Answered(control.pin)
  PROVE  /\ request' \in [SrcPins -> RequestRecords]
         /\ \A q \in SrcPins : ~request'[q].complete /\ ~request'[q].send
<1> DEFINE p == control.pin
<1>1. request' = [request EXCEPT ![p].complete = FALSE]
  BY DEF Answered
<1>2. request' \in [SrcPins -> RequestRecords]
  BY <1>1, Booleans, AnsweredTyped, ControlTyped, Zenon
<1>3. /\ ~request[p].send
      /\ \A q \in SrcPins \ {p} : ~request[q].send /\ ~request[q].complete
  BY OneCall, ControlTyped DEF SourceInv, OneAnswer
<1>4. \A q \in SrcPins : ~request'[q].complete /\ ~request'[q].send
  BY <1>1, <1>3, ControlTyped DEF RequestRecords
<1> QED BY <1>2, <1>4

LEMMA PauseRepliedStep ==
  ASSUME SourceInv, PauseReplied, NEW p \in SrcPins, control.pin = p
  PROVE  SourceInv'
<1>1. /\ SourceTypes /\ CallsAnsweredOnce /\ OneAnswer /\ HandlesKept /\ Boots /\ PinsInOrder /\ SourceQuiet
      /\ control.at = "pause" /\ filter.state = "stopped" /\ pin' = pin /\ control.pin = p
  BY ControlTyped DEF PauseReplied, Waiting, SourceInv, PinsInOrder
<1>2. \A q \in SrcPins : pin[q].worker # "boot"
  BY <1>1, NoneBoots
<1>3. /\ request' \in [SrcPins -> RequestRecords]
      /\ \A q \in SrcPins : ~request'[q].complete /\ ~request'[q].send
  BY AnsweredAll DEF PauseReplied, Waiting
<1>4. CallsAnsweredOnce' /\ OneAnswer' /\ HandlesKept'
  BY <1>1, <1>3 DEF CallsAnsweredOnce, OneAnswer, HandlesKept, ThreadExists
<1>5. \A q \in SrcPins : q <= p => Alive(q)'
  <2>1. \A q \in SrcPins : q <= p => q < p \/ q = p
    BY ControlTyped
  <2> QED BY <1>1, <2>1, AliveKept DEF PinsInOrder
<1>6. CASE p < PinCount
  <2>1. /\ control' = [at |-> "activate", pin |-> p + 1] /\ control'.at = "activate" /\ control'.pin = p + 1
        /\ filter' = filter
    BY <1>6 DEF PauseReplied
  <2>2. SourceTypes'
    BY <1>1, <1>3, <1>6, <2>1, ControlTyped DEF SourceTypes
  <2>3. Boots' /\ SourceQuiet'
    BY <1>1, <1>2, <1>3, <2>1 DEF Boots, SourceQuiet
  <2>4. PinsInOrder'
    <3>1. PICK n \in SrcPins : n = p + 1
      BY <1>1, <1>6, ControlTyped
    <3>2. \A q \in SrcPins : (q < n => q <= p) /\ (q >= n => q > p)
      BY <1>1, <3>1, ControlTyped
    <3>3. ~filter.failed => \A q \in SrcPins : q > p => Clean(q)'
      BY <1>1, AliveKept DEF PinsInOrder
    <3>4. n \in Nat /\ \A q \in SrcPins : q \in Nat
      BY ControlTyped
    <3>5. /\ \A q \in SrcPins : q < n => Alive(q)'
          /\ ~filter.failed => Clean(n)'
          /\ ~filter.failed => \A q \in SrcPins : q > n => Clean(q)'
      BY <1>5, <3>2, <3>3, <3>4
    <3> QED BY <1>1, <2>1, <3>1, <3>5 DEF PinsInOrder
  <2> QED BY <1>4, <2>2, <2>3, <2>4 DEF SourceInv
<1>7. CASE ~(p < PinCount)
  <2>1. /\ control' = [at |-> "idle", pin |-> 1] /\ control'.at = "idle" /\ control'.pin = 1
        /\ filter' = [state |-> "paused", failed |-> filter.failed]
        /\ filter'.state = "paused"
    BY <1>7, ControlTyped DEF PauseReplied
  <2>2. SourceTypes'
    BY <1>1, <1>3, <2>1, ControlTyped DEF SourceTypes
  <2>3. Boots' /\ SourceQuiet'
    BY <1>1, <1>2, <1>3, <2>1 DEF Boots, SourceQuiet
  <2>4. PinsInOrder'
    <3>1. \A q \in SrcPins : q <= p
      BY <1>7, ControlTyped
    <3> QED BY <1>5, <2>1, <3>1 DEF PinsInOrder
  <2> QED BY <1>4, <2>2, <2>3, <2>4 DEF SourceInv
<1> QED BY <1>6, <1>7

\* A call to worker p, which is alive, when no call is under way.
LEMMA CallFacts ==
  ASSUME SourceInv, NEW p \in SrcPins, NEW m \in WorkerCalls, CallWorker(p, m), control.at \notin WorkerCalls
  PROVE  /\ request' \in [SrcPins -> RequestRecords]
         /\ control' = [at |-> m, pin |-> p] /\ control'.at = m /\ control'.pin = p
         /\ request'[p].send /\ request'[p].param = m
         /\ \A q \in SrcPins : ~request'[q].complete
         /\ \A q \in SrcPins \ {p} : ~request'[q].send
<1>1. request' = [request EXCEPT ![p].send = TRUE, ![p].param = m] /\ control' = [at |-> m, pin |-> p]
  BY DEF CallWorker
<1>2. [request EXCEPT ![p].send = TRUE, ![p].param = m] \in [SrcPins -> RequestRecords]
  BY Booleans, SentTyped, ControlTyped, Zenon
<1>3. \A q \in SrcPins : ~request[q].send /\ ~request[q].complete
  BY OneCall
<1>4. /\ request'[p].send /\ request'[p].param = m /\ request'[p].complete = request[p].complete
      /\ \A q \in SrcPins \ {p} : request'[q] = request[q]
  BY <1>1, ControlTyped DEF RequestRecords
<1> QED BY <1>1, <1>2, <1>3, <1>4

LEMMA RunPinStep ==
  ASSUME SourceInv, NEW p \in SrcPins, RunPin(p) PROVE SourceInv'
<1>1. /\ SourceTypes /\ CallsAnsweredOnce /\ OneAnswer /\ HandlesKept /\ Boots /\ PinsInOrder /\ SourceQuiet
      /\ control.at = "idle" /\ filter.state = "paused" /\ filter' = filter /\ pin' = pin /\ CallWorker(p, "run")
  BY DEF RunPin, SourceInv
<1>2. "run" \in WorkerCalls /\ control.at \notin WorkerCalls
  BY <1>1 DEF WorkerCalls
<1>3. /\ request' \in [SrcPins -> RequestRecords]
      /\ control' = [at |-> "run", pin |-> p] /\ control'.at = "run" /\ control'.pin = p
      /\ request'[p].send /\ request'[p].param = "run"
      /\ \A q \in SrcPins : ~request'[q].complete
      /\ \A q \in SrcPins \ {p} : ~request'[q].send
  BY <1>1, <1>2, CallFacts
<1>4. \A q \in SrcPins : pin[q].worker # "boot" /\ Alive(q) /\ pin[q].worker # "dead"
  BY <1>1, NoneBoots DEF PinsInOrder, Alive
<1>5. SourceTypes'
  BY <1>1, <1>3 DEF SourceTypes, WorkerCalls
<1>6. CallsAnsweredOnce' /\ OneAnswer' /\ HandlesKept'
  BY <1>1, <1>3, <1>4 DEF CallsAnsweredOnce, OneAnswer, HandlesKept, ThreadExists
<1>7. Boots' /\ SourceQuiet'
  BY <1>1, <1>3, <1>4 DEF Boots, SourceQuiet
<1>8. PinsInOrder'
  BY <1>1, <1>3, <1>4, AliveKept DEF PinsInOrder
<1> QED BY <1>5, <1>6, <1>7, <1>8 DEF SourceInv

LEMMA RunRepliedStep ==
  ASSUME SourceInv, RunReplied PROVE SourceInv'
<1>1. /\ SourceTypes /\ HandlesKept /\ PinsInOrder
      /\ control.at = "run" /\ filter.state = "paused" /\ filter' = filter /\ pin' = pin
      /\ control' = [at |-> "idle", pin |-> 1] /\ control'.at = "idle" /\ control'.pin = 1
  BY DEF RunReplied, Waiting, SourceInv, PinsInOrder
<1>2. /\ request' \in [SrcPins -> RequestRecords]
      /\ \A q \in SrcPins : ~request'[q].complete /\ ~request'[q].send
  BY AnsweredAll DEF RunReplied, Waiting
<1>3. \A q \in SrcPins : pin[q].worker # "boot" /\ Alive(q)
  BY <1>1, NoneBoots DEF PinsInOrder
<1>4. SourceTypes'
  BY <1>1, <1>2, ControlTyped DEF SourceTypes
<1>5. CallsAnsweredOnce' /\ OneAnswer' /\ HandlesKept' /\ Boots' /\ SourceQuiet'
  BY <1>1, <1>2, <1>3 DEF CallsAnsweredOnce, OneAnswer, HandlesKept, ThreadExists, Boots, SourceQuiet
<1>6. PinsInOrder'
  BY <1>1, <1>3, AliveKept DEF PinsInOrder
<1> QED BY <1>4, <1>5, <1>6 DEF SourceInv

LEMMA StopStep ==
  ASSUME SourceInv, Stop PROVE SourceInv'
<1>1. /\ SourceTypes /\ CallsAnsweredOnce /\ OneAnswer /\ HandlesKept /\ Boots /\ PinsInOrder
      /\ control.at = "idle" /\ filter.state = "paused" /\ filter' = filter /\ pin' = pin /\ request' = request
      /\ control' = [at |-> "inactivate", pin |-> 1] /\ control'.at = "inactivate" /\ control'.pin = 1
  BY ControlTyped DEF Stop, SourceInv
<1>2. \A q \in SrcPins : pin[q].worker # "boot" /\ Alive(q) /\ ~request[q].send /\ ~request[q].complete
  BY <1>1, NoneBoots, OneCall DEF PinsInOrder, WorkerCalls
<1>3. SourceTypes'
  BY <1>1, ControlTyped DEF SourceTypes
<1>4. CallsAnsweredOnce' /\ OneAnswer' /\ HandlesKept' /\ Boots' /\ SourceQuiet'
  BY <1>1, <1>2 DEF CallsAnsweredOnce, OneAnswer, HandlesKept, ThreadExists, Boots, SourceQuiet
<1>5. PinsInOrder'
  <2>1. 1 \in SrcPins /\ \A q \in SrcPins : ~(q < 1)
    BY ControlTyped
  <2> QED BY <1>1, <1>2, <2>1, AliveKept DEF PinsInOrder
<1> QED BY <1>3, <1>4, <1>5 DEF SourceInv

LEMMA StreamInactiveStep ==
  ASSUME SourceInv, StreamInactive, NEW p \in SrcPins, control.pin = p
  PROVE  SourceInv'
<1>1. /\ SourceTypes /\ HandlesKept /\ PinsInOrder /\ control.pin = p
      /\ control.at = "inactivate" /\ filter.state = "paused" /\ filter' = filter /\ CallWorker(p, "stop")
      /\ pin' = [pin EXCEPT ![p].committed = FALSE]
  BY DEF StreamInactive, SourceInv, PinsInOrder
<1>2. "stop" \in WorkerCalls /\ control.at \notin WorkerCalls
  BY <1>1 DEF WorkerCalls
<1>3. /\ request' \in [SrcPins -> RequestRecords]
      /\ control' = [at |-> "stop", pin |-> p] /\ control'.at = "stop" /\ control'.pin = p
      /\ request'[p].send /\ request'[p].param = "stop"
      /\ \A q \in SrcPins : ~request'[q].complete
      /\ \A q \in SrcPins \ {p} : ~request'[q].send
  BY <1>1, <1>2, CallFacts
<1>4. pin' \in [SrcPins -> PinRecords]
  BY <1>1, Booleans, CommittedTyped, ControlTyped, Zenon
<1>5. /\ \A q \in SrcPins : pin'[q].worker = pin[q].worker /\ pin'[q].handle = pin[q].handle
      /\ ~pin'[p].committed
      /\ \A q \in SrcPins \ {p} : pin'[q] = pin[q]
  BY <1>1, ControlTyped DEF PinRecords
<1>6. /\ \A q \in SrcPins : Alive(q)' <=> Alive(q)
      /\ \A q \in SrcPins \ {p} : Clean(q)' <=> Clean(q)
      /\ \A q \in SrcPins : pin'[q].worker # "boot"
      /\ Alive(p) /\ pin'[p].worker # "dead"
  BY <1>1, <1>5, NoneBoots DEF Alive, Clean, PinsInOrder
<1>7. SourceTypes'
  BY <1>1, <1>3, <1>4 DEF SourceTypes, WorkerCalls
<1>8. CallsAnsweredOnce' /\ OneAnswer'
  BY <1>3, <1>6 DEF CallsAnsweredOnce, OneAnswer
<1>9. HandlesKept' /\ Boots' /\ SourceQuiet'
  BY <1>1, <1>3, <1>5, <1>6 DEF HandlesKept, ThreadExists, Boots, SourceQuiet
<1>10. PinsInOrder'
  <2>1. \A q \in SrcPins : q < p \/ q > p => q # p
    BY ControlTyped
  <2> QED BY <1>1, <1>3, <1>5, <1>6, <2>1 DEF PinsInOrder
<1> QED BY <1>7, <1>8, <1>9, <1>10 DEF SourceInv

LEMMA StopRepliedStep ==
  ASSUME SourceInv, StopReplied, NEW p \in SrcPins, control.pin = p
  PROVE  SourceInv'
<1>1. /\ SourceTypes /\ HandlesKept /\ PinsInOrder /\ control.pin = p
      /\ control.at = "stop" /\ filter.state = "paused" /\ filter' = filter /\ pin' = pin
      /\ request' = [request EXCEPT ![p].complete = FALSE, ![p].send = TRUE, ![p].param = "exit"]
      /\ control' = [at |-> "exit", pin |-> p] /\ control'.at = "exit" /\ control'.pin = p
      /\ Alive(p) /\ ~pin[p].committed
  BY ControlTyped DEF StopReplied, Waiting, SourceInv, PinsInOrder
<1>2. /\ \A q \in SrcPins \ {p} : ~request[q].send /\ ~request[q].complete
      /\ \A q \in SrcPins : pin[q].worker # "boot"
  BY <1>1, OneCall, NoneBoots
<1>3. request' \in [SrcPins -> RequestRecords]
  <2>1. "exit" \in WorkerCalls
    BY DEF WorkerCalls
  <2> QED BY <1>1, <2>1, Booleans, NextSentTyped, ControlTyped, Zenon
<1>4. /\ ~request'[p].complete /\ request'[p].send /\ request'[p].param = "exit"
      /\ \A q \in SrcPins \ {p} : request'[q] = request[q]
  BY <1>1, ControlTyped DEF RequestRecords
<1>5. SourceTypes'
  BY <1>1, <1>3 DEF SourceTypes, WorkerCalls
<1>6. CallsAnsweredOnce' /\ OneAnswer'
  BY <1>1, <1>2, <1>4 DEF CallsAnsweredOnce, OneAnswer, Alive
<1>7. HandlesKept' /\ Boots' /\ SourceQuiet'
  BY <1>1, <1>2 DEF HandlesKept, ThreadExists, Boots, SourceQuiet
<1>8. PinsInOrder'
  BY <1>1, AliveKept DEF PinsInOrder
<1> QED BY <1>5, <1>6, <1>7, <1>8 DEF SourceInv

LEMMA ExitRepliedStep ==
  ASSUME SourceInv, ExitReplied, NEW p \in SrcPins, control.pin = p
  PROVE  SourceInv'
<1>1. /\ SourceTypes /\ HandlesKept /\ PinsInOrder /\ control.pin = p
      /\ control.at = "exit" /\ filter.state = "paused" /\ filter' = filter /\ pin' = pin
      /\ control' = [at |-> "close", pin |-> p] /\ control'.at = "close" /\ control'.pin = p
      /\ ~pin[p].committed
  BY ControlTyped DEF ExitReplied, Waiting, SourceInv, PinsInOrder
<1>2. /\ request' \in [SrcPins -> RequestRecords]
      /\ \A q \in SrcPins : ~request'[q].complete /\ ~request'[q].send
  BY AnsweredAll DEF ExitReplied, Waiting
<1>3. \A q \in SrcPins : pin[q].worker # "boot"
  BY <1>1, NoneBoots
<1>4. SourceTypes'
  BY <1>1, <1>2 DEF SourceTypes
<1>5. CallsAnsweredOnce' /\ OneAnswer' /\ HandlesKept' /\ Boots' /\ SourceQuiet'
  BY <1>1, <1>2, <1>3 DEF CallsAnsweredOnce, OneAnswer, HandlesKept, ThreadExists, Boots, SourceQuiet
<1>6. PinsInOrder'
  BY <1>1, AliveKept DEF PinsInOrder
<1> QED BY <1>4, <1>5, <1>6 DEF SourceInv

LEMMA CloseStep ==
  ASSUME SourceInv, Close, NEW p \in SrcPins, control.pin = p
  PROVE  SourceInv'
<1>1. /\ SourceTypes /\ HandlesKept /\ PinsInOrder /\ control.pin = p /\ request' = request
      /\ control.at = "close" /\ pin[p].worker = "dead" /\ filter.state = "paused"
      /\ pin' = [pin EXCEPT ![p].handle = FALSE] /\ ~pin[p].committed
  BY DEF Close, SourceInv, PinsInOrder
<1>2. \A q \in SrcPins : pin[q].worker # "boot" /\ ~request[q].send /\ ~request[q].complete
  BY <1>1, NoneBoots, OneCall DEF WorkerCalls
<1>3. pin' \in [SrcPins -> PinRecords]
  BY <1>1, Booleans, HandleTyped, ControlTyped, Zenon
<1>4. /\ \A q \in SrcPins : pin'[q].worker = pin[q].worker
      /\ ~pin'[p].handle /\ ~pin'[p].committed
      /\ \A q \in SrcPins \ {p} : pin'[q] = pin[q]
  BY <1>1, ControlTyped DEF PinRecords
<1>5. /\ \A q \in SrcPins \ {p} : (Alive(q)' <=> Alive(q)) /\ (Clean(q)' <=> Clean(q))
      /\ Clean(p)'
  BY <1>1, <1>4 DEF Alive, Clean
<1>6. /\ \A q \in SrcPins : q <= p => Clean(q)'
      /\ \A q \in SrcPins : q > p => Alive(q)'
  <2>1. \A q \in SrcPins : (q <= p => q < p \/ q = p) /\ (q < p \/ q > p => q # p)
    BY ControlTyped
  <2> QED BY <1>1, <1>5, <2>1 DEF PinsInOrder
<1>7. HandlesKept'
  BY <1>1, <1>4 DEF HandlesKept, ThreadExists
<1>8. CallsAnsweredOnce' /\ OneAnswer'
  BY <1>1, <1>2 DEF CallsAnsweredOnce, OneAnswer
<1>9. CASE p < PinCount
  <2>1. PICK n \in SrcPins : n = p + 1
    BY <1>1, <1>9, ControlTyped
  <2>2. /\ control' = [at |-> "inactivate", pin |-> n] /\ control'.at = "inactivate" /\ control'.pin = n
        /\ filter' = filter
    BY <1>1, <1>9, <2>1 DEF Close
  <2>3. SourceTypes'
    BY <1>1, <1>3, <2>2 DEF SourceTypes
  <2>4. Boots' /\ SourceQuiet'
    BY <1>1, <1>2, <1>4, <2>2 DEF Boots, SourceQuiet
  <2>5. PinsInOrder'
    <3>1. \A q \in SrcPins : (q < n => q <= p) /\ (q >= n => q > p)
      BY <1>1, <2>1, ControlTyped
    <3>2. n \in Nat /\ \A q \in SrcPins : q \in Nat
      BY ControlTyped
    <3>3. /\ \A q \in SrcPins : q < n => Clean(q)'
          /\ Alive(n)'
          /\ \A q \in SrcPins : q > n => Alive(q)'
      BY <1>6, <3>1, <3>2
    <3> QED BY <1>1, <2>2, <3>3 DEF PinsInOrder
  <2> QED BY <1>7, <1>8, <2>3, <2>4, <2>5 DEF SourceInv
<1>10. CASE ~(p < PinCount)
  <2>1. /\ control' = [at |-> "idle", pin |-> 1] /\ control'.at = "idle" /\ control'.pin = 1
        /\ filter' = [state |-> "stopped", failed |-> filter.failed]
        /\ filter'.state = "stopped"
    BY <1>1, <1>10, ControlTyped DEF Close
  <2>2. SourceTypes'
    BY <1>1, <1>3, <2>1, ControlTyped DEF SourceTypes
  <2>3. \A q \in SrcPins : Clean(q)'
    <3>1. \A q \in SrcPins : q <= p
      BY <1>1, <1>10, ControlTyped
    <3> QED BY <1>6, <3>1
  <2>4. Boots' /\ SourceQuiet'
    BY <1>1, <1>2, <1>4, <2>1, <2>3 DEF Boots, SourceQuiet, Clean, ThreadExists
  <2>5. PinsInOrder'
    BY <2>1 DEF PinsInOrder
  <2> QED BY <1>7, <1>8, <2>2, <2>4, <2>5 DEF SourceInv
<1> QED BY <1>9, <1>10

\* The steps of a worker.
LEMMA InitialisesStep ==
  ASSUME SourceInv, NEW p \in SrcPins, Initialises(p) PROVE SourceInv'
<1>1. pin[p].worker = "boot" /\ request[p].send /\ UNCHANGED <<filter, control>> /\ pin[p].worker # "dead"
  BY DEF Initialises
<1>2. CASE Reply(p, TRUE) /\ Goes(p, "wait")
  BY <1>1, <1>2, Booleans, ReplyStep DEF Workers
<1>3. CASE Reply(p, FALSE) /\ Goes(p, "dead")
  BY <1>1, <1>3, Booleans, ReplyStep DEF Workers
<1> QED BY <1>2, <1>3 DEF Initialises

LEMMA CommandedStep ==
  ASSUME SourceInv, NEW p \in SrcPins, Commanded(p) PROVE SourceInv'
<1>1. pin[p].worker # "dead" /\ request[p].send /\ UNCHANGED <<filter, control>> /\ Reply(p, TRUE)
  BY DEF Commanded
<1>2. CASE request[p].param = "exit"
  <2>1. Goes(p, "dead")
    BY <1>2 DEF Commanded
  <2> QED BY <1>1, <1>2, <2>1, Booleans, ReplyStep DEF Workers
<1>3. CASE request[p].param = "stop"
  <2>1. Goes(p, "wait")
    BY <1>3 DEF Commanded
  <2> QED BY <1>1, <2>1, Booleans, ReplyStep DEF Workers
<1>4. CASE request[p].param \notin {"exit", "stop"}
  <2>1. Goes(p, "loop")
    BY <1>4 DEF Commanded
  <2> QED BY <1>1, <2>1, Booleans, ReplyStep DEF Workers
<1> QED BY <1>2, <1>3, <1>4

\* A worker that streams goes on streaming, or waits for its next command.
LEMMA StreamStep ==
  ASSUME SourceInv, NEW p \in SrcPins, NEW w \in Workers \ {"dead", "boot"}, NEW o \in Int,
         pin[p].worker \notin {"dead", "boot"},
         pin' = [pin EXCEPT ![p].worker = w, ![p].out = o],
         filter' = filter, control' = control, request' = request
  PROVE  SourceInv'
<1>1. pin \in [SrcPins -> PinRecords]
  BY ControlTyped
<1>2. SourceTypes'
  BY <1>1, TakenTyped DEF SourceInv, SourceTypes
<1>3. \A q \in SrcPins : /\ pin'[q].handle = pin[q].handle /\ pin'[q].committed = pin[q].committed
                         /\ pin'[q].worker = "dead" <=> pin[q].worker = "dead"
                         /\ pin'[q].worker = "boot" <=> pin[q].worker = "boot"
  <2>1. /\ pin'[p].worker = w /\ pin'[p].handle = pin[p].handle /\ pin'[p].committed = pin[p].committed
        /\ \A q \in SrcPins \ {p} : pin'[q] = pin[q]
    BY <1>1 DEF PinRecords
  <2> QED BY <2>1
<1> QED BY <1>2, <1>3, QuietStep

\* Moving the worker alone is moving it with the buffers it has.
LEMMA Moves ==
  ASSUME SourceInv, NEW p \in SrcPins, NEW w
  PROVE  /\ pin[p].out \in Int
         /\ [pin EXCEPT ![p].worker = w] = [pin EXCEPT ![p].worker = w, ![p].out = pin[p].out]
         /\ \A o : [pin EXCEPT ![p].out = o] = [pin EXCEPT ![p].worker = pin[p].worker, ![p].out = o]
<1>1. pin \in [SrcPins -> PinRecords]
  BY ControlTyped
<1> QED BY <1>1 DEF PinRecords

LEMMA ChecksRequestStep ==
  ASSUME SourceInv, NEW p \in SrcPins, ChecksRequest(p) PROVE SourceInv'
<1>1. pin[p].worker = "loop" /\ filter' = filter /\ control' = control
  BY DEF ChecksRequest
<1>2. CASE request[p].send /\ request[p].param # "stop"
  <2>1. Reply(p, TRUE) /\ Goes(p, "loop") /\ UNCHANGED <<filter, control>>
    BY <1>2 DEF ChecksRequest
  <2> QED BY <1>1, <1>2, <2>1, Booleans, ReplyStep DEF Workers
<1>3. CASE request[p].send /\ request[p].param = "stop"
  <2>1. request' = request /\ pin' = [pin EXCEPT ![p].worker = "wait", ![p].out = pin[p].out] /\ pin[p].out \in Int
    BY <1>3, Moves DEF ChecksRequest, Goes
  <2> QED BY <1>1, <2>1, StreamStep DEF Workers
<1>4. CASE ~request[p].send
  <2>1. request' = request /\ pin' = [pin EXCEPT ![p].worker = "buffer", ![p].out = pin[p].out] /\ pin[p].out \in Int
    BY <1>4, Moves DEF ChecksRequest, Goes
  <2> QED BY <1>1, <2>1, StreamStep DEF Workers
<1> QED BY <1>2, <1>3, <1>4

LEMMA PlainWorkers == {"wait", "loop", "buffer", "fill", "deliver"} \subseteq Workers \ {"dead", "boot"}
  BY DEF Workers

LEMMA Counted ==
  ASSUME SourceInv, NEW p \in SrcPins
  PROVE  pin[p].out \in Int /\ pin[p].out + 1 \in Int /\ pin[p].out - 1 \in Int
<1>1. pin[p].out \in Int
  BY Moves
<1> QED BY <1>1

LEMMA GetDeliveryBufferStep ==
  ASSUME SourceInv, NEW p \in SrcPins, GetDeliveryBuffer(p) PROVE SourceInv'
<1>1. pin[p].worker = "buffer" /\ filter' = filter /\ control' = control /\ request' = request
  BY DEF GetDeliveryBuffer
<1>2. pin[p].out \in Int /\ pin[p].out + 1 \in Int /\ pin[p].out - 1 \in Int
  BY Counted
<1>3. CASE pin[p].committed
  <2>1. pin' = [pin EXCEPT ![p].worker = "fill", ![p].out = pin[p].out + 1]
    BY <1>3, ControlTyped DEF GetDeliveryBuffer
  <2> QED BY <1>1, <1>2, <2>1, PlainWorkers, StreamStep, Zenon
<1>4. CASE ~pin[p].committed
  <2>1. pin' = [pin EXCEPT ![p].worker = "loop", ![p].out = pin[p].out]
    BY <1>4, ControlTyped DEF GetDeliveryBuffer
  <2> QED BY <1>1, <1>2, <2>1, PlainWorkers, StreamStep, Zenon
<1> QED BY <1>3, <1>4

LEMMA FillBufferStep ==
  ASSUME SourceInv, NEW p \in SrcPins, FillBuffer(p) PROVE SourceInv'
<1>1. pin[p].worker = "fill" /\ filter' = filter /\ control' = control /\ request' = request
  BY DEF FillBuffer
<1>2. pin[p].out \in Int /\ pin[p].out + 1 \in Int /\ pin[p].out - 1 \in Int
  BY Counted
<1>3. CASE pin' = [pin EXCEPT ![p].worker = "deliver"]
  <2>1. pin' = [pin EXCEPT ![p].worker = "deliver", ![p].out = pin[p].out]
    BY <1>3, Moves
  <2> QED BY <1>1, <1>2, <2>1, PlainWorkers, StreamStep, Zenon
<1>4. CASE pin' = [pin EXCEPT ![p].worker = "wait", ![p].out = @ - 1]
  <2>1. pin' = [pin EXCEPT ![p].worker = "wait", ![p].out = pin[p].out - 1]
    BY <1>4, ControlTyped
  <2> QED BY <1>1, <1>2, <2>1, PlainWorkers, StreamStep, Zenon
<1> QED BY <1>3, <1>4 DEF FillBuffer

LEMMA DeliverStep ==
  ASSUME SourceInv, NEW p \in SrcPins, Deliver(p) PROVE SourceInv'
<1>1. pin[p].worker = "deliver" /\ filter' = filter /\ control' = control /\ request' = request
  BY DEF Deliver
<1>2. pin[p].out \in Int
  BY Moves
<1>3. PICK held \in 0..1, next \in {"loop", "wait"} : pin' = [pin EXCEPT ![p].worker = next, ![p].out = @ - 1 + held]
  BY DEF Deliver
<1>4. pin' = [pin EXCEPT ![p].worker = next, ![p].out = pin[p].out - 1 + held]
  BY <1>3, ControlTyped
<1>5. pin[p].out - 1 + held \in Int /\ next \in Workers \ {"dead", "boot"}
  BY <1>2 DEF Workers
<1> QED BY <1>1, <1>4, <1>5, StreamStep

LEMMA ReceiverReleasesStep ==
  ASSUME SourceInv, NEW p \in SrcPins, ReceiverReleases(p) PROVE SourceInv'
<1>1. /\ pin' = [pin EXCEPT ![p].out = @ - 1]
      /\ filter' = filter /\ control' = control /\ request' = request
  BY DEF ReceiverReleases
<1>2. pin \in [SrcPins -> PinRecords] /\ pin[p].out - 1 \in Int
  BY ControlTyped, Counted
<1>3. pin' = [pin EXCEPT ![p].out = pin[p].out - 1]
  BY <1>1, <1>2
<1>4. SourceTypes'
  BY <1>1, <1>2, <1>3, OutTyped DEF SourceInv, SourceTypes
<1>5. \A q \in SrcPins : /\ pin'[q].handle = pin[q].handle /\ pin'[q].committed = pin[q].committed
                         /\ pin'[q].worker = "dead" <=> pin[q].worker = "dead"
                         /\ pin'[q].worker = "boot" <=> pin[q].worker = "boot"
  BY <1>2, <1>3 DEF PinRecords
<1> QED BY <1>1, <1>4, <1>5, QuietStep

LEMMA SourceStutter ==
  ASSUME SourceInv, UNCHANGED srcvars PROVE SourceInv'
  BY DEF srcvars, SourceInv, SourceTypes, CallsAnsweredOnce, OneAnswer, HandlesKept, ThreadExists, Boots,
         PinsInOrder, SourceQuiet, Alive, Clean

LEMMA SourceInitInv == SourceInit => SourceInv
<1> SUFFICES ASSUME SourceInit PROVE SourceInv
  OBVIOUS
<1>1. /\ \A q \in SrcPins : Clean(q) /\ ~request[q].send /\ ~request[q].complete
      /\ control.at = "idle" /\ control.pin = 1 /\ filter.state = "stopped" /\ 1 \in SrcPins
  BY SourceBounds DEF SourceInit, SrcPins, Clean
<1>2. SourceTypes
  BY <1>1 DEF SourceInit, SourceTypes, PinRecords, RequestRecords
<1>3. CallsAnsweredOnce /\ HandlesKept /\ OneAnswer /\ Boots /\ PinsInOrder /\ SourceQuiet
  BY <1>1 DEF CallsAnsweredOnce, OneAnswer, HandlesKept, ThreadExists, Boots, PinsInOrder, SourceQuiet, Clean
<1> QED BY <1>2, <1>3 DEF SourceInv

LEMMA SourceStep ==
  ASSUME SourceInv, [SourceNext]_srcvars PROVE SourceInv'
<1>1. PICK p \in SrcPins : p = control.pin
  BY ControlTyped
<1>2. CASE Pause \/ StreamActive \/ InitReplied \/ PauseReplied \/ RunReplied
  BY <1>1, <1>2, PauseStep, StreamActiveStep, InitRepliedStep, PauseRepliedStep, RunRepliedStep
<1>3. CASE Stop \/ StreamInactive \/ StopReplied \/ ExitReplied \/ Close
  BY <1>1, <1>3, StopStep, StreamInactiveStep, StopRepliedStep, ExitRepliedStep, CloseStep
<1>4. ASSUME NEW q \in SrcPins,
             RunPin(q) \/ Initialises(q) \/ Commanded(q) \/ ChecksRequest(q) \/ GetDeliveryBuffer(q)
                       \/ FillBuffer(q) \/ Deliver(q) \/ ReceiverReleases(q)
      PROVE  SourceInv'
  BY <1>4, RunPinStep, InitialisesStep, CommandedStep, ChecksRequestStep, GetDeliveryBufferStep, FillBufferStep,
     DeliverStep, ReceiverReleasesStep
<1> QED BY <1>2, <1>3, <1>4, SourceStutter DEF SourceNext

\* CSource and CSourceStream, for any number of pins: when Stop has returned, no worker streams and no allocator is
\* committed, every call to a worker is answered once and by a worker that lives, and the thread that stops the filter
\* never waits for a worker that waits for a buffer.
THEOREM SourceStops == SourceSpec => []SourceSafe
<1>1. SourceInv /\ [SourceNext]_srcvars => SourceInv'
  BY SourceStep
<1>2. SourceInv => SourceSafe
  BY DEF SourceInv, SourceSafe, WorkerNotHeld, PinsInOrder, SourceTypes
<1> QED BY <1>1, <1>2, SourceInitInv, PTL DEF SourceSpec

-----------------------------------------------------------------------------
(* A pin that pulls.                                                       *)

Reads == [from : Int, to : Int, ok : BOOLEAN]

\* Where the worker is inside Process, and where it waits for nothing but its next command.
InProcess == {"loop", "buffer", "ask", "collect", "deliver", "eos"}
Resting == {"flush", "unflush", "request"}

PullRecords == [start : Nat, stop : Nat, state : {"exit", "start", "pause"}, sync : BOOLEAN, committed : BOOLEAN,
                flushing : BOOLEAN, seeks : Nat]
ClientRecords == [at : {"idle", "starting", "pausing", "paused", "exiting"}, to : Nat \X Nat]
CallRecords == [cmd : {"none", "start", "pause", "exit"}, answered : BOOLEAN]
WorkerRecords == [at : {"none", "process"} \cup InProcess \cup Resting, cur : Int, sample : Seq(Reads), start : Int,
                  stop : Int, extra : BOOLEAN]
ReaderRecords == [pending : Seq(Reads), done : Seq(Reads), flushing : BOOLEAN]
HeardRecords == [next : Int, whole : BOOLEAN, eos : BOOLEAN, refused : BOOLEAN]

PullTypes ==
    /\ pull \in PullRecords /\ client \in ClientRecords /\ call \in CallRecords
    /\ worker \in WorkerRecords /\ reader \in ReaderRecords /\ heard \in HeardRecords

\* What the calling thread waits for says what the worker may be doing.
CallsInOrder ==
    /\ client.at \in {"idle", "pausing"} => call.cmd = "none"
    /\ client.at = "starting" => call.cmd = "start"
    /\ client.at = "paused" => call.cmd = "pause"
    /\ client.at = "exiting" => call.cmd = "exit"
    /\ pull.flushing <=> client.at \in {"pausing", "paused"}
    /\ pull.state = "start" <=> client.at \in {"starting", "pausing"} \/ (client.at = "idle" /\ worker.at # "none")
    /\ client.at \in {"starting", "pausing", "paused"} => worker.at # "none"
    /\ client.at = "exiting" => (call.answered <=> worker.at = "none")
    /\ client.at = "starting" /\ ~call.answered => worker.at \in Resting /\ heard = NewStream
    /\ client.at = "paused" /\ call.answered => worker.at \in Resting

\* A reader that the caller has flushed stays so until the worker has seen it.
FlushReaches == client.at \in {"paused", "exiting"} /\ worker.at \in InProcess \cup {"process"} => reader.flushing

\* Each place has a sample at hand or not, and the reader is empty where nothing was asked of it.
HandsKnown ==
    /\ IF worker.at \in {"ask", "deliver"} THEN Len(worker.sample) = 1 ELSE worker.sample = <<>>
    /\ worker.at \in {"none", "request", "unflush", "process", "loop"} \/ pull.sync =>
         reader.pending = <<>> /\ reader.done = <<>>
    /\ worker.at = "collect" => ~pull.sync

\* The reads at the reader, oldest first.
Asked == Len(reader.done) + Len(reader.pending)
Nth(d, p, i) == IF i <= Len(d) THEN d[i] ELSE p[i - Len(d)]
Read(i) == Nth(reader.done, reader.pending, i)

Aligned(x) == \E k \in Int : x = k * Align

\* Where the reads at the reader begin and where they end.
First == IF Asked = 0 THEN IF worker.at = "ask" THEN worker.sample[1].from ELSE worker.cur ELSE Read(1).from
Begun == IF worker.at = "deliver" THEN worker.sample[1].from ELSE First
Ended == IF worker.at = "ask" THEN worker.sample[1].from ELSE worker.cur

Whole(x) == Aligned(x.from) /\ Aligned(x.to) /\ x.from < x.to /\ x.to <= AlignStop

\* From the sample at hand to the last one asked for, each read begins where the one before it ends.
ReadsChained ==
    worker.at \in InProcess \ {"eos"} =>
        /\ Aligned(worker.start) /\ Aligned(worker.cur)
        /\ worker.at # "loop" => worker.cur <= AlignStop /\ worker.start < AlignStop
        /\ worker.at = "buffer" => worker.cur < AlignStop
        /\ \A i \in 1..Asked : Whole(Read(i))
        /\ \A i \in 1..Asked : \A j \in 1..Asked : j = i + 1 => Read(i).to = Read(j).from
        /\ Asked # 0 => Read(Asked).to = Ended
        /\ worker.at = "deliver" => Whole(worker.sample[1]) /\ worker.sample[1].to = First
        /\ worker.at = "ask" => Whole(worker.sample[1]) /\ worker.sample[1].to = worker.cur

\* How far the receiver is when it has got everything before x.
Reach(x) == IF worker.start < PullStop THEN Least(x, PullStop) - worker.start ELSE 0

\* The range is that of the last Seek, and outside a flush the receiver has what was read.
HeardSoFar ==
    /\ worker.at \in InProcess => worker.start = AlignDown(pull.start) /\ worker.stop = pull.stop
    /\ worker.at \in InProcess \ {"eos"} => pull.start < pull.stop /\ worker.start <= worker.cur
    /\ ~pull.flushing /\ worker.at = "process" => heard = NewStream
    /\ ~pull.flushing /\ worker.at \in InProcess => ~heard.eos
    /\ ~pull.flushing /\ worker.at \in InProcess \ {"eos"} => heard.next = Reach(Begun)
    /\ ~pull.flushing /\ worker.at = "eos" => heard.refused \/ heard.next = RangeLength
    /\ heard.whole

PullInv == PullTypes /\ CallsInOrder /\ FlushReaches /\ HandsKnown /\ ReadsChained /\ HeardSoFar

\* Multiples of the alignment.
LEMMA AlignedUp ==
  ASSUME NEW x \in Int
  PROVE  /\ AlignUp(x) \in Int /\ AlignDown(x) \in Int
         /\ Aligned(AlignUp(x)) /\ Aligned(AlignDown(x))
         /\ AlignDown(x) <= x /\ x <= AlignUp(x)
         /\ \A y \in Int : Aligned(y) /\ y < AlignUp(x) => y < x
<1>1. Align \in Nat \ {0}
  BY PullBounds
<1>2. ASSUME NEW z \in Int
      PROVE  z \div Align \in Int /\ (z \div Align) * Align <= z /\ z < (z \div Align) * Align + Align
  BY <1>1
<1> DEFINE up == (x + Align - 1) \div Align
           down == x \div Align
<1>3. up \in Int /\ up * Align <= x + Align - 1 /\ x + Align - 1 < up * Align + Align
  BY <1>1, <1>2
<1>4. down \in Int /\ down * Align <= x
  BY <1>2
<1>5. AlignUp(x) = up * Align /\ AlignDown(x) = down * Align
  BY DEF AlignUp, AlignDown
<1> HIDE DEF up, down
<1>6. up * Align \in Int /\ down * Align \in Int
  BY <1>1, <1>3, <1>4
<1>7. ASSUME NEW y \in Int, Aligned(y), y < up * Align
      PROVE  y < x
  <2>1. PICK k \in Int : y = k * Align
    BY <1>7 DEF Aligned
  <2>2. k < up
    BY <1>1, <1>3, <1>7, <2>1
  <2>3. k + 1 <= up
    BY <1>3, <2>2
  <2>4. (k + 1) * Align <= up * Align
    BY <1>1, <1>3, <2>3
  <2>5. (k + 1) * Align = y + Align
    BY <1>1, <2>1
  <2> QED BY <1>1, <1>3, <1>6, <2>4, <2>5
<1> QED BY <1>1, <1>3, <1>4, <1>5, <1>6, <1>7 DEF Aligned

LEMMA AlignedSum ==
  ASSUME NEW x \in Int, NEW y \in Int, Aligned(x), Aligned(y)
  PROVE  Aligned(Least(x + SampleSize, y)) /\ Least(x + SampleSize, y) \in Int
<1>1. Align \in Nat \ {0} /\ SampleSize \in Nat /\ SampleSize % Align = 0
  BY PullBounds
<1>2. PICK k \in Int : x = k * Align
  BY DEF Aligned
<1>3. PICK m \in Int : SampleSize = m * Align
  BY <1>1
<1>4. x + SampleSize = (k + m) * Align
  BY <1>1, <1>2, <1>3
<1>5. Aligned(x + SampleSize)
  BY <1>4 DEF Aligned
<1> QED BY <1>1, <1>5 DEF Least

LEMMA Joined ==
  ASSUME NEW s \in Seq(Reads), NEW t \in Seq(Reads)
  PROVE  /\ s \o t \in Seq(Reads) /\ Len(s \o t) = Len(s) + Len(t)
         /\ \A i \in 1..Len(s) : (s \o t)[i] = s[i]
         /\ \A i \in 1..Len(t) : (s \o t)[Len(s) + i] = t[i]
  OBVIOUS

LEMMA Within ==
  ASSUME NEW a \in Nat, NEW b \in Nat
  PROVE  \A i \in 1..(a + b) : i \in Int /\ 1 <= i /\ (i <= a \/ (i > a /\ i - a \in 1..b))
  OBVIOUS

LEMMA ReadTypes ==
  ASSUME PullTypes
  PROVE  /\ Asked \in Nat /\ Len(reader.done) \in Nat /\ Len(reader.pending) \in Nat
         /\ Asked = Len(reader.done) + Len(reader.pending)
         /\ \A i \in 1..Asked : Read(i) \in Reads
         /\ reader.done \in Seq(Reads) /\ reader.pending \in Seq(Reads) /\ worker.sample \in Seq(Reads)
         /\ worker.cur \in Int /\ worker.start \in Int /\ worker.stop \in Int
<1>1. reader.done \in Seq(Reads) /\ reader.pending \in Seq(Reads)
  BY DEF PullTypes, ReaderRecords
<1>2. Len(reader.done) \in Nat /\ Len(reader.pending) \in Nat
  BY <1>1
<1>3. ASSUME NEW i \in 1..Asked PROVE Read(i) \in Reads
  <2>1. CASE i <= Len(reader.done)
    BY <1>1, <1>2, <2>1 DEF Asked, Read, Nth
  <2>2. CASE i > Len(reader.done)
    <3>1. i \in 1..Asked
      OBVIOUS
    <3>2. i \in 1..(Len(reader.done) + Len(reader.pending))
      BY <3>1 DEF Asked
    <3>3. i \in Int /\ (i <= Len(reader.done) \/ i - Len(reader.done) \in 1..Len(reader.pending))
      BY <1>2, <3>2, Within
    <3>4. i - Len(reader.done) \in 1..Len(reader.pending)
      BY <1>2, <2>2, <3>3
    <3> QED BY <1>1, <1>2, <2>2, <3>3, <3>4 DEF Read, Nth
  <2> QED BY <1>2, <2>1, <2>2 DEF Asked
<1>4. worker.sample \in Seq(Reads) /\ worker.cur \in Int /\ worker.start \in Int /\ worker.stop \in Int
  BY DEF PullTypes, WorkerRecords
<1>5. Asked = Len(reader.done) + Len(reader.pending)
  BY DEF Asked
<1>6. Asked \in Nat
  <2>0. \A a, b \in Nat : a + b \in Nat
    OBVIOUS
  <2>1. Len(reader.done) + Len(reader.pending) \in Nat
    BY <1>2, <2>0
  <2> QED BY <1>5, <2>1
<1> QED BY <1>1, <1>2, <1>3, <1>4, <1>5, <1>6

\* What leaves the worker alone and the ranges at the reader as they are.
LEMMA SameReads ==
  ASSUME PullTypes, ReadsChained, worker' = worker, Asked' = Asked,
         \A i \in 1..Asked : Read(i)'.from = Read(i).from /\ Read(i)'.to = Read(i).to
  PROVE  ReadsChained' /\ First' = First /\ Begun' = Begun
<1>1. Asked \in Nat /\ AlignStop' = AlignStop
  BY ReadTypes DEF AlignStop, PullStop
<1>2. First' = First
  BY <1>1 DEF First
<1>3. Begun' = Begun /\ Ended' = Ended
  BY <1>2 DEF Begun, Ended
<1>4. \A i \in 1..Asked : Whole(Read(i)) => Whole(Read(i))'
  BY <1>1 DEF Whole
<1>5. Whole(worker.sample[1])' <=> Whole(worker.sample[1])
  BY <1>1 DEF Whole
<1>6. ReadsChained'
  <2> SUFFICES ASSUME worker.at \in InProcess \ {"eos"} PROVE ReadsChained!2'
    BY DEF ReadsChained
  <2>1. ReadsChained!2
    BY DEF ReadsChained
  <2>2. Asked # 0 => Asked \in 1..Asked
    BY <1>1
  <2> QED BY <1>1, <1>2, <1>3, <1>4, <1>5, <2>1, <2>2
<1> QED BY <1>2, <1>3, <1>6

LEMMA Untouched ==
  ASSUME PullTypes, ReadsChained, worker' = worker,
         reader'.done = reader.done, reader'.pending = reader.pending
  PROVE  /\ ReadsChained' /\ First' = First /\ Begun' = Begun
         /\ (HandsKnown /\ pull'.sync = pull.sync => HandsKnown')
<1>1. Asked' = Asked /\ \A i \in 1..Asked : Read(i)' = Read(i)
  BY DEF Asked, Read, Nth
<1>2. HandsKnown /\ pull'.sync = pull.sync => HandsKnown'
  BY DEF HandsKnown
<1> QED BY <1>1, <1>2, SameReads

\* A flush of the reader answers every read that is left, with no data.
LEMMA CancelledReads ==
  ASSUME PullTypes, ReadsChained, HandsKnown, worker' = worker, pull'.sync = pull.sync, reader' = Cancelled(reader)
  PROVE  /\ reader' \in ReaderRecords /\ reader'.flushing
         /\ ReadsChained' /\ First' = First /\ Begun' = Begun /\ HandsKnown'
<1> DEFINE p == reader.pending
           d == reader.done
           c == [i \in DOMAIN p |-> [p[i] EXCEPT !.ok = FALSE]]
<1>1. p \in Seq(Reads) /\ d \in Seq(Reads) /\ Len(p) \in Nat /\ Len(d) \in Nat
  BY ReadTypes
<1>2. c \in Seq(Reads) /\ Len(c) = Len(p) /\ \A i \in 1..Len(p) : c[i].from = p[i].from /\ c[i].to = p[i].to
  <2>1. \A x \in Reads : [x EXCEPT !.ok = FALSE] \in Reads /\ [x EXCEPT !.ok = FALSE].from = x.from
                                                           /\ [x EXCEPT !.ok = FALSE].to = x.to
    BY DEF Reads
  <2>2. \A i \in 1..Len(p) : p[i] \in Reads
    BY <1>1
  <2>3. DOMAIN p = 1..Len(p)
    BY <1>1
  <2>4. c = [i \in 1..Len(p) |-> [p[i] EXCEPT !.ok = FALSE]]
    BY <2>3
  <2> HIDE DEF c, p
  <2>5. \A i \in 1..Len(p) : c[i] \in Reads /\ c[i].from = p[i].from /\ c[i].to = p[i].to
    BY <2>1, <2>2, <2>4
  <2>6. c \in [1..Len(p) -> Reads]
    BY <2>4, <2>5
  <2> QED BY <1>1, <2>5, <2>6
<1>3. reader'.pending = <<>> /\ reader'.done = d \o c /\ reader'.flushing
  BY DEF Cancelled, PullTypes, ReaderRecords
<1> HIDE DEF p, d, c
<1>4. /\ d \o c \in Seq(Reads) /\ Len(d \o c) = Len(d) + Len(p)
      /\ \A i \in 1..Len(d) : (d \o c)[i] = d[i]
      /\ \A i \in 1..Len(p) : (d \o c)[Len(d) + i] = c[i]
  <2>1. \A i \in 1..Len(c) : (d \o c)[Len(d) + i] = c[i]
    BY <1>1, <1>2, Joined
  <2> QED BY <1>1, <1>2, <2>1, Joined
<1>5. reader' \in ReaderRecords
  <2>1. reader' = [pending |-> <<>>, done |-> d \o c, flushing |-> TRUE]
    BY DEF Cancelled, PullTypes, ReaderRecords, p, d, c
  <2> QED BY <1>4, <2>1 DEF ReaderRecords
<1>6. Asked' = Asked
  BY <1>1, <1>3, <1>4 DEF Asked, p, d
<1>7. ASSUME NEW i \in 1..Asked
      PROVE  Read(i)'.from = Read(i).from /\ Read(i)'.to = Read(i).to
  <2>0. i \in 1..Asked
    OBVIOUS
  <2>1. i \in 1..(Len(d) + Len(p)) /\ i \in Int
    BY <1>1, <2>0, Within DEF Asked, p, d
  <2>4. Read(i)' = (d \o c)[i]
    <3>1. i <= Len(reader'.done)
      BY <1>3, <1>4, <2>1
    <3> QED BY <1>3, <3>1 DEF Read, Nth
  <2>2. CASE i <= Len(d)
    BY <1>4, <2>1, <2>2, <2>4 DEF Read, Nth, d
  <2>3. CASE i > Len(d)
    <3>1. PICK j \in 1..Len(p) : i = Len(d) + j
      <4>1. i - Len(d) \in 1..Len(p) /\ i = Len(d) + (i - Len(d))
        BY <1>1, <2>1, <2>3
      <4> QED BY <4>1
    <3>2. Read(i) = p[j]
      BY <1>1, <3>1 DEF Read, Nth, p, d
    <3> QED BY <1>2, <1>4, <2>4, <3>1, <3>2
  <2> QED BY <1>1, <2>1, <2>2, <2>3
<1>8. HandsKnown'
  <2>1. pull.sync => c = <<>> /\ d = <<>>
    BY <1>1, <1>2 DEF HandsKnown, p, d
  <2>2. p = <<>> /\ d = <<>> => d \o c = <<>>
    BY <1>1, <1>2
  <2> QED BY <1>3, <2>1, <2>2 DEF HandsKnown, p, d
<1>9. ReadsChained' /\ First' = First /\ Begun' = Begun
  <2> HIDE DEF HandsKnown
  <2> QED BY <1>6, <1>7, SameReads
<1> QED BY <1>3, <1>5, <1>8, <1>9

LEMMA HeardSame ==
  ASSUME HeardSoFar, worker' = worker, heard' = heard, pull'.start = pull.start, pull'.stop = pull.stop,
         pull'.flushing \/ ~pull.flushing, Begun' = Begun
  PROVE  HeardSoFar'
<1>1. \A x : Reach(x)' = Reach(x)
  BY DEF Reach, PullStop
<1>2. RangeLength' = RangeLength /\ AlignStop' = AlignStop
  BY DEF RangeLength, PullStop, AlignStop
<1>3. Reach(Begun)' = Reach(Begun)
  BY DEF Reach, PullStop
<1> QED BY <1>2, <1>3 DEF HeardSoFar

LEMMA PullTyped ==
  ASSUME NEW x \in PullRecords, NEW b \in BOOLEAN, NEW c \in {"exit", "start", "pause"}
  PROVE  /\ [x EXCEPT !.state = c] \in PullRecords
         /\ [x EXCEPT !.committed = b] \in PullRecords
         /\ [x EXCEPT !.state = c, !.committed = b] \in PullRecords
  BY DEF PullRecords

LEMMA SoughtTyped ==
  ASSUME NEW x \in PullRecords, NEW b \in BOOLEAN, NEW n \in Nat, NEW k \in Nat, NEW m \in Nat
  PROVE  /\ [x EXCEPT !.seeks = n, !.flushing = b] \in PullRecords
         /\ [x EXCEPT !.start = k, !.stop = m] \in PullRecords
         /\ [x EXCEPT !.seeks = n, !.start = k, !.stop = m] \in PullRecords
<1>1. \A z \in PullRecords : [z EXCEPT !.start = k, !.stop = m] \in PullRecords
  BY DEF PullRecords
<1>2. \A z \in PullRecords : [z EXCEPT !.seeks = n, !.flushing = b] \in PullRecords /\ [z EXCEPT !.seeks = n] \in PullRecords
  BY DEF PullRecords
<1> DEFINE y == [x EXCEPT !.seeks = n]
<1>3. [x EXCEPT !.seeks = n, !.start = k, !.stop = m] = [y EXCEPT !.start = k, !.stop = m]
  OBVIOUS
<1>4. y \in PullRecords
  BY <1>2
<1> HIDE DEF y
<1> QED BY <1>1, <1>2, <1>3, <1>4

LEMMA RestartTyped ==
  ASSUME NEW x \in PullRecords, NEW b \in BOOLEAN, NEW c \in {"exit", "start", "pause"}, NEW k \in Nat, NEW m \in Nat
  PROVE  [x EXCEPT !.state = c, !.flushing = b, !.start = k, !.stop = m] \in PullRecords
<1>1. [x EXCEPT !.state = c, !.flushing = b] \in PullRecords
  BY DEF PullRecords
<1> DEFINE y == [x EXCEPT !.state = c, !.flushing = b]
<1>2. [x EXCEPT !.state = c, !.flushing = b, !.start = k, !.stop = m] = [y EXCEPT !.start = k, !.stop = m]
  OBVIOUS
<1>3. y \in PullRecords
  BY <1>1
<1> HIDE DEF y
<1>4. \A z \in PullRecords : [z EXCEPT !.start = k, !.stop = m] \in PullRecords
  BY DEF PullRecords
<1> QED BY <1>2, <1>3, <1>4

LEMMA ClientTyped ==
  ASSUME NEW x \in ClientRecords, NEW a \in {"idle", "starting", "pausing", "paused", "exiting"}
  PROVE  [x EXCEPT !.at = a] \in ClientRecords /\ [x EXCEPT !.at = a].at = a /\ [x EXCEPT !.at = a].to = x.to
  BY DEF ClientRecords

LEMMA CallTyped ==
  ASSUME NEW c \in {"none", "start", "pause", "exit"}, NEW b \in BOOLEAN
  PROVE  [cmd |-> c, answered |-> b] \in CallRecords
  BY DEF CallRecords

LEMMA ReaderTyped ==
  ASSUME NEW x \in ReaderRecords, NEW b \in BOOLEAN, NEW p \in Seq(Reads), NEW d \in Seq(Reads)
  PROVE  /\ [x EXCEPT !.flushing = b] \in ReaderRecords /\ [x EXCEPT !.pending = p] \in ReaderRecords
         /\ [x EXCEPT !.done = d] \in ReaderRecords /\ [x EXCEPT !.pending = p, !.done = d] \in ReaderRecords
         /\ [x EXCEPT !.pending = p, !.done = d, !.flushing = b] \in ReaderRecords
<1>1. [x EXCEPT !.flushing = b] \in ReaderRecords /\ [x EXCEPT !.pending = p] \in ReaderRecords
      /\ [x EXCEPT !.done = d] \in ReaderRecords
  BY DEF ReaderRecords
<1>2. [x EXCEPT !.pending = p, !.done = d] \in ReaderRecords
  BY DEF ReaderRecords
<1> DEFINE y == [x EXCEPT !.pending = p, !.done = d]
<1>3. [x EXCEPT !.pending = p, !.done = d, !.flushing = b] = [y EXCEPT !.flushing = b]
  OBVIOUS
<1>4. \A z \in ReaderRecords : [z EXCEPT !.flushing = b] \in ReaderRecords
  BY DEF ReaderRecords
<1> HIDE DEF y
<1>5. y \in ReaderRecords
  BY <1>2 DEF y
<1> QED BY <1>1, <1>2, <1>3, <1>4, <1>5

Places == {"none", "process"} \cup InProcess \cup Resting

LEMMA PlaceTyped ==
  ASSUME NEW x \in WorkerRecords, NEW a \in Places, NEW s \in Seq(Reads)
  PROVE  [x EXCEPT !.at = a] \in WorkerRecords /\ [x EXCEPT !.at = a, !.sample = s] \in WorkerRecords
         /\ [x EXCEPT !.sample = s] \in WorkerRecords
  BY DEF WorkerRecords, Places

LEMMA StampTyped ==
  ASSUME NEW x \in WorkerRecords, NEW a \in Places, NEW s \in Seq(Reads), NEW n \in Int
  PROVE  [x EXCEPT !.at = a, !.cur = n, !.sample = s] \in WorkerRecords
<1> DEFINE y == [x EXCEPT !.at = a, !.sample = s]
<1>1. [x EXCEPT !.at = a, !.cur = n, !.sample = s] = [y EXCEPT !.cur = n]
  OBVIOUS
<1>2. y \in WorkerRecords
  BY PlaceTyped
<1> HIDE DEF y
<1> QED BY <1>1, <1>2 DEF WorkerRecords

LEMMA AskTyped ==
  ASSUME NEW x \in WorkerRecords, NEW a \in Places, NEW s \in Seq(Reads), NEW b \in BOOLEAN
  PROVE  [x EXCEPT !.sample = s, !.extra = b, !.at = a] \in WorkerRecords
<1> DEFINE y == [x EXCEPT !.at = a, !.sample = s]
<1>1. [x EXCEPT !.sample = s, !.extra = b, !.at = a] = [y EXCEPT !.extra = b]
  OBVIOUS
<1>2. y \in WorkerRecords
  BY PlaceTyped
<1> HIDE DEF y
<1> QED BY <1>1, <1>2 DEF WorkerRecords

LEMMA RangeTyped ==
  ASSUME NEW x \in WorkerRecords, NEW a \in Places, NEW n \in Int, NEW m \in Int, NEW k \in Int
  PROVE  [x EXCEPT !.at = a, !.cur = n, !.start = m, !.stop = k, !.extra = FALSE] \in WorkerRecords
<1> DEFINE y == [x EXCEPT !.at = a]
           z == [y EXCEPT !.cur = n, !.start = m]
<1>1. [x EXCEPT !.at = a, !.cur = n, !.start = m, !.stop = k, !.extra = FALSE] = [z EXCEPT !.stop = k, !.extra = FALSE]
  OBVIOUS
<1>2. y \in WorkerRecords
  BY DEF WorkerRecords, Places
<1> HIDE DEF y
<1>3. z \in WorkerRecords
  BY <1>2 DEF WorkerRecords
<1> HIDE DEF z
<1> QED BY <1>1, <1>3 DEF WorkerRecords

\* A buffer is stamped with integers, and what the reader still has stays a sequence of reads.
LEMMA TypesKept ==
  ASSUME PullInv, PullStep
  PROVE  PullTypes'
<1>1. /\ pull \in PullRecords /\ client \in ClientRecords /\ call \in CallRecords
      /\ worker \in WorkerRecords /\ reader \in ReaderRecords /\ heard \in HeardRecords
  BY DEF PullInv, PullTypes
<1>2. /\ reader.done \in Seq(Reads) /\ reader.pending \in Seq(Reads) /\ worker.sample \in Seq(Reads)
      /\ worker.cur \in Int /\ worker.start \in Int /\ worker.stop \in Int
  BY ReadTypes DEF PullInv
<1>3. /\ <<>> \in Seq(Reads) /\ NewStream \in HeardRecords /\ NoCall \in CallRecords
      /\ TRUE \in BOOLEAN /\ FALSE \in BOOLEAN
  BY DEF NewStream, HeardRecords, NoCall, CallRecords
<1>4. pull.start \in Nat /\ pull.stop \in Nat /\ pull.seeks + 1 \in Nat /\ client.to[1] \in Nat /\ client.to[2] \in Nat
  BY <1>1 DEF PullRecords, ClientRecords
<1> DEFINE Moved == {"none", "process", "loop", "buffer", "collect", "deliver", "ask", "eos", "flush", "unflush", "request"}
<1>0. \A a \in Moved : a \in Places
  BY DEF Places, InProcess, Resting
<1>30. \A a \in Moved : [worker EXCEPT !.at = a] \in WorkerRecords
  BY <1>0, <1>1, <1>2, PlaceTyped
<1>31. \A a \in Moved : \A s \in Seq(Reads) : [worker EXCEPT !.at = a, !.sample = s] \in WorkerRecords
  BY <1>0, <1>1, PlaceTyped
<1>5. CASE PullActive
  <2>1. [pull EXCEPT !.state = "start", !.committed = TRUE] \in PullRecords
    BY <1>1, PullTyped
  <2>2. [worker EXCEPT !.at = "request"] \in WorkerRecords
    BY <1>30
  <2>3. [client EXCEPT !.at = "starting"] \in ClientRecords /\ [cmd |-> "start", answered |-> FALSE] \in CallRecords
    BY <1>1, ClientTyped, CallTyped
  <2> QED BY <1>1, <1>3, <1>5, <2>1, <2>2, <2>3 DEF PullTypes, PullActive, Calls
<1>6. CASE PullInactive
  <2>1. [pull EXCEPT !.state = "exit"] \in PullRecords
    BY <1>1, <1>3, PullTyped
  <2>2. reader' \in ReaderRecords
    BY <1>6, CancelledReads DEF PullInactive, Calls, PullInv, PullRecords, PullTypes
  <2>3. [client EXCEPT !.at = "exiting"] \in ClientRecords /\ [cmd |-> "exit", answered |-> FALSE] \in CallRecords
    BY <1>1, ClientTyped, CallTyped
  <2> QED BY <1>1, <1>3, <1>6, <2>1, <2>2, <2>3 DEF PullTypes, PullInactive, Calls
<1>7. CASE PauseThread
  <2>1. [pull EXCEPT !.state = "pause"] \in PullRecords
    BY <1>1, <1>3, PullTyped
  <2>2. reader' \in ReaderRecords
    BY <1>7, CancelledReads DEF PauseThread, Calls, PullInv, PullRecords, PullTypes
  <2>3. [client EXCEPT !.at = "paused"] \in ClientRecords /\ [cmd |-> "pause", answered |-> FALSE] \in CallRecords
    BY <1>1, ClientTyped, CallTyped
  <2> QED BY <1>1, <1>3, <1>7, <2>1, <2>2, <2>3 DEF PullTypes, PauseThread, Calls
<1>8. CASE SeekRestarts
  <2>1. [pull EXCEPT !.state = "start", !.flushing = FALSE, !.start = client.to[1], !.stop = client.to[2]] \in PullRecords
    BY <1>1, <1>3, <1>4, RestartTyped
  <2>2. [reader EXCEPT !.flushing = FALSE] \in ReaderRecords
    BY <1>1, <1>3, ReaderTyped
  <2>3. [client EXCEPT !.at = "starting"] \in ClientRecords /\ [cmd |-> "start", answered |-> FALSE] \in CallRecords
    BY <1>1, ClientTyped, CallTyped
  <2> QED BY <1>1, <1>3, <1>8, <2>1, <2>2, <2>3 DEF PullTypes, SeekRestarts, Calls
<1>9. CASE Started
  BY <1>1, <1>3, <1>9, ClientTyped DEF PullTypes, Started
<1>10. CASE Exited
  <2>1. [pull EXCEPT !.committed = FALSE] \in PullRecords
    BY <1>1, <1>3, PullTyped
  <2>2. [reader EXCEPT !.flushing = FALSE] \in ReaderRecords
    BY <1>1, <1>3, ReaderTyped
  <2> QED BY <1>1, <1>3, <1>10, <2>1, <2>2, ClientTyped DEF PullTypes, Exited
<1>11. ASSUME NEW range \in Positions, Seek(range) PROVE PullTypes'
  <2>1. range[1] \in Nat /\ range[2] \in Nat /\ range \in Nat \X Nat
    BY PullBounds
  <2>2. /\ [pull EXCEPT !.seeks = @ + 1, !.flushing = TRUE] \in PullRecords
        /\ [pull EXCEPT !.seeks = @ + 1, !.start = range[1], !.stop = range[2]] \in PullRecords
    BY <1>1, <1>3, <1>4, <2>1, SoughtTyped
  <2>3. [at |-> "pausing", to |-> range] \in ClientRecords
    BY <2>1 DEF ClientRecords
  <2> QED BY <1>1, <1>11, <2>2, <2>3 DEF PullTypes, Seek
<1>12. CASE GetRequest
  <2>1. [call EXCEPT !.answered = TRUE] \in CallRecords
    BY <1>1 DEF CallRecords
  <2>2. worker' \in WorkerRecords
    BY <1>12, <1>30 DEF GetRequest, At
  <2> QED BY <1>1, <1>12, <2>1, <2>2 DEF PullTypes, GetRequest
<1>13. CASE FlushReader
  <2>1. worker' \in WorkerRecords /\ reader' \in ReaderRecords
    BY <1>1, <1>2, <1>3, <1>13, <1>30, ReaderTyped DEF FlushReader, At
  <2> QED BY <1>1, <1>13, <2>1 DEF PullTypes, FlushReader
<1>14. CASE UnflushReader
  <2>1. worker' \in WorkerRecords /\ reader' \in ReaderRecords
    BY <1>1, <1>2, <1>3, <1>14, <1>30, ReaderTyped DEF UnflushReader, At
  <2> QED BY <1>1, <1>14, <2>1 DEF PullTypes, UnflushReader
<1>15. CASE Process
  <2>1. AlignDown(pull.start) \in Int
    BY <1>4, AlignedUp
  <2>2. \A a \in {"eos", "loop"} : [worker EXCEPT !.at = a, !.cur = AlignDown(pull.start), !.start = AlignDown(pull.start),
                                                  !.stop = pull.stop, !.extra = FALSE] \in WorkerRecords
    <3>1. "eos" \in Places /\ "loop" \in Places /\ pull.stop \in Int
      BY <1>0, <1>4
    <3> HIDE DEF Moved
    <3> QED BY <1>1, <2>1, <3>1, RangeTyped
  <2> QED BY <1>1, <1>15, <2>2 DEF PullTypes, Process
<1>16. CASE CheckRequest
  <2>1. worker' \in WorkerRecords
    BY <1>16, <1>30 DEF CheckRequest, At
  <2> QED BY <1>1, <1>16, <2>1 DEF PullTypes, CheckRequest
<1>17. CASE GetBuffer
  <2> DEFINE upto == Least(worker.cur + SampleSize, AlignStop)
             s == <<[from |-> worker.cur, to |-> upto, ok |-> TRUE]>>
  <2>1. PullStop \in Int
    BY <1>2, PullBounds DEF PullStop, Least
  <2>2. upto \in Int
    <3>1. AlignStop \in Int
      BY <2>1, AlignedUp DEF AlignStop
    <3>2. SampleSize \in Int
      BY PullBounds
    <3>3. worker.cur + SampleSize \in Int
      BY <1>2, <3>2
    <3> QED BY <3>1, <3>3 DEF Least
  <2> HIDE DEF upto
  <2>3. s \in Seq(Reads)
    BY <1>2, <2>2 DEF Reads
  <2> HIDE DEF s
  <2>4. [worker EXCEPT !.at = "ask", !.cur = upto, !.sample = s] \in WorkerRecords
    BY <1>0, <1>1, <2>2, <2>3, StampTyped
  <2> QED BY <1>1, <1>17, <2>4 DEF PullTypes, GetBuffer, upto, s
<1>18. CASE Request
  <2>1. CASE reader.flushing
    <3>1. [worker EXCEPT !.at = "flush", !.sample = <<>>] \in WorkerRecords
      BY <1>3, <1>31
    <3>2. [reader EXCEPT !.done = <<>>] \in ReaderRecords
      BY <1>1, <1>3, ReaderTyped
    <3> QED BY <1>1, <1>18, <2>1, <3>1, <3>2 DEF PullTypes, Request
  <2>2. CASE ~reader.flushing
    <3>1. reader' \in ReaderRecords
      <4>1. reader.pending \o worker.sample \in Seq(Reads)
        BY <1>2, Joined
      <4>2. [reader EXCEPT !.pending = reader.pending \o worker.sample] \in ReaderRecords
        BY <1>1, <4>1 DEF ReaderRecords
      <4> QED BY <1>18, <2>2, <4>2 DEF Request
    <3>2. \A a \in {"buffer", "collect"} : \A b \in BOOLEAN :
            [worker EXCEPT !.sample = <<>>, !.extra = b, !.at = a] \in WorkerRecords
      BY <1>0, <1>1, <1>3, AskTyped
    <3>3. worker' \in WorkerRecords
      <4>1. (PullBuffers > 1) \in BOOLEAN
        OBVIOUS
      <4>2. \A a \in {"buffer", "collect"} :
              [worker EXCEPT !.sample = <<>>, !.extra = PullBuffers > 1, !.at = a] \in WorkerRecords
        BY <3>2, <4>1
      <4> QED BY <1>18, <2>2, <4>2 DEF Request
    <3> QED BY <1>1, <1>18, <3>1, <3>3 DEF PullTypes, Request
  <2> QED BY <2>1, <2>2
<1>19. CASE SyncRead
  <2>1. worker' \in WorkerRecords
    <3>1. [worker EXCEPT !.at = "deliver"] \in WorkerRecords
      BY <1>30
    <3>2. [worker EXCEPT !.at = "flush", !.sample = <<>>] \in WorkerRecords
      BY <1>3, <1>31
    <3> QED BY <1>19, <3>1, <3>2 DEF SyncRead
  <2> QED BY <1>1, <1>19, <2>1 DEF PullTypes, SyncRead
<1>20. CASE ReaderCompletes
  <2>1. PICK ok \in BOOLEAN :
          reader' = [reader EXCEPT !.pending = Tail(@), !.done = Append(@, [Head(reader.pending) EXCEPT !.ok = ok])]
    BY <1>20 DEF ReaderCompletes
  <2>2. Head(reader.pending) \in Reads /\ Tail(reader.pending) \in Seq(Reads)
    BY <1>2, <1>20 DEF ReaderCompletes
  <2>3. \A x \in Reads : [x EXCEPT !.ok = ok] \in Reads
    BY DEF Reads
  <2>4. \A x \in Reads : Append(reader.done, x) \in Seq(Reads)
    BY <1>2
  <2>5. reader' \in ReaderRecords
    BY <1>1, <2>1, <2>2, <2>3, <2>4, ReaderTyped, <1>3
  <2> QED BY <1>1, <1>20, <2>5 DEF PullTypes, ReaderCompletes
<1>21. CASE CollectSample
  <2>1. CASE reader.done # <<>> /\ worker' = [worker EXCEPT !.at = "deliver", !.sample = <<Head(reader.done)>>]
             /\ reader' = [reader EXCEPT !.done = Tail(@)]
    <3>1. Tail(reader.done) \in Seq(Reads) /\ <<Head(reader.done)>> \in Seq(Reads)
      BY <1>2, <2>1
    <3>2. worker' \in WorkerRecords /\ reader' \in ReaderRecords
      BY <1>1, <2>1, <3>1, <1>31, ReaderTyped
    <3> QED BY <1>1, <1>21, <3>2 DEF PullTypes, CollectSample
  <2>2. CASE At("flush") /\ reader' = [reader EXCEPT !.done = <<>>]
    <3>1. worker' \in WorkerRecords /\ reader' \in ReaderRecords
      BY <1>1, <1>3, <2>2, <1>30, ReaderTyped DEF At
    <3> QED BY <1>1, <1>21, <3>1 DEF PullTypes, CollectSample
  <2> QED BY <1>21, <2>1, <2>2 DEF CollectSample
<1>22. CASE KeptReleased
  BY <1>1, <1>22 DEF PullTypes, KeptReleased
<1>23. CASE EndOfStream
  <2>1. \A b \in BOOLEAN : [heard EXCEPT !.eos = TRUE, !.whole = b] \in HeardRecords
    BY <1>1 DEF HeardRecords
  <2>2. worker' \in WorkerRecords
    BY <1>23, <1>30 DEF EndOfStream, At
  <2>3. (heard.whole /\ ~heard.eos /\ (heard.refused \/ heard.next = RangeLength)) \in BOOLEAN
    OBVIOUS
  <2>4. heard' \in HeardRecords
    BY <1>1, <1>23, <2>1, <2>3 DEF EndOfStream
  <2> QED BY <1>1, <1>23, <2>2, <2>4 DEF PullTypes, EndOfStream
<1>24. ASSUME NEW takes \in BOOLEAN, NEW keeps \in BOOLEAN, NEW fails \in BOOLEAN, DeliverSample(takes, keeps, fails)
       PROVE  PullTypes'
  <2>0. PullStop \in Int /\ Head(worker.sample).to \in Int
    <3>1. worker.sample # <<>>
      <4>1. worker.at = "deliver"
          BY <1>24 DEF DeliverSample
      <4>2. Len(worker.sample) = 1
        BY <4>1 DEF PullInv, HandsKnown
      <4>3. Len(<<>>) = 0
        OBVIOUS
      <4> QED BY <4>2, <4>3
    <3>2. Head(worker.sample) \in Reads
      BY <1>2, <3>1
    <3> QED BY <1>2, <3>2, PullBounds DEF PullStop, Least, Reads
  <2> DEFINE to == Least(Head(worker.sample).to, PullStop) - worker.start
             from == Head(worker.sample).from - worker.start
  <2>1. to \in Int
    BY <1>2, <2>0 DEF Least
  <2> HIDE DEF to
  <2>2. (heard.whole /\ from = heard.next /\ from < to /\ ~heard.eos) \in BOOLEAN
    OBVIOUS
  <2> HIDE DEF from
  <2>3. heard' \in {heard, [heard EXCEPT !.refused = TRUE],
                    [heard EXCEPT !.next = to, !.whole = heard.whole /\ from = heard.next /\ from < to /\ ~heard.eos]}
    BY <1>24 DEF DeliverSample, to, from
  <2>4. heard' \in HeardRecords
    <3>1. [heard EXCEPT !.refused = TRUE] \in HeardRecords
      BY <1>1 DEF HeardRecords
    <3>2. \A b \in BOOLEAN : [heard EXCEPT !.next = to, !.whole = b] \in HeardRecords
      BY <1>1, <2>1 DEF HeardRecords
    <3> QED BY <1>1, <2>2, <2>3, <3>1, <3>2
  <2>5. \E a \in Moved : worker' = [worker EXCEPT !.at = a, !.sample = <<>>]
    <3>1. worker' = [worker EXCEPT !.at = worker'.at, !.sample = <<>>]
          /\ worker'.at \in {"loop", "buffer", "collect", "eos", "flush"}
      BY <1>1, <1>24 DEF DeliverSample, WorkerRecords, NextPlace
    <3> QED BY <3>1
  <2>6. worker' \in WorkerRecords
    <3>1. <<>> \in Seq(Reads)
      OBVIOUS
    <3>2. PICK a \in Moved : worker' = [worker EXCEPT !.at = a, !.sample = <<>>]
      BY <2>5
    <3> HIDE DEF Moved
    <3>3. [worker EXCEPT !.at = a, !.sample = <<>>] \in WorkerRecords
      BY <1>31, <3>1
    <3> QED BY <3>2, <3>3
  <2>7. reader' \in ReaderRecords
    BY <1>1, <1>2, <1>3, <1>24, ReaderTyped DEF DeliverSample
  <2> QED BY <1>1, <1>24, <2>4, <2>6, <2>7 DEF PullTypes, DeliverSample
<1> QED BY <1>5, <1>6, <1>7, <1>8, <1>9, <1>10, <1>11, <1>12, <1>13, <1>14, <1>15, <1>16, <1>17, <1>18, <1>19, <1>20,
           <1>21, <1>22, <1>23, <1>24 DEF PullStep

\* The records the next states are made of have the fields that are assigned.
LEMMA Fields ==
  ASSUME PullTypes
  PROVE  /\ DOMAIN pull = {"start", "stop", "state", "sync", "committed", "flushing", "seeks"}
         /\ DOMAIN client = {"at", "to"} /\ DOMAIN call = {"cmd", "answered"}
         /\ DOMAIN worker = {"at", "cur", "sample", "start", "stop", "extra"}
         /\ DOMAIN reader = {"pending", "done", "flushing"} /\ DOMAIN heard = {"next", "whole", "eos", "refused"}
<1>1. DOMAIN pull = {"start", "stop", "state", "sync", "committed", "flushing", "seeks"} /\ DOMAIN client = {"at", "to"}
      /\ DOMAIN call = {"cmd", "answered"}
  BY DEF PullTypes, PullRecords, ClientRecords, CallRecords
<1>2. DOMAIN worker = {"at", "cur", "sample", "start", "stop", "extra"}
      /\ DOMAIN reader = {"pending", "done", "flushing"} /\ DOMAIN heard = {"next", "whole", "eos", "refused"}
  BY DEF PullTypes, WorkerRecords, ReaderRecords, HeardRecords
<1> QED BY <1>1, <1>2

\* The calls and their answers come in turn, and a flushed reader stays so until the worker has left Process.
LEMMA CallsKept ==
  ASSUME PullInv, PullStep
  PROVE  CallsInOrder' /\ FlushReaches'
<1>1. PullTypes /\ CallsInOrder /\ FlushReaches
  BY DEF PullInv
<1>2. /\ client.at \in {"idle", "starting", "pausing", "paused", "exiting"}
      /\ call.cmd \in {"none", "start", "pause", "exit"} /\ call.answered \in BOOLEAN
      /\ worker.at \in {"none", "process"} \cup InProcess \cup Resting
      /\ pull.state \in {"exit", "start", "pause"} /\ pull.flushing \in BOOLEAN /\ reader.flushing \in BOOLEAN
  BY <1>1 DEF PullTypes, PullRecords, ClientRecords, CallRecords, WorkerRecords, ReaderRecords
<1>3. CASE PullActive
  <2>1. /\ client'.at = "starting" /\ call'.cmd = "start" /\ ~call'.answered /\ pull'.flushing = pull.flushing
        /\ pull'.state = "start" /\ worker'.at = "request" /\ heard' = NewStream /\ client.at = "idle"
    BY <1>1, <1>3, Fields DEF PullActive, Calls
  <2> QED BY <1>1, <1>2, <2>1 DEF CallsInOrder, FlushReaches, Resting, InProcess, NewStream
<1>4. CASE PullInactive
  <2>1. /\ client'.at = "exiting" /\ call'.cmd = "exit" /\ ~call'.answered /\ pull'.flushing = pull.flushing
        /\ pull'.state = "exit" /\ worker' = worker /\ heard' = heard /\ client.at = "idle" /\ worker.at # "none"
        /\ reader'.flushing
    BY <1>1, <1>4, Fields DEF PullInactive, Calls, Cancelled
  <2> QED BY <1>1, <1>2, <2>1 DEF CallsInOrder, FlushReaches, Resting, InProcess, NewStream
<1>5. CASE PauseThread
  <2>1. /\ client'.at = "paused" /\ call'.cmd = "pause" /\ ~call'.answered /\ pull'.flushing = pull.flushing
        /\ pull'.state = "pause" /\ worker' = worker /\ heard' = heard /\ client.at = "pausing"
        /\ reader'.flushing
    BY <1>1, <1>5, Fields DEF PauseThread, Calls, Cancelled
  <2> QED BY <1>1, <1>2, <2>1 DEF CallsInOrder, FlushReaches, Resting, InProcess, NewStream
<1>6. CASE SeekRestarts
  <2>1. /\ client'.at = "starting" /\ call'.cmd = "start" /\ ~call'.answered /\ ~pull'.flushing
        /\ pull'.state = "start" /\ worker' = worker /\ heard' = NewStream /\ client.at = "paused" /\ call.answered
    BY <1>1, <1>6, Fields DEF SeekRestarts, Calls
  <2> QED BY <1>1, <1>2, <2>1 DEF CallsInOrder, FlushReaches, Resting, InProcess, NewStream
<1>7. CASE Started
  <2>1. /\ client'.at = "idle" /\ call'.cmd = "none" /\ ~call'.answered /\ pull' = pull /\ worker' = worker
        /\ heard' = heard /\ client.at = "starting" /\ call.answered
    BY <1>1, <1>7, Fields DEF Started, NoCall
  <2> QED BY <1>1, <1>2, <2>1 DEF CallsInOrder, FlushReaches, Resting, InProcess
<1>8. CASE Exited
  <2>1. /\ client'.at = "idle" /\ call'.cmd = "none" /\ ~call'.answered /\ pull'.flushing = pull.flushing
        /\ pull'.state = pull.state /\ worker' = worker
        /\ heard' = heard /\ client.at = "exiting" /\ call.answered
    BY <1>1, <1>8, Fields DEF Exited, NoCall
  <2> QED BY <1>1, <1>2, <2>1 DEF CallsInOrder, FlushReaches, Resting, InProcess
<1>9. ASSUME NEW range \in Positions, Seek(range) PROVE CallsInOrder' /\ FlushReaches'
  <2>1. CASE pull.state = "start"
    <3>1. /\ client'.at = "pausing" /\ call' = call /\ pull'.flushing
          /\ pull'.state = pull.state /\ worker' = worker /\ heard' = heard /\ client.at = "idle"
      <4>1. pull' = [pull EXCEPT !.seeks = @ + 1, !.flushing = TRUE]
        BY <1>9, <2>1 DEF Seek
      <4>2. pull'.flushing /\ pull'.state = pull.state
        BY <1>1, <4>1, Fields
      <4> QED BY <1>9, <2>1, <4>2 DEF Seek
    <3> QED BY <1>1, <1>2, <2>1, <3>1 DEF CallsInOrder, FlushReaches, Resting, InProcess
  <2>2. CASE pull.state # "start"
    <3>1. /\ client' = client /\ call' = call /\ pull'.flushing = pull.flushing
          /\ pull'.state = pull.state /\ worker' = worker /\ heard' = heard /\ reader' = reader
      BY <1>1, <1>9, <2>2, Fields DEF Seek
    <3> QED BY <1>1, <1>2, <3>1 DEF CallsInOrder, FlushReaches, NewStream
  <2> QED BY <2>1, <2>2
<1>10. CASE GetRequest
  <2>1. /\ call'.cmd = call.cmd /\ call'.answered /\ ~call.answered /\ call.cmd # "none" /\ pull' = pull
        /\ client' = client /\ reader' = reader /\ heard' = heard /\ worker.at = "request"
        /\ worker'.at = CASE call.cmd = "exit" -> "none" [] call.cmd = "pause" -> "flush" [] OTHER -> "process"
    BY <1>1, <1>10, Fields DEF GetRequest, At, Pending
  <2> QED BY <1>1, <1>2, <2>1 DEF CallsInOrder, FlushReaches, Resting, InProcess
<1>11. CASE FlushReader
  <2>1. /\ pull' = pull /\ client' = client /\ call' = call /\ heard' = heard /\ worker.at = "flush"
        /\ worker'.at = "unflush"
    BY <1>1, <1>11, Fields DEF FlushReader, At
  <2> QED BY <1>1, <1>2, <2>1 DEF CallsInOrder, FlushReaches, Resting, InProcess, NewStream
<1>12. CASE UnflushReader
  <2>1. /\ pull' = pull /\ client' = client /\ call' = call /\ heard' = heard /\ worker.at = "unflush"
        /\ worker'.at = "request"
    BY <1>1, <1>12, Fields DEF UnflushReader, At
  <2> QED BY <1>1, <1>2, <2>1 DEF CallsInOrder, FlushReaches, Resting, InProcess, NewStream
\* Inside Process, and leaving it, the worker changes neither the calls nor the flush of the reader.
<1>13. ASSUME pull' = pull, client' = client, call' = call, reader'.flushing = reader.flushing,
              worker.at \in InProcess \cup {"process"}, worker'.at \in InProcess \cup {"flush"}
       PROVE  CallsInOrder' /\ FlushReaches'
  <2>1. worker.at \notin Resting /\ worker.at # "none" /\ worker'.at # "none" /\ worker'.at # "process"
    BY <1>13 DEF InProcess, Resting
  <2>2. CallsInOrder'
    BY <1>1, <1>2, <1>13, <2>1 DEF CallsInOrder
  <2>3. FlushReaches'
    BY <1>1, <1>13, <2>1 DEF FlushReaches
  <2> QED BY <2>2, <2>3
<1>14. CASE Process
  BY <1>1, <1>13, <1>14, Fields DEF Process, InProcess
<1>15. CASE CheckRequest
  BY <1>1, <1>13, <1>15, Fields DEF CheckRequest, At, InProcess
<1>16. CASE GetBuffer
  BY <1>1, <1>13, <1>16, Fields DEF GetBuffer, InProcess
<1>17. CASE Request
  BY <1>1, <1>13, <1>17, Fields DEF Request, InProcess
<1>18. CASE SyncRead
  BY <1>1, <1>13, <1>18, Fields DEF SyncRead, InProcess
<1>19. CASE CollectSample
  BY <1>1, <1>13, <1>19, Fields DEF CollectSample, At, InProcess
<1>20. CASE EndOfStream
  BY <1>1, <1>13, <1>20, Fields DEF EndOfStream, At, InProcess
<1>21. ASSUME NEW takes \in BOOLEAN, NEW keeps \in BOOLEAN, NEW fails \in BOOLEAN, DeliverSample(takes, keeps, fails)
       PROVE  CallsInOrder' /\ FlushReaches'
  <2>1. worker'.at \in InProcess \cup {"flush"} /\ worker.at = "deliver"
    BY <1>1, <1>21, Fields DEF DeliverSample, NextPlace, InProcess
  <2>2. reader'.flushing = reader.flushing
    BY <1>1, <1>21, Fields DEF DeliverSample
  <2> QED BY <1>13, <1>21, <2>1, <2>2 DEF DeliverSample, InProcess
<1>22. CASE ReaderCompletes
  <2>1. reader'.flushing = reader.flushing
    BY <1>1, <1>22, Fields DEF ReaderCompletes
  <2> QED BY <1>1, <1>22, <2>1 DEF ReaderCompletes, CallsInOrder, FlushReaches, NewStream
<1>23. CASE KeptReleased
  BY <1>1, <1>23 DEF KeptReleased, CallsInOrder, FlushReaches, NewStream
<1> QED BY <1>3, <1>4, <1>5, <1>6, <1>7, <1>8, <1>9, <1>10, <1>11, <1>12, <1>14, <1>15, <1>16, <1>17, <1>18, <1>19,
           <1>20, <1>21, <1>22, <1>23 DEF PullStep

\* Outside Process nothing is said of the reads, and of the receiver only that what it had was whole.
LEMMA LeftProcess ==
  ASSUME worker'.at \in Resting \cup {"none"}, heard'.whole
  PROVE  ReadsChained' /\ HeardSoFar'
<1>1. worker'.at \notin InProcess /\ worker'.at # "process"
  BY DEF Resting, InProcess
<1> QED BY <1>1 DEF ReadsChained, HeardSoFar, InProcess

LEMMA CallsLeaveReads ==
  ASSUME PullInv, PullActive \/ PullInactive \/ PauseThread \/ SeekRestarts \/ Started \/ Exited \/ KeptReleased
                  \/ (\E range \in Positions : Seek(range))
  PROVE  HandsKnown' /\ ReadsChained' /\ HeardSoFar'
<1>1. PullTypes /\ CallsInOrder /\ HandsKnown /\ ReadsChained /\ HeardSoFar
  BY DEF PullInv
<1>2. NewStream.whole /\ heard.whole
  BY <1>1 DEF NewStream, HeardSoFar
<1>3. CASE PullActive
  <2>1. worker'.at = "request" /\ worker'.sample = worker.sample /\ worker.at = "none" /\ reader' = reader
        /\ heard' = NewStream /\ pull'.sync = pull.sync
    BY <1>1, <1>3, Fields DEF PullActive, Calls
  <2>2. ReadsChained' /\ HeardSoFar'
    BY <1>2, <2>1, LeftProcess DEF Resting
  <2>3. HandsKnown'
    BY <1>1, <2>1 DEF HandsKnown
  <2> QED BY <2>2, <2>3
<1>4. CASE PullInactive \/ PauseThread
  <2>1. worker' = worker /\ pull'.sync = pull.sync /\ reader' = Cancelled(reader) /\ heard' = heard
        /\ pull'.start = pull.start /\ pull'.stop = pull.stop /\ pull'.flushing = pull.flushing
    BY <1>1, <1>4, Fields DEF PullInactive, PauseThread, Calls
  <2>2. ReadsChained' /\ Begun' = Begun /\ HandsKnown'
    BY <1>1, <2>1, CancelledReads
  <2>3. HeardSoFar'
    BY <1>1, <2>1, <2>2, HeardSame
  <2> QED BY <2>2, <2>3
<1>5. CASE SeekRestarts
  <2>1. worker.at \in Resting /\ worker' = worker /\ heard' = NewStream /\ pull'.sync = pull.sync
        /\ reader'.done = reader.done /\ reader'.pending = reader.pending
    BY <1>1, <1>5, Fields DEF SeekRestarts, Calls, CallsInOrder
  <2>2. HandsKnown'
    BY <1>1, <2>1, Untouched
  <2>3. ReadsChained' /\ HeardSoFar'
    BY <1>2, <2>1, LeftProcess
  <2> QED BY <2>2, <2>3
<1>6. CASE Started \/ Exited \/ KeptReleased
  <2>1. worker' = worker /\ heard' = heard /\ pull'.sync = pull.sync /\ pull'.start = pull.start
        /\ pull'.stop = pull.stop /\ pull'.flushing = pull.flushing
        /\ reader'.done = reader.done /\ reader'.pending = reader.pending
    BY <1>1, <1>6, Fields DEF Started, Exited, KeptReleased
  <2>2. HandsKnown' /\ ReadsChained' /\ Begun' = Begun
    BY <1>1, <2>1, Untouched
  <2>3. HeardSoFar'
    BY <1>1, <2>1, <2>2, HeardSame
  <2> QED BY <2>2, <2>3
<1>7. ASSUME NEW range \in Positions, Seek(range) PROVE HandsKnown' /\ ReadsChained' /\ HeardSoFar'
  <2>1. worker' = worker /\ heard' = heard /\ pull'.sync = pull.sync
        /\ reader'.done = reader.done /\ reader'.pending = reader.pending
    BY <1>1, <1>7, Fields DEF Seek
  <2>2. HandsKnown' /\ ReadsChained' /\ Begun' = Begun
    BY <1>1, <2>1, Untouched
  <2>3. CASE pull.state = "start"
    <3>1. pull' = [pull EXCEPT !.seeks = @ + 1, !.flushing = TRUE]
      BY <1>7, <2>3 DEF Seek
    <3>2. pull'.start = pull.start /\ pull'.stop = pull.stop /\ pull'.flushing
      BY <1>1, <3>1, Fields
    <3> QED BY <1>1, <2>1, <2>2, <3>2, HeardSame
  <2>4. CASE pull.state # "start"
    <3>1. worker.at = "none"
      BY <1>1, <1>7, <2>4 DEF Seek, CallsInOrder
    <3> QED BY <1>2, <2>1, <2>2, <3>1, LeftProcess
  <2> QED BY <2>2, <2>3, <2>4
<1> QED BY <1>3, <1>4, <1>5, <1>6, <1>7

\* Between two visits to Process the worker takes a command, or flushes the reader and unflushes it.
LEMMA RestLeavesReads ==
  ASSUME PullInv, GetRequest \/ FlushReader \/ UnflushReader
  PROVE  HandsKnown' /\ ReadsChained' /\ HeardSoFar'
<1>1. PullTypes /\ CallsInOrder /\ HandsKnown /\ ReadsChained /\ HeardSoFar
  BY DEF PullInv
<1>2. heard.whole
  BY <1>1 DEF HeardSoFar
<1>3. CASE GetRequest
  <2>1. worker' = [worker EXCEPT !.at = worker'.at] /\ worker.at = "request" /\ worker'.sample = worker.sample
        /\ reader' = reader /\ pull' = pull /\ heard' = heard /\ call.cmd # "none" /\ ~call.answered
        /\ worker'.at = CASE call.cmd = "exit" -> "none" [] call.cmd = "pause" -> "flush" [] OTHER -> "process"
    BY <1>1, <1>3, Fields DEF GetRequest, At, Pending
  <2>2. worker.sample = <<>> /\ reader.pending = <<>> /\ reader.done = <<>>
    BY <1>1, <2>1 DEF HandsKnown
  <2>3. worker'.at \in {"none", "flush", "process"}
    BY <2>1
  <2>4. HandsKnown'
    BY <2>1, <2>2, <2>3 DEF HandsKnown
  <2>5. CASE worker'.at # "process"
    BY <1>2, <2>1, <2>3, <2>4, <2>5, LeftProcess DEF Resting
  <2>6. CASE worker'.at = "process"
    <3>1. call.cmd = "start"
      BY <1>1, <2>1, <2>6 DEF PullTypes, CallRecords
    <3>2. client.at = "starting"
      BY <1>1, <3>1 DEF CallsInOrder, PullTypes, ClientRecords
    <3>3. heard = NewStream
      BY <1>1, <2>1, <3>2 DEF CallsInOrder
    <3> QED BY <1>2, <2>1, <2>4, <2>6, <3>3 DEF ReadsChained, HeardSoFar, InProcess, NewStream
  <2> QED BY <2>5, <2>6
<1>4. CASE FlushReader \/ UnflushReader
  <2>1. worker'.at \in Resting /\ worker'.sample = worker.sample /\ pull' = pull /\ heard' = heard
        /\ worker.at \in {"flush", "unflush"} /\ worker'.at \in {"unflush", "request"}
    BY <1>1, <1>4, Fields DEF FlushReader, UnflushReader, At, Resting
  <2>2. reader'.pending = <<>> /\ reader'.done = <<>>
    BY <1>1, <1>4, Fields DEF FlushReader, UnflushReader, HandsKnown
  <2>3. HandsKnown'
    BY <1>1, <2>1, <2>2 DEF HandsKnown
  <2> QED BY <1>2, <2>1, <2>3, LeftProcess
<1> QED BY <1>3, <1>4

\* A place that is aligned lies before the aligned stop exactly when it lies before the stop.
LEMMA BeforeStop ==
  ASSUME PullTypes
  PROVE  /\ PullStop \in Int /\ AlignStop \in Int /\ Aligned(AlignStop) /\ PullStop <= AlignStop
         /\ \A y \in Int : Aligned(y) => (y < AlignStop <=> y < PullStop)
<1>1. PullStop \in Int
  BY ReadTypes, PullBounds DEF PullStop, Least
<1>2. AlignStop \in Int /\ Aligned(AlignStop) /\ PullStop <= AlignStop
      /\ \A y \in Int : Aligned(y) /\ y < AlignStop => y < PullStop
  BY <1>1, AlignedUp DEF AlignStop
<1> QED BY <1>1, <1>2

LEMMA Emptied ==
  ASSUME PullTypes, reader.done = <<>>, reader.pending = <<>>
  PROVE  Asked = 0
<1>1. Len(<<>>) = 0
  OBVIOUS
<1> QED BY <1>1 DEF Asked

\* Process starts with nothing asked for and the receiver at the start of the range.
LEMMA ProcessReads ==
  ASSUME PullInv, Process
  PROVE  HandsKnown' /\ ReadsChained' /\ HeardSoFar'
<1>1. PullTypes /\ HandsKnown /\ HeardSoFar
  BY DEF PullInv
<1>2. /\ worker.at = "process" /\ reader' = reader /\ pull' = pull /\ heard' = heard
      /\ worker'.at = (IF pull.stop <= pull.start THEN "eos" ELSE "loop")
      /\ worker'.cur = AlignDown(pull.start) /\ worker'.start = AlignDown(pull.start) /\ worker'.stop = pull.stop
      /\ worker'.sample = worker.sample
  BY <1>1, Fields DEF Process
<1>3. worker.sample = <<>> /\ reader.pending = <<>> /\ reader.done = <<>>
  BY <1>1, <1>2 DEF HandsKnown
<1>4. pull.start \in Int /\ pull.stop \in Int /\ AlignDown(pull.start) \in Int /\ Aligned(AlignDown(pull.start))
  BY <1>1, AlignedUp DEF PullTypes, PullRecords
<1>5. Asked' = 0 /\ Asked = 0
  BY <1>1, <1>2, <1>3, Emptied DEF Asked
<1>6. HandsKnown'
  BY <1>2, <1>3 DEF HandsKnown
<1>7. worker'.at \in {"eos", "loop"}
  BY <1>2
<1>8. ReadsChained'
  <2>1. \A i \in 1..Asked' : FALSE
    BY <1>5
  <2> QED BY <1>2, <1>4, <1>5, <1>7, <2>1 DEF ReadsChained
<1>9. HeardSoFar'
  <2>1. ~pull.flushing => heard = NewStream
    BY <1>1, <1>2 DEF HeardSoFar
  <2>2. heard.whole
    BY <1>1 DEF HeardSoFar
  <2>3. worker'.at = "loop" => pull.start < pull.stop
    BY <1>2, <1>4
  <2>4. Begun' = worker'.cur
    BY <1>5, <1>7 DEF Begun, First
  <2>5. Reach(Begun)' = 0
    <3>1. PullStop' \in Int
      BY <1>2, <1>4, PullBounds DEF PullStop, Least
    <3>2. Least(worker'.start, PullStop') - worker'.start = 0 \/ ~(worker'.start < PullStop')
      BY <1>2, <1>4, <3>1 DEF Least
    <3> QED BY <1>2, <2>4, <3>2 DEF Reach
  <2>6. worker'.at = "eos" => RangeLength' = 0
    BY <1>2, <1>4 DEF RangeLength
  <2>7. heard = NewStream => ~heard.eos /\ heard.next = 0
    BY DEF NewStream
  <2>8. worker'.start <= worker'.cur
    BY <1>2, <1>4
  <2> QED BY <1>2, <1>7, <2>1, <2>2, <2>3, <2>5, <2>6, <2>7, <2>8 DEF HeardSoFar
<1> QED BY <1>6, <1>8, <1>9

\* The loop ends at the aligned stop, where the receiver has the whole range.
LEMMA CheckReads ==
  ASSUME PullInv, CheckRequest
  PROVE  HandsKnown' /\ ReadsChained' /\ HeardSoFar'
<1>1. PullTypes /\ HandsKnown /\ ReadsChained /\ HeardSoFar
  BY DEF PullInv
<1>2. /\ worker.at = "loop" /\ reader' = reader /\ pull' = pull /\ heard' = heard
      /\ worker'.cur = worker.cur /\ worker'.start = worker.start /\ worker'.stop = worker.stop
      /\ worker'.sample = worker.sample /\ worker'.at \in {"eos", "flush", "buffer"}
      /\ (worker'.at = "eos" => worker.cur >= AlignStop)
      /\ (worker'.at = "buffer" => ~(worker.cur >= AlignStop))
  BY <1>1, Fields DEF CheckRequest, At
<1>3. worker.sample = <<>> /\ reader.pending = <<>> /\ reader.done = <<>>
  BY <1>1, <1>2 DEF HandsKnown
<1>4. Asked' = 0 /\ Asked = 0 /\ PullStop' = PullStop /\ AlignStop' = AlignStop
  BY <1>1, <1>2, <1>3, Emptied DEF Asked, PullStop, AlignStop
<1>5. HandsKnown'
  BY <1>2, <1>3 DEF HandsKnown
<1>6. /\ worker.cur \in Int /\ worker.start \in Int /\ PullStop \in Int /\ AlignStop \in Int /\ PullStop <= AlignStop
      /\ Aligned(worker.start) /\ Aligned(worker.cur) /\ worker.start <= worker.cur /\ pull.start < pull.stop
      /\ (worker.start < AlignStop <=> worker.start < PullStop)
  <2>1. worker.at \in InProcess \ {"eos"}
    BY <1>2 DEF InProcess
  <2>2. Aligned(worker.start) /\ Aligned(worker.cur) /\ worker.start <= worker.cur /\ pull.start < pull.stop
    BY <1>1, <2>1 DEF ReadsChained, HeardSoFar
  <2> QED BY <1>1, <2>2, ReadTypes, BeforeStop
<1>7. CASE worker'.at = "flush"
  BY <1>1, <1>2, <1>5, <1>7, LeftProcess DEF Resting, HeardSoFar
<1>8. CASE worker'.at # "flush"
  <2>1. ReadsChained'
    <3>1. \A i \in 1..Asked' : FALSE
      BY <1>4
    <3>2. worker'.at = "buffer" => worker.cur < AlignStop /\ worker.start < AlignStop
      BY <1>2, <1>6
    <3> QED BY <1>2, <1>4, <1>6, <1>8, <3>1, <3>2 DEF ReadsChained
  <2>2. Begun = worker.cur /\ Begun' = worker.cur
    BY <1>2, <1>4, <1>8 DEF Begun, First
  <2>3. Reach(Begun)' = Reach(Begun)
    BY <1>2, <1>4, <2>2 DEF Reach
  <2>4. worker'.at = "eos" => Reach(Begun) = RangeLength
    <3>1. worker.cur >= AlignStop => Least(worker.cur, PullStop) = PullStop
      BY <1>6 DEF Least
    <3> QED BY <1>2, <1>6, <2>2, <3>1 DEF Reach, RangeLength
  <2>5. worker.at \in InProcess \ {"eos"} /\ worker'.at \in InProcess /\ worker'.at # "process"
    BY <1>2, <1>8 DEF InProcess
  <2>6. RangeLength' = RangeLength
    BY <1>2, <1>4 DEF RangeLength
  <2>7. HeardSoFar'
    BY <1>1, <1>2, <2>3, <2>4, <2>5, <2>6 DEF HeardSoFar
  <2> QED BY <1>5, <2>1, <2>7
<1> QED BY <1>7, <1>8

\* A buffer is stamped with the range that begins where the last one asked for ends.
LEMMA StampReads ==
  ASSUME PullInv, GetBuffer
  PROVE  HandsKnown' /\ ReadsChained' /\ HeardSoFar'
<1>1. PullTypes /\ HandsKnown /\ ReadsChained /\ HeardSoFar
  BY DEF PullInv
<1> DEFINE upto == Least(worker.cur + SampleSize, AlignStop)
           s == [from |-> worker.cur, to |-> upto, ok |-> TRUE]
<1>2. /\ worker.at = "buffer" /\ reader' = reader /\ pull' = pull /\ heard' = heard
      /\ worker'.cur = upto /\ worker'.start = worker.start /\ worker'.stop = worker.stop
      /\ worker'.sample = <<s>> /\ worker'.at = "ask"
  BY <1>1, Fields DEF GetBuffer
<1>3. /\ worker.cur \in Int /\ Aligned(worker.cur) /\ worker.cur < AlignStop /\ AlignStop \in Int /\ Aligned(AlignStop)
      /\ Aligned(worker.start) /\ worker.start < AlignStop /\ worker.start \in Int /\ worker.start <= worker.cur
      /\ pull.start < pull.stop
  BY <1>1, <1>2, ReadTypes, BeforeStop DEF ReadsChained, HeardSoFar, InProcess
<1>4. upto \in Int /\ Aligned(upto) /\ worker.cur < upto /\ upto <= AlignStop
  <2>1. SampleSize \in Int /\ SampleSize > 0
    BY PullBounds
  <2> QED BY <1>3, <2>1, AlignedSum DEF Least
<1> HIDE DEF upto
<1>5. worker'.sample[1].from = worker.cur /\ worker'.sample[1].to = upto /\ Len(worker'.sample) = 1
  BY <1>2
<1> HIDE DEF s
<1>6. Asked' = Asked /\ Asked \in Nat /\ AlignStop' = AlignStop /\ PullStop' = PullStop
      /\ \A i \in 1..Asked : Read(i)' = Read(i)
  BY <1>1, <1>2, ReadTypes DEF Asked, Read, AlignStop, PullStop
<1>7. First' = First /\ Begun' = Begun /\ Ended' = worker.cur /\ Ended = worker.cur
  BY <1>2, <1>5, <1>6 DEF First, Begun, Ended, Read
<1>8. HandsKnown'
  BY <1>1, <1>2, <1>5 DEF HandsKnown
<1>9. ReadsChained'
  <2>1. ReadsChained!2
    BY <1>1, <1>2 DEF ReadsChained, InProcess
  <2>2. \A i \in 1..Asked : Whole(Read(i)) => Whole(Read(i))'
    BY <1>6 DEF Whole
  <2>3. Whole(worker.sample[1])'
    BY <1>3, <1>4, <1>5, <1>6 DEF Whole
  <2>4. Asked # 0 => Asked \in 1..Asked
    BY <1>6
  <2>5. \A i \in 1..Asked : \A j \in 1..Asked : j = i + 1 => Read(i)'.to = Read(j)'.from
    BY <1>6, <2>1
  <2>6. Asked # 0 => Read(Asked)'.to = worker.cur
    BY <1>6, <1>7, <2>1, <2>4
  <2> QED BY <1>2, <1>3, <1>4, <1>5, <1>6, <1>7, <2>1, <2>2, <2>3, <2>5, <2>6 DEF ReadsChained
<1>10. HeardSoFar'
  <2>1. Reach(Begun)' = Reach(Begun)
    BY <1>2, <1>6, <1>7 DEF Reach
  <2>2. worker.start <= upto
    BY <1>3, <1>4
  <2> QED BY <1>1, <1>2, <1>3, <2>1, <2>2 DEF HeardSoFar, InProcess
<1> QED BY <1>8, <1>9, <1>10

\* A read that is asked for comes after those at the reader.
LEMMA NthAsked ==
  ASSUME NEW d \in Seq(Reads), NEW p \in Seq(Reads), NEW s \in Seq(Reads), Len(s) = 1
  PROVE  /\ Len(p \o s) = Len(p) + 1
         /\ \A i \in 1..(Len(d) + Len(p)) : Nth(d, p \o s, i) = Nth(d, p, i)
         /\ Nth(d, p \o s, Len(d) + Len(p) + 1) = s[1]
<1>1. Len(d) \in Nat /\ Len(p) \in Nat
  OBVIOUS
<1>2. Len(p \o s) = Len(p) + 1 /\ \A i \in 1..Len(p) : (p \o s)[i] = p[i]
  <2>1. Len(p \o s) = Len(p) + Len(s)
    BY Joined
  <2>2. \A i \in 1..Len(p) : (p \o s)[i] = p[i]
    BY Joined
  <2> QED BY <2>1, <2>2
<1>3. (p \o s)[Len(p) + 1] = s[1]
  <2>1. 1 \in 1..Len(s)
    OBVIOUS
  <2> QED BY <2>1, Joined
<1>4. ASSUME NEW i \in 1..(Len(d) + Len(p)) PROVE Nth(d, p \o s, i) = Nth(d, p, i)
  <2>1. i \in Int /\ (i <= Len(d) \/ (i > Len(d) /\ i - Len(d) \in 1..Len(p)))
    BY <1>1, Within
  <2>2. ~(i <= Len(d)) => i - Len(d) \in 1..Len(p)
    BY <1>1, <2>1
  <2> QED BY <1>2, <2>2 DEF Nth
<1>5. ~(Len(d) + Len(p) + 1 <= Len(d)) /\ (Len(d) + Len(p) + 1) - Len(d) = Len(p) + 1
  BY <1>1
<1>6. Nth(d, p \o s, Len(d) + Len(p) + 1) = s[1]
  BY <1>3, <1>5 DEF Nth
<1> QED BY <1>2, <1>4, <1>6

\* What is asked of the reader is the last read of the chain.
LEMMA AskReads ==
  ASSUME PullInv, Request
  PROVE  HandsKnown' /\ ReadsChained' /\ HeardSoFar'
<1>1. PullTypes /\ HandsKnown /\ ReadsChained /\ HeardSoFar
  BY DEF PullInv
<1>2. worker.at = "ask" /\ ~pull.sync /\ pull' = pull /\ heard' = heard /\ Len(worker.sample) = 1 /\ heard.whole
  BY <1>1 DEF Request, HandsKnown, HeardSoFar
<1>3. CASE reader.flushing
  <2>1. worker'.at = "flush" /\ worker'.sample = <<>>
    BY <1>1, <1>3, Fields DEF Request
  <2>2. HandsKnown'
    BY <1>2, <2>1 DEF HandsKnown
  <2> QED BY <1>2, <2>1, <2>2, LeftProcess DEF Resting
<1>4. CASE ~reader.flushing
  <2>1. /\ worker'.at \in {"buffer", "collect"} /\ (worker'.at = "buffer" => worker.cur < AlignStop)
        /\ worker'.sample = <<>> /\ worker'.cur = worker.cur /\ worker'.start = worker.start
        /\ worker'.stop = worker.stop /\ reader'.done = reader.done /\ reader'.pending = reader.pending \o worker.sample
    BY <1>1, <1>4, Fields DEF Request
  <2>2. PICK n \in Nat : n = Asked
    BY <1>1, ReadTypes
  <2>3. PICK s : s = worker.sample[1]
    OBVIOUS
  <2>4. /\ reader.pending \in Seq(Reads) /\ reader.done \in Seq(Reads) /\ worker.sample \in Seq(Reads)
        /\ n = Len(reader.done) + Len(reader.pending) /\ Len(reader.done) \in Nat /\ Len(reader.pending) \in Nat
    BY <1>1, <2>2, ReadTypes
  <2>5. Asked' = n + 1
    <3>1. Len(reader.pending \o worker.sample) = Len(reader.pending) + 1
      BY <1>2, <2>4, NthAsked
    <3>2. Asked' = Len(reader.done) + (Len(reader.pending) + 1)
      BY <2>1, <3>1 DEF Asked
    <3>3. \A a, b \in Nat : a + (b + 1) = a + b + 1
      OBVIOUS
    <3>4. Len(reader.done) + (Len(reader.pending) + 1) = n + 1
      BY <2>4, <3>3
    <3> QED BY <3>2, <3>4
  <2>14. /\ \A i \in 1..n : Nth(reader.done, reader.pending \o worker.sample, i) = Nth(reader.done, reader.pending, i)
         /\ Nth(reader.done, reader.pending \o worker.sample, n + 1) = s
    <3>1. PICK d \in Seq(Reads), p \in Seq(Reads), q \in Seq(Reads) :
            d = reader.done /\ p = reader.pending /\ q = worker.sample
      BY <2>4
    <3>2. Len(q) = 1 /\ n = Len(d) + Len(p)
      BY <1>2, <2>4, <3>1
    <3>3. /\ \A i \in 1..(Len(d) + Len(p)) : Nth(d, p \o q, i) = Nth(d, p, i)
          /\ Nth(d, p \o q, Len(d) + Len(p) + 1) = q[1]
      BY <3>2, NthAsked
    <3> QED BY <2>3, <3>1, <3>2, <3>3
  <2>6. \A i \in 1..n : Read(i)' = Read(i)
    BY <2>1, <2>14 DEF Read
  <2>7. Read(n + 1)' = s
    BY <2>1, <2>14 DEF Read
  <2>8. /\ AlignStop' = AlignStop /\ PullStop' = PullStop /\ First = (IF n = 0 THEN s.from ELSE Read(1).from)
        /\ Ended = s.from /\ Ended' = worker.cur /\ Begun = First /\ Begun' = First'
    BY <1>2, <2>1, <2>2, <2>3 DEF AlignStop, PullStop, First, Begun, Ended
  <2>9. First' = First
    <3>1. First' = Read(1)'.from
      BY <2>1, <2>2, <2>5 DEF First
    <3>2. n = 0 \/ 1 \in 1..n
      BY <2>2
    <3>3. n = 0 => n + 1 = 1
      OBVIOUS
    <3> QED BY <2>6, <2>7, <2>8, <3>1, <3>2, <3>3
  <2>10. ReadsChained!2
    BY <1>1, <1>2 DEF ReadsChained, InProcess
  <2>11. ReadsChained'
    <3>1. \A i \in 1..(n + 1) : i \in 1..n \/ i = n + 1
      BY <2>2
    <3>2. \A i \in 1..(n + 1) : Whole(Read(i))'
      <4>1. \A i \in 1..n : Whole(Read(i))'
        BY <2>2, <2>6, <2>8, <2>10 DEF Whole
      <4>2. Whole(Read(n + 1))'
        BY <1>2, <2>3, <2>7, <2>8, <2>10 DEF Whole
      <4> QED BY <3>1, <4>1, <4>2
    <3>3. ASSUME NEW i \in 1..(n + 1), NEW j \in 1..(n + 1), j = i + 1 PROVE Read(i)'.to = Read(j)'.from
      <4>1. i \in 1..n /\ (j \in 1..n \/ (j = n + 1 /\ i = n /\ n # 0))
        BY <2>2, <3>3
      <4>2. CASE j \in 1..n
        BY <2>2, <2>6, <2>10, <3>3, <4>1, <4>2
      <4>3. CASE j = n + 1 /\ i = n /\ n # 0
        BY <2>2, <2>6, <2>7, <2>8, <2>10, <4>1, <4>3
      <4> QED BY <4>1, <4>2, <4>3
    <3>4. Read(n + 1)'.to = worker.cur
      BY <1>2, <2>3, <2>7, <2>10
    <3>5. \A x : x = Asked' => x = n + 1
      BY <2>5
    <3>6. Read(Asked)' = Read(n + 1)'
      BY <2>5 DEF Read
    <3>7. worker.cur <= AlignStop /\ worker.start < AlignStop /\ Aligned(worker.start) /\ Aligned(worker.cur)
      BY <1>2, <2>10
    <3> QED BY <2>1, <2>5, <2>8, <3>2, <3>3, <3>4, <3>6, <3>7 DEF ReadsChained
  <2>12. HandsKnown'
    BY <1>2, <2>1 DEF HandsKnown
  <2>13. HeardSoFar'
    <3>1. Reach(Begun)' = Reach(Begun)
      BY <2>1, <2>8, <2>9 DEF Reach
    <3> QED BY <1>1, <1>2, <2>1, <3>1 DEF HeardSoFar, InProcess
  <2> QED BY <2>11, <2>12, <2>13
<1> QED BY <1>3, <1>4

\* A synchronous read is the only one there is.
LEMMA SyncReads ==
  ASSUME PullInv, SyncRead
  PROVE  HandsKnown' /\ ReadsChained' /\ HeardSoFar'
<1>1. PullTypes /\ HandsKnown /\ ReadsChained /\ HeardSoFar
  BY DEF PullInv
<1>2. worker.at = "ask" /\ pull.sync /\ pull' = pull /\ heard' = heard /\ reader' = reader
      /\ Len(worker.sample) = 1 /\ heard.whole /\ reader.pending = <<>> /\ reader.done = <<>>
  BY <1>1 DEF SyncRead, HandsKnown, HeardSoFar
<1>3. CASE worker' = [worker EXCEPT !.at = "flush", !.sample = <<>>]
  <2>1. worker'.at = "flush" /\ worker'.sample = <<>>
    BY <1>1, <1>3, Fields
  <2>2. HandsKnown'
    BY <1>2, <2>1 DEF HandsKnown
  <2> QED BY <1>2, <2>1, <2>2, LeftProcess DEF Resting
<1>4. CASE worker' = [worker EXCEPT !.at = "deliver"]
  <2>1. /\ worker'.at = "deliver" /\ worker'.sample = worker.sample /\ worker'.cur = worker.cur
        /\ worker'.start = worker.start /\ worker'.stop = worker.stop
    BY <1>1, <1>4, Fields
  <2>2. Asked = 0 /\ Asked' = 0 /\ AlignStop' = AlignStop /\ PullStop' = PullStop
    BY <1>1, <1>2, <2>1, Emptied DEF Asked, AlignStop, PullStop
  <2>3. First' = worker.cur /\ Begun' = Begun
    BY <1>2, <2>1, <2>2 DEF First, Begun
  <2>4. ReadsChained!2
    BY <1>1, <1>2 DEF ReadsChained, InProcess
  <2>5. ReadsChained'
    <3>1. \A i \in 1..Asked' : FALSE
      BY <2>2
    <3>2. Whole(worker.sample[1])'
      BY <1>2, <2>1, <2>2, <2>4 DEF Whole
    <3> QED BY <1>2, <2>1, <2>2, <2>3, <2>4, <3>1, <3>2 DEF ReadsChained
  <2>6. HandsKnown'
    BY <1>2, <2>1 DEF HandsKnown
  <2>7. Reach(Begun)' = Reach(Begun)
    BY <2>1, <2>2, <2>3 DEF Reach
  <2>8. HeardSoFar'
    BY <1>1, <1>2, <2>1, <2>7 DEF HeardSoFar, InProcess
  <2> QED BY <2>5, <2>6, <2>8
<1> QED BY <1>3, <1>4 DEF SyncRead

\* The oldest read, done, stays where it is in the chain.
LEMMA NthDone ==
  ASSUME NEW d \in Seq(Reads), NEW p \in Seq(Reads), p # <<>>, NEW x \in Reads
  PROVE  /\ Len(Append(d, x)) + Len(Tail(p)) = Len(d) + Len(p)
         /\ \A i \in 1..(Len(d) + Len(p)) :
              Nth(Append(d, x), Tail(p), i) = IF i = Len(d) + 1 THEN x ELSE Nth(d, p, i)
         /\ Nth(d, p, Len(d) + 1) = Head(p)
<1>1. Len(d) \in Nat /\ Len(p) \in Nat /\ Len(p) # 0 /\ Len(Append(d, x)) = Len(d) + 1 /\ Len(Tail(p)) = Len(p) - 1
  OBVIOUS
<1>2. Append(d, x)[Len(d) + 1] = x /\ (\A i \in 1..Len(d) : Append(d, x)[i] = d[i])
      /\ (\A i \in 1..(Len(p) - 1) : Tail(p)[i] = p[i + 1]) /\ Head(p) = p[1]
  OBVIOUS
<1>3. ASSUME NEW i \in 1..(Len(d) + Len(p))
      PROVE  Nth(Append(d, x), Tail(p), i) = IF i = Len(d) + 1 THEN x ELSE Nth(d, p, i)
  <2>1. i \in Int /\ 1 <= i /\ i <= Len(d) + Len(p)
    BY <1>1
  <2>2. CASE i <= Len(d)
    <3>1. i <= Len(Append(d, x)) /\ i # Len(d) + 1 /\ i \in 1..Len(d)
      BY <1>1, <2>1, <2>2
    <3> QED BY <1>2, <2>2, <3>1 DEF Nth
  <2>3. CASE i = Len(d) + 1
    <3>1. i <= Len(Append(d, x))
      BY <1>1, <2>3
    <3> QED BY <1>2, <2>3, <3>1 DEF Nth
  <2>4. CASE i > Len(d) + 1
    <3>1. /\ ~(i <= Len(Append(d, x))) /\ ~(i <= Len(d)) /\ i # Len(d) + 1
          /\ i - (Len(d) + 1) \in 1..(Len(p) - 1) /\ (i - (Len(d) + 1)) + 1 = i - Len(d)
      BY <1>1, <2>1, <2>4
    <3>2. Tail(p)[i - (Len(d) + 1)] = p[i - Len(d)]
      BY <1>2, <3>1
    <3> QED BY <1>1, <3>1, <3>2 DEF Nth
  <2> QED BY <1>1, <2>1, <2>2, <2>3, <2>4
<1>4. Nth(d, p, Len(d) + 1) = Head(p)
  <2>1. ~(Len(d) + 1 <= Len(d)) /\ (Len(d) + 1) - Len(d) = 1
    BY <1>1
  <2> QED BY <1>2, <2>1 DEF Nth
<1>5. Len(Append(d, x)) + Len(Tail(p)) = Len(d) + Len(p)
  BY <1>1
<1> QED BY <1>3, <1>4, <1>5

LEMMA CompletesReads ==
  ASSUME PullInv, ReaderCompletes
  PROVE  HandsKnown' /\ ReadsChained' /\ HeardSoFar'
<1>1. PullTypes /\ HandsKnown /\ ReadsChained /\ HeardSoFar
  BY DEF PullInv
<1>2. PICK ok \in BOOLEAN :
        reader' = [reader EXCEPT !.pending = Tail(@), !.done = Append(@, [Head(reader.pending) EXCEPT !.ok = ok])]
  BY DEF ReaderCompletes
<1>3. pull' = pull /\ worker' = worker /\ heard' = heard /\ reader.pending # <<>>
  BY DEF ReaderCompletes
<1>4. PICK x : x = [Head(reader.pending) EXCEPT !.ok = ok]
  OBVIOUS
<1>5. reader'.pending = Tail(reader.pending) /\ reader'.done = Append(reader.done, x)
  BY <1>1, <1>2, <1>4, Fields
<1>6. reader.pending \in Seq(Reads) /\ reader.done \in Seq(Reads)
  BY <1>1, ReadTypes
<1>7. x \in Reads /\ x.from = Head(reader.pending).from /\ x.to = Head(reader.pending).to
  <2>1. Head(reader.pending) \in Reads
    BY <1>3, <1>6
  <2>2. \A y \in Reads : [y EXCEPT !.ok = ok] \in Reads /\ [y EXCEPT !.ok = ok].from = y.from
                                                        /\ [y EXCEPT !.ok = ok].to = y.to
    BY DEF Reads
  <2> QED BY <1>4, <2>1, <2>2
<1>8. PICK d \in Seq(Reads), p \in Seq(Reads) : d = reader.done /\ p = reader.pending
  BY <1>6
<1>9. /\ Len(Append(d, x)) + Len(Tail(p)) = Len(d) + Len(p)
      /\ \A i \in 1..(Len(d) + Len(p)) : Nth(Append(d, x), Tail(p), i) = IF i = Len(d) + 1 THEN x ELSE Nth(d, p, i)
      /\ Nth(d, p, Len(d) + 1) = Head(p)
  <2>1. p # <<>> /\ x \in Reads
    BY <1>3, <1>7, <1>8
  <2>2. Len(Append(d, x)) + Len(Tail(p)) = Len(d) + Len(p)
    BY <2>1, NthDone
  <2>3. \A i \in 1..(Len(d) + Len(p)) : Nth(Append(d, x), Tail(p), i) = IF i = Len(d) + 1 THEN x ELSE Nth(d, p, i)
    BY <2>1, NthDone
  <2>4. Nth(d, p, Len(d) + 1) = Head(p)
    BY <2>1, NthDone
  <2> QED BY <2>2, <2>3, <2>4
<1>10. Asked = Len(d) + Len(p) /\ Asked' = Len(Append(d, x)) + Len(Tail(p))
  BY <1>5, <1>8 DEF Asked
<1>11. Asked' = Asked
  BY <1>9, <1>10
<1>12. PICK n : n = Len(d) + Len(p)
  OBVIOUS
<1>13. \A i \in 1..n : Read(i)'.from = Read(i).from /\ Read(i)'.to = Read(i).to
  BY <1>5, <1>7, <1>8, <1>9, <1>12 DEF Read
<1>14. \A i \in 1..Asked : Read(i)'.from = Read(i).from /\ Read(i)'.to = Read(i).to
  BY <1>10, <1>12, <1>13
<1>15. ReadsChained' /\ Begun' = Begun
  BY <1>1, <1>3, <1>11, <1>14, SameReads
<1>16. HeardSoFar'
  BY <1>1, <1>3, <1>15, HeardSame
<1>17. HandsKnown'
  BY <1>1, <1>3 DEF HandsKnown
<1> QED BY <1>15, <1>16, <1>17

\* A read taken from the front: the next one is the first.
LEMMA NthTaken ==
  ASSUME NEW d \in Seq(Reads), NEW p \in Seq(Reads), d # <<>>
  PROVE  /\ Len(Tail(d)) = Len(d) - 1 /\ Len(d) \in Nat /\ Len(d) # 0 /\ Nth(d, p, 1) = Head(d)
         /\ \A i \in 1..(Len(d) + Len(p) - 1) : Nth(Tail(d), p, i) = Nth(d, p, i + 1)
<1>1. Len(d) \in Nat /\ Len(p) \in Nat /\ Len(d) # 0 /\ Len(Tail(d)) = Len(d) - 1
  OBVIOUS
<1>2. (\A i \in 1..(Len(d) - 1) : Tail(d)[i] = d[i + 1]) /\ Head(d) = d[1]
  OBVIOUS
<1>3. ASSUME NEW i \in 1..(Len(d) + Len(p) - 1) PROVE Nth(Tail(d), p, i) = Nth(d, p, i + 1)
  <2>1. i \in Int /\ 1 <= i
    BY <1>1
  <2>2. CASE i <= Len(d) - 1
    <3>1. i <= Len(Tail(d)) /\ i + 1 <= Len(d) /\ i \in 1..(Len(d) - 1)
      BY <1>1, <2>1, <2>2
    <3> QED BY <1>2, <3>1 DEF Nth
  <2>3. CASE ~(i <= Len(d) - 1)
    <3>1. ~(i <= Len(Tail(d))) /\ ~(i + 1 <= Len(d)) /\ i - Len(Tail(d)) = (i + 1) - Len(d)
      BY <1>1, <2>1, <2>3
    <3> QED BY <3>1 DEF Nth
  <2> QED BY <2>2, <2>3
<1>4. Nth(d, p, 1) = Head(d)
  <2>1. 1 <= Len(d)
    BY <1>1
  <2> QED BY <1>2, <2>1 DEF Nth
<1> QED BY <1>1, <1>3, <1>4

\* The sample collected is the first read of the chain.
LEMMA CollectReads ==
  ASSUME PullInv, CollectSample
  PROVE  HandsKnown' /\ ReadsChained' /\ HeardSoFar'
<1>1. PullTypes /\ HandsKnown /\ ReadsChained /\ HeardSoFar
  BY DEF PullInv
<1>2. worker.at = "collect" /\ ~pull.sync /\ pull' = pull /\ heard' = heard /\ worker.sample = <<>> /\ heard.whole
  BY <1>1 DEF CollectSample, HandsKnown, HeardSoFar
<1>3. CASE At("flush") /\ reader' = [reader EXCEPT !.done = <<>>]
  <2>1. worker'.at = "flush" /\ worker'.sample = worker.sample
    BY <1>1, <1>3, Fields DEF At
  <2>2. HandsKnown'
    BY <1>2, <2>1 DEF HandsKnown
  <2> QED BY <1>2, <2>1, <2>2, LeftProcess DEF Resting
<1>4. CASE /\ reader.done # <<>> /\ worker' = [worker EXCEPT !.at = "deliver", !.sample = <<Head(reader.done)>>]
           /\ reader' = [reader EXCEPT !.done = Tail(@)]
  <2>1. PICK d \in Seq(Reads), p \in Seq(Reads) : d = reader.done /\ p = reader.pending
    BY <1>1, ReadTypes
  <2>2. PICK s : s = Head(d)
    OBVIOUS
  <2>3. /\ worker'.at = "deliver" /\ worker'.sample = <<s>> /\ worker'.cur = worker.cur
        /\ worker'.start = worker.start /\ worker'.stop = worker.stop
        /\ reader'.done = Tail(d) /\ reader'.pending = p
    BY <1>1, <1>4, <2>1, <2>2, Fields
  <2>4. worker'.sample[1] = s /\ Len(worker'.sample) = 1
    BY <2>3
  <2>5. /\ Len(Tail(d)) = Len(d) - 1 /\ Len(d) \in Nat /\ Len(d) # 0 /\ Nth(d, p, 1) = s
        /\ \A i \in 1..(Len(d) + Len(p) - 1) : Nth(Tail(d), p, i) = Nth(d, p, i + 1)
    BY <1>4, <2>1, <2>2, NthTaken
  <2>6. PICK n \in Nat : n = Len(d) + Len(p) - 1
    <3>0. \A a, b \in Nat : a # 0 => a + b - 1 \in Nat
      OBVIOUS
    <3>1. Len(d) + Len(p) - 1 \in Nat
      <4>1. Len(p) \in Nat
        OBVIOUS
      <4> QED BY <2>5, <3>0, <4>1
    <3> QED BY <3>1
  <2>7. Asked = n + 1 /\ Asked' = n
    <3>1. Asked = Len(d) + Len(p) /\ Asked' = Len(Tail(d)) + Len(p)
      BY <2>1, <2>3 DEF Asked
    <3>2. Len(d) + Len(p) = n + 1 /\ Len(Tail(d)) + Len(p) = n
      <4>1. Len(p) \in Nat
        OBVIOUS
      <4>2. \A a, b, c \in Nat : c = a + b - 1 => a + b = c + 1 /\ (a - 1) + b = c
        OBVIOUS
      <4>3. Len(d) + Len(p) = n + 1 /\ (Len(d) - 1) + Len(p) = n
        BY <2>5, <2>6, <4>1, <4>2
      <4> QED BY <2>5, <4>3
    <3> QED BY <3>1, <3>2
  <2>8. Read(1) = s /\ \A i \in 1..n : Read(i)' = Read(i + 1)
    BY <2>1, <2>3, <2>5, <2>6 DEF Read
  <2>9. /\ AlignStop' = AlignStop /\ PullStop' = PullStop /\ Begun' = s.from
        /\ Ended' = worker.cur /\ Ended = worker.cur
    BY <1>2, <2>3, <2>4 DEF AlignStop, PullStop, Begun, Ended
  <2>10. Begun = s.from
    BY <1>2, <2>6, <2>7, <2>8 DEF First, Begun
  <2>11. ReadsChained!2
    BY <1>1, <1>2 DEF ReadsChained, InProcess
  <2>12. \A i \in 1..n : i \in 1..(n + 1) /\ i + 1 \in 1..(n + 1)
    BY <2>6
  <2>13. 1 \in 1..(n + 1) /\ n + 1 \in 1..(n + 1) /\ n + 1 # 0
    BY <2>6
  <2>14. First' = s.to
    <3>1. CASE n = 0
      <4>1. First' = worker.cur
        BY <2>3, <2>7, <3>1 DEF First
      <4>2. Read(n + 1).to = worker.cur
        BY <2>7, <2>9, <2>11, <2>13
      <4>3. n + 1 = 1
        BY <3>1
      <4> QED BY <2>8, <4>1, <4>2, <4>3
    <3>2. CASE n # 0
      <4>1. First' = Read(1)'.from
        BY <2>7, <3>2 DEF First
      <4>2. 1 \in 1..n /\ 2 \in 1..(n + 1) /\ 2 = 1 + 1
        BY <2>6, <3>2
      <4>3. Read(1)' = Read(2)
        BY <2>8, <4>2
      <4>4. Read(1).to = Read(2).from
        BY <2>7, <2>11, <2>13, <4>2
      <4> QED BY <2>8, <4>1, <4>3, <4>4
    <3> QED BY <3>1, <3>2
  <2>15. ReadsChained'
    <3>1. \A i \in 1..n : Whole(Read(i))'
      <4>1. ASSUME NEW i \in 1..n PROVE Whole(Read(i + 1))
        BY <2>7, <2>11, <2>12
      <4> QED BY <2>8, <2>9, <4>1 DEF Whole
    <3>2. ASSUME NEW i \in 1..n, NEW j \in 1..n, j = i + 1 PROVE Read(i)'.to = Read(j)'.from
      <4>1. PICK k \in 1..(n + 1), m \in 1..(n + 1) : k = i + 1 /\ m = j + 1 /\ m = k + 1
        BY <2>6, <3>2, <2>12
      <4>2. Read(k).to = Read(m).from
        BY <2>7, <2>11, <4>1
      <4> QED BY <2>8, <4>1, <4>2
    <3>3. n # 0 => Read(n)'.to = worker.cur
      <4>1. Read(n + 1).to = worker.cur
        BY <2>7, <2>9, <2>11, <2>13
      <4>2. n # 0 => n \in 1..n
        BY <2>6
      <4> QED BY <2>8, <4>1, <4>2
    <3>4. Whole(worker.sample[1])'
      <4>1. Whole(s)
        BY <2>7, <2>8, <2>11, <2>13
      <4> QED BY <2>4, <2>9, <4>1 DEF Whole
    <3>5. Asked' # 0 => Read(Asked)'.to = worker.cur
      <4>1. Read(Asked)' = Read(n)'
        BY <2>7 DEF Read
      <4> QED BY <2>7, <3>3, <4>1
    <3> QED BY <1>2, <2>3, <2>4, <2>7, <2>9, <2>11, <2>14, <3>1, <3>2, <3>4, <3>5 DEF ReadsChained
  <2>16. HandsKnown'
    BY <1>2, <2>3, <2>4 DEF HandsKnown
  <2>17. HeardSoFar'
    <3>1. Reach(Begun)' = Reach(Begun)
      BY <2>3, <2>9, <2>10 DEF Reach
    <3> QED BY <1>1, <1>2, <2>3, <3>1 DEF HeardSoFar, InProcess
  <2> QED BY <2>15, <2>16, <2>17
<1> QED BY <1>3, <1>4 DEF CollectSample

\* What the receiver takes begins where what it had ends, and the next read begins where it ends.
LEMMA DeliverReads ==
  ASSUME PullInv, NEW takes \in BOOLEAN, NEW keeps \in BOOLEAN, NEW fails \in BOOLEAN,
         DeliverSample(takes, keeps, fails)
  PROVE  HandsKnown' /\ ReadsChained' /\ HeardSoFar'
<1>1. PullTypes /\ HandsKnown /\ ReadsChained /\ HeardSoFar
  BY DEF PullInv
<1>2. worker.at = "deliver" /\ pull' = pull /\ Len(worker.sample) = 1 /\ heard.whole
  BY <1>1 DEF DeliverSample, HandsKnown, HeardSoFar
<1>3. PICK s \in Reads : s = worker.sample[1] /\ s = Head(worker.sample)
  <2>1. worker.sample \in Seq(Reads)
    BY <1>1, ReadTypes
  <2>2. worker.sample[1] \in Reads /\ worker.sample[1] = Head(worker.sample)
    BY <1>2, <2>1
  <2> QED BY <2>2
<1>4. /\ worker'.sample = <<>> /\ worker'.cur = worker.cur /\ worker'.start = worker.start
      /\ worker'.stop = worker.stop
      /\ worker'.at = IF takes THEN NextPlace ELSE worker'.at
      /\ (~takes => worker'.at \in {"eos", "flush"} /\ (worker'.at = "eos" => ~pull.sync))
  BY <1>1, Fields DEF DeliverSample
<1>5. ReadsChained!2
  BY <1>1, <1>2 DEF ReadsChained, InProcess
<1>6. /\ s.from \in Int /\ s.to \in Int /\ Aligned(s.from) /\ s.from < s.to /\ s.to <= AlignStop /\ s.to = First
      /\ worker.start < AlignStop /\ worker.cur <= AlignStop /\ Aligned(worker.start) /\ Aligned(worker.cur)
  BY <1>2, <1>3, <1>5 DEF Whole, Reads
<1>7. /\ PullStop \in Int /\ AlignStop \in Int /\ PullStop <= AlignStop /\ worker.start < PullStop
      /\ s.from < PullStop /\ worker.cur \in Int /\ worker.start \in Int
  <2>1. /\ PullStop \in Int /\ AlignStop \in Int /\ PullStop <= AlignStop /\ worker.cur \in Int /\ worker.start \in Int
        /\ \A y \in Int : Aligned(y) => (y < AlignStop <=> y < PullStop)
    BY <1>1, BeforeStop, ReadTypes
  <2>2. s.from < AlignStop
    BY <1>6, <2>1
  <2> QED BY <1>6, <2>1, <2>2
<1>8. PullStop' = PullStop /\ AlignStop' = AlignStop
  BY <1>4 DEF PullStop, AlignStop
<1>9. pull.start < pull.stop /\ worker.start <= worker.cur /\ worker.start = AlignDown(pull.start)
      /\ worker.stop = pull.stop /\ (~pull.flushing => ~heard.eos /\ heard.next = Reach(Begun))
  BY <1>1, <1>2 DEF HeardSoFar, InProcess
<1>10. Begun = s.from
  BY <1>2, <1>3 DEF Begun
<1>11. CASE ~takes
  <2>1. heard' = IF pull.flushing THEN heard ELSE [heard EXCEPT !.refused = TRUE]
    BY <1>11 DEF DeliverSample
  <2>2. heard'.whole /\ (pull.flushing \/ (heard'.refused /\ heard'.eos = heard.eos))
    <3>1. CASE pull.flushing
      BY <1>2, <2>1, <3>1
    <3>2. CASE ~pull.flushing
      <4>1. heard' = [heard EXCEPT !.refused = TRUE]
        BY <2>1, <3>2
      <4>2. heard'.refused
        BY <1>1, <4>1, Fields
      <4>3. heard'.whole = heard.whole /\ heard'.eos = heard.eos
        BY <1>1, <4>1, Fields
      <4> QED BY <1>2, <4>2, <4>3
    <3> QED BY <3>1, <3>2
  <2>3. worker'.at \in {"eos", "flush"} /\ (worker'.at = "eos" => ~pull.sync)
    BY <1>4, <1>11
  <2>4. reader'.pending = reader.pending /\ (reader'.done = <<>> \/ reader'.done = reader.done)
    BY <1>1, Fields DEF DeliverSample
  <2>5. HandsKnown'
    BY <1>1, <1>2, <1>4, <2>3, <2>4 DEF HandsKnown
  <2>6. CASE worker'.at = "flush"
    BY <2>2, <2>5, <2>6, LeftProcess DEF Resting
  <2>7. CASE worker'.at = "eos"
    <3>1. ReadsChained'
      BY <2>7 DEF ReadsChained
    <3>2. HeardSoFar'
      BY <1>2, <1>4, <1>9, <2>2, <2>7 DEF HeardSoFar
    <3> QED BY <2>5, <3>1, <3>2
  <2> QED BY <2>3, <2>6, <2>7
<1>12. CASE takes
  <2> DEFINE from == s.from - worker.start
             to == Least(s.to, PullStop) - worker.start
  <2>1. ~pull.flushing /\ ~fails /\ reader' = reader /\ worker'.at = NextPlace
        /\ heard' = [heard EXCEPT !.next = to, !.whole = heard.whole /\ from = heard.next /\ from < to /\ ~heard.eos]
    BY <1>3, <1>12 DEF DeliverSample
  <2>2. heard.next = from /\ from < to
    <3>1. Least(s.from, PullStop) = s.from /\ s.from < Least(s.to, PullStop) /\ Least(s.to, PullStop) \in Int
      BY <1>6, <1>7 DEF Least
    <3>2. heard.next = from
      BY <1>7, <1>9, <1>10, <2>1, <3>1 DEF Reach
    <3>3. from < to
      BY <1>6, <1>7, <3>1
    <3> QED BY <3>2, <3>3
  <2> HIDE DEF from
  <2>3. heard'.next = to /\ heard'.eos = heard.eos /\ heard'.whole
    BY <1>1, <1>2, <1>9, <2>1, <2>2, Fields
  <2>4. to = Reach(s.to)
    BY <1>7 DEF Reach
  <2> HIDE DEF to
  <2>5. /\ worker'.at \in {"loop", "buffer", "collect", "eos"}
        /\ (worker'.at = "loop" => pull.sync) /\ (worker'.at = "collect" => ~pull.sync)
        /\ (worker'.at = "buffer" => worker.cur < AlignStop)
        /\ (worker'.at = "eos" => ~(worker.cur < AlignStop) /\ reader.done = <<>> /\ reader.pending = <<>>)
    BY <2>1 DEF NextPlace
  <2>6. Asked' = Asked /\ Asked \in Nat /\ \A i \in 1..Asked : Read(i)' = Read(i)
    BY <1>1, <2>1, ReadTypes DEF Asked, Read
  <2>7. First' = First /\ Begun' = First /\ Ended' = Ended /\ Ended = worker.cur
    BY <1>2, <1>4, <2>5, <2>6 DEF First, Begun, Ended, Read
  <2>8. HandsKnown'
    <3>1. pull.sync => reader.pending = <<>> /\ reader.done = <<>>
      BY <1>1 DEF HandsKnown
    <3> QED BY <1>2, <1>4, <2>1, <2>5, <3>1 DEF HandsKnown
  <2>9. ReadsChained'
    <3>1. \A i \in 1..Asked : Whole(Read(i)) => Whole(Read(i))'
      BY <1>8, <2>6 DEF Whole
    <3>2. \A i \in 1..Asked : \A j \in 1..Asked : j = i + 1 => Read(i)'.to = Read(j)'.from
      BY <1>5, <2>6
    <3>3. Asked # 0 => Asked \in 1..Asked
      BY <2>6
    <3>4. Asked # 0 => Read(Asked)'.to = worker.cur
      BY <1>5, <2>6, <2>7, <3>3
    <3> QED BY <1>4, <1>5, <1>6, <1>8, <2>5, <2>6, <2>7, <3>1, <3>2, <3>4 DEF ReadsChained
  <2>10. Reach(Begun)' = to
    BY <1>4, <1>6, <1>8, <2>4, <2>7 DEF Reach
  <2>11. worker'.at = "eos" => to = RangeLength'
    <3>1. SUFFICES ASSUME worker'.at = "eos" PROVE to = RangeLength'
      OBVIOUS
    <3>2. ~(worker.cur < AlignStop) /\ Asked = 0
      BY <1>1, <2>5, <3>1, Emptied
    <3>3. First = worker.cur
      BY <1>2, <3>2 DEF First
    <3>4. Least(s.to, PullStop) = PullStop
      BY <1>6, <1>7, <3>2, <3>3 DEF Least
    <3>5. to = PullStop - worker.start
      BY <3>4 DEF to
    <3> QED BY <1>2, <1>4, <1>6, <1>8, <1>9, <3>5 DEF RangeLength
  <2>12. HeardSoFar'
    BY <1>2, <1>4, <1>9, <2>1, <2>3, <2>5, <2>10, <2>11 DEF HeardSoFar, InProcess
  <2> QED BY <2>8, <2>9, <2>12
<1> QED BY <1>11, <1>12

LEMMA EndReads ==
  ASSUME PullInv, EndOfStream
  PROVE  HandsKnown' /\ ReadsChained' /\ HeardSoFar'
<1>1. PullTypes /\ HandsKnown /\ HeardSoFar
  BY DEF PullInv
<1>2. /\ worker.at = "eos" /\ reader' = reader /\ pull' = pull /\ worker'.at = "flush" /\ worker'.sample = worker.sample
  BY <1>1, Fields DEF EndOfStream, At
<1>3. heard'.whole
  <2>1. CASE pull.flushing
    BY <1>1, <2>1 DEF EndOfStream, HeardSoFar
  <2>2. CASE ~pull.flushing
    <3>1. heard.whole /\ ~heard.eos /\ (heard.refused \/ heard.next = RangeLength)
      BY <1>1, <1>2, <2>2 DEF HeardSoFar, InProcess
    <3>2. heard' = [heard EXCEPT !.eos = TRUE,
                                 !.whole = heard.whole /\ ~heard.eos /\ (heard.refused \/ heard.next = RangeLength)]
      BY <2>2 DEF EndOfStream
    <3>3. heard'.whole = (heard.whole /\ ~heard.eos /\ (heard.refused \/ heard.next = RangeLength))
      BY <1>1, <3>2, Fields
    <3> QED BY <3>1, <3>3
  <2> QED BY <2>1, <2>2
<1>4. HandsKnown'
  BY <1>1, <1>2 DEF HandsKnown
<1> QED BY <1>2, <1>3, <1>4, LeftProcess DEF Resting

LEMMA PullStarts ==
  ASSUME PullInit
  PROVE  PullInv
<1>1. PICK sync \in BOOLEAN : pull = [start |-> 0, stop |-> Duration, state |-> "exit", sync |-> sync,
                                     committed |-> FALSE, flushing |-> FALSE, seeks |-> 0]
  BY DEF PullInit
<1>2. PullTypes
  <2>1. pull \in PullRecords
    BY <1>1, PullBounds DEF PullRecords
  <2>2. client \in ClientRecords /\ call \in CallRecords
    BY DEF PullInit, ClientRecords, CallRecords, NoCall
  <2>3. worker \in WorkerRecords /\ reader \in ReaderRecords
    BY DEF PullInit, WorkerRecords, ReaderRecords, EmptyReader
  <2>4. heard \in HeardRecords
    BY DEF PullInit, HeardRecords, NewStream
  <2> QED BY <2>1, <2>2, <2>3, <2>4 DEF PullTypes
<1>3. /\ client.at = "idle" /\ call.cmd = "none" /\ ~call.answered /\ worker.at = "none" /\ worker.sample = <<>>
      /\ reader.pending = <<>> /\ reader.done = <<>> /\ heard.whole
  BY DEF PullInit, NoCall, EmptyReader, NewStream
<1>4. ~pull.flushing /\ pull.state = "exit"
  BY <1>1
<1>5. CallsInOrder /\ FlushReaches /\ HandsKnown
  BY <1>3, <1>4 DEF CallsInOrder, FlushReaches, HandsKnown, InProcess
<1>6. ReadsChained /\ HeardSoFar
  BY <1>3, <1>4 DEF ReadsChained, HeardSoFar, InProcess
<1> QED BY <1>2, <1>5, <1>6 DEF PullInv

\* Until the reader has refused to be flushed.
PullUntil == unflushed \/ PullInv

\* CPullPin, for any number of buffers, any alignment and any ranges sought: what is delivered is the range, whole and in
\* order, a resting worker leaves nothing at the reader, and a stop or a seek never waits for the disk, as long as the
\* reader lets itself be flushed.
THEOREM PullStops == PullSpec => []PullSafe
<1>1. PullInit => PullUntil
  BY PullStarts DEF PullUntil
<1>2. PullInv /\ [PullStep]_pullvars => PullInv'
  <2>1. ASSUME PullInv, PullStep PROVE HandsKnown' /\ ReadsChained' /\ HeardSoFar'
    BY <2>1, CallsLeaveReads, RestLeavesReads, ProcessReads, CheckReads, StampReads, AskReads, SyncReads, CompletesReads,
       CollectReads, DeliverReads, EndReads DEF PullStep
  <2>2. PullInv /\ PullStep => PullInv'
    BY <2>1, TypesKept, CallsKept DEF PullInv
  <2>3. PullInv /\ UNCHANGED pullvars => PullInv'
    <3>1. SUFFICES ASSUME PullInv, UNCHANGED pullvars PROVE PullInv'
      OBVIOUS
    <3>2. pull' = pull /\ client' = client /\ call' = call /\ worker' = worker /\ reader' = reader /\ heard' = heard
      BY <3>1 DEF pullvars
    <3>3. PullTypes /\ CallsInOrder /\ FlushReaches /\ HandsKnown /\ ReadsChained /\ HeardSoFar
      BY <3>1 DEF PullInv
    <3>4. PullTypes' /\ CallsInOrder' /\ FlushReaches'
      BY <3>2, <3>3 DEF PullTypes, CallsInOrder, FlushReaches, NewStream
    <3>5. HandsKnown' /\ ReadsChained' /\ Begun' = Begun
      BY <3>2, <3>3, Untouched
    <3>6. HeardSoFar'
      BY <3>2, <3>3, <3>5, HeardSame
    <3> QED BY <3>4, <3>5, <3>6 DEF PullInv
  <2> QED BY <2>2, <2>3
<1>3. PullUntil /\ [PullNext]_pullvars => PullUntil'
  <2>1. unflushed /\ [PullNext]_pullvars => unflushed'
    <3>1. [PullNext]_pullvars => unflushed' = unflushed \/ unflushed' = TRUE
      BY Zenon DEF PullNext, PauseRefused, pullvars
    <3> QED BY <3>1, Zenon
  <2>2. [PullNext]_pullvars => [PullStep]_pullvars \/ unflushed'
    BY DEF PullNext, PauseRefused, pullvars
  <2> QED BY <1>2, <2>1, <2>2, Zenon DEF PullUntil
<1>4. PullUntil => PullSafe
  <2>1. SUFFICES ASSUME PullUntil, ~unflushed PROVE StreamWhole /\ IdleHoldsNothing /\ CallerNotHeldByReader
    BY DEF PullSafe
  <2> USE DEF PullUntil
  <2>2. StreamWhole
    BY <2>1 DEF PullInv, HeardSoFar, StreamWhole
  <2>3. IdleHoldsNothing
    BY <2>1 DEF PullInv, HandsKnown, IdleHoldsNothing
  <2>4. CallerNotHeldByReader
    BY <2>1 DEF PullInv, FlushReaches, CallerNotHeldByReader, InProcess
  <2> QED BY <2>2, <2>3, <2>4
<1> QED BY <1>1, <1>3, <1>4, PTL DEF PullSpec

=============================================================================
