---------------------------- MODULE BaseMuxProofs ----------------------------
(***************************************************************************)
(* Theorems about BaseMux, for every number of pins, whichever of them are *)
(* connected, every queue size and every set of times.                     *)
(*                                                                         *)
(* MuxInv, the inductive invariant, has four parts: the types, the phases  *)
(* of the dialogue between the control and the muxing thread, the two      *)
(* mappings between pins and streams, and what the histories of a pin and  *)
(* of its stream have to do with each other.                               *)
(***************************************************************************)
EXTENDS BaseMux, InterleaverProofs, FiniteSetTheorems

-----------------------------------------------------------------------------
(* The invariant.                                                          *)

ControlTypes ==
  /\ mState \in {"Stopped", "Paused", "Running"}
  /\ goal \in {"Stopped", "Paused", "Running"}
  /\ ctl \in {"idle", "starting", "creating", "waitRun", "aborting",
              "stopping", "exiting", "waitExit", "joining", "finishing",
              "clearing", "unlinking"}
  /\ abort \in BOOLEAN
  /\ request \in {"none", "RUN", "EXIT"}
  /\ evSend \in BOOLEAN /\ evComplete \in BOOLEAN
  /\ mpc \in {"none", "getRequest", "reply", "signal", "loop", "reading",
              "muxing", "ending", "exited"}
  /\ inSession \in BOOLEAN
  /\ eosSent \in Nat

CallPcs == {"idle", "polling", "polled", "getting", "packet"}

PinTypes ==
  /\ connected \in [Pins -> BOOLEAN]
  /\ pinStream \in [Pins -> Streams \cup {NoStream}]
  /\ owner \in [Streams -> Pins \cup {NoStream}]
  /\ flushing \in [Pins -> BOOLEAN]
  /\ upstream \in BOOLEAN
  /\ upc \in [Pins -> CallPcs]
  /\ ucall \in [Pins -> [time : Times \cup {0}, eos : BOOLEAN]]

HistoryTypes ==
  /\ muxed \in [Pins -> Seq(Packets)]
  /\ received \in [Pins -> Seq(Packets)]

MuxTypeOK == TypeOK /\ ControlTypes /\ PinTypes /\ HistoryTypes

(* What the muxing thread may be doing while nothing is asked of it.       *)
Working == {"getRequest", "loop", "reading", "muxing", "ending"}

NoWorker == mpc = "none" /\ ~evSend /\ ~evComplete

AtWork == mpc \in Working /\ request = "RUN" /\ ~evSend /\ ~evComplete

(* RUN is on its way to the thread, or its reply on its way back.          *)
RunPending ==
  /\ request = "RUN"
  /\ \/ mpc \in {"getRequest", "reply"} /\ evSend /\ ~evComplete
     \/ mpc = "signal" /\ ~evSend /\ ~evComplete
     \/ mpc \in Working /\ ~evSend /\ evComplete

ExitPending ==
  /\ request = "EXIT"
  /\ \/ mpc \in Working \cup {"reply"} /\ evSend /\ ~evComplete
     \/ mpc = "signal" /\ ~evSend /\ ~evComplete
     \/ mpc = "exited" /\ ~evSend /\ evComplete

Open == inSession /\ nStreams > 0

Closed ==
  /\ ~inSession /\ nStreams = 0
  /\ \A p \in Pins : pinStream[p] = NoStream

Started ==
  \/ ctl = "idle" /\ mState # "Stopped"
  \/ ctl \in {"aborting", "stopping"}

(***************************************************************************)
(* Where the control thread is says what the muxing thread, its events and *)
(* the session can be like.                                                *)
(***************************************************************************)
Phases ==
  /\ ctl = "idle" /\ mState = "Stopped" => Closed /\ NoWorker
  /\ Started => ((Closed \/ Open) /\ NoWorker) \/ (Open /\ AtWork)
  /\ ctl = "starting" => Closed /\ NoWorker /\ ConnectedPins # {}
  /\ ctl = "creating" => Open /\ NoWorker /\ eosSent = 0
  /\ ctl = "waitRun" => Open /\ RunPending
  /\ ctl \in {"starting", "creating", "waitRun"} => goal # "Stopped"
  /\ ctl = "exiting" => Open /\ AtWork
  /\ ctl = "waitExit" => Open /\ ExitPending
  /\ ctl = "joining" => Open /\ mpc = "exited" /\ ~evSend /\ ~evComplete
  /\ ctl = "finishing" => (Open \/ Closed) /\ NoWorker
  /\ ctl = "clearing" => ~inSession /\ NoWorker
  /\ ctl = "unlinking" => ~inSession /\ nStreams = 0 /\ NoWorker
  /\ rpc # "idle" <=> mpc = "reading"

(* After the end of the stream the thread only waits for EXIT.             *)
EndIsFinal ==
  eosSent > 0 /\ inSession =>
    /\ mpc \notin {"loop", "reading", "muxing", "ending"}
    /\ evSend \/ mpc \in {"reply", "signal"} => request = "EXIT"

(* As long as streams exist, pins and streams name each other.             *)
Mapped ==
  /\ nStreams > 0 =>
       /\ nStreams = Cardinality(ConnectedPins)
       /\ \A p \in ConnectedPins : pinStream[p] = Rank(p) /\ owner[Rank(p)] = p
  /\ \A p \in Pins : upc[p] # "idle" => connected[p]

LastOut == output[Len(output)]
InHand(p) == mpc = "muxing" /\ LastOut.stream = Rank(p)

(* What a pin has accepted its stream has, and what its stream has given   *)
(* back the derived class has got, but for the packet the thread holds.    *)
Histories ==
  /\ nStreams = 0 =>
       \A s \in Streams :
         queue[s] = <<>> /\ accepted[s] = <<>> /\ delivered[s] = <<>>
  /\ \A s \in Streams : \A i \in 1 .. Len(queue[s]) :
       /\ queue[s][i].stream = s
       /\ \E p \in ConnectedPins : Rank(p) = s
  /\ mpc = "muxing" =>
       output # <<>> /\ \E p \in ConnectedPins : LastOut.stream = Rank(p)
  /\ nStreams > 0 =>
       \A p \in ConnectedPins :
         /\ accepted[Rank(p)] = received[p]
         /\ delivered[Rank(p)] =
              IF InHand(p) THEN Append(muxed[p], LastOut) ELSE muxed[p]
  /\ StreamFifo

MuxInv ==
  /\ MuxTypeOK /\ Phases /\ EndIsFinal /\ Mapped /\ Histories
  /\ PinsKeepTheirPackets

USE DEF vars, streamVars, writerVars, readerVars, historyVars, controlVars,
        pinVars, upstreamVars, workerVars, sessionVars

-----------------------------------------------------------------------------
(* The numbers of the streams.                                             *)

LEMMA PinsFinite ==
  /\ ConnectedPins \subseteq Pins
  /\ IsFiniteSet(ConnectedPins)
  /\ Cardinality(ConnectedPins) \in 0 .. MaxStreams
  /\ ConnectedPins # {} => Cardinality(ConnectedPins) > 0
<1>1. IsFiniteSet(0 .. MaxStreams - 1) /\ Cardinality(0 .. MaxStreams - 1) = MaxStreams
  BY MaxStreamsAssumption, FS_Interval
<1>2. ConnectedPins \in SUBSET (0 .. MaxStreams - 1)
  BY DEF ConnectedPins, Pins, Streams
<1>3. IsFiniteSet(ConnectedPins) /\ Cardinality(ConnectedPins) <= MaxStreams
  BY <1>1, <1>2, FS_Subset
<1>4. Cardinality(ConnectedPins) \in Nat
  BY <1>3, FS_CardinalityType
<1>5. ConnectedPins # {} => Cardinality(ConnectedPins) # 0
  BY <1>3, FS_EmptySet
<1> QED
  BY <1>2, <1>3, <1>4, <1>5, MaxStreamsAssumption DEF Pins, Streams

(* The number of a connected pin's stream is that of a stream that exists. *)
LEMMA RankInRange ==
  ASSUME NEW p \in ConnectedPins
  PROVE  /\ Rank(p) \in 0 .. Cardinality(ConnectedPins) - 1
         /\ Rank(p) \in Streams
<1> DEFINE lower == {q \in ConnectedPins : q < p}
<1>1. p \in Int /\ p \notin lower
  BY PinsFinite DEF Pins, Streams
<1>2. lower \in SUBSET ConnectedPins /\ lower # ConnectedPins
  BY <1>1
<1>3. /\ IsFiniteSet(lower)
      /\ Cardinality(lower) <= Cardinality(ConnectedPins)
      /\ Cardinality(lower) # Cardinality(ConnectedPins)
  BY <1>2, PinsFinite, FS_Subset
<1>4. Cardinality(lower) \in Nat
  BY <1>3, FS_CardinalityType
<1>5. Rank(p) = Cardinality(lower)
  BY DEF Rank
<1>6. Cardinality(ConnectedPins) \in 0 .. MaxStreams /\ MaxStreams \in Nat
  BY PinsFinite, MaxStreamsAssumption
<1> QED
  BY <1>3, <1>4, <1>5, <1>6 DEF Streams

(* No two connected pins share a stream.                                   *)
LEMMA RankInjective ==
  ASSUME NEW p \in ConnectedPins, NEW q \in ConnectedPins,
         Rank(p) = Rank(q)
  PROVE  p = q
<1>1. ASSUME NEW a \in ConnectedPins, NEW b \in ConnectedPins, a < b
      PROVE  Rank(a) # Rank(b)
  <2> DEFINE below(c) == {d \in ConnectedPins : d < c}
  <2>1. \A d \in ConnectedPins : d \in Int
    BY PinsFinite DEF Pins, Streams
  <2>2. /\ below(a) \in SUBSET below(b)
        /\ a \in below(b) /\ a \notin below(a)
    BY <1>1, <2>1
  <2>3. IsFiniteSet(below(b))
    <3>1. below(b) \in SUBSET ConnectedPins
      OBVIOUS
    <3> QED
      BY <3>1, PinsFinite, FS_Subset
  <2>4. Cardinality(below(b)) = Cardinality(below(a)) => below(b) = below(a)
    BY <2>2, <2>3, FS_Subset
  <2> QED
    BY <2>2, <2>4 DEF Rank
<1>2. p \in Int /\ q \in Int
  BY PinsFinite DEF Pins, Streams
<1> QED
  BY <1>1, <1>2

-----------------------------------------------------------------------------
(* What a step of the filter is for the interleaver.                       *)

(* The muxing thread is at work only while a session is open.              *)
LEMMA WorkIsOpen ==
  ASSUME MuxTypeOK, Phases, mpc # "none"
  PROVE  Open
  BY DEF MuxTypeOK, ControlTypes, Phases, Started, NoWorker

LEMMA PinCall ==
  ASSUME MuxTypeOK, Mapped, NEW p \in Pins, upc[p] # "idle"
  PROVE  /\ p \in ConnectedPins
         /\ Rank(p) \in Streams
         /\ CallPacket(p) \in Packets /\ CallPacket(p).stream = Rank(p)
<1>1. p \in ConnectedPins
  BY DEF Mapped, ConnectedPins
<1>2. Rank(p) \in Streams
  BY <1>1, RankInRange
<1>3. ucall[p] \in [time : Times \cup {0}, eos : BOOLEAN]
  BY DEF MuxTypeOK, PinTypes
<1> QED
  BY <1>1, <1>2, <1>3 DEF CallPacket, EosPacket, SamplePacket, Packets

(* Every step is one of the interleaver's own but for the start and end of *)
(* a session, and for a Write, whose packet may follow what the contract   *)
(* of Interleaver forbids.                                                 *)
LEMMA StreamStep ==
  ASSUME MuxTypeOK, Phases, Mapped, [MuxNext]_allVars
  PROVE  \/ [Next]_vars
         \/ StartStreaming
         \/ ClearStreams
         \/ \E p \in Pins : PinWrite(p) \/ PinWriteUnlinked(p)
<1> USE DEF Next
<1>1. ASSUME NEW g \in {"Paused", "Running"},
             PauseStopped(g) \/ PauseRefused \/ PauseRunning \/ StopCall
      PROVE  [Next]_vars
  <2>1. \E b \in BOOLEAN : SetAbort(b)
    BY <1>1 DEF PauseStopped, PauseRefused, PauseRunning, StopCall
  <2> QED
    BY <2>1 DEF Control
<1>2. CASE RunPaused
  BY <1>2 DEF RunPaused
<1>3. ASSUME ControlStep PROVE StartStreaming \/ ClearStreams \/ UNCHANGED vars
  BY <1>3 DEF ControlStep, CreateThread, CreateThreadFails, RunReplied,
    StopSetsAbort, StopBase, CallExit, ExitReplied, CloseThread, FinishSession,
    UnlinkPins
<1>4. CASE LoopRead
  <2>1. nStreams > 0 /\ ReadCall
    BY <1>4, WorkIsOpen DEF LoopRead, Open
  <2> QED
    BY <2>1 DEF Reader
<1>5. CASE MuxRead
  BY <1>5 DEF MuxRead, Reader
<1>6. CASE GetRequest \/ Reply \/ LoopRequested \/ MuxPacket \/ MuxEnd
  BY <1>6 DEF GetRequest, Reply, LoopRequested, MuxPacket, MuxEnd
<1>7. ASSUME NEW p \in Pins, PinGetPacket(p) PROVE [Next]_vars
  <2>1. pinStream[p] \in Streams /\ GetPacketCall(pinStream[p])
    BY <1>7, FirstStreams DEF PinGetPacket, Linked, Live, MuxTypeOK, TypeOK
  <2> QED
    BY <2>1 DEF Writer
<1>8. ASSUME NEW p \in Pins, PinGotPacket(p) PROVE [Next]_vars
  <2>1. /\ Rank(p) \in Streams
        /\ GetPacketWake(Rank(p)) \/ GetPacketReturn(Rank(p))
    BY <1>8, PinCall DEF PinGotPacket
  <2> QED
    BY <2>1 DEF Writer
<1>9. ASSUME NEW p \in Pins,
             PollFlushing(p) \/ PollWait(p) \/ PinGetPacketUnlinked(p)
      PROVE  UNCHANGED vars
  BY <1>9 DEF PollFlushing, PollWait, PinGetPacketUnlinked
<1>10. ASSUME GraphStep PROVE UNCHANGED vars
  BY <1>10 DEF GraphStep, UpstreamStart, UpstreamStop, BeginFlush, EndFlush,
    ReceiveCall
<1>11. CASE UNCHANGED allVars
  BY <1>11 DEF allVars
<1> QED
  BY <1>1, <1>2, <1>3, <1>4, <1>5, <1>6, <1>7, <1>8, <1>9, <1>10, <1>11
  DEF MuxNext, PauseOrRun, MuxThread, UpstreamStep

-----------------------------------------------------------------------------
(* Types.                                                                  *)

LEMMA MuxStreamTypes ==
  ASSUME MuxTypeOK, Phases, Mapped, [MuxNext]_allVars
  PROVE  TypeOK'
<1>0. TypeOK
  BY DEF MuxTypeOK
<1>1. CASE [Next]_vars
  BY <1>0, <1>1, TypeStep
<1>2. CASE StartStreaming
  <2>1. nStreams = 0
    BY <1>2 DEF StartStreaming, Phases, Closed
  <2>2. nStreams' \in 0 .. MaxStreams
    BY <1>2, <2>1, PinsFinite DEF StartStreaming
  <2> QED
    BY <1>0, <1>2, <2>2 DEF StartStreaming, TypeOK
<1>3. CASE ClearStreams
  BY <1>0, <1>3, MaxStreamsAssumption DEF ClearStreams, Clear, TypeOK
<1>4. ASSUME NEW p \in Pins, PinWrite(p) PROVE TypeOK'
  <2>1. upc[p] # "idle" /\ Write(Rank(p), CallPacket(p))
    BY <1>4 DEF PinWrite
  <2> QED
    BY <1>0, <2>1, PinCall, TypeWrite
<1>5. ASSUME NEW p \in Pins, PinWriteUnlinked(p) PROVE TypeOK'
  BY <1>0, <1>5 DEF PinWriteUnlinked, TypeOK
<1> QED
  BY <1>1, <1>2, <1>3, <1>4, <1>5, StreamStep

LEMMA LastOutIsPacket ==
  ASSUME MuxTypeOK, Histories, mpc = "muxing"
  PROVE  LastOut \in Packets /\ Len(output) \in Nat \ {0}
<1>1. output \in Seq(Packets) /\ output # <<>>
  BY DEF MuxTypeOK, TypeOK, Histories
<1> QED
  BY <1>1, LenProperties, EmptySeq, ElementOfSeq DEF LastOut

(* Where the loop goes when Read has returned, and that it waits otherwise. *)
LEMMA ReadResult ==
  ASSUME MuxRead
  PROVE  /\ mpc = "reading" /\ mpc' \in Working
         /\ mpc' = "reading" <=> rpc' # "idle"
         /\ mpc' = "muxing" => \E s \in Streams : ScanDeliver(s)
<1>1. rpc' = "idle" => readRet' \in {"packet", "timeout", "abort", "eos"}
  BY DEF MuxRead, ReadWake, ReadTimeout, Scan, ScanEos, ScanStarved,
    ScanStuckAtEos, ScanDeliver
<1>2. (rpc' = "idle" /\ readRet' = "packet") => \E s \in Streams : ScanDeliver(s)
  BY DEF MuxRead, ReadWake, ReadTimeout, Scan, ScanEos, ScanStarved,
    ScanStuckAtEos
<1>3. /\ AfterRead("packet") = "muxing" /\ AfterRead("timeout") = "loop"
      /\ AfterRead("abort") = "getRequest" /\ AfterRead("eos") = "ending"
  BY DEF AfterRead
<1>4. mpc = "reading" /\ mpc' = IF rpc' = "idle" THEN AfterRead(readRet') ELSE "reading"
  BY DEF MuxRead
<1> QED
  BY <1>1, <1>2, <1>3, <1>4 DEF Working

LEMMA ControlTypesStep ==
  ASSUME MuxTypeOK, [MuxNext]_allVars
  PROVE  ControlTypes'
<1> USE DEF MuxTypeOK, ControlTypes
<1>1. CASE PauseOrRun \/ StopCall
  BY <1>1 DEF PauseOrRun, PauseStopped, PauseRefused, PauseRunning, RunPaused,
    StopCall
<1>2. CASE ControlStep
  <2>0. CASE StartStreaming
    BY <2>0 DEF StartStreaming
  <2>1. CASE CreateThread \/ CreateThreadFails \/ RunReplied
    BY <2>1 DEF CreateThread, CreateThreadFails, RunReplied
  <2>2. CASE StopSetsAbort \/ StopBase \/ CallExit \/ ExitReplied
    BY <2>2 DEF StopSetsAbort, StopBase, CallExit, ExitReplied
  <2>3. CASE CloseThread \/ FinishSession \/ ClearStreams \/ UnlinkPins
    BY <2>3 DEF CloseThread, FinishSession, ClearStreams, UnlinkPins
  <2> QED
    BY <1>2, <2>0, <2>1, <2>2, <2>3 DEF ControlStep
<1>3. CASE MuxThread
  <2>1. CASE MuxRead
    BY <2>1, ReadResult DEF MuxRead, Working
  <2>2. CASE GetRequest \/ Reply \/ LoopRequested
    BY <2>2 DEF GetRequest, Reply, AfterReply, LoopRequested
  <2>3. CASE LoopRead \/ MuxPacket \/ MuxEnd
    BY <2>3 DEF LoopRead, MuxPacket, MuxEnd
  <2> QED
    BY <1>3, <2>1, <2>2, <2>3 DEF MuxThread
<1>4. ASSUME NEW p \in Pins, UpstreamStep(p) PROVE ControlTypes'
  BY <1>4 DEF UpstreamStep, PollFlushing, PollWait, PinGetPacket,
    PinGetPacketUnlinked, PinGotPacket, PinWrite, PinWriteUnlinked
<1>5. CASE GraphStep
  BY <1>5 DEF GraphStep, UpstreamStart, UpstreamStop, BeginFlush, EndFlush,
    ReceiveCall
<1>6. CASE UNCHANGED allVars
  BY <1>6 DEF allVars, muxVars
<1> QED
  BY <1>1, <1>2, <1>3, <1>4, <1>5, <1>6 DEF MuxNext

(* The muxing thread and all but three steps of the control thread leave   *)
(* the pins alone.                                                         *)
LEMMA PinsAlone ==
  ASSUME PauseOrRun \/ StopCall \/ ControlStep \/ MuxThread \/ UNCHANGED allVars
  PROVE  \/ UNCHANGED <<connected, pinStream, owner, flushing, upstream, upc, ucall>>
         \/ StartStreaming \/ StopBase \/ UnlinkPins
<1>1. CASE PauseOrRun \/ StopCall
  BY <1>1 DEF PauseOrRun, PauseStopped, PauseRefused, PauseRunning, RunPaused,
    StopCall
<1>2. CASE ControlStep
  BY <1>2 DEF ControlStep, CreateThread, CreateThreadFails, RunReplied,
    StopSetsAbort, CallExit, ExitReplied, CloseThread, FinishSession,
    ClearStreams
<1>3. CASE MuxThread
  BY <1>3 DEF MuxThread, GetRequest, Reply, LoopRequested, LoopRead, MuxRead,
    MuxPacket, MuxEnd
<1>4. CASE UNCHANGED allVars
  BY <1>4 DEF allVars, muxVars
<1> QED
  BY <1>1, <1>2, <1>3, <1>4

LEMMA PinTypesStep ==
  ASSUME MuxTypeOK, Phases, [MuxNext]_allVars
  PROVE  PinTypes'
<1> USE DEF MuxTypeOK, PinTypes
<1>1. CASE UNCHANGED <<connected, pinStream, owner, flushing, upstream, upc, ucall>>
  BY <1>1
<1>2. CASE StartStreaming
  <2>1. nStreams = 0
    BY <1>2 DEF StartStreaming, Phases, Closed
  <2>2. \A p \in ConnectedPins : nStreams + Rank(p) \in Streams
    BY <2>1, RankInRange DEF Streams
  <2>3. pinStream' \in [Pins -> Streams \cup {NoStream}]
    BY <1>2, <2>2 DEF StartStreaming, ConnectedPins
  <2>4. owner' \in [Streams -> Pins \cup {NoStream}]
    <3> DEFINE chosen(s) == CHOOSE p \in ConnectedPins : pinStream'[p] = s
    <3>1. \A s \in Streams :
            (\E p \in ConnectedPins : pinStream'[p] = s) => chosen(s) \in Pins
      BY PinsFinite
    <3>2. owner' = [s \in Streams |->
                      IF \E p \in ConnectedPins : pinStream'[p] = s
                        THEN chosen(s) ELSE owner[s]]
      BY <1>2 DEF StartStreaming
    <3> HIDE DEF chosen
    <3> QED
      BY <3>1, <3>2
  <2> QED
    BY <1>2, <2>3, <2>4 DEF StartStreaming
<1>3. CASE StopBase \/ UnlinkPins
  BY <1>3 DEF StopBase, UnlinkPins
<1>4. ASSUME NEW p \in Pins, UpstreamStep(p) PROVE PinTypes'
  <2>1. \E pc \in CallPcs : UpstreamAt(p, pc)
    <3> USE DEF CallPcs
    <3>1. CASE PollWait(p)
      BY <3>1 DEF PollWait
    <3> QED
      BY <1>4, <3>1 DEF UpstreamStep, PollFlushing, PinGetPacket,
        PinGetPacketUnlinked, PinGotPacket, PinWrite, PinWriteUnlinked
  <2>2. /\ upc' \in [Pins -> CallPcs]
        /\ ucall' \in [Pins -> [time : Times \cup {0}, eos : BOOLEAN]]
    BY <2>1 DEF UpstreamAt, NoPacket
  <2>3. UNCHANGED <<connected, pinStream, owner, flushing, upstream>>
    BY <1>4 DEF UpstreamStep, PollFlushing, PollWait, PinGetPacket,
      PinGetPacketUnlinked, PinGotPacket, PinWrite, PinWriteUnlinked
  <2> QED
    BY <2>2, <2>3
<1>5. CASE GraphStep
  <2>1. ASSUME NEW p \in Pins, NEW t \in Times \cup {0}, NEW e \in BOOLEAN,
               ReceiveCall(p, t, e)
        PROVE  PinTypes'
    BY <2>1, SMTT(20) DEF ReceiveCall, CallPcs
  <2>2. ASSUME NEW p \in Pins, BeginFlush(p) \/ EndFlush(p) PROVE PinTypes'
    BY <2>2 DEF BeginFlush, EndFlush
  <2>3. CASE UpstreamStart \/ UpstreamStop
    BY <2>3 DEF UpstreamStart, UpstreamStop
  <2> QED
    BY <1>5, <2>1, <2>2, <2>3 DEF GraphStep
<1> QED
  BY <1>1, <1>2, <1>3, <1>4, <1>5, PinsAlone DEF MuxNext

(* Only a new session, OnMuxPacket and Write touch the histories of pins.  *)
LEMMA HistoriesAlone ==
  ASSUME [MuxNext]_allVars
  PROVE  \/ UNCHANGED <<muxed, received>>
         \/ StartStreaming \/ MuxPacket \/ \E p \in Pins : PinWrite(p)
<1>1. CASE PauseOrRun \/ StopCall
  BY <1>1 DEF PauseOrRun, PauseStopped, PauseRefused, PauseRunning, RunPaused,
    StopCall
<1>2. CASE ControlStep
  BY <1>2 DEF ControlStep, CreateThread, CreateThreadFails, RunReplied,
    StopSetsAbort, StopBase, CallExit, ExitReplied, CloseThread, FinishSession,
    ClearStreams, UnlinkPins
<1>3. CASE MuxThread
  BY <1>3 DEF MuxThread, GetRequest, Reply, LoopRequested, LoopRead, MuxRead,
    MuxEnd
<1>4. ASSUME NEW p \in Pins, UpstreamStep(p)
      PROVE  PinWrite(p) \/ UNCHANGED <<muxed, received>>
  BY <1>4 DEF UpstreamStep, PollFlushing, PollWait, PinGetPacket,
    PinGetPacketUnlinked, PinGotPacket, PinWriteUnlinked
<1>5. CASE GraphStep
  BY <1>5 DEF GraphStep, UpstreamStart, UpstreamStop, BeginFlush, EndFlush,
    ReceiveCall
<1>6. CASE UNCHANGED allVars
  BY <1>6 DEF allVars, muxVars
<1> QED
  BY <1>1, <1>2, <1>3, <1>4, <1>5, <1>6 DEF MuxNext

LEMMA HistoryTypesStep ==
  ASSUME MuxTypeOK, Mapped, Histories, [MuxNext]_allVars
  PROVE  HistoryTypes'
<1> USE DEF MuxTypeOK, HistoryTypes
<1>1. CASE UNCHANGED <<muxed, received>>
  BY <1>1
<1>2. CASE StartStreaming
  BY <1>2, EmptySeq DEF StartStreaming
<1>3. CASE MuxPacket
  <2>1. LastOut \in Packets
    BY <1>3, LastOutIsPacket DEF MuxPacket
  <2> DEFINE pin == owner[LastOut.stream]
  <2>2. muxed' = [muxed EXCEPT ![pin] = Append(@, LastOut)] \/ muxed' = muxed
    BY <1>3 DEF MuxPacket, LastOut
  <2>3. received' = received
    BY <1>3 DEF MuxPacket
  <2> HIDE DEF pin
  <2>4. \A q \in Seq(Packets) : Append(q, LastOut) \in Seq(Packets)
    BY <2>1, AppendProperties
  <2>5. CASE pin \in Pins
    BY <2>2, <2>3, <2>4, <2>5
  <2>6. CASE pin \notin Pins
    <3>1. muxed' = muxed
      BY <2>2, <2>6
    <3> QED
      BY <2>3, <3>1
  <2> QED
    BY <2>5, <2>6
<1>4. ASSUME NEW p \in Pins, PinWrite(p) PROVE HistoryTypes'
  <2>1. CallPacket(p) \in Packets
    BY <1>4, PinCall DEF PinWrite
  <2> QED
    BY <1>4, <2>1 DEF PinWrite
<1> QED
  BY <1>1, <1>2, <1>3, <1>4, HistoriesAlone

LEMMA MuxTypeStep ==
  ASSUME MuxTypeOK, Phases, Mapped, Histories, [MuxNext]_allVars
  PROVE  MuxTypeOK'
  BY MuxStreamTypes, ControlTypesStep, PinTypesStep, HistoryTypesStep
  DEF MuxTypeOK

-----------------------------------------------------------------------------
(* The phases of a session.                                                *)

phaseVars == <<connected, mState, goal, ctl, pinStream, request, evSend,
               evComplete, mpc, inSession, eosSent, nStreams, rpc>>

(* What the upstream threads and the rest of the graph do is no business   *)
(* of the control and the muxing thread.                                   *)
LEMMA PhasesAlone ==
  ASSUME \/ \E p \in Pins : UpstreamStep(p)
         \/ GraphStep \/ UNCHANGED allVars
  PROVE  UNCHANGED phaseVars
<1> USE DEF phaseVars
<1>1. ASSUME NEW p \in Pins, PollFlushing(p) \/ PollWait(p) \/ PinGetPacket(p)
      PROVE  UNCHANGED phaseVars
  BY <1>1 DEF PollFlushing, PollWait, PinGetPacket, GetPacketCall
<1>2. ASSUME NEW p \in Pins, PinGetPacketUnlinked(p) \/ PinGotPacket(p)
      PROVE  UNCHANGED phaseVars
  BY <1>2 DEF PinGetPacketUnlinked, PinGotPacket, GetPacketWake, GetPacketReturn
<1>3. ASSUME NEW p \in Pins, PinWrite(p) \/ PinWriteUnlinked(p)
      PROVE  UNCHANGED phaseVars
  BY <1>3 DEF PinWrite, PinWriteUnlinked, Write
<1>4. CASE GraphStep
  BY <1>4 DEF GraphStep, UpstreamStart, UpstreamStop, BeginFlush, EndFlush,
    ReceiveCall
<1>5. CASE UNCHANGED allVars
  BY <1>5 DEF allVars, muxVars
<1> QED
  BY <1>1, <1>2, <1>3, <1>4, <1>5 DEF UpstreamStep

(* A step of the muxing thread stays within its part of the dialogue.      *)
LEMMA WorkerStep ==
  ASSUME MuxThread
  PROVE  /\ UNCHANGED <<connected, mState, goal, ctl, pinStream, request,
                        inSession, nStreams>>
         /\ mpc # "none" /\ mpc # "exited" /\ mpc' # "none"
         /\ AtWork => AtWork'
         /\ RunPending => RunPending'
         /\ ExitPending => ExitPending'
         /\ (rpc # "idle" <=> mpc = "reading") =>
              (rpc' # "idle" <=> mpc' = "reading")
<1> USE DEF AtWork, RunPending, ExitPending, Working
<1>1. CASE MuxRead
  <2>1. UNCHANGED <<connected, mState, goal, ctl, pinStream, request, evSend,
                    evComplete, inSession, nStreams>>
    BY <1>1 DEF MuxRead, ReadWake, ReadTimeout, Scan, ScanEos, ScanStarved,
      ScanStuckAtEos, ScanDeliver
  <2>2. /\ mpc = "reading" /\ mpc' \in Working
        /\ mpc' = "reading" <=> rpc' # "idle"
    BY <1>1, ReadResult
  <2> QED
    BY <2>1, <2>2
<1>2. CASE Reply
  BY <1>2 DEF Reply, AfterReply
<1>3. CASE GetRequest \/ LoopRequested
  BY <1>3 DEF GetRequest, LoopRequested
<1>4. CASE LoopRead
  BY <1>4 DEF LoopRead, ReadCall
<1>5. CASE MuxPacket \/ MuxEnd
  BY <1>5 DEF MuxPacket, MuxEnd
<1> QED
  BY <1>1, <1>2, <1>3, <1>4, <1>5 DEF MuxThread

LEMMA PhasesStep ==
  ASSUME MuxTypeOK, Phases, [MuxNext]_allVars
  PROVE  Phases'
<1> USE DEF MuxTypeOK, ControlTypes, Phases, Started, NoWorker
<1>1. CASE UNCHANGED phaseVars
  BY <1>1 DEF phaseVars, Open, Closed, AtWork, RunPending, ExitPending,
    ConnectedPins
<1>2. CASE MuxThread
  <2>1. Open /\ Open'
    BY <1>2, WorkerStep, WorkIsOpen DEF Open
  <2>2. \/ (Started \/ ctl = "exiting") /\ AtWork
        \/ ctl = "waitRun" /\ RunPending
        \/ ctl = "waitExit" /\ ExitPending
    BY <1>2, WorkerStep
  <2> QED
    BY <1>2, <2>1, <2>2, WorkerStep
<1>3. ASSUME NEW g \in {"Paused", "Running"}, PauseStopped(g) PROVE Phases'
  <2>1. Closed' /\ ConnectedPins' = ConnectedPins
    BY <1>3 DEF PauseStopped, SetAbort, Closed, ConnectedPins
  <2> QED
    BY <1>3, <2>1 DEF PauseStopped, SetAbort
<1>4. CASE PauseRefused \/ PauseRunning \/ RunPaused \/ StopCall
  <2>1. UNCHANGED <<Closed, Open, AtWork>>
    BY <1>4 DEF PauseRefused, PauseRunning, RunPaused, StopCall, SetAbort,
      Closed, Open, AtWork
  <2> QED
    BY <1>4, <2>1 DEF PauseRefused, PauseRunning, RunPaused, StopCall, SetAbort
<1>5. CASE StartStreaming
  <2>1. nStreams = 0 /\ Cardinality(ConnectedPins) > 0
    BY <1>5, PinsFinite DEF StartStreaming, Closed
  <2>2. Open'
    BY <1>5, <2>1, PinsFinite DEF StartStreaming, Open
  <2> QED
    BY <1>5, <2>2 DEF StartStreaming
<1>6. CASE CreateThread \/ CreateThreadFails \/ RunReplied
  BY <1>6 DEF CreateThread, CreateThreadFails, RunReplied, Open, RunPending,
    AtWork, Working
<1>7. CASE StopSetsAbort \/ StopBase \/ CallExit
  <2>1. UNCHANGED <<Closed, Open>>
    BY <1>7 DEF StopSetsAbort, StopBase, CallExit, Closed, Open
  <2> QED
    BY <1>7, <2>1 DEF StopSetsAbort, StopBase, CallExit, AtWork, ExitPending,
      Working
<1>8. CASE ExitReplied \/ CloseThread
  BY <1>8 DEF ExitReplied, CloseThread, Open, ExitPending, Working
<1>9. CASE FinishSession \/ ClearStreams \/ UnlinkPins
  BY <1>9 DEF FinishSession, ClearStreams, UnlinkPins, Clear, Closed, Open
<1> QED
  BY <1>1, <1>2, <1>3, <1>4, <1>5, <1>6, <1>7, <1>8, <1>9, PhasesAlone
  DEF MuxNext, PauseOrRun, ControlStep

-----------------------------------------------------------------------------
(* The end of the stream.                                                  *)

LEMMA EndIsFinalStep ==
  ASSUME MuxTypeOK, Phases, EndIsFinal, [MuxNext]_allVars
  PROVE  EndIsFinal'
<1> USE DEF EndIsFinal
<1>1. CASE UNCHANGED phaseVars
  BY <1>1 DEF phaseVars
<1>2. CASE MuxEnd
  <2>1. mpc = "ending" /\ evSend => request = "EXIT"
    BY DEF Phases, Started, NoWorker, AtWork, RunPending, ExitPending, MuxTypeOK,
      ControlTypes
  <2> QED
    BY <1>2, <2>1 DEF MuxEnd
<1>3. CASE GetRequest \/ Reply \/ LoopRequested \/ LoopRead \/ MuxPacket
  BY <1>3 DEF GetRequest, Reply, AfterReply, LoopRequested, LoopRead, MuxPacket
<1>4. CASE MuxRead
  BY <1>4 DEF MuxRead
<1>5. CASE PauseOrRun \/ StopCall
  BY <1>5 DEF PauseOrRun, PauseStopped, PauseRefused, PauseRunning, RunPaused,
    StopCall
<1>6. CASE StartStreaming \/ CreateThread
  <2>1. eosSent' = 0
    BY <1>6 DEF StartStreaming, CreateThread, Phases
  <2> QED
    BY <2>1
<1>7. CASE CreateThreadFails \/ RunReplied \/ StopSetsAbort \/ StopBase \/ CallExit
  BY <1>7 DEF CreateThreadFails, RunReplied, StopSetsAbort, StopBase, CallExit
<1>8. CASE ExitReplied \/ CloseThread \/ FinishSession \/ ClearStreams \/ UnlinkPins
  BY <1>8 DEF ExitReplied, CloseThread, FinishSession, ClearStreams, UnlinkPins,
    Phases
<1> QED
  BY <1>1, <1>2, <1>3, <1>4, <1>5, <1>6, <1>7, <1>8, PhasesAlone
  DEF MuxNext, MuxThread, ControlStep

-----------------------------------------------------------------------------
(* Pins and streams.                                                       *)

(* The streams of a session are dealt out without a clash.                 *)
LEMMA StreamsDealt ==
  ASSUME MuxTypeOK, Phases, StartStreaming
  PROVE  /\ nStreams' = Cardinality(ConnectedPins)
         /\ \A p \in ConnectedPins :
              pinStream'[p] = Rank(p) /\ owner'[Rank(p)] = p
<1>1. nStreams = 0
  BY DEF StartStreaming, Phases, Closed
<1>2. \A p \in ConnectedPins : pinStream'[p] = Rank(p)
  <2>1. \A p \in ConnectedPins : Rank(p) \in Int
    BY RankInRange DEF Streams
  <2> QED
    BY <1>1, <2>1, PinsFinite DEF StartStreaming, ConnectedPins
<1>3. ASSUME NEW p \in ConnectedPins PROVE owner'[Rank(p)] = p
  <2> DEFINE theirs(q) == q \in ConnectedPins /\ pinStream'[q] = Rank(p)
  <2>1. Rank(p) \in Streams /\ pinStream'[p] = Rank(p)
    BY <1>2, RankInRange
  <2>2. owner'[Rank(p)] = CHOOSE q \in ConnectedPins : pinStream'[q] = Rank(p)
    BY <2>1 DEF StartStreaming
  <2>3. \A q \in ConnectedPins : pinStream'[q] = Rank(p) => q = p
    BY <1>2, RankInjective
  <2> QED
    BY <2>1, <2>2, <2>3
<1>4. nStreams' = Cardinality(ConnectedPins)
  <2>1. nStreams' = nStreams + Cardinality(ConnectedPins)
    BY DEF StartStreaming
  <2> QED
    BY <1>1, <2>1, PinsFinite
<1> QED
  BY <1>2, <1>3, <1>4

LEMMA MappedStep ==
  ASSUME MuxTypeOK, Phases, Mapped, [MuxNext]_allVars
  PROVE  Mapped'
<1> USE DEF Mapped
<1>1. ASSUME UNCHANGED <<nStreams, connected, pinStream, owner, upc>>
      PROVE  Mapped'
  BY <1>1 DEF ConnectedPins, Rank
<1>2. CASE StartStreaming
  <2>1. UNCHANGED <<connected, upc>> /\ UNCHANGED ConnectedPins
    BY <1>2 DEF StartStreaming, ConnectedPins
  <2>2. \A p \in ConnectedPins : UNCHANGED Rank(p)
    BY <2>1 DEF Rank
  <2> QED
    BY <1>2, <2>1, <2>2, StreamsDealt
<1>3. CASE ClearStreams \/ UnlinkPins
  BY <1>3 DEF ClearStreams, Clear, UnlinkPins, Phases
<1>4. ASSUME NEW p \in Pins, UpstreamStep(p) PROVE Mapped'
  <2>1. UNCHANGED <<nStreams, connected, pinStream, owner>>
    BY <1>4, PhasesAlone DEF phaseVars, UpstreamStep, PollFlushing, PollWait,
      PinGetPacket, PinGetPacketUnlinked, PinGotPacket, PinWrite,
      PinWriteUnlinked
  <2>2. upc[p] # "idle" /\ \A q \in Pins \ {p} : upc'[q] = upc[q]
    BY <1>4 DEF UpstreamStep, PollFlushing, PollWait, PinGetPacket,
      PinGetPacketUnlinked, PinGotPacket, PinWrite, PinWriteUnlinked,
      UpstreamAt, MuxTypeOK, PinTypes
  <2> QED
    BY <2>1, <2>2 DEF ConnectedPins, Rank
<1>5. CASE GraphStep
  <2>1. ASSUME NEW p \in Pins, NEW t \in Times \cup {0}, NEW e \in BOOLEAN,
               ReceiveCall(p, t, e)
        PROVE  Mapped'
    <3>1. /\ UNCHANGED <<nStreams, connected, pinStream, owner>>
          /\ connected[p]
          /\ \A q \in Pins \ {p} : upc'[q] = upc[q]
      BY <2>1 DEF ReceiveCall, MuxTypeOK, PinTypes
    <3> QED
      BY <3>1 DEF ConnectedPins, Rank
  <2> QED
    BY <1>1, <1>5, <2>1 DEF GraphStep, UpstreamStart, UpstreamStop, BeginFlush,
      EndFlush
<1>6. CASE StopBase
  BY <1>1, <1>6 DEF StopBase
<1>7. ASSUME PauseOrRun \/ StopCall \/ ControlStep \/ MuxThread \/ UNCHANGED allVars
      PROVE  StartStreaming \/ ClearStreams \/ UNCHANGED nStreams
  <2>1. CASE PauseOrRun \/ StopCall
    BY <2>1 DEF PauseOrRun, PauseStopped, PauseRefused, PauseRunning, RunPaused,
      StopCall, SetAbort
  <2>2. CASE ControlStep
    BY <2>2 DEF ControlStep, CreateThread, CreateThreadFails, RunReplied,
      StopSetsAbort, StopBase, CallExit, ExitReplied, CloseThread,
      FinishSession, UnlinkPins
  <2> QED
    BY <1>7, <2>1, <2>2, WorkerStep DEF allVars
<1> QED
  BY <1>1, <1>2, <1>3, <1>4, <1>5, <1>6, <1>7, PinsAlone DEF MuxNext

-----------------------------------------------------------------------------
(* Histories.                                                              *)

dataVars == <<queue, accepted, delivered, output, muxed, received, nStreams,
              connected>>

LEMMA DataAlone ==
  ASSUME MuxTypeOK, [MuxNext]_allVars
  PROVE  \/ /\ UNCHANGED dataVars
            /\ mpc' = "muxing" <=> mpc = "muxing"
         \/ StartStreaming \/ ClearStreams \/ MuxPacket
         \/ \E s \in Streams : MuxRead /\ ScanDeliver(s)
         \/ \E p \in Pins : PinWrite(p)
<1> USE DEF dataVars
<1>1. CASE PauseOrRun \/ StopCall
  BY <1>1 DEF PauseOrRun, PauseStopped, PauseRefused, PauseRunning, RunPaused,
    StopCall, SetAbort
<1>2. CASE ControlStep
  BY <1>2 DEF ControlStep, CreateThread, CreateThreadFails, RunReplied,
    StopSetsAbort, StopBase, CallExit, ExitReplied, CloseThread,
    FinishSession, UnlinkPins
<1>3. CASE MuxRead
  <2>1. CASE \E s \in Streams : ScanDeliver(s)
    BY <1>3, <2>1
  <2>2. CASE ~ \E s \in Streams : ScanDeliver(s)
    <3>1. mpc # "muxing" /\ mpc' # "muxing"
      BY <1>3, <2>2, ReadResult
    <3> QED
      BY <1>3, <2>2, <3>1 DEF MuxRead, ReadWake, ReadTimeout, Scan, ScanEos,
        ScanStarved, ScanStuckAtEos
  <2> QED
    BY <2>1, <2>2
<1>4. CASE GetRequest \/ Reply \/ LoopRequested \/ LoopRead \/ MuxEnd
  BY <1>4 DEF GetRequest, Reply, AfterReply, LoopRequested, LoopRead, ReadCall,
    MuxEnd
<1>5. ASSUME NEW p \in Pins, UpstreamStep(p), ~PinWrite(p)
      PROVE  UNCHANGED <<dataVars, mpc>>
  <2>1. CASE PollFlushing(p) \/ PollWait(p) \/ PinGetPacketUnlinked(p)
    BY <2>1 DEF PollFlushing, PollWait, PinGetPacketUnlinked
  <2>2. CASE PinGetPacket(p) \/ PinGotPacket(p) \/ PinWriteUnlinked(p)
    BY <2>2 DEF PinGetPacket, GetPacketCall, PinGotPacket, GetPacketWake,
      GetPacketReturn, PinWriteUnlinked
  <2> QED
    BY <1>5, <2>1, <2>2 DEF UpstreamStep
<1>6. CASE GraphStep
  BY <1>6 DEF GraphStep, UpstreamStart, UpstreamStop, BeginFlush, EndFlush,
    ReceiveCall
<1>7. CASE UNCHANGED allVars
  BY <1>7 DEF allVars, muxVars
<1> QED
  BY <1>1, <1>2, <1>3, <1>4, <1>5, <1>6, <1>7 DEF MuxNext, MuxThread

LEMMA AppendLast ==
  ASSUME NEW S, NEW q \in Seq(S), NEW x \in S
  PROVE  /\ Append(q, x) \in Seq(S) /\ Append(q, x) # <<>>
         /\ Append(q, x)[Len(Append(q, x))] = x
         /\ Len(Append(q, x)) = Len(q) + 1
         /\ \A i \in 1 .. Len(q) : Append(q, x)[i] = q[i]
  BY AppendProperties, LenProperties, EmptySeq

(* The numbers of the pins' streams do not change.                         *)
LEMMA RanksKept ==
  ASSUME UNCHANGED connected
  PROVE  UNCHANGED ConnectedPins /\ \A p \in Pins : UNCHANGED Rank(p)
  BY DEF ConnectedPins, Rank

(* A packet is taken off the queue of its stream and is in hand.           *)
LEMMA DeliverHistories ==
  ASSUME MuxTypeOK, Phases, Histories, NEW s \in Streams, MuxRead, ScanDeliver(s)
  PROVE  Histories'
<1>0. /\ TypeOK /\ FifoInv
      /\ mpc # "muxing"
  BY DEF MuxTypeOK, Histories, FifoInv, MuxRead
<1>1. queue[s] \in Seq(Packets) /\ queue[s] # <<>> /\ s < nStreams
  BY <1>0 DEF ScanDeliver, Lowest, NonEmpty, Live, TypeOK
<1>2. /\ Head(queue[s]) = queue[s][1] /\ Head(queue[s]) \in Packets
      /\ Len(queue[s]) \in Nat \ {0} /\ Len(Tail(queue[s])) = Len(queue[s]) - 1
      /\ \A i \in 1 .. Len(queue[s]) - 1 : Tail(queue[s])[i] = queue[s][i + 1]
  BY <1>1, HeadTail
<1>3. /\ queue' = [queue EXCEPT ![s] = Tail(@)]
      /\ delivered' = [delivered EXCEPT ![s] = Append(@, Head(queue[s]))]
      /\ output' = Append(output, Head(queue[s]))
      /\ UNCHANGED <<accepted, nStreams>>
  BY DEF ScanDeliver
<1>4. UNCHANGED <<muxed, received, connected>> /\ mpc' = "muxing"
  <2>1. rpc' = "idle" /\ readRet' = "packet"
    BY DEF ScanDeliver
  <2>2. AfterRead("packet") = "muxing"
    BY Zenon DEF AfterRead
  <2> QED
    BY <2>1, <2>2 DEF MuxRead
<1>5. output' # <<>> /\ LastOut' = queue[s][1]
  <2>1. output \in Seq(Packets)
    BY <1>0 DEF TypeOK
  <2>2. output' # <<>> /\ output'[Len(output')] = queue[s][1]
    BY <1>2, <1>3, <2>1, AppendLast
  <2> QED
    BY <2>2 DEF LastOut
<1>6. /\ queue[s][1].stream = s
      /\ \E p \in ConnectedPins : Rank(p) = s
  BY <1>2 DEF Histories
<1>7. \A t \in Streams : \A i \in 1 .. Len(queue'[t]) :
        /\ queue'[t][i].stream = t
        /\ \E p \in ConnectedPins : Rank(p) = t
  <2>1. \A t \in Streams : \A i \in 1 .. Len(queue[t]) :
          /\ queue[t][i].stream = t
          /\ \E p \in ConnectedPins : Rank(p) = t
    BY DEF Histories
  <2>2. \A i \in 1 .. Len(queue'[s]) : queue'[s][i] = queue[s][i + 1] /\ i + 1 \in 1 .. Len(queue[s])
    BY <1>0, <1>2, <1>3 DEF TypeOK
  <2>3. \A t \in Streams \ {s} : queue'[t] = queue[t]
    BY <1>0, <1>3 DEF TypeOK
  <2>4. \A i \in 1 .. Len(queue'[s]) : queue'[s][i].stream = s
    BY <2>1, <2>2
  <2> QED
    BY <1>6, <2>1, <2>3, <2>4
<1>8. ASSUME NEW p \in ConnectedPins
      PROVE  /\ accepted'[Rank(p)] = received[p]
             /\ delivered'[Rank(p)] =
                  IF Rank(p) = s THEN Append(muxed[p], queue[s][1]) ELSE muxed[p]
  <2>1. nStreams > 0 /\ Rank(p) \in Streams
    BY <1>1, RankInRange DEF Streams, MuxTypeOK, TypeOK
  <2>2. accepted[Rank(p)] = received[p] /\ delivered[Rank(p)] = muxed[p]
    BY <1>0, <2>1 DEF Histories, InHand
  <2> QED
    BY <1>0, <1>2, <1>3, <2>1, <2>2 DEF TypeOK
<1>9. StreamFifo'
  <2>1. Next
    BY DEF Next, Reader, Scan
  <2> QED
    BY <1>0, <2>1, FifoStep DEF FifoInv
<1>10. nStreams # 0 /\ nStreams' # 0
  BY <1>0, <1>1, <1>3 DEF Streams, TypeOK
<1> HIDE DEF LastOut
<1> QED
  BY <1>3, <1>4, <1>5, <1>6, <1>7, <1>8, <1>9, <1>10, RanksKept, PinsFinite
  DEF Histories, InHand

(* OnMuxPacket gets the packet in hand, under the pin of its stream.       *)
LEMMA MuxPacketPin ==
  ASSUME MuxTypeOK, Phases, Mapped, Histories, MuxPacket
  PROVE  \E q \in ConnectedPins :
           /\ LastOut.stream = Rank(q) /\ LastOut \in Packets
           /\ delivered[Rank(q)] = Append(muxed[q], LastOut)
           /\ muxed' = [muxed EXCEPT ![q] = Append(@, LastOut)]
<1>1. mpc = "muxing" /\ nStreams > 0 /\ inSession
  BY WorkIsOpen DEF MuxPacket, Open
<1>2. PICK q \in ConnectedPins : LastOut.stream = Rank(q)
  BY <1>1 DEF Histories
<1>3. delivered[Rank(q)] = Append(muxed[q], LastOut)
  BY <1>1, <1>2 DEF Histories, InHand
<1>4. owner[LastOut.stream] = q
  BY <1>1, <1>2 DEF Mapped
<1>5. muxed' = [muxed EXCEPT ![q] = Append(@, LastOut)]
  BY <1>1, <1>4 DEF MuxPacket, LastOut
<1> QED
  BY <1>1, <1>2, <1>3, <1>5, LastOutIsPacket

LEMMA MuxPacketHistories ==
  ASSUME MuxTypeOK, Phases, Mapped, Histories, MuxPacket
  PROVE  Histories'
<1>1. /\ mpc = "muxing" /\ mpc' = "loop" /\ nStreams > 0
      /\ UNCHANGED <<queue, accepted, delivered, output, received, nStreams, connected>>
  BY WorkIsOpen DEF MuxPacket, Open
<1>2. PICK q \in ConnectedPins :
           /\ LastOut.stream = Rank(q)
           /\ delivered[Rank(q)] = Append(muxed[q], LastOut)
           /\ muxed' = [muxed EXCEPT ![q] = Append(@, LastOut)]
  BY MuxPacketPin
<1>3. \A p \in ConnectedPins : delivered[Rank(p)] = muxed'[p]
  <2>1. delivered[Rank(q)] = muxed'[q]
    BY <1>2, PinsFinite DEF MuxTypeOK, HistoryTypes
  <2>2. ASSUME NEW p \in ConnectedPins, p # q
        PROVE  delivered[Rank(p)] = muxed'[p]
    <3>1. ~InHand(p)
      BY <1>2, <2>2, RankInjective DEF InHand
    <3> QED
      BY <1>1, <1>2, <2>2, <3>1, PinsFinite DEF Histories, MuxTypeOK, HistoryTypes
  <2> QED
    BY <2>1, <2>2
<1>4. StreamFifo' /\ UNCHANGED ConnectedPins /\ \A p \in Pins : UNCHANGED Rank(p)
  BY <1>1, RanksKept DEF Histories, StreamFifo
<1>5. nStreams' # 0
  BY <1>1
<1> QED
  BY <1>1, <1>3, <1>4, <1>5, PinsFinite DEF Histories, InHand

(* The pin and its stream accept the packet together.                      *)
LEMMA WriteHistories ==
  ASSUME MuxTypeOK, Mapped, Histories, NEW p \in Pins, PinWrite(p)
  PROVE  Histories'
<1> DEFINE r == Rank(p)
           x == CallPacket(p)
<1>0. TypeOK /\ FifoInv
  BY DEF MuxTypeOK, Histories, FifoInv
<1>1. p \in ConnectedPins /\ r \in Streams /\ x \in Packets /\ x.stream = r
  BY PinCall DEF PinWrite
<1>2. /\ Write(r, x)
      /\ received' = [received EXCEPT ![p] = Append(@, x)]
      /\ UNCHANGED <<muxed, connected, mpc>>
  BY DEF PinWrite
<1> HIDE DEF r, x
<1>3. /\ nStreams > 0
      /\ queue' = [queue EXCEPT ![r] = Append(@, x)]
      /\ accepted' = [accepted EXCEPT ![r] = Append(@, x)]
      /\ UNCHANGED <<delivered, output, nStreams>>
  BY <1>0, <1>1, <1>2 DEF Write, Append1, Live, TypeOK, Streams
<1>4. StreamFifo'
  BY <1>0, <1>1, <1>2, FifoWrite
<1>5. \A t \in Streams : \A i \in 1 .. Len(queue'[t]) :
        /\ queue'[t][i].stream = t
        /\ \E q \in ConnectedPins : Rank(q) = t
  <2>1. \A t \in Streams : \A i \in 1 .. Len(queue[t]) :
          /\ queue[t][i].stream = t
          /\ \E q \in ConnectedPins : Rank(q) = t
    BY DEF Histories
  <2>2. queue[r] \in Seq(Packets) /\ queue'[r] = Append(queue[r], x)
    BY <1>0, <1>1, <1>3 DEF TypeOK
  <2>3. /\ Len(queue'[r]) = Len(queue[r]) + 1 /\ Len(queue[r]) \in Nat
        /\ queue'[r][Len(queue[r]) + 1] = x
        /\ \A i \in 1 .. Len(queue[r]) : queue'[r][i] = queue[r][i]
    BY <1>1, <2>2, AppendLast, LenProperties
  <2>4. \A i \in 1 .. Len(queue'[r]) : queue'[r][i].stream = r
    BY <1>1, <2>1, <2>3, SMTT(20)
  <2>5. \A t \in Streams \ {r} : queue'[t] = queue[t]
    BY <1>0, <1>3 DEF TypeOK
  <2>6. \E q \in ConnectedPins : Rank(q) = r
    BY <1>1 DEF r
  <2> QED
    BY <2>1, <2>4, <2>5, <2>6
<1>6. \A q \in ConnectedPins : accepted'[Rank(q)] = received'[q]
  <2>1. accepted'[Rank(p)] = received'[p]
    <3>1. accepted[Rank(p)] = received[p]
      BY <1>1, <1>3 DEF Histories
    <3> QED
      BY <1>0, <1>1, <1>2, <1>3, <3>1 DEF r, MuxTypeOK, TypeOK, HistoryTypes
  <2>2. ASSUME NEW q \in ConnectedPins, q # p
        PROVE  accepted'[Rank(q)] = received'[q]
    <3>1. Rank(q) # r /\ Rank(q) \in Streams
      BY <1>1, <2>2, RankInjective, RankInRange DEF r
    <3>2. accepted[Rank(q)] = received[q]
      BY <1>3 DEF Histories
    <3> QED
      BY <1>0, <1>2, <1>3, <2>2, <3>1, <3>2, PinsFinite
      DEF MuxTypeOK, TypeOK, HistoryTypes
  <2> QED
    BY <2>1, <2>2
<1>7. nStreams # 0 /\ nStreams' # 0
  BY <1>0, <1>3 DEF TypeOK
<1> QED
  BY <1>2, <1>3, <1>4, <1>5, <1>6, <1>7, RanksKept, PinsFinite
  DEF Histories, InHand, LastOut

LEMMA HistoriesStep ==
  ASSUME MuxTypeOK, Phases, Mapped, Histories, [MuxNext]_allVars
  PROVE  Histories'
<1>1. ASSUME UNCHANGED dataVars, mpc' = "muxing" <=> mpc = "muxing"
      PROVE  Histories'
  <2>1. UNCHANGED ConnectedPins /\ \A p \in Pins : UNCHANGED Rank(p)
    BY <1>1, RanksKept DEF dataVars
  <2>2. UNCHANGED LastOut /\ StreamFifo'
    BY <1>1 DEF dataVars, Histories, LastOut, StreamFifo
  <2>3. \A p \in ConnectedPins : InHand(p)' <=> InHand(p)
    BY <1>1, <2>1, <2>2, PinsFinite DEF InHand
  <2> QED
    BY <1>1, <2>1, <2>2, <2>3, PinsFinite DEF dataVars, Histories
<1>2. CASE ClearStreams
  <2>1. \A s \in Streams :
          queue'[s] = <<>> /\ accepted'[s] = <<>> /\ delivered'[s] = <<>>
    BY <1>2 DEF ClearStreams, Clear
  <2>2. nStreams' = 0 /\ mpc' # "muxing"
    BY <1>2 DEF ClearStreams, Clear, Phases, NoWorker
  <2>3. <<>> \o <<>> = <<>> /\ Len(<<>>) = 0
    BY EmptySeq, ConcatEmptySeq
  <2>4. StreamFifo'
    BY <2>1, <2>3 DEF StreamFifo
  <2>5. \A s \in Streams : 1 .. Len(queue'[s]) = {}
    BY <2>1, <2>3
  <2> QED
    BY <2>1, <2>2, <2>4, <2>5 DEF Histories
<1>3. CASE StartStreaming
  <2>1. /\ nStreams = 0 /\ mpc' # "muxing"
        /\ UNCHANGED <<queue, accepted, delivered, connected>>
        /\ \A p \in Pins : muxed'[p] = <<>> /\ received'[p] = <<>>
    BY <1>3 DEF StartStreaming, Phases, Closed, NoWorker
  <2>2. \A s \in Streams :
          queue[s] = <<>> /\ accepted[s] = <<>> /\ delivered[s] = <<>>
    BY <2>1 DEF Histories
  <2>3. <<>> \o <<>> = <<>> /\ Len(<<>>) = 0
    BY EmptySeq, ConcatEmptySeq
  <2>4. \A p \in ConnectedPins' :
          /\ p \in Pins /\ Rank(p)' \in Streams
    BY <2>1, RanksKept, PinsFinite, RankInRange
  <2>5. StreamFifo'
    BY <2>1, <2>2, <2>3 DEF StreamFifo
  <2>6. \A s \in Streams : 1 .. Len(queue'[s]) = {}
    BY <2>1, <2>2, <2>3
  <2>7. \A s \in Streams :
          queue'[s] = <<>> /\ accepted'[s] = <<>> /\ delivered'[s] = <<>>
    BY <2>1, <2>2
  <2>8. \A p \in ConnectedPins' :
          /\ accepted'[Rank(p)'] = received'[p]
          /\ delivered'[Rank(p)'] = IF InHand(p)' THEN Append(muxed'[p], LastOut') ELSE muxed'[p]
    BY <2>1, <2>4, <2>7 DEF InHand
  <2> QED
    BY <2>1, <2>5, <2>6, <2>7, <2>8 DEF Histories
<1> QED
  BY <1>1, <1>2, <1>3, DataAlone, DeliverHistories, MuxPacketHistories,
    WriteHistories

(* A pin's packets as OnMuxPacket gets them are a prefix of what the pin   *)
(* accepted: both ends are pinned to the same stream.                      *)
LEMMA PrefixConcat ==
  ASSUME NEW S, NEW d \in Seq(S), NEW q \in Seq(S)
  PROVE  /\ Len(d) <= Len(d \o q)
         /\ \A i \in 1 .. Len(d) : d[i] = (d \o q)[i]
  BY ConcatProperties, LenProperties

LEMMA PinsKeepStep ==
  ASSUME MuxTypeOK, Phases, Mapped, Histories, PinsKeepTheirPackets,
         [MuxNext]_allVars
  PROVE  PinsKeepTheirPackets'
<1> USE DEF PinsKeepTheirPackets
<1>1. CASE UNCHANGED <<muxed, received>>
  BY <1>1
<1>2. CASE StartStreaming
  <2>1. \A p \in Pins : muxed'[p] = <<>> /\ received'[p] = <<>>
    BY <1>2 DEF StartStreaming
  <2>2. Len(<<>>) = 0
    BY EmptySeq
  <2> QED
    BY <2>1, <2>2
<1>3. CASE MuxPacket
  <2>1. PICK q \in ConnectedPins :
           /\ delivered[Rank(q)] = Append(muxed[q], LastOut)
           /\ muxed' = [muxed EXCEPT ![q] = Append(@, LastOut)]
    BY <1>3, MuxPacketPin
  <2>2. q \in Pins /\ muxed \in [Pins -> Seq(Packets)] /\ received' = received
    BY <1>3, PinsFinite DEF MuxPacket, MuxTypeOK, HistoryTypes
  <2>3. muxed'[q] = delivered[Rank(q)] /\ \A p \in Pins \ {q} : muxed'[p] = muxed[p]
    BY <2>1, <2>2
  <2>4. nStreams > 0
    BY <1>3, WorkIsOpen DEF MuxPacket, Open
  <2>5. delivered[Rank(q)] \o queue[Rank(q)] = received[q]
    BY <2>4, RankInRange DEF Histories, StreamFifo
  <2>6. delivered[Rank(q)] \in Seq(Packets) /\ queue[Rank(q)] \in Seq(Packets)
    BY RankInRange DEF MuxTypeOK, TypeOK
  <2>7. /\ Len(muxed'[q]) <= Len(received'[q])
        /\ \A i \in 1 .. Len(muxed'[q]) : muxed'[q][i] = received'[q][i]
    <3> DEFINE d == delivered[Rank(q)]
               rest == queue[Rank(q)]
    <3>1. /\ Len(d) <= Len(d \o rest)
          /\ \A i \in 1 .. Len(d) : d[i] = (d \o rest)[i]
      BY <2>6, PrefixConcat
    <3> QED
      BY <2>2, <2>3, <2>5, <3>1
  <2> QED
    BY <2>2, <2>3, <2>7
<1>4. ASSUME NEW p \in Pins, PinWrite(p) PROVE PinsKeepTheirPackets'
  <2> DEFINE x == CallPacket(p)
  <2>1. x \in Packets /\ muxed' = muxed /\ received' = [received EXCEPT ![p] = Append(@, x)]
    BY <1>4, PinCall DEF PinWrite
  <2> HIDE DEF x
  <2>2. muxed \in [Pins -> Seq(Packets)] /\ received \in [Pins -> Seq(Packets)]
    BY DEF MuxTypeOK, HistoryTypes
  <2>3. /\ Len(received'[p]) = Len(received[p]) + 1
        /\ \A i \in 1 .. Len(received[p]) : received'[p][i] = received[p][i]
    BY <2>1, <2>2, AppendLast
  <2>4. \A q \in Pins \ {p} : received'[q] = received[q]
    BY <2>1, <2>2
  <2>5. \A q \in Pins : Len(muxed[q]) \in Nat /\ Len(received[q]) \in Nat
    BY <2>2, LenProperties
  <2> QED
    BY <2>1, <2>3, <2>4, <2>5
<1> QED
  BY <1>1, <1>2, <1>3, <1>4, HistoriesAlone

-----------------------------------------------------------------------------
(* The theorems.                                                           *)

LEMMA MuxInvInit == MuxInit => MuxInv
<1> SUFFICES ASSUME MuxInit PROVE MuxInv
  OBVIOUS
<1>1. TypeOK
  BY TypeInit DEF MuxInit
<1>2. <<>> \in Seq(Packets) /\ Len(<<>>) = 0 /\ <<>> \o <<>> = <<>>
  BY EmptySeq, ConcatEmptySeq
<1>3. ControlTypes /\ PinTypes
  BY DEF MuxInit, ControlTypes, PinTypes, CallPcs, NoPacket
<1>4. HistoryTypes
  BY <1>2 DEF MuxInit, HistoryTypes
<1>5. Phases /\ EndIsFinal /\ Mapped
  BY DEF MuxInit, Init, Phases, Started, Closed, NoWorker, EndIsFinal, Mapped
<1>6. Histories
  BY <1>2 DEF MuxInit, Init, Histories, StreamFifo
<1>7. PinsKeepTheirPackets
  BY <1>2 DEF MuxInit, PinsKeepTheirPackets
<1> QED
  BY <1>1, <1>3, <1>4, <1>5, <1>6, <1>7 DEF MuxInv, MuxTypeOK

LEMMA MuxInvStep == MuxInv /\ [MuxNext]_allVars => MuxInv'
  BY MuxTypeStep, PhasesStep, EndIsFinalStep, MappedStep, HistoriesStep,
    PinsKeepStep
  DEF MuxInv

LEMMA MuxInvAlways == MuxSpec => []MuxInv
  BY MuxInvInit, MuxInvStep, PTL DEF MuxSpec

(* Every variable of the filter and of its interleaver keeps its type.     *)
THEOREM MuxTypeCorrect == MuxSpec => []MuxTypeOK
<1>1. MuxInv => MuxTypeOK
  BY DEF MuxInv
<1> QED
  BY <1>1, MuxInvAlways, PTL

(***************************************************************************)
(* When Stop has returned no thread, stream, link, request or reply of the *)
(* session is left, whatever the other threads were doing meanwhile.       *)
(***************************************************************************)
THEOREM StopLeavesNothing == MuxSpec => []StopQuiesces
<1>1. MuxInv => StopQuiesces
  BY DEF MuxInv, Phases, Closed, NoWorker, StopQuiesces
<1> QED
  BY <1>1, MuxInvAlways, PTL

(* ThreadProc reads and muxes only between OnStartStreaming and Clear.     *)
THEOREM MuxingInSession == MuxSpec => []MuxesInSession
<1>1. MuxInv => MuxesInSession
  BY WorkIsOpen DEF MuxInv, Open, MuxesInSession
<1> QED
  BY <1>1, MuxInvAlways, PTL

(* CallWorker never takes the reply to an earlier request for its own.     *)
THEOREM RepliesMatch == MuxSpec => []ReplyMatchesRequest
<1>1. MuxInv => ReplyMatchesRequest
  BY DEF MuxInv, MuxTypeOK, ControlTypes, Phases, Started, NoWorker, AtWork,
    RunPending, ExitPending, Working, ReplyMatchesRequest
<1> QED
  BY <1>1, MuxInvAlways, PTL

(* What reaches OnMuxPacket under a pin is what the pin accepted, in order. *)
THEOREM PinsGetTheirPackets == MuxSpec => []PinsKeepTheirPackets
<1>1. MuxInv => PinsKeepTheirPackets
  BY DEF MuxInv
<1> QED
  BY <1>1, MuxInvAlways, PTL

(* Once the end of the stream has gone downstream nothing follows it.      *)
THEOREM EosIsLast == MuxSpec => NothingAfterEos
<1>1. MuxInv /\ [MuxNext]_allVars =>
        [(eosSent > 0 /\ inSession) =>
           (eosSent' = eosSent /\ muxed' = muxed)]_allVars
  <2> SUFFICES ASSUME MuxInv, MuxNext, eosSent > 0, inSession
               PROVE  eosSent' = eosSent /\ muxed' = muxed
    OBVIOUS
  <2>1. mpc \notin {"muxing", "ending"} /\ ctl # "starting"
    BY DEF MuxInv, EndIsFinal, Phases, Closed
  <2>2. CASE PauseOrRun \/ StopCall
    BY <2>2 DEF PauseOrRun, PauseStopped, PauseRefused, PauseRunning, RunPaused,
      StopCall
  <2>3. CASE ControlStep
    BY <2>1, <2>3 DEF ControlStep, StartStreaming, CreateThread,
      CreateThreadFails, RunReplied, StopSetsAbort, StopBase, CallExit,
      ExitReplied, CloseThread, FinishSession, ClearStreams, UnlinkPins
  <2>4. CASE MuxThread
    BY <2>1, <2>4 DEF MuxThread, GetRequest, Reply, LoopRequested, LoopRead,
      MuxRead, MuxPacket, MuxEnd
  <2>5. ASSUME NEW p \in Pins, UpstreamStep(p)
        PROVE  UNCHANGED <<eosSent, muxed>>
    BY <2>5 DEF UpstreamStep, PollFlushing, PollWait, PinGetPacket,
      PinGetPacketUnlinked, PinGotPacket, PinWrite, PinWriteUnlinked
  <2>6. CASE GraphStep
    BY <2>6 DEF GraphStep, UpstreamStart, UpstreamStop, BeginFlush, EndFlush,
      ReceiveCall
  <2> QED
    BY <2>2, <2>3, <2>4, <2>5, <2>6 DEF MuxNext
<1> QED
  BY <1>1, MuxInvAlways, PTL DEF MuxSpec, NothingAfterEos

-----------------------------------------------------------------------------
(***************************************************************************)
(* The interleaver inside the filter.  Its own theorems assume that Clear  *)
(* finds nobody in a call.  Here Stop may leave an upstream thread inside  *)
(* GetPacket or between GetPacket and Write; its queues and events are     *)
(* right all the same.                                                     *)
(***************************************************************************)
InnerInv == MuxInv /\ Room /\ DeadStreams /\ NoLostWakeup

LEMMA InnerInit == MuxInit => InnerInv
<1> SUFFICES ASSUME MuxInit PROVE InnerInv
  OBVIOUS
<1>1. MuxInv /\ Init
  BY MuxInvInit DEF MuxInit
<1> QED
  BY <1>1, RoomInit, WakeInit DEF InnerInv, RoomInv, WakeInv

(* Where every queue is empty the events are right.                        *)
LEMMA EmptyQueues ==
  ASSUME TypeOK', \A s \in Streams : queue'[s] = <<>>
  PROVE  DeadStreams' /\ NoLostWakeup'
<1>1. Live' \subseteq Streams
  BY FirstStreams DEF TypeOK, Live
<1> QED
  BY <1>1 DEF DeadStreams, NoLostWakeup, NonEmpty

LEMMA InnerStep == InnerInv /\ [MuxNext]_allVars => InnerInv'
<1> SUFFICES ASSUME InnerInv, [MuxNext]_allVars PROVE InnerInv'
  OBVIOUS
<1>0. /\ MuxInv /\ MuxInv' /\ MuxTypeOK /\ Phases /\ Mapped /\ Histories
      /\ TypeOK /\ TypeOK' /\ RoomInv /\ WakeInv
  BY MuxInvStep DEF InnerInv, MuxInv, MuxTypeOK, RoomInv, WakeInv
<1>1. CASE [Next]_vars
  BY <1>0, <1>1, RoomStep, WakeStep DEF InnerInv, RoomInv, WakeInv
<1>2. CASE StartStreaming
  <2>1. nStreams = 0 /\ UNCHANGED <<queue, canWrite, wpc, overlooked>>
    BY <1>0, <1>2 DEF StartStreaming, Phases, Closed
  <2>2. \A s \in Streams : queue'[s] = <<>>
    BY <1>0, <2>1 DEF Histories
  <2>3. Room'
    BY <1>0, <2>1 DEF RoomInv, Room, QueueBounded, WritableIffRoom, RoomKept,
      HasRoom
  <2> QED
    BY <1>0, <2>2, <2>3, EmptyQueues DEF InnerInv
<1>3. CASE ClearStreams
  <2>1. \A s \in Streams : queue'[s] = <<>> /\ canWrite'[s] = TRUE
    BY <1>3 DEF ClearStreams, Clear
  <2>2. Len(<<>>) = 0 /\ Size \in Nat \ {0}
    BY EmptySeq, SizeAssumption
  <2>3. Room'
    BY <2>1, <2>2 DEF Room, QueueBounded, WritableIffRoom, RoomKept, HasRoom
  <2> QED
    BY <1>0, <2>1, <2>3, EmptyQueues DEF InnerInv
<1>4. ASSUME NEW p \in Pins, PinWrite(p) PROVE InnerInv'
  <2>1. /\ Rank(p) \in Streams /\ CallPacket(p) \in Packets
        /\ Write(Rank(p), CallPacket(p))
    BY <1>0, <1>4, PinCall DEF PinWrite
  <2>2. Room'
    BY <1>0, <2>1, RoomWrite
  <2>3. NoLostWakeup'
    BY <2>1 DEF Write, Append1, NoLostWakeup
  <2>4. DeadStreams'
    BY <1>0, <2>1 DEF Write, Append1, Live, WakeInv, DeadStreams, TypeOK
  <2> QED
    BY <1>0, <2>2, <2>3, <2>4 DEF InnerInv
<1>5. ASSUME NEW p \in Pins, PinWriteUnlinked(p) PROVE InnerInv'
  <2>1. /\ UNCHANGED <<nStreams, interleaved, queue, canWrite, canRead, overlooked>>
        /\ \A s \in Streams : wpc'[s] # "idle" => wpc'[s] = wpc[s]
    BY <1>0, <1>5 DEF PinWriteUnlinked, TypeOK
  <2>2. Room'
    BY <1>0, <2>1 DEF RoomInv, Room, QueueBounded, WritableIffRoom, RoomKept,
      HasRoom
  <2>3. DeadStreams' /\ NoLostWakeup'
    BY <1>0, <2>1 DEF WakeInv, DeadStreams, Live, NoLostWakeup, CanDeliver,
      InterleavedStreams, NonEmpty
  <2> QED
    BY <1>0, <2>2, <2>3 DEF InnerInv
<1> QED
  BY <1>0, <1>1, <1>2, <1>3, <1>4, <1>5, StreamStep

(* In every session of the filter the queues stay bounded, ev_can_write is *)
(* true to the room, and the muxing thread misses no packet it could read. *)
THEOREM InterleaverInFilter ==
  MuxSpec => [](QueueBounded /\ WritableIffRoom /\ NoLostWakeup)
<1>1. InnerInv => QueueBounded /\ WritableIffRoom /\ NoLostWakeup
  BY DEF InnerInv, Room
<1>2. MuxSpec => []InnerInv
  BY InnerInit, InnerStep, PTL DEF MuxSpec
<1> QED
  BY <1>1, <1>2, PTL

-----------------------------------------------------------------------------
(***************************************************************************)
(* The filter takes an abort back only when the upstream threads are out   *)
(* of their calls: Pause cancels it on a stopped filter, and on a running  *)
(* one there is none to cancel.                                            *)
(***************************************************************************)
AbortsHeeded ==
  /\ evAbort => \/ ctl \in {"aborting", "stopping"}
                \/ mState = "Stopped" /\ ctl \notin {"starting", "creating", "waitRun"}
  /\ ~upstream => \A p \in Pins : upc[p] = "idle"
  /\ \A s \in Streams :
       /\ wpc[s] # "idle" => \E p \in ConnectedPins : Rank(p) = s /\ upc[p] = "packet"
       /\ wpc[s] = "aborted" => evAbort
       /\ ~overlooked[s]

LEMMA AbortsInit == MuxInit => AbortsHeeded
  BY DEF MuxInit, Init, AbortsHeeded

(* Taking the abort back finds nobody whom it has woken.                   *)
LEMMA AbortTakenBack ==
  ASSUME MuxTypeOK, AbortsHeeded, [MuxNext]_allVars,
         (\E g \in {"Paused", "Running"} : PauseStopped(g)) \/ PauseRefused \/ PauseRunning
  PROVE  AbortsHeeded'
<1>1. /\ evAbort' = FALSE /\ UNCHANGED <<wpc, overlooked, connected, upstream, upc>>
      /\ ~upstream \/ (mState = "Running" /\ ctl = "idle")
  BY DEF PauseStopped, PauseRefused, PauseRunning, SetAbort
<1>2. \A s \in Streams : wpc[s] # "aborted"
  <2>1. CASE ~upstream
    <3>1. \A p \in ConnectedPins : upc[p] # "packet"
      BY <2>1 DEF AbortsHeeded, ConnectedPins
    <3> QED
      BY <3>1 DEF AbortsHeeded
  <2>2. CASE mState = "Running" /\ ctl = "idle"
    BY <2>2 DEF AbortsHeeded
  <2> QED
    BY <1>1, <2>1, <2>2
<1> QED
  BY <1>1, <1>2 DEF AbortsHeeded, ConnectedPins, Rank

(* A step of a call of GetPacket.                                          *)
LEMMA AbortsCall ==
  ASSUME MuxInv, AbortsHeeded, NEW p \in Pins, UpstreamStep(p)
  PROVE  AbortsHeeded'
<1>0. MuxTypeOK /\ Mapped /\ TypeOK
  BY DEF MuxInv, MuxTypeOK
<1>1. upc[p] # "idle"
  BY DEF UpstreamStep, PollFlushing, PollWait, PinGetPacket,
    PinGetPacketUnlinked, PinGotPacket, PinWrite, PinWriteUnlinked
<1>2. p \in ConnectedPins /\ Rank(p) \in Streams
  BY <1>0, <1>1, PinCall
<1>3. upstream
  BY <1>1 DEF AbortsHeeded
<1>4. /\ UNCHANGED <<evAbort, mState, ctl, upstream, connected>>
      /\ \A q \in Pins \ {p} : upc'[q] = upc[q]
  BY <1>0 DEF UpstreamStep, PollFlushing, PollWait, PinGetPacket,
    PinGetPacketUnlinked, PinGotPacket, PinWrite, PinWriteUnlinked, UpstreamAt,
    GetPacketCall, GetPacketWake, GetPacketReturn, Write, MuxTypeOK, PinTypes
<1>5. /\ \A s \in Streams \ {Rank(p)} :
           wpc'[s] = wpc[s] /\ overlooked'[s] = overlooked[s]
      /\ wpc'[Rank(p)] # "idle" => upc'[p] = "packet"
      /\ wpc'[Rank(p)] = "aborted" => evAbort
      /\ overlooked'[Rank(p)] = overlooked[Rank(p)]
  <2>a. upc \in [Pins -> CallPcs]
    BY <1>0 DEF MuxTypeOK, PinTypes
  <2>b. wpc[Rank(p)] # "idle" => upc[p] = "packet"
    BY <1>2, RankInjective DEF AbortsHeeded
  <2>1. CASE PollFlushing(p) \/ PollWait(p) \/ PinGetPacketUnlinked(p)
    <3>1. UNCHANGED <<wpc, overlooked>> /\ upc[p] # "packet"
      BY <2>1 DEF PollFlushing, PollWait, PinGetPacketUnlinked
    <3> QED
      BY <2>b, <3>1
  <2>2. CASE PinGetPacket(p)
    <3>1. pinStream[p] = Rank(p)
      <4>1. nStreams > 0
        BY <1>0, <2>2 DEF PinGetPacket, Linked, Live, TypeOK
      <4> QED
        BY <1>0, <1>2, <4>1 DEF Mapped
    <3> QED
      BY <1>0, <1>2, <2>2, <2>a, <3>1
      DEF PinGetPacket, GetPacketCall, UpstreamAt, TypeOK
  <2>3. CASE upc[p] = "packet" /\ GetPacketWake(Rank(p)) /\ PinGotPacket(p)
    BY <1>0, <1>2, <2>3, <2>a DEF PinGotPacket, GetPacketWake, UpstreamAt, TypeOK
  <2>4. CASE upc[p] = "packet" /\ GetPacketReturn(Rank(p)) /\ PinGotPacket(p)
    <3>1. /\ wpc'[Rank(p)] \in {"idle", "filling"}
          /\ wpc' = [wpc EXCEPT ![Rank(p)] = wpc'[Rank(p)]]
          /\ wpc[Rank(p)] = "aborted" => evAbort
          /\ \A s \in Streams \ {Rank(p)} : overlooked'[s] = overlooked[s]
      BY <1>0, <1>2, <2>4 DEF GetPacketReturn, TypeOK, AbortsHeeded
    <3>2. overlooked'[Rank(p)] = overlooked[Rank(p)]
      BY <1>0, <1>2, <2>4, <3>1 DEF GetPacketReturn, TypeOK
    <3>3. wpc'[Rank(p)] # "idle" => upc'[p] = "packet"
      BY <2>4, <2>a, <3>1 DEF PinGotPacket, UpstreamAt
    <3> QED
      BY <1>0, <3>1, <3>2, <3>3 DEF TypeOK
  <2>5. CASE PinWrite(p) \/ PinWriteUnlinked(p)
    BY <1>0, <1>2, <2>5 DEF PinWrite, PinWriteUnlinked, Write, TypeOK
  <2> QED
    BY <2>1, <2>2, <2>3, <2>4, <2>5 DEF UpstreamStep, PinGotPacket
<1>6. ASSUME NEW s \in Streams, wpc'[s] # "idle"
      PROVE  \E q \in ConnectedPins : Rank(q) = s /\ upc'[q] = "packet"
  <2>1. CASE s = Rank(p)
    BY <1>2, <1>5, <1>6, <2>1
  <2>2. CASE s # Rank(p)
    <3>1. PICK q \in ConnectedPins : Rank(q) = s /\ upc[q] = "packet"
      BY <1>5, <1>6, <2>2 DEF AbortsHeeded
    <3> QED
      BY <1>4, <2>2, <3>1 DEF ConnectedPins
  <2> QED
    BY <2>1, <2>2
<1>7. ConnectedPins' = ConnectedPins /\ \A q \in ConnectedPins : Rank(q)' = Rank(q)
  BY <1>4 DEF ConnectedPins, Rank
<1> QED
  BY <1>3, <1>4, <1>5, <1>6, <1>7 DEF AbortsHeeded

LEMMA AbortsStep ==
  ASSUME MuxInv, AbortsHeeded, [MuxNext]_allVars
  PROVE  AbortsHeeded'
<1>0. MuxTypeOK /\ TypeOK
  BY DEF MuxInv, MuxTypeOK
<1> USE DEF AbortsHeeded, ConnectedPins, Rank
<1>1. CASE PauseOrRun
  <2>1. CASE RunPaused
    BY <2>1 DEF RunPaused
  <2> QED
    BY <1>0, <1>1, <2>1, AbortTakenBack DEF PauseOrRun
<1>2. CASE StopCall
  BY <1>2 DEF StopCall, SetAbort
<1>3. CASE ClearStreams
  BY <1>3 DEF ClearStreams, Clear
<1>4. CASE StartStreaming \/ CreateThread \/ CreateThreadFails \/ RunReplied
  <2>1. ctl \in {"starting", "creating", "waitRun"}
    BY <1>4 DEF StartStreaming, CreateThread, CreateThreadFails, RunReplied
  <2>2. UNCHANGED <<evAbort, wpc, overlooked, connected, upstream, upc>>
    BY <1>4 DEF StartStreaming, CreateThread, CreateThreadFails, RunReplied
  <2>3. ~evAbort
    BY <2>1
  <2> QED
    BY <2>2, <2>3
<1>5. CASE StopSetsAbort \/ StopBase \/ CallExit \/ ExitReplied \/ CloseThread
             \/ FinishSession \/ UnlinkPins
  BY <1>5 DEF StopSetsAbort, StopBase, CallExit, ExitReplied, CloseThread,
    FinishSession, UnlinkPins
<1>6. CASE MuxThread
  <2>1. UNCHANGED <<evAbort, wpc, connected, mState, ctl, upstream, upc>>
    BY <1>6 DEF MuxThread, GetRequest, Reply, LoopRequested, LoopRead, ReadCall,
      MuxRead, ReadWake, ReadTimeout, Scan, ScanEos, ScanStarved,
      ScanStuckAtEos, ScanDeliver, MuxPacket, MuxEnd
  <2>2. \A s \in Streams : ~overlooked'[s]
    BY <1>0, <1>6 DEF MuxThread, GetRequest, Reply, LoopRequested, LoopRead, ReadCall,
      MuxRead, ReadWake, ReadTimeout, Scan, ScanEos, ScanStarved,
      ScanStuckAtEos, ScanDeliver, MuxPacket, MuxEnd, TypeOK
  <2> QED
    BY <2>1, <2>2
<1>7. ASSUME NEW p \in Pins, UpstreamStep(p) PROVE AbortsHeeded'
  BY <1>7, AbortsCall
<1>8. CASE GraphStep
  <2>1. UNCHANGED <<evAbort, wpc, overlooked, connected, mState, ctl>>
    BY <1>8 DEF GraphStep, UpstreamStart, UpstreamStop, BeginFlush, EndFlush, ReceiveCall
  <2>2. \A q \in Pins : upc[q] = "packet" => upc'[q] = "packet"
    BY <1>0, <1>8 DEF GraphStep, UpstreamStart, UpstreamStop, BeginFlush, EndFlush,
      ReceiveCall, MuxTypeOK, PinTypes
  <2>3. ~upstream' => \A q \in Pins : upc'[q] = "idle"
    BY <1>8 DEF GraphStep, UpstreamStart, UpstreamStop, BeginFlush, EndFlush, ReceiveCall
  <2> QED
    BY <2>1, <2>2, <2>3
<1>9. CASE UNCHANGED allVars
  BY <1>9 DEF allVars, muxVars
<1> QED
  BY <1>1, <1>2, <1>3, <1>4, <1>5, <1>6, <1>7, <1>8, <1>9 DEF MuxNext, ControlStep

(***************************************************************************)
(* The interleaver alone may overfill a queue, when an abort is taken back *)
(* too early (QueueBounded).  The filter never takes one back like that:   *)
(* in every session each queue keeps within its size.                      *)
(***************************************************************************)
THEOREM QueuesKeepTheirSize ==
  MuxSpec => [](\A s \in Streams : Len(queue[s]) <= Size)
<1>1. MuxInit => InnerInv /\ AbortsHeeded
  BY InnerInit, AbortsInit
<1>2. InnerInv /\ AbortsHeeded /\ [MuxNext]_allVars => (InnerInv /\ AbortsHeeded)'
  BY InnerStep, AbortsStep DEF InnerInv
<1>3. InnerInv /\ AbortsHeeded => \A s \in Streams : Len(queue[s]) <= Size
  BY DEF InnerInv, Room, QueueBounded, AbortsHeeded
<1> QED
  BY <1>1, <1>2, <1>3, PTL DEF MuxSpec
=============================================================================
