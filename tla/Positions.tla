----------------------------- MODULE Positions -----------------------------
(***************************************************************************)
(* Seeking (ctlutil.cpp): CSourceSeeking, the start and stop position of a *)
(* source, set by applications under its lock and told to the derived      *)
(* class by ChangeStart and ChangeStop after the lock is let go; and       *)
(* CRendererPosPassThru, which answers for the position of the sample a    *)
(* renderer has last taken, and passes everything else upstream            *)
(* (CPosPassThru).                                                         *)
(*                                                                         *)
(* The renderer registers samples and the end of the stream, and resets    *)
(* the times after a flush, under m_RendererLock; when it stops it resets  *)
(* them without (renbase.cpp).                                             *)
(***************************************************************************)
EXTENDS Integers

CONSTANTS
  Seekers,      \* the threads that call SetPositions
  MaxPosition,  \* bound: of positions
  MaxSegments   \* bound: how often the times are reset

ASSUME PositionsAreBounded == MaxPosition \in Nat

Moves == {"none", "absolute", "relative", "incremental"}  \* AM_SEEKING_PositioningBitsMask
Distances == -1..1

VARIABLES
  seeking,      \* m_rtStart and m_rtStop of the source
  told,         \* what the derived class saw in its last ChangeStart and ChangeStop
  seeker,       \* for each thread in SetPositions the callbacks it has still to make
  media,        \* m_StartMedia and m_bReset; history: the segment the time is of
  ending,       \* EOS in progress, and the stop position it was given
  segment       \* history: number of resets, and whether the end has been registered

posvars == <<seeking, told, seeker, media, ending, segment>>

PosInit ==
  /\ seeking = [start |-> 0, stop |-> MaxPosition]
  /\ told = seeking
  /\ seeker = [k \in Seekers |-> {}]
  /\ media = [start |-> 0, reset |-> TRUE, segment |-> 0]
  /\ ending = [at |-> "idle", stop |-> 0]
  /\ segment = [number |-> 0, stops |-> {}]

-----------------------------------------------------------------------------
(* CSourceSeeking.                                                         *)

NewStart(how, n) ==
  CASE how = "absolute" -> n
    [] how = "relative" -> seeking.start + n
    [] OTHER            -> seeking.start

(* An incremental stop counts from the start, the new one.                 *)
NewStop(how, n, start) ==
  CASE how = "absolute"    -> n
    [] how = "incremental" -> start + n
    [] how = "relative"    -> seeking.stop + n
    [] OTHER               -> seeking.stop

(* A start cannot be incremental: E_INVALIDARG.  While EOS is waiting for  *)
(* the answer, history keeps every stop position it may be given.          *)
SetPositions(k) ==
  \E startHow \in Moves \ {"incremental"}, stopHow \in Moves, a, b \in Distances :
    LET start == NewStart(startHow, a)
        stop == NewStop(stopHow, b, start)
    IN  /\ seeker[k] = {}
        /\ {start, stop} \subseteq 0..MaxPosition
        /\ seeking' = [start |-> start, stop |-> stop]
        /\ seeker' = [seeker EXCEPT ![k] = (IF stopHow = "none" THEN {} ELSE {"stop"})
                                             \cup (IF startHow = "none" THEN {} ELSE {"start"})]
        /\ segment' = [segment EXCEPT !.stops = IF ending.at = "asking" THEN @ \cup {stop} ELSE @]
        /\ UNCHANGED <<told, media, ending>>

ChangeStop(k) ==
  /\ "stop" \in seeker[k]
  /\ told' = [told EXCEPT !.stop = seeking.stop]
  /\ seeker' = [seeker EXCEPT ![k] = @ \ {"stop"}]
  /\ UNCHANGED <<seeking, media, ending, segment>>

ChangeStart(k) ==
  /\ seeker[k] = {"start"}
  /\ told' = [told EXCEPT !.start = seeking.start]
  /\ seeker' = [seeker EXCEPT ![k] = {}]
  /\ UNCHANGED <<seeking, media, ending, segment>>

-----------------------------------------------------------------------------
(* CRendererPosPassThru.                                                   *)

RegisterMediaTime ==
  /\ ending.at = "idle"
  /\ \E t \in 0..MaxPosition : media' = [start |-> t, reset |-> FALSE, segment |-> segment.number]
  /\ segment' = [segment EXCEPT !.stops = {}]
  /\ UNCHANGED <<seeking, told, seeker, ending>>

ResetMediaTime ==
  /\ segment.number < MaxSegments
  /\ media' = [media EXCEPT !.start = 0, !.reset = TRUE]
  /\ segment' = [segment EXCEPT !.number = @ + 1]
  /\ UNCHANGED <<seeking, told, seeker, ending>>

(* EOS tests m_bReset with no lock, asks upstream for the stop position    *)
(* and takes its lock to set the times: three steps.                       *)
BeginEOS ==
  /\ ending.at = "idle" /\ ~media.reset
  /\ ending' = [ending EXCEPT !.at = "asking"]
  /\ segment' = [segment EXCEPT !.stops = {seeking.stop}]
  /\ UNCHANGED <<seeking, told, seeker, media>>

GetStopPosition ==
  /\ ending.at = "asking"
  /\ ending' = [at |-> "setting", stop |-> seeking.stop]
  /\ UNCHANGED <<seeking, told, seeker, media, segment>>

EndEOS ==
  /\ ending.at = "setting"
  /\ media' = [media EXCEPT !.start = ending.stop]
  /\ ending' = [ending EXCEPT !.at = "idle"]
  /\ UNCHANGED <<seeking, told, seeker, segment>>

PosNext ==
  \/ \E k \in Seekers : SetPositions(k) \/ ChangeStop(k) \/ ChangeStart(k)
  \/ RegisterMediaTime \/ ResetMediaTime
  \/ BeginEOS \/ GetStopPosition \/ EndEOS

PosSpec == PosInit /\ [][PosNext]_posvars

-----------------------------------------------------------------------------
(* Seeks of two threads may tell the derived class of their positions in   *)
(* any order: in the end it has seen the positions that are set.           *)
SeeksAreTold == (\A k \in Seekers : seeker[k] = {}) => told = seeking

(* GetCurrentPosition never answers with a time of before the last reset,  *)
(* though the renderer's Stop may reset the times inside EOS.              *)
PositionIsCurrent == ~media.reset => media.segment = segment.number

(* Once the end is registered the position is a stop position that was set *)
(* while EOS was asking.                                                   *)
EndReachesStop ==
  (~media.reset /\ ending.at = "idle" /\ segment.stops # {}) => media.start \in segment.stops

(* Positions of sources and renderers (ctlutil.cpp) are told, current and  *)
(* at the stop position in the end.                                        *)
PositionsSafe == SeeksAreTold /\ PositionIsCurrent /\ EndReachesStop
=============================================================================
