---------------------------- MODULE TimeKeeping ----------------------------
(***************************************************************************)
(* What keeps time: the reference clock and its advises, the position      *)
(* control of a seeking filter, and the clock of the muxer.  The three     *)
(* share no state.                                                         *)
(***************************************************************************)
EXTENDS RefClock, Positions, MuxClock

TimesSpec == ClockSpec /\ PosSpec /\ TickSpec

\* Advises fire once and in time (AdvisesKept), positions are told and current (PositionsSafe), and the muxer's waits
\* keep to their limit (TimeLimitsKept).
TimesSafe == AdvisesKept /\ PositionsSafe /\ TimeLimitsKept
=============================================================================
