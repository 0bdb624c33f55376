-------------------------- MODULE SampleEnumerators --------------------------
(***************************************************************************)
(* What filters hand to each other and to the graph: media samples, and    *)
(* enumerators of pins and media types.  The two share no state.           *)
(***************************************************************************)
EXTENDS MediaSample, Enumerators

SamplesSpec == SampleSpec /\ EnumSpec

\* Samples say the same of themselves whichever way they are asked (SampleConsistent), and enumerators of pins and types
\* neither repeat nor miss any (EnumerationsSound).
SamplesSafe == SampleConsistent /\ EnumerationsSound
=============================================================================
