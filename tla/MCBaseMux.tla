----------------------------- MODULE MCBaseMux -----------------------------
(* BaseMux with two input pins, for TLC.                                   *)
EXTENDS BaseMux

MCTimes == {1}

(***************************************************************************)
(* The liveness run narrows what the application does, not what the filter *)
(* does: both pins connected, Pause and Stop but no Run, no flush.         *)
(***************************************************************************)
PauseOnlyInit == MuxInit /\ ConnectedPins = Pins

PauseOnlyNext == MuxNext /\ goal' # "Running" /\ flushing' = flushing

PauseOnlySpec == PauseOnlyInit /\ [][PauseOnlyNext]_allVars /\ MuxFairness
=============================================================================
