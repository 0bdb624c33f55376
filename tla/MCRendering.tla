---------------------------- MODULE MCRendering ----------------------------
(* Renderer, RefClock, StreamControl, VideoRenderer, Positions and the      *)
(* clock of the muxer (MuxClock), each on its own, for TLC: part says       *)
(* which one a behaviour exercises.                                         *)
EXTENDS Renderer, StreamControl, VideoRenderer, TimeKeeping

VARIABLE part

MCDeltas == {-2, 1, 3}

RenderingInit ==
  /\ part \in {"renderer", "clock", "control", "video", "positions", "ticks"}
  /\ RendererInit /\ (part = "renderer" \/ r.hasClock)
  /\ ClockInit
  /\ ControlInit /\ (part = "control" \/ sc.hasClock)
  /\ VideoInit
  /\ PosInit
  /\ TickInit /\ (part = "ticks" \/ ticks = 0)

RenderingNext ==
  \/ part = "renderer" /\ RendererNext /\ UNCHANGED <<cvars, scvars, vvars, posvars, tickVars, part>>
  \/ part = "clock" /\ ClockNext /\ UNCHANGED <<rvars, scvars, vvars, posvars, tickVars, part>>
  \/ part = "control" /\ ControlNext /\ UNCHANGED <<rvars, cvars, vvars, posvars, tickVars, part>>
  \/ part = "video" /\ VideoNext /\ UNCHANGED <<rvars, cvars, scvars, posvars, tickVars, part>>
  \/ part = "ticks" /\ TickNext /\ UNCHANGED <<rvars, cvars, scvars, vvars, posvars, part>>
  \/ part = "positions" /\ PosNext /\ UNCHANGED <<rvars, cvars, scvars, vvars, tickVars, part>>

RenderingSpec == RenderingInit /\ [][RenderingNext]_<<rvars, cvars, scvars, vvars, posvars, tickVars, part>>
=============================================================================
