--------------------------- MODULE TransformFilters ---------------------------
(***************************************************************************)
(* The three transform filters of the base classes side by side: they      *)
(* share no state, a filter is one of them.                                *)
(***************************************************************************)
EXTENDS TransformFilter, VideoTransform, TransInPlace

TransformsSpec == XformSpec /\ VtSpec /\ TipSpec

\* Flushes, stops and the end of the stream (TransformSafe), the frames left out (VideoTransformSafe) and the
\* allocators of an in-place filter (TransInPlaceSafe).
TransformsSafe == TransformSafe /\ VideoTransformSafe /\ TransInPlaceSafe
=============================================================================
