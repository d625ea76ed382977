----------------------------- MODULE MCNodeRange -----------------------------
(* The process of pod 1, with a pod below it and one above it. *)
EXTENDS NodeRange

OneNode == {1}
=============================================================================
