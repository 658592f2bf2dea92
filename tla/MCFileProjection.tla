-------------------------- MODULE MCFileProjection --------------------------
(* Constants of FileProjection for TLC. *)
EXTENDS FileProjection, TLC

CONSTANTS c1, c2, attached, oneshot

(* c1 was opened first. *)
MCOpenedAt == c1 :> 1 @@ c2 :> 2

(* The schema c1 was opened under was removed from .journal/schemas after    *)
(* the server started: the attached projection has it, a one-shot has not.   *)
MCRenderable ==
  [p \in Projections |-> IF p \in OneShots THEN Chapters \ {c1} ELSE Chapters]
=============================================================================
