------------------------------ MODULE MCWorkflow ------------------------------
(* Small instances of Workflow: two inputs beside the blank one, of which    *)
(* the second makes links too long to be shown.                              *)
EXTENDS Workflow, TLC

CONSTANTS i1, i2, n1, n2, q1, q2

LongLinks == {l \in Links : l.input = i2}

\* The user enters the long links of one input and the short ones of the other.
EnteredLinks ==
  {t \in LinkTexts : \/ t.link.input = i1 /\ t.form = "long"
                     \/ t.link.input = i2 /\ t.form = "short"}

\* The default scheme has all of the operations; with one request in flight the
\* others show what they offer, and b1 is c1 save for an empty page.
FewInFlight == [name \in Schemes |-> IF name = "default" THEN 2 ELSE 1]

SlotAndSnapSymmetry == Permutations(Slots) \cup Permutations(Snaps)
=============================================================================
