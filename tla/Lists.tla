-------------------------------- MODULE Lists --------------------------------
(* Choosing from lists by definitions that can be reasoned about.           *)
EXTENDS Integers, Sequences

\* What a list has at these places, in its order.
Picked(list, places) ==
  LET upTo[n \in 0 .. Len(list)] ==
        IF n = 0 THEN <<>>
        ELSE IF n \in places THEN Append(upTo[n - 1], list[n]) ELSE upTo[n - 1]
  IN  IF DOMAIN list \subseteq places THEN list ELSE upTo[Len(list)]

\* The items of a list that pass a test: SelectSeq.
Those(list, Passes(_)) == Picked(list, {i \in DOMAIN list : Passes(list[i])})

=============================================================================
