---------------------------- MODULE TokenBuckets ----------------------------
(***************************************************************************)
(* What the rate limiter promises: every client has a bucket of its own    *)
(* that fills with time, is never forgotten, and is the only reason for a  *)
(* refusal.  Tokens are counted in units of the time they take to fill.    *)
(***************************************************************************)
EXTENDS Integers

CONSTANTS
  Clients,
  None,
  Cost,  \* what a request takes
  Full   \* what a bucket holds

VARIABLES
  level,   \* what is in the bucket of each client
  verdict  \* the latest answer: for whom, and whether it was granted

Capped(n) == IF n > Full THEN Full ELSE n

Init ==
  /\ level = [c \in Clients |-> Full]
  /\ verdict = None

Fill ==
  /\ level' = [c \in Clients |-> Capped(level[c] + 1)]
  /\ UNCHANGED verdict

Grant(c) ==
  /\ level[c] >= Cost
  /\ level' = [level EXCEPT ![c] = @ - Cost]
  /\ verdict' = [client |-> c, granted |-> TRUE]

Refuse(c) ==
  /\ level[c] < Cost
  /\ verdict' = [client |-> c, granted |-> FALSE]
  /\ UNCHANGED level

Next == Fill \/ \E c \in Clients : Grant(c) \/ Refuse(c)

Spec == Init /\ [][Next]_<<level, verdict>>
=============================================================================
