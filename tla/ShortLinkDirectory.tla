------------------------- MODULE ShortLinkDirectory -------------------------
(***************************************************************************)
(* What a short-link store promises to the rest of the program             *)
(* (ShortLinkStore in internal/service/short_link_store.go and             *)
(* internal/store/store.go), with neither locks, transactions nor time     *)
(* stamps: a directory of at most `capacity` links in which states and     *)
(* short ids determine each other.                                         *)
(***************************************************************************)
EXTENDS Integers, FiniteSets

CONSTANTS StateKeys, ShortIDs, ShortIDOf, Bases, Capacities

VARIABLES links, capacity

dirVars == <<links, capacity>>

Init == links = {} /\ capacity \in Capacities

(***************************************************************************)
(* Publish the state k under base b.  Links of other states are forgotten  *)
(* only to make room: when some are, the directory ends up exactly full.   *)
(* A short id still in use is never given to a second state.               *)
(***************************************************************************)
Publish(k, b) ==
  LET link == [key |-> k, sid |-> ShortIDOf[k], url |-> [state |-> k, base |-> b]]
  IN  \E kept \in SUBSET {l \in links : l.key # k} :
        /\ \A l \in kept : l.sid # ShortIDOf[k]
        /\ links' = kept \cup {link}
        /\ Cardinality(links') <= capacity
        /\ \/ \A l \in links : l.key # k => l \in kept
           \/ Cardinality(links') = capacity
        /\ UNCHANGED capacity

\* The process comes back with the links it had and its capacity of now.
Reopen == capacity' \in Capacities /\ UNCHANGED links

Next ==
  \/ \E k \in StateKeys, b \in Bases : Publish(k, b)
  \/ Reopen

Spec == Init /\ [][Next]_dirVars

=============================================================================
