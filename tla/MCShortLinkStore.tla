-------------------------- MODULE MCShortLinkStore --------------------------
(***************************************************************************)
(* Small instances of ShortLinkStore: of three states two share a short    *)
(* id.  With Radix = 2 a second has four ticks (two binary fraction        *)
(* digits), with Radix = 1 it has one, and texts order as instants do.     *)
(***************************************************************************)
EXTENDS ShortLinkStore, TLC

CONSTANTS c1, c2, c3, k1, k2, k3, s1, s2, s3

\* k1 and k3 collide.
CollidingIDs == (k1 :> s1) @@ (k2 :> s2) @@ (k3 :> s1)

\* Two states on one short id.
OneID == (k1 :> s1) @@ (k3 :> s1)

\* No two states collide.
DistinctIDs == (k1 :> s1) @@ (k2 :> s2) @@ (k3 :> s3)

ClientSymmetry == Permutations(Clients)
=============================================================================
