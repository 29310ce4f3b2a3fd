------------------------------ MODULE MCFrontend ------------------------------
(***************************************************************************)
(* A small instance of each part of Frontend.                              *)
(***************************************************************************)
EXTENDS Frontend, TLC

CONSTANTS a, b, s, t, r1, r2, up, junk, x, x2, y, blank

-----------------------------------------------------------------------------
(* Groups: a source that stays, and one that is on the same server, on      *)
(* another, or gone.                                                        *)

TwoSources == <<a, b>>
TwoServers == {s, t}

\* Where b is; a is on s.
Placements == {(a :> s) @@ (b :> place) : place \in {s, t, Gone}}

FewRows == (a :> 2) @@ (b :> 1)

-----------------------------------------------------------------------------
(* Relays: two, one of them also in upper case, and a text that is refused. *)

TwoRelays   == {r1, r2}
FourTexts   == {r1, r2, up, junk}
NormalForms == (r1 :> r1) @@ (r2 :> r2) @@ (up :> r1) @@ (junk :> Bad)

-----------------------------------------------------------------------------
(* Rows: two of one source, so that one can be a copy, and one of another.  *)

FourNames  == {x, x2, y, blank}
Numbers    == (x :> <<x, x2>>) @@ (x2 :> <<x2>>) @@ (y :> <<y>>) @@ (blank :> <<blank>>)
GivenNames == (a :> x) @@ (b :> y)
FewLines   == (a :> 2) @@ (b :> 1)
OneService == {r1}
Landings   == {{a, b}, {b}}
Menus      == {{}, {r1}}
FullMenu   == {OneService}
JustX      == {x}
JustBlank  == {blank}

\* Rows as links bring them: of both sources, or of one of them.
Line(n, m, to) == [name |-> n, mode |-> m, target |-> to]

LinksOf(m) ==
  {(a :> <<Line(x, m, r1)>>) @@ (b :> <<Line(y, "none", Unset)>>),
   (a :> <<Line(x, "none", Unset), Line(x2, m, r1)>>) @@ (b :> <<>>)}

ServiceLinks == LinksOf("port_forward")
TargetLinks  == LinksOf("chain")

ASSUME PartsAssumption == PageAssumption

\* Choosing from a list is what Sequences does.
ASSUME ThoseAssumption ==
  \A list \in BoundedSeq({r1, r2, up}, 4), ok \in SUBSET {r1, r2, up} :
    Those(list, LAMBDA r : r \in ok) = SelectSeq(list, LAMBDA r : r \in ok)
=============================================================================
