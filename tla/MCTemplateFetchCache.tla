------------------------ MODULE MCTemplateFetchCache ------------------------
(* Small instances of TemplateFetchCache: the default template and another. *)
EXTENDS TemplateFetchCache, TLC

CONSTANTS c1, c2, c3, default, other

ShortTTL == (default :> 1) @@ (other :> 1)

OneTTL == default :> 1

CallerSymmetry == Permutations(Callers)
=============================================================================
