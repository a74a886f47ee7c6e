----------------------------- MODULE MCRegistry -----------------------------
(* TLC instances of Registry.                                              *)
EXTENDS Registry, TLC

CONSTANTS a, b, f1, f2, get, list

MCSlugs == {a, b}
MCHookEvents == {"before_create", "after_update"}
MCMethods == {get, list}
MCFns == {f1, f2}
OneFn == {f1}
OneMethod == {get}

\* No action tells one slug, one handler value or one method from another.
Symmetry == Permutations(MCSlugs) \cup Permutations(MCFns) \cup Permutations(MCMethods)
=============================================================================
