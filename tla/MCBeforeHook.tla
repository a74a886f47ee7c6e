---------------------------- MODULE MCBeforeHook ----------------------------
(***************************************************************************)
(* Three handlers on an entity of three attributes: a struct that declares *)
(* `amount` and may omit it; one whose MarshalJSON also emits `total`,     *)
(* which it does not declare, and which may be nil; a map.                 *)
(***************************************************************************)
EXTENDS BeforeHook, TLC

CONSTANTS amount, total, note, v1, v2

MCAttrs == {amount, total, note}
MCValues == {v1, v2}

Struct == [declared |-> {amount}, emits |-> {amount}, always |-> {},
           nullable |-> FALSE]
Marshaler == [declared |-> {amount}, emits |-> {amount, total},
              always |-> {amount}, nullable |-> TRUE]
Map == [declared |-> None, emits |-> MCAttrs, always |-> {}, nullable |-> TRUE]

MCHandlers == {Struct, Marshaler, Map}

Symmetry == Permutations(MCValues)
=============================================================================
