---------------------------- MODULE RoutingTable ----------------------------
(***************************************************************************)
(* What the registry of internal/dispatch promises, without its ambient    *)
(* bundleSlug, its panics or its six package variables: a set of accepted  *)
(* registrations, at most one per function and slot, filed under the       *)
(* function whose code asked for it, and a dispatch that looks a handler   *)
(* up by the key and slot the host named.  Registry implements it.         *)
(***************************************************************************)
EXTENDS Naturals

CONSTANTS Slugs, HookEvents, Methods, Fns, Nil

VARIABLES
    phase,      \* "init", "ready" or "trapped"
    current,    \* the function registering, NoSlug for code outside a bundle
    accepted,   \* the registrations
    result      \* what the last dispatch did

vars == <<phase, current, accepted, result>>

NoSlug == ""
NoName == ""
UnknownEvent == "unknown_event"
Keys == Slugs \cup {NoSlug}
MethodNames == Methods \cup {NoName}

Init ==
    /\ phase = "init"
    /\ current = NoSlug
    /\ accepted = {}
    /\ result = [export |-> "none"]

\* A bundle function starts and ends its registration.
Enter(function) ==
    /\ phase = "init"
    /\ current = NoSlug
    /\ current' = function
    /\ UNCHANGED <<phase, accepted, result>>

Leave ==
    /\ phase = "init"
    /\ current # NoSlug
    /\ current' = NoSlug
    /\ UNCHANGED <<phase, accepted, result>>

\* One handler per function and slot.
Register(slot, name, fn) ==
    /\ phase = "init"
    /\ \A r \in accepted : ~(r.owner = current /\ r.slot = slot)
    /\ accepted' = accepted \cup
            {[owner |-> current, slot |-> slot, name |-> name, fn |-> fn]}
    /\ UNCHANGED <<phase, current, result>>

Settle(outcome) ==
    /\ phase = "init"
    /\ current = NoSlug
    /\ phase' = outcome
    /\ UNCHANGED <<current, accepted, result>>

\* The function that answers for key among the slots of family: itself when
\* it registered any of them, the code outside the bundle otherwise.
Route(key, family) ==
    IF \E r \in accepted : r.owner = key /\ r.slot \in family THEN key ELSE NoSlug

Found(key, slot, family) ==
    {r \in accepted : r.owner = Route(key, family) /\ r.slot = slot}

Dispatch(export, key, slot, method, outcome, ran) ==
    /\ phase = "ready"
    /\ result' = [export |-> export, key |-> key, slot |-> slot, method |-> method,
                  outcome |-> outcome, ran |-> ran]
    /\ UNCHANGED <<phase, current, accepted>>

\* The registration found for key runs, if its name is the method asked for.
Answer(export, key, slot, family, method) ==
    \/ /\ Found(key, slot, family) = {}
       /\ Dispatch(export, key, slot, method, "no_handler", Nil)
    \/ \E r \in Found(key, slot, family) :
         IF r.name = method
         THEN Dispatch(export, key, slot, method, "ran", [owner |-> r.owner, fn |-> r.fn])
         ELSE Dispatch(export, key, slot, method, "mis_deployed", Nil)

Refuse(export, key, slot, outcome) ==
    Dispatch(export, key, slot, NoName, outcome, Nil)

Next ==
    \/ \E function \in Slugs : Enter(function)
    \/ Leave
    \/ \E event \in HookEvents, fn \in Fns : Register(event, NoName, fn)
    \/ \E fn \in Fns : Register("action", NoName, fn)
    \/ \E name \in Methods, fn \in Fns : Register("connector_method", name, fn)
    \/ \E outcome \in {"ready", "trapped"} : Settle(outcome)
    \/ \E key \in Keys, event \in HookEvents :
         Answer("runHook", key, event, HookEvents, NoName)
    \/ \E key \in Keys : Answer("runAction", key, "action", {"action"}, NoName)
    \/ \E key \in Keys, method \in MethodNames :
         Answer("runConnectorMethod", key, "connector_method", {"connector_method"}, method)
    \/ \E key \in Keys : Refuse("runHook", key, UnknownEvent, "unknown_event")
    \/ \E export \in {"runHook", "runAction", "runConnectorMethod"} :
         Refuse(export, NoSlug, "none", "decode_error")

Spec == Init /\ [][Next]_vars
=============================================================================
