----------------------------- MODULE BeforeHook -----------------------------
(***************************************************************************)
(* The typed hook wrappers (fn/register.go:9-108) and preserveUndeclared   *)
(* (fn/declared.go:162-199) over the life of one record.                   *)
(*                                                                         *)
(* The host is external: it hands a before-hook the caller's record, for   *)
(* an update already merged with the stored one, and treats the bytes that *)
(* come back as the whole record.  Any registered function may serve any   *)
(* write.                                                                  *)
(*                                                                         *)
(* A handler's type T is abstracted to what the wrapper depends on: the    *)
(* jurisdiction computed at registration (module Jurisdiction), the keys   *)
(* json.Marshal can and must emit for T, and whether T can encode as null. *)
(* The author's function is arbitrary: it may return any value of T or an  *)
(* error, and any document may fail to decode into T.  Go's map iteration  *)
(* order is arbitrary too.                                                 *)
(***************************************************************************)
CONSTANTS
    Attrs,      \* attributes of the entity, as JSON keys
    Values,     \* JSON values
    Absent,     \* the key is not in the document
    Null,       \* a JSON value that is not an object, such as null
    None,       \* no record, no call, no bytes, no jurisdiction
    Handlers    \* the types of the registered handlers

Docs == [Attrs -> Values \cup {Absent}]
Types == [declared: (SUBSET Attrs) \cup {None}, emits: SUBSET Attrs,
          always: SUBSET Attrs, nullable: BOOLEAN]

RecordEvents == {"before_create", "before_update"}
VoidEvents == {"before_delete", "after_create", "after_update", "after_delete"}
Events == RecordEvents \cup VoidEvents

\* One invocation of runHook, with the handler its event and slug select.
Calls == [event: Events, type: Handlers, record: Docs \cup {Null},
          current: Docs \cup {None}]

ASSUME MarkersAssumption ==
    /\ Absent \notin Values
    /\ Null \notin Docs
    /\ None \notin Docs \cup {Null}
    /\ None \notin Calls
    /\ \A set \in SUBSET Attrs : set # None
ASSUME HandlersAssumption == Handlers \subseteq Types

VARIABLES
    stored,     \* the entity's record, or None
    call,       \* the dispatch under way: event, type, record, currentRecord
    pc,         \* where the wrapper serving it is
    typedOut,   \* what json.Marshal made of the author's return value
    out,        \* the object being completed, then the payload
    todo,       \* keys of the input record the range loop has not visited
    failed,     \* the wrapper returned an error
    intended,   \* history: `callers` if the write under way goes through
    callers     \* history: what the callers last wrote to each attribute,
                \* None once a hook governing the attribute has written it

locals == <<typedOut, out, todo, failed>>
vars == <<stored, call, pc, typedOut, out, todo, failed, intended, callers>>

Keys(doc) == {a \in Attrs : doc \in Docs /\ doc[a] # Absent}
Blank == [a \in Attrs |-> Absent]

\* The event that follows an operation that went through.
AfterOf == [before_create |-> "after_create", before_update |-> "after_update",
            before_delete |-> "after_delete"]

\* The locals of a wrapper that has not got as far as an output.
Fresh == typedOut = None /\ out = None /\ todo = {} /\ failed = FALSE

Discard == typedOut' = None /\ out' = None /\ todo' = {} /\ failed' = FALSE

Init ==
    /\ stored = None
    /\ call = None
    /\ pc = "idle"
    /\ Fresh
    /\ intended = Blank
    /\ callers = Blank

-----------------------------------------------------------------------------
(* The host, before a wrapper runs.                                        *)

Dispatch(event, type, record, current) ==
    /\ call' = [event |-> event, type |-> type, record |-> record,
                current |-> current]
    /\ pc' = "running"

Create ==
    /\ pc = "idle"
    /\ stored = None
    /\ \E record \in Docs \cup {Null}, type \in Handlers :
         /\ Dispatch("before_create", type, record, None)
         /\ intended' = IF record = Null THEN Blank ELSE record
    /\ UNCHANGED <<stored, locals, callers>>

\* None in a patch leaves the attribute as it is.
Update ==
    /\ pc = "idle"
    /\ stored # None
    /\ \E patch \in [Attrs -> Values \cup {Absent, None}], type \in Handlers :
         /\ Dispatch("before_update", type,
                [a \in Attrs |-> IF patch[a] = None THEN stored[a] ELSE patch[a]],
                stored)
         /\ intended' = [a \in Attrs |->
                            IF patch[a] = None THEN callers[a] ELSE patch[a]]
    /\ UNCHANGED <<stored, locals, callers>>

Delete ==
    /\ pc = "idle"
    /\ stored # None
    /\ \E type \in Handlers : Dispatch("before_delete", type, stored, None)
    /\ UNCHANGED <<stored, locals, intended, callers>>

-----------------------------------------------------------------------------
(* The wrapper.                                                            *)

\* What json.Marshal can make of a value of the type.
Encodings(type) ==
    {doc \in Docs : type.always \subseteq Keys(doc) /\ Keys(doc) \subseteq type.emits}
        \cup (IF type.nullable THEN {Null} ELSE {})

\* Faulty variant: the stored record shows through the caller's.
InputOverCurrent ==
    IF call.current = None \/ call.record = Null THEN call.record
    ELSE [a \in Attrs |-> IF call.record[a] = Absent THEN call.current[a]
                          ELSE call.record[a]]

\* The record preserveUndeclared carries keys over from.
Input == call.record

\* The record or the current record does not decode into T, the author's
\* function returns an error, or its value does not encode.
Fail ==
    /\ pc = "running"
    /\ pc' = "returned"
    /\ failed' = TRUE
    /\ UNCHANGED <<stored, call, typedOut, out, todo, intended, callers>>

\* Faulty variant: a delete or after hook hands the record back.
ReturnVoidEchoes ==
    /\ pc = "running"
    /\ call.event \in VoidEvents
    /\ pc' = "returned"
    /\ out' = call.record
    /\ UNCHANGED <<stored, call, typedOut, todo, failed, intended, callers>>

\* Delete and after hooks return no payload.
ReturnVoid ==
    /\ pc = "running"
    /\ call.event \in VoidEvents
    /\ pc' = "returned"
    /\ UNCHANGED <<stored, call, locals, intended, callers>>

\* Faulty variant: the handler's output is the whole record.
NeverCarriesOver(type, input, encoded) == TRUE

\* T has no field structure, or there is nothing keyed to carry over.
ShortCircuits(type, input, encoded) ==
    type.declared = None \/ input = Null \/ encoded = Null

ReturnUntouched ==
    /\ pc = "running"
    /\ call.event \in RecordEvents
    /\ \E encoded \in Encodings(call.type) :
         /\ ShortCircuits(call.type, Input, encoded)
         /\ typedOut' = encoded
         /\ out' = encoded
    /\ pc' = "returned"
    /\ UNCHANGED <<stored, call, todo, failed, intended, callers>>

StartEcho ==
    /\ pc = "running"
    /\ call.event \in RecordEvents
    /\ \E encoded \in Encodings(call.type) :
         /\ ~ShortCircuits(call.type, Input, encoded)
         /\ typedOut' = encoded
         /\ out' = encoded
    /\ todo' = Keys(Input)
    /\ pc' = "echoing"
    /\ UNCHANGED <<stored, call, failed, intended, callers>>

\* Faulty variant: every key the output lacks is carried over.
EchoMissingKey ==
    /\ pc = "echoing"
    /\ \E key \in todo :
         /\ todo' = todo \ {key}
         /\ out' = IF out[key] # Absent THEN out
                   ELSE [out EXCEPT ![key] = Input[key]]
    /\ UNCHANGED <<stored, call, pc, typedOut, failed, intended, callers>>

\* One turn of the loop over the input map, whose order Go leaves open.
EchoKey ==
    /\ pc = "echoing"
    /\ \E key \in todo :
         /\ todo' = todo \ {key}
         /\ out' = IF key \in call.type.declared \/ out[key] # Absent THEN out
                   ELSE [out EXCEPT ![key] = Input[key]]
    /\ UNCHANGED <<stored, call, pc, typedOut, failed, intended, callers>>

EndEcho ==
    /\ pc = "echoing"
    /\ todo = {}
    /\ pc' = "returned"
    /\ UNCHANGED <<stored, call, locals, intended, callers>>

-----------------------------------------------------------------------------
(* The host, once the wrapper has returned.                                *)

\* The attributes a handler may write.
Governs(type) ==
    IF type.declared = None THEN Attrs ELSE type.declared \cup type.emits

\* The operation goes through with this record; an after-hook may be due.
Conclude(record) ==
    /\ Discard
    /\ \/ call' = None /\ pc' = "idle"
       \/ \E type \in Handlers : Dispatch(AfterOf[call.event], type, record, None)

\* The payload of a before-hook is the whole record.
Persist ==
    /\ pc = "returned"
    /\ ~failed
    /\ call.event \in RecordEvents
    /\ out \in Docs
    /\ stored' = out
    /\ callers' = [a \in Attrs |->
                      IF a \in Governs(call.type) THEN None ELSE intended[a]]
    /\ Conclude(out)
    /\ UNCHANGED intended

Remove ==
    /\ pc = "returned"
    /\ ~failed
    /\ call.event = "before_delete"
    /\ stored' = None
    /\ callers' = Blank
    /\ Conclude(call.record)
    /\ UNCHANGED intended

\* A before-hook refused the operation, or returned no object to store.
Refuse ==
    /\ pc = "returned"
    /\ call.event \in DOMAIN AfterOf
    /\ failed \/ out = Null
    /\ call' = None /\ pc' = "idle"
    /\ Discard
    /\ UNCHANGED <<stored, intended, callers>>

\* The operation stands, whatever an after-hook returns.
Notified ==
    /\ pc = "returned"
    /\ call.event \notin DOMAIN AfterOf
    /\ call' = None /\ pc' = "idle"
    /\ Discard
    /\ UNCHANGED <<stored, intended, callers>>

Next ==
    \/ Create \/ Update \/ Delete
    \/ Fail \/ ReturnVoid \/ ReturnUntouched \/ StartEcho \/ EchoKey \/ EndEcho
    \/ Persist \/ Remove \/ Refuse \/ Notified

Spec == Init /\ [][Next]_vars

-----------------------------------------------------------------------------
(* Properties.                                                             *)

\* Every variable holds a value of its type; a payload is only ever there for
\* the two events that have one.
TypeOK ==
    /\ stored \in Docs \cup {None}
    /\ call \in Calls \cup {None}
    /\ pc \in {"idle", "running", "echoing", "returned"}
    /\ (pc = "idle") <=> (call = None)
    /\ typedOut \in Docs \cup {Null, None}
    /\ out \in Docs \cup {Null, None}
    /\ todo \subseteq Attrs
    /\ failed \in BOOLEAN
    /\ intended \in [Attrs -> Values \cup {Absent, None}]
    /\ callers \in [Attrs -> Values \cup {Absent, None}]
    /\ call # None /\ call.event \in VoidEvents => out = None

\* The handler's output overlaid on the record it was given: in its
\* jurisdiction and where it emitted a key the output counts, a key it left
\* out included; elsewhere the record does.
Overlay(type, record, encoded) ==
    [a \in Attrs |-> IF a \in type.declared \/ encoded[a] # Absent
                     THEN encoded[a] ELSE record[a]]

\* Whatever order Go ranges the input map in, the payload is that overlay: a
\* declared key the handler cleared stays cleared, and nothing else is lost
\* (declared.go:162-199; declared_test.go:445, 527).
PayloadIsOverlay ==
    pc = "returned" /\ ~failed /\ call.event \in RecordEvents =>
        out = IF ShortCircuits(call.type, call.record, typedOut) THEN typedOut
              ELSE Overlay(call.type, call.record, typedOut)

\* Over any sequence of creates, updates and deletes, hooks that fail and
\* hooks that do not: an attribute no hook in whose jurisdiction it lies has
\* written since holds what the callers last wrote to it (declared.go:10-25).
UndeclaredIsTheCallers ==
    stored # None =>
        \A a \in Attrs : callers[a] # None => stored[a] = callers[a]

\* The record on offer is the one a before-hook has been dispatched with.
IsOffer == call # None /\ call.event \in RecordEvents
Offered == IF call.record = Null THEN Blank ELSE call.record

Contract == INSTANCE RecordContract WITH
    Jurisdictions <- {Governs(type) : type \in Handlers},
    offered <- IF IsOffer THEN Offered ELSE None,
    granted <- IF IsOffer THEN Governs(call.type) ELSE {}

\* The wrapper keeps the promise of module RecordContract: what is stored
\* differs from what was offered in the handler's jurisdiction only, a refused
\* write stores nothing, and hooks without a payload change nothing.
ImplementsContract == Contract!Spec

-----------------------------------------------------------------------------
(* The inductive invariant.                                                *)

FreshUntilReturn == pc \in {"idle", "running"} => Fresh

\* What the loop has done so far, whichever keys it took first.
LoopInvariant ==
    pc = "echoing" =>
        /\ call.event \in RecordEvents
        /\ ~failed
        /\ typedOut \in Encodings(call.type)
        /\ ~ShortCircuits(call.type, call.record, typedOut)
        /\ todo \subseteq Keys(call.record)
        /\ out = [a \in Attrs |->
                     IF a \in todo THEN typedOut[a]
                     ELSE Overlay(call.type, call.record, typedOut)[a]]

OutputEncodes ==
    pc = "returned" /\ ~failed /\ call.event \in RecordEvents =>
        typedOut \in Encodings(call.type)

\* Of what the callers wrote, the record on offer holds all that no hook has
\* written since.
IntendedIsOffered ==
    IsOffer => \A a \in Attrs : intended[a] # None => intended[a] = Offered[a]

IInv ==
    /\ TypeOK
    /\ FreshUntilReturn
    /\ LoopInvariant
    /\ OutputEncodes
    /\ PayloadIsOverlay
    /\ IntendedIsOffered
    /\ UndeclaredIsTheCallers
=============================================================================
