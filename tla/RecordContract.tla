--------------------------- MODULE RecordContract ---------------------------
(***************************************************************************)
(* What a typed before-hook promises about the record it is handed         *)
(* (fn/declared.go:10-27): it edits the attributes in its jurisdiction and *)
(* nothing else.  How the wrapper gets there (decoding into T, calling the *)
(* author's function, encoding, carrying the other keys over) is not seen. *)
(***************************************************************************)
CONSTANTS
    Attrs,           \* attributes of the entity, as JSON keys
    Values,          \* JSON values
    Absent,          \* the attribute is not in the document
    None,            \* no record stored; no record offered
    Jurisdictions    \* the attribute sets the registered handlers govern

VARIABLES
    stored,          \* the record of the entity, or None
    offered,         \* the record a write offers to a before-hook, or None
    granted          \* the jurisdiction of that hook, {} when none runs

vars == <<stored, offered, granted>>

Records == [Attrs -> Values \cup {Absent}]

Init == stored = None /\ offered = None /\ granted = {}

\* A caller creates or updates the record.
Offer ==
    /\ offered = None
    /\ offered' \in Records
    /\ granted' \in Jurisdictions
    /\ UNCHANGED stored

\* The write goes through: outside the jurisdiction it is the caller's.
Accept ==
    /\ offered # None
    /\ stored' \in Records
    /\ \A a \in Attrs \ granted : stored'[a] = offered[a]
    /\ offered' = None
    /\ granted' = {}

\* The write is refused and nothing is stored.
Refuse ==
    /\ offered # None
    /\ offered' = None
    /\ granted' = {}
    /\ UNCHANGED stored

Delete ==
    /\ offered = None
    /\ stored' = None
    /\ UNCHANGED <<offered, granted>>

Next == Offer \/ Accept \/ Refuse \/ Delete

Spec == Init /\ [][Next]_vars
=============================================================================
