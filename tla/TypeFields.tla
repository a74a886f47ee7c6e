----------------------------- MODULE TypeFields -----------------------------
(***************************************************************************)
(* encoding/json's own field collection (typeFields and dominantField of   *)
(* the Go standard library), which fn/declared.go says it follows.  It is  *)
(* outside the repository and modelled as the fields it makes json.Marshal *)
(* emit for a struct type: a breadth-first walk, level by level, that      *)
(* scans each type once, at the first level it is queued for, and records  *)
(* its fields twice when the type was queued more than once for that       *)
(* level.                                                                  *)
(***************************************************************************)
EXTENDS Jurisdiction, FiniteSets

\* A program declares finitely many types.
ASSUME TypesAssumption == IsFiniteSet(Types)

\* The types queued for the level below when `scanned` are scanned, with
\* the number of times each is queued.
Embeds(type) ==
    {i \in DOMAIN fieldsOf[type] :
        ~Skipped(fieldsOf[type][i]) /\ Promoted(fieldsOf[type][i])}
TimesQueued(scanned, type) ==
    Cardinality(UNION {
        {<<t, i>> : i \in {j \in Embeds(t) : fieldsOf[t][j].type = type}} :
        t \in scanned})

\* A level of the walk: the types scanned at it, those scanned so far and how
\* often each type was queued for it.
FirstLevel == [scanned |-> {Root}, visited |-> {Root},
               count |-> [t \in Types |-> IF t = Root THEN 1 ELSE 0]]
LevelBelow(above) ==
    LET count == [t \in Types |-> TimesQueued(above.scanned, t)]
        scanned == {t \in Types : count[t] > 0} \ above.visited
    IN [scanned |-> scanned, visited |-> above.visited \cup scanned, count |-> count]

\* level[k]: the level k embeddings down.
Level ==
    LET level[k \in 0 .. Cardinality(Types)] ==
          IF k = 0 THEN FirstLevel ELSE LevelBelow(level[k - 1])
    IN level

\* The fields of type t, one of the types scanned at a level, that compete
\* for key n.
Competing(t, n) ==
    {i \in DOMAIN fieldsOf[t] :
        LET field == fieldsOf[t][i] IN
        ~Skipped(field) /\ ~Promoted(field) /\ KeyOf(field) = n}

\* The fields recorded for key n, each with its depth, its tagging and
\* whether a second copy was recorded to annihilate it.
Record(t, i, k, level) ==
    [type |-> t, index |-> i, depth |-> k, twice |-> level[k].count[t] > 1,
     isTagged |-> HasTagName(fieldsOf[t][i])]
RecordedFor(n, level) ==
    UNION {UNION {{Record(t, i, k, level) : i \in Competing(t, n)} :
                     t \in level[k].scanned} :
              k \in DOMAIN level}

\* encoding/json's order on the fields of one key.
Outranks(f, g) ==
    \/ f.depth < g.depth
    \/ f.depth = g.depth /\ f.isTagged /\ ~g.isTagged

\* The keys json reads and writes: one field, recorded once, outranks all
\* others of its key.
EmittedKeys ==
    LET level == Level IN
    {n \in Names :
        LET recorded == RecordedFor(n, level) IN
        \E f \in recorded :
            /\ ~f.twice
            /\ \A g \in recorded : g # f => Outranks(f, g)}

\* The walk never claims a key that json does not emit for T: an attribute
\* the handler can neither read nor write is always echoed, never lost
\* (declared.go:51-54).
DeclaredIsEmitted == declared # Nil => declared \subseteq EmittedKeys

\* "collectDeclared walks t's fields the way encoding/json's typeFields
\* does" (declared.go:90): the declared keys are the keys json emits, the
\* comparison of declared_test.go's drift guard.
MatchesEncodingJSON == declared # Nil => declared = EmittedKeys

\* The same for the shapes the drift guard has: no type with embedded
\* structs of its own is embedded twice at one level.
EmbedsBelowTwice ==
    LET level == Level IN
    \E k \in DOMAIN level : \E t \in level[k].scanned :
        level[k].count[t] > 1 /\ Embeds(t) # {}
MatchesEncodingJSONOnTrees ==
    declared # Nil /\ ~EmbedsBelowTwice => declared = EmittedKeys
=============================================================================
