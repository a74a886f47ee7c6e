---------------------------- MODULE RecordStore -----------------------------
(***************************************************************************)
(* What a guest's author may rely on when calling fn.Records and its typed *)
(* siblings (fn/records.go), whatever lies between the call and the data   *)
(* service: every item of a call is dealt with by itself, at one moment    *)
(* between the call and its return and at most once; a call that returns   *)
(* normally says of every item, by its position, what became of it; of a   *)
(* call that fails nothing is known, except that it is over.               *)
(***************************************************************************)
EXTENDS Naturals

CONSTANTS
    Guests,     \* guests calling at the same time
    Ids,        \* record ids
    Attrs,      \* attributes
    Values,     \* JSON values
    Float,      \* the value as it survives a float64
    Absent,     \* the attribute is not in the document
    Nil,        \* no record, no item, no call, no type
    Refused,    \* the service did not perform an item
    Failed,     \* the call returned an error
    Types,      \* attribute sets of the authors' record types
    MaxItems    \* bound: items of a batch

VARIABLES
    store,      \* the records
    tasks,      \* the call each guest has under way: items and their effects
    answer      \* what has just been returned, by guest

vars == <<store, tasks, answer>>

Docs == [Attrs -> Values \cup {Absent}]
Items == [id: Ids \cup {Nil}, doc: Docs, encodes: BOOLEAN]
Positions == 0 .. MaxItems - 1
Operations == {"get", "create", "update", "delete", "list", "upsert"}

\* Records as returned: those on the page, by id.
Pages == [Ids -> Docs \cup {Nil}]
Nothing == [id \in Ids |-> Nil]
Only(id, doc) == [Nothing EXCEPT ![id] = doc]
Silence == [g \in Guests |-> Nil]

\* The task of a call that has begun.
Fresh == [op: Operations, type: Types \cup {Nil}, items: [Positions -> Items \cup {Nil}],
          effects: {[i \in Positions |-> Nil]}]

Init ==
    /\ store = Nothing
    /\ tasks = [g \in Guests |-> Nil]
    /\ answer = Silence

\* Any call: its task is the one the step leads to.
Begin(g) ==
    /\ tasks[g] = Nil
    /\ tasks'[g] \in Fresh
    /\ tasks' = [tasks EXCEPT ![g] = tasks'[g]]
    /\ answer' = Silence
    /\ UNCHANGED store

Merge(old, patch) == [a \in Attrs |-> IF patch[a] = Absent THEN old[a] ELSE patch[a]]

\* The document as written: a value the author gave may have lost precision.
Nearly(doc) ==
    {d \in Docs : \A a \in Attrs :
        d[a] = doc[a] \/ (doc[a] # Absent /\ d[a] = Float[doc[a]])}

\* Item i of the call has been dealt with, with this effect.
Done(g, i, effect) ==
    tasks' = [tasks EXCEPT ![g] = [@ EXCEPT !.effects[i] = effect]]

\* The operation is performed on item i, at once.
Perform(g, i, op, item) ==
    \/ /\ op = "get"
       /\ item.id # Nil /\ store[item.id] # Nil
       /\ Done(g, i, Only(item.id, store[item.id])) /\ UNCHANGED store
    \/ /\ op = "list"
       /\ Done(g, i, store) /\ UNCHANGED store
    \/ /\ op = "delete"
       /\ item.id # Nil /\ store[item.id] # Nil
       /\ store' = [store EXCEPT ![item.id] = Nil]
       /\ Done(g, i, Nothing)
    \/ /\ op \in {"update", "upsert"}
       /\ item.id # Nil /\ store[item.id] # Nil
       /\ \E doc \in Nearly(item.doc) :
            LET merged == Merge(store[item.id], doc) IN
            store' = [store EXCEPT ![item.id] = merged] /\ Done(g, i, Only(item.id, merged))
    \/ /\ op \in {"create", "upsert"}
       /\ item.id # Nil => store[item.id] = Nil
       /\ \E id \in Ids, doc \in Nearly(item.doc) :
            /\ store[id] = Nil
            /\ store' = [store EXCEPT ![id] = doc] /\ Done(g, i, Only(id, doc))

\* One item of a call is performed or refused, once.
Take(g, i) ==
    /\ tasks[g] # Nil
    /\ tasks[g].items[i] # Nil
    /\ tasks[g].effects[i] = Nil
    /\ \/ Perform(g, i, tasks[g].op, tasks[g].items[i])
       \/ Done(g, i, Refused) /\ UNCHANGED store
    /\ answer' = Silence

\* A record as an author sees it: of a type only what it declares, of a
\* number what a float64 holds.
Seen(type, doc) ==
    [a \in Attrs |-> IF doc[a] = Absent \/ (type # Nil /\ a \notin type) THEN Absent
                     ELSE Float[doc[a]]]

Report(type, effect) ==
    IF effect \in {Nil, Refused} THEN effect
    ELSE [id \in Ids |-> IF effect[id] = Nil THEN Nil ELSE Seen(type, effect[id])]

\* Every item of the call is accounted for, at its position.
Succeed(g) ==
    /\ tasks[g] # Nil
    /\ \A i \in Positions : tasks[g].items[i] # Nil => tasks[g].effects[i] # Nil
    /\ answer' = [Silence EXCEPT ![g] =
                     [i \in Positions |-> Report(tasks[g].type, tasks[g].effects[i])]]
    /\ tasks' = [tasks EXCEPT ![g] = Nil]
    /\ UNCHANGED store

\* The call returns an error, before or after it had any effect.
Fail(g) ==
    /\ answer' = [Silence EXCEPT ![g] = Failed]
    /\ tasks' = [tasks EXCEPT ![g] = Nil]
    /\ UNCHANGED store

Next ==
    \E g \in Guests :
        \/ Begin(g)
        \/ \E i \in Positions : Take(g, i)
        \/ Succeed(g)
        \/ Fail(g)

Spec == Init /\ [][Next]_vars
=============================================================================
