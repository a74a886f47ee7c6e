------------------------------ MODULE Records -------------------------------
(***************************************************************************)
(* The records client of a guest, fn/records.go: the free-form operations  *)
(* and their typed siblings, called by several guests at once against one  *)
(* data service.                                                           *)
(*                                                                         *)
(* A call encodes its items, makes one host call and decodes the reply.    *)
(* The data service behind it is external: it deals with the transactions  *)
(* of a call one at a time, performs or refuses each, and the whole call   *)
(* may fail at any point, as module HostCall shows a host call may.        *)
(*                                                                         *)
(* Typed items and replies pass through a map[string]any on their way,     *)
(* which holds numbers as float64.                                         *)
(***************************************************************************)
EXTENDS Naturals

CONSTANTS
    Guests,     \* guests calling at the same time
    Ids,        \* record ids
    Attrs,      \* attributes
    Values,     \* JSON values
    Float,      \* the value as it survives a float64
    Absent,     \* the attribute is not in the document
    Nil,        \* no record, no item, no call, no type
    Refused,    \* the service did not perform a transaction
    Failed,     \* the call returned an error
    Types,      \* attribute sets of the authors' record types
    MaxItems,   \* bound: items of a batch
    Inputs      \* the items authors pass

Docs == [Attrs -> Values \cup {Absent}]
\* An author's value: its id if it has one, the attributes it encodes, and
\* whether it encodes at all.
Items == [id: Ids \cup {Nil}, doc: Docs, encodes: BOOLEAN]
Transactions == [id: Ids \cup {Nil}, data: Docs]

\* A transaction id is the zero-based index of its item.
Tokens == 0 .. MaxItems - 1

\* Items by position, transactions and results by transaction id; Nil from
\* the end of the batch on.
Batches == {items \in [Tokens -> Inputs \cup {Nil}] :
                \A i, j \in Tokens : i < j /\ items[i] = Nil => items[j] = Nil}

\* Records as returned: those on the page, by id.
Pages == [Ids -> Docs \cup {Nil}]
Outcomes == Pages \cup {Refused, Nil}
Operations == {"get", "create", "update", "delete", "list", "upsert"}
Calls == [op: Operations, type: Types \cup {Nil}, items: [Tokens -> Items \cup {Nil}],
          sent: [Tokens -> Transactions \cup {Nil}], rows: [Tokens -> Outcomes]]

\* The tasks of the contract, RecordStore.
Tasks == [op: Operations, type: Types \cup {Nil}, items: [Tokens -> Items \cup {Nil}],
          effects: [Tokens -> Outcomes]]

ASSUME BoundAssumption == MaxItems \in Nat \ {0}
ASSUME InputsAssumption == Inputs \subseteq Items
ASSUME TypesAssumption == \A type \in Types : type \subseteq Attrs /\ type # Nil
ASSUME FloatAssumption ==
    Float \in [Values -> Values] /\ \A v \in Values : Float[Float[v]] = Float[v]
ASSUME MarkersAssumption ==
    /\ Absent \notin Values
    /\ Nil \notin Ids \cup Docs \cup Items \cup Transactions \cup Pages \cup Calls \cup Tasks
    /\ Refused \notin Pages \cup {Nil}
    /\ Failed # Nil
    /\ \A rows \in [Tokens -> Outcomes] : rows # Nil /\ rows # Failed
    /\ \A sent \in [Tokens -> Transactions \cup {Nil}] : sent # Nil

VARIABLES
    store,      \* the data service's records
    calls,      \* the host call each guest has under way, or Nil
    answer,     \* what has just been returned, by guest
    wrote       \* history: what authors last wrote to each attribute

vars == <<store, calls, answer, wrote>>

Blank == [a \in Attrs |-> Absent]
Nothing == [id \in Ids |-> Nil]
Only(id, doc) == [Nothing EXCEPT ![id] = doc]
Silence == [g \in Guests |-> Nil]

Init ==
    /\ store = Nothing
    /\ calls = [g \in Guests |-> Nil]
    /\ answer = Silence
    /\ wrote = [id \in Ids |-> Blank]

-----------------------------------------------------------------------------
(* The guest: an operation up to its host call.                            *)

\* A document decoded into a map: numbers become float64.
Floated(doc) == [a \in Attrs |-> IF doc[a] = Absent THEN Absent ELSE Float[doc[a]]]

\* Faulty variant: an attribute the item leaves out is sent as a zero value.
ToRecordZeroed(type, doc) ==
    IF type = Nil THEN doc
    ELSE [a \in Attrs |-> IF doc[a] = Absent THEN CHOOSE v \in Values : TRUE
                          ELSE Float[doc[a]]]

\* A typed value is encoded, decoded into a map and encoded again; a map is
\* encoded once, as it is.
toRecord(type, doc) == IF type = Nil THEN doc ELSE Floated(doc)

\* Faulty variant: the author's value is sent for the transaction.
TransactionIsTheItem(type, item) == item

Transaction(type, item) == [id |-> item.id, data |-> toRecord(type, item.doc)]

\* Faulty variant: an item that does not encode is left out of the batch.
SkipsUnencodable(type, items) ==
    [i \in Tokens |-> IF items[i] = Nil THEN Nil
                      ELSE IF ~items[i].encodes THEN Nil
                      ELSE Transaction(type, items[i])]

\* One item that does not encode aborts the call: Nil.
Encode(type, items) ==
    IF \E i \in Tokens : items[i] # Nil /\ ~items[i].encodes THEN Nil
    ELSE [i \in Tokens |-> IF items[i] = Nil THEN Nil ELSE Transaction(type, items[i])]

\* The operation is encoded and sent; or it fails before anything is sent, if
\* an item does not encode or no transport is wired in.
Call(g, op, type, items) ==
    /\ calls[g] = Nil
    /\ \/ /\ Encode(type, items) # Nil
          /\ calls' = [calls EXCEPT ![g] =
                          [op |-> op, type |-> type, items |-> items,
                           sent |-> Encode(type, items),
                           rows |-> [i \in Tokens |-> Nil]]]
          /\ answer' = Silence
       \/ /\ answer' = [Silence EXCEPT ![g] = Failed]
          /\ UNCHANGED calls
    /\ UNCHANGED <<store, wrote>>

Single(item) == [i \in Tokens |-> IF i = 0 THEN item ELSE Nil]
Named(id) == Single([id |-> id, doc |-> Blank, encodes |-> TRUE])

\* The attributes of an item are those its type declares.
Typed(type) == {item \in Inputs : \A a \in Attrs \ type : item.doc[a] = Absent}
New(items) == {item \in items : item.id = Nil}

Get(g) == \E id \in Ids : Call(g, "get", Nil, Named(id))
Create(g) == \E item \in New(Inputs) : Call(g, "create", Nil, Single(item))
Update(g) == \E item \in Inputs \ New(Inputs) : Call(g, "update", Nil, Single(item))
Delete(g) == \E id \in Ids : Call(g, "delete", Nil, Named(id))
List(g) == Call(g, "list", Nil, Named(Nil))
BatchUpsert(g) == \E items \in Batches : Call(g, "upsert", Nil, items)

GetRecord(g) == \E type \in Types, id \in Ids : Call(g, "get", type, Named(id))
CreateRecord(g) ==
    \E type \in Types : \E item \in New(Typed(type)) : Call(g, "create", type, Single(item))
UpdateRecord(g) ==
    \E type \in Types : \E item \in Typed(type) \ New(Typed(type)) :
        Call(g, "update", type, Single(item))
ListRecords(g) == \E type \in Types : Call(g, "list", type, Named(Nil))
BatchUpsertRecords(g) ==
    \E type \in Types, items \in Batches :
        /\ \A i \in Tokens : items[i] \in Typed(type) \cup {Nil}
        /\ Call(g, "upsert", type, items)

-----------------------------------------------------------------------------
(* The data service.                                                       *)

Merge(old, patch) == [a \in Attrs |-> IF patch[a] = Absent THEN old[a] ELSE patch[a]]

\* The result of a transaction is reported under its transaction id.
Result(g, token, outcome) ==
    /\ calls' = [calls EXCEPT ![g] = [@ EXCEPT !.rows[token] = outcome]]
    /\ answer' = Silence

Read(g, token, transaction) ==
    /\ \/ /\ calls[g].op = "get"
          /\ transaction.id # Nil
          /\ store[transaction.id] # Nil
          /\ Result(g, token, Only(transaction.id, store[transaction.id]))
       \/ calls[g].op = "list" /\ Result(g, token, store)
    /\ UNCHANGED <<store, wrote>>

Remove(g, token, transaction) ==
    /\ calls[g].op = "delete"
    /\ transaction.id # Nil
    /\ store[transaction.id] # Nil
    /\ store' = [store EXCEPT ![transaction.id] = Nil]
    /\ wrote' = [wrote EXCEPT ![transaction.id] = Blank]
    /\ Result(g, token, Nothing)

\* The record with this id now holds data, of which the author wrote this.
Write(g, token, id, data, written) ==
    /\ store' = [store EXCEPT ![id] = data]
    /\ wrote' = [wrote EXCEPT ![id] = written]
    /\ Result(g, token, Only(id, data))

\* An update, or an upsert of an id that exists, is a partial merge.
Patch(g, token, transaction) ==
    /\ calls[g].op \in {"update", "upsert"}
    /\ transaction.id # Nil
    /\ store[transaction.id] # Nil
    /\ Write(g, token, transaction.id, Merge(store[transaction.id], transaction.data),
             Merge(wrote[transaction.id], calls[g].items[token].doc))

\* Any other upsert is a create.
Insert(g, token, transaction) ==
    /\ calls[g].op \in {"create", "upsert"}
    /\ transaction.id # Nil => store[transaction.id] = Nil
    /\ \E id \in Ids :
         /\ store[id] = Nil
         /\ Write(g, token, id, transaction.data, calls[g].items[token].doc)

Refuse(g, token, transaction) ==
    /\ Result(g, token, Refused)
    /\ UNCHANGED <<store, wrote>>

\* The service deals with one transaction of a call.
Serve(g) ==
    /\ calls[g] # Nil
    /\ \E token \in Tokens :
         /\ calls[g].sent[token] # Nil
         /\ calls[g].rows[token] = Nil
         /\ LET transaction == calls[g].sent[token] IN
            \/ Read(g, token, transaction)
            \/ Remove(g, token, transaction)
            \/ Patch(g, token, transaction)
            \/ Insert(g, token, transaction)
            \/ Refuse(g, token, transaction)

-----------------------------------------------------------------------------
(* The guest: the reply.                                                   *)

Return(g, outcome) ==
    /\ calls' = [calls EXCEPT ![g] = Nil]
    /\ answer' = [Silence EXCEPT ![g] = outcome]
    /\ UNCHANGED <<store, wrote>>

\* A map converted into the author's type, of which only the type's
\* attributes remain; results of a batch stay maps.
convertRecord(type, doc) ==
    [a \in Attrs |-> IF type # Nil /\ a \notin type THEN Absent ELSE Floated(doc)[a]]

RowType(call) == IF call.op = "upsert" THEN Nil ELSE call.type

Decode(type, outcome) ==
    IF outcome \in {Nil, Refused} THEN outcome
    ELSE [id \in Ids |-> IF outcome[id] = Nil THEN Nil ELSE convertRecord(type, outcome[id])]

Decoded(call) == [i \in Tokens |-> Decode(RowType(call), call.rows[i])]

\* A batch returns a result per row, refused rows among them; any other
\* operation returns the record or page it is about.
Reply(g) ==
    /\ calls[g] # Nil
    /\ \A i \in Tokens : calls[g].sent[i] # Nil => calls[g].rows[i] # Nil
    /\ calls[g].op # "upsert" => \A i \in Tokens : calls[g].rows[i] # Refused
    /\ Return(g, Decoded(calls[g]))

\* The service refused the operation, the host call failed at some point, or
\* a record of the reply does not convert into the author's type.
Error(g) ==
    /\ calls[g] # Nil
    /\ Return(g, Failed)

Next ==
    \E g \in Guests :
        \/ Get(g) \/ Create(g) \/ Update(g) \/ Delete(g) \/ List(g) \/ BatchUpsert(g)
        \/ GetRecord(g) \/ CreateRecord(g) \/ UpdateRecord(g) \/ ListRecords(g)
        \/ BatchUpsertRecords(g)
        \/ Serve(g) \/ Reply(g) \/ Error(g)

Spec == Init /\ [][Next]_vars

-----------------------------------------------------------------------------
(* Properties.                                                             *)

\* Every variable holds a value of its type.
TypeOK ==
    /\ store \in Pages
    /\ calls \in [Guests -> Calls \cup {Nil}]
    /\ answer \in [Guests -> [Tokens -> Outcomes] \cup {Failed, Nil}]
    /\ wrote \in [Ids -> Docs]

\* Whatever guests write at the same time, in batches that succeed in part and
\* calls that fail after they had their effect, an attribute of a record holds
\* what was last written to it, at worst as a float64 holds it, and nothing if
\* nothing was: a write never reaches an attribute its author left out
\* (records.go:116-123, 169-181, 242-252).
WritesAreTheAuthors ==
    \A id \in Ids : store[id] # Nil =>
        \A a \in Attrs :
            \/ store[id][a] = wrote[id][a]
            \/ wrote[id][a] # Absent /\ store[id][a] = Float[wrote[id][a]]

\* A guest's call under way as the contract's task.
Task(g) ==
    IF calls[g] = Nil THEN Nil
    ELSE [op |-> calls[g].op, type |-> RowType(calls[g]), items |-> calls[g].items,
          effects |-> calls[g].rows]

Contract == INSTANCE RecordStore WITH tasks <- [g \in Guests |-> Task(g)]

\* Every item of a call is performed or refused once, at one moment during the
\* call; a call that returns accounts for every item at its own position, and
\* one that aborts on an item has done nothing (records.go:116-123, 209-213).
ImplementsRecordStore == Contract!Spec

-----------------------------------------------------------------------------
(* The inductive invariant behind them.                                    *)

\* What has been sent of a call are its items, each under its position, and
\* only what has been sent has a result.
Correlated ==
    \A g \in Guests : calls[g] # Nil =>
        \A i \in Tokens :
            /\ calls[g].items[i] = Nil <=> calls[g].sent[i] = Nil
            /\ calls[g].items[i] # Nil =>
                 calls[g].sent[i] = Transaction(calls[g].type, calls[g].items[i])

IInv == TypeOK /\ Correlated /\ WritesAreTheAuthors
=============================================================================
