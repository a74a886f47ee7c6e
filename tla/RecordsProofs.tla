--------------------------- MODULE RecordsProofs ----------------------------
(***************************************************************************)
(* What TLAPS proves of the records client, for any number of guests, ids, *)
(* attributes, values and record types and batches of any size.            *)
(***************************************************************************)
EXTENDS Records, TLAPS

USE FloatAssumption, MarkersAssumption

ItemBatches == [Tokens -> Items \cup {Nil}]

-----------------------------------------------------------------------------
(* Lemmas about the operators.                                             *)

LEMMA Zero == 0 \in Tokens
  BY BoundAssumption DEF Tokens

LEMMA BlankTyped == Blank \in Docs
  BY DEF Blank, Docs

LEMMA SingleTyped ==
    ASSUME NEW item \in Items PROVE Single(item) \in ItemBatches
  BY DEF Single, ItemBatches

LEMMA NamedTyped ==
    ASSUME NEW id \in Ids \cup {Nil} PROVE Named(id) \in ItemBatches
  <1>1. [id |-> id, doc |-> Blank, encodes |-> TRUE] \in Items
    BY BlankTyped DEF Items
  <1> QED
    BY <1>1, SingleTyped DEF Named

LEMMA OnlyTyped ==
    ASSUME NEW id \in Ids, NEW doc \in Docs PROVE Only(id, doc) \in Pages
  BY DEF Only, Nothing, Pages

LEMMA MergeTyped ==
    ASSUME NEW old \in Docs, NEW patch \in Docs PROVE Merge(old, patch) \in Docs
  BY DEF Merge, Docs

\* A document on its way out keeps its attributes, at worst rounded.
LEMMA ToRecord ==
    ASSUME NEW type, NEW doc \in Docs
    PROVE  /\ toRecord(type, doc) \in Docs
           /\ \A a \in Attrs :
                \/ toRecord(type, doc)[a] = doc[a]
                \/ doc[a] # Absent /\ toRecord(type, doc)[a] = Float[doc[a]]
  BY DEF toRecord, Floated, Docs

LEMMA TransactionTyped ==
    ASSUME NEW type, NEW item \in Items
    PROVE  Transaction(type, item) \in Transactions /\ Transaction(type, item) # Nil
  <1>1. item.id \in Ids \cup {Nil} /\ item.doc \in Docs
    BY DEF Items
  <1>2. Transaction(type, item) \in Transactions
    BY <1>1, ToRecord DEF Transaction, Transactions
  <1> QED
    BY <1>2

\* A call that encodes sends each of its items, at its position.
LEMMA Encoded ==
    ASSUME NEW type, NEW items \in ItemBatches, Encode(type, items) # Nil
    PROVE  /\ Encode(type, items) \in [Tokens -> Transactions \cup {Nil}]
           /\ \A i \in Tokens :
                /\ items[i] = Nil <=> Encode(type, items)[i] = Nil
                /\ items[i] # Nil => Encode(type, items)[i] = Transaction(type, items[i])
  <1>1. Encode(type, items) =
          [i \in Tokens |-> IF items[i] = Nil THEN Nil ELSE Transaction(type, items[i])]
    BY DEF Encode
  <1>2. \A i \in Tokens : items[i] # Nil =>
          Transaction(type, items[i]) \in Transactions /\ Transaction(type, items[i]) # Nil
    BY TransactionTyped DEF ItemBatches
  <1> QED
    BY <1>1, <1>2

LEMMA ConvertTyped ==
    ASSUME NEW type, NEW doc \in Docs PROVE convertRecord(type, doc) \in Docs
  BY DEF convertRecord, Floated, Docs

LEMMA DecodeTyped ==
    ASSUME NEW type, NEW outcome \in Outcomes PROVE Decode(type, outcome) \in Outcomes
  <1>1. CASE outcome \in {Nil, Refused}
    BY <1>1 DEF Decode, Outcomes
  <1>2. CASE outcome \in Pages /\ outcome \notin {Nil, Refused}
    <2>1. \A id \in Ids : outcome[id] # Nil => convertRecord(type, outcome[id]) \in Docs
      BY <1>2, ConvertTyped DEF Pages
    <2> QED
      BY <1>2, <2>1 DEF Decode, Outcomes, Pages
  <1> QED
    BY <1>1, <1>2 DEF Outcomes

\* A step is a call of some operation on well-typed items, the service
\* dealing with one, or a return.
LEMMA Steps ==
    ASSUME Next
    PROVE  \E g \in Guests :
             \/ \E op \in Operations, type \in Types \cup {Nil}, items \in ItemBatches :
                  Call(g, op, type, items)
             \/ Serve(g) \/ Reply(g) \/ Error(g)
  <1>1. PICK g \in Guests :
          \/ Get(g) \/ Create(g) \/ Update(g) \/ Delete(g) \/ List(g) \/ BatchUpsert(g)
          \/ GetRecord(g) \/ CreateRecord(g) \/ UpdateRecord(g) \/ ListRecords(g)
          \/ BatchUpsertRecords(g)
          \/ Serve(g) \/ Reply(g) \/ Error(g)
    BY DEF Next
  <1> DEFINE Some ==
        \E op \in Operations, type \in Types \cup {Nil}, items \in ItemBatches :
            Call(g, op, type, items)
  <1>2. Get(g) \/ Delete(g) \/ List(g) => Some
    BY NamedTyped DEF Get, Delete, List, Operations
  <1>3. GetRecord(g) \/ ListRecords(g) => Some
    BY NamedTyped DEF GetRecord, ListRecords, Operations
  <1>4. Create(g) \/ Update(g) => Some
    BY SingleTyped, InputsAssumption DEF Create, Update, New, Operations
  <1>5. CreateRecord(g) \/ UpdateRecord(g) => Some
    BY SingleTyped, InputsAssumption DEF CreateRecord, UpdateRecord, New, Typed, Operations
  <1>6. Batches \subseteq ItemBatches
    BY InputsAssumption DEF Batches, ItemBatches
  <1>7. BatchUpsert(g) \/ BatchUpsertRecords(g) => Some
    BY <1>6 DEF BatchUpsert, BatchUpsertRecords, Operations
  <1> QED
    BY <1>1, <1>2, <1>3, <1>4, <1>5, <1>7

\* What is known of a transaction the service deals with.
LEMMA Served ==
    ASSUME TypeOK, Correlated, NEW g \in Guests, calls[g] # Nil,
           NEW token \in Tokens, calls[g].sent[token] # Nil
    PROVE  /\ calls[g] \in Calls
           /\ calls[g].items[token] \in Items
           /\ calls[g].sent[token] = Transaction(calls[g].type, calls[g].items[token])
           /\ calls[g].sent[token].id \in Ids \cup {Nil}
           /\ calls[g].sent[token].id = calls[g].items[token].id
           /\ calls[g].sent[token].data = toRecord(calls[g].type, calls[g].items[token].doc)
           /\ calls[g].sent[token].data \in Docs
           /\ calls[g].items[token].doc \in Docs
  <1>1. calls[g] \in Calls
    BY DEF TypeOK
  <1>2. calls[g].items[token] \in Items
    BY <1>1 DEF Calls, Correlated
  <1>3. calls[g].sent[token] = Transaction(calls[g].type, calls[g].items[token])
    BY <1>2 DEF Correlated
  <1>4. calls[g].items[token].id \in Ids \cup {Nil} /\ calls[g].items[token].doc \in Docs
    BY <1>2 DEF Items
  <1> QED
    BY <1>1, <1>2, <1>3, <1>4, ToRecord DEF Transaction

\* A result is a result of the same call, in its place.
LEMMA ResultTyped ==
    ASSUME TypeOK, Correlated, NEW g \in Guests, calls[g] # Nil, NEW token \in Tokens,
           NEW outcome \in Outcomes, Result(g, token, outcome)
    PROVE  /\ calls' \in [Guests -> Calls \cup {Nil}]
           /\ answer' \in [Guests -> [Tokens -> Outcomes] \cup {Failed, Nil}]
           /\ Correlated'
  <1> DEFINE c == [calls[g] EXCEPT !.rows[token] = outcome]
  <1>1. calls[g] \in Calls
    BY DEF TypeOK
  <1>2. /\ c \in Calls
        /\ c.op = calls[g].op /\ c.type = calls[g].type
        /\ c.items = calls[g].items /\ c.sent = calls[g].sent
    BY <1>1 DEF Calls
  <1>3. calls' = [calls EXCEPT ![g] = c] /\ answer' = Silence
    BY DEF Result
  <1>4. calls' \in [Guests -> Calls \cup {Nil}]
    BY <1>2, <1>3 DEF TypeOK
  <1>5. \A h \in Guests : calls'[h] # Nil =>
          /\ calls[h] # Nil
          /\ calls'[h].type = calls[h].type
          /\ calls'[h].items = calls[h].items /\ calls'[h].sent = calls[h].sent
    BY <1>2, <1>3 DEF TypeOK
  <1>6. Correlated'
    BY <1>5 DEF Correlated
  <1> QED
    BY <1>3, <1>4, <1>6 DEF Silence

-----------------------------------------------------------------------------
(* The inductive invariant.                                                *)

LEMMA InvInit == Init => IInv
  <1> SUFFICES ASSUME Init PROVE IInv
    OBVIOUS
  <1> USE DEF Init
  <1>1. TypeOK
    BY BlankTyped DEF TypeOK, Nothing, Pages, Silence
  <1>2. Correlated
    BY DEF Correlated
  <1>3. WritesAreTheAuthors
    BY DEF WritesAreTheAuthors, Nothing
  <1> QED
    BY <1>1, <1>2, <1>3 DEF IInv

\* A call, sent or not.
LEMMA InvCall ==
    ASSUME IInv, NEW g \in Guests, NEW op \in Operations, NEW type \in Types \cup {Nil},
           NEW items \in ItemBatches, Call(g, op, type, items)
    PROVE  IInv'
  <1> USE DEF IInv
  <1>1. UNCHANGED <<store, wrote>>
    BY DEF Call
  <1>2. WritesAreTheAuthors'
    BY <1>1 DEF WritesAreTheAuthors
  <1>3. CASE /\ answer' = [Silence EXCEPT ![g] = Failed]
             /\ UNCHANGED calls
    BY <1>1, <1>2, <1>3 DEF TypeOK, Silence, Correlated
  <1>4. CASE /\ Encode(type, items) # Nil /\ answer' = Silence
             /\ calls' = [calls EXCEPT ![g] =
                             [op |-> op, type |-> type, items |-> items,
                              sent |-> Encode(type, items),
                              rows |-> [i \in Tokens |-> Nil]]]
    <2> DEFINE c == [op |-> op, type |-> type, items |-> items,
                     sent |-> Encode(type, items), rows |-> [i \in Tokens |-> Nil]]
    <2>1. c \in Calls
      BY <1>4, Encoded DEF Calls, Outcomes, ItemBatches
    <2>2. calls' = [calls EXCEPT ![g] = c]
      BY <1>4
    <2>3. TypeOK'
      BY <1>1, <1>4, <2>1, <2>2 DEF TypeOK, Silence
    <2>4. \A h \in Guests : calls'[h] = IF h = g THEN c ELSE calls[h]
      BY <2>2 DEF TypeOK
    <2>5. \A i \in Tokens :
            /\ c.items[i] = Nil <=> c.sent[i] = Nil
            /\ c.items[i] # Nil => c.sent[i] = Transaction(c.type, c.items[i])
      BY <1>4, Encoded
    <2> HIDE DEF c
    <2>6. Correlated'
      BY <2>4, <2>5 DEF Correlated
    <2> QED
      BY <1>2, <2>3, <2>6
  <1> QED
    BY <1>3, <1>4 DEF Call

\* A write leaves the record with what its author wrote, at worst rounded.
LEMMA InvWrite ==
    ASSUME IInv, NEW g \in Guests, calls[g] # Nil, NEW token \in Tokens,
           NEW id \in Ids, NEW data \in Docs, NEW written \in Docs,
           Write(g, token, id, data, written),
           \A a \in Attrs : \/ data[a] = written[a]
                            \/ written[a] # Absent /\ data[a] = Float[written[a]]
    PROVE  IInv'
  <1> USE DEF IInv
  <1>1. Only(id, data) \in Outcomes
    BY OnlyTyped DEF Outcomes
  <1>2. /\ calls' \in [Guests -> Calls \cup {Nil}]
        /\ answer' \in [Guests -> [Tokens -> Outcomes] \cup {Failed, Nil}]
        /\ Correlated'
    BY <1>1, ResultTyped DEF Write
  <1>3. /\ store \in [Ids -> Docs \cup {Nil}] /\ wrote \in [Ids -> Docs]
        /\ store' = [store EXCEPT ![id] = data] /\ wrote' = [wrote EXCEPT ![id] = written]
    BY DEF Write, TypeOK, Pages
  <1>4. TypeOK'
    BY <1>2, <1>3 DEF TypeOK, Pages
  <1>5. WritesAreTheAuthors'
    BY <1>3 DEF WritesAreTheAuthors
  <1> QED
    BY <1>2, <1>4, <1>5

LEMMA InvServe ==
    ASSUME IInv, NEW g \in Guests, Serve(g)
    PROVE  IInv'
  <1> USE DEF IInv
  <1>1. PICK token \in Tokens :
          /\ calls[g] # Nil
          /\ calls[g].sent[token] # Nil
          /\ calls[g].rows[token] = Nil
          /\ LET transaction == calls[g].sent[token] IN
             \/ Read(g, token, transaction)
             \/ Remove(g, token, transaction)
             \/ Patch(g, token, transaction)
             \/ Insert(g, token, transaction)
             \/ Refuse(g, token, transaction)
    BY DEF Serve
  <1> DEFINE t == calls[g].sent[token]
             doc == calls[g].items[token].doc
  <1>2. t.id \in Ids \cup {Nil} /\ t.data \in Docs /\ doc \in Docs
        /\ t.data = toRecord(calls[g].type, doc)
    BY <1>1, Served
  <1>3. \A a \in Attrs : \/ t.data[a] = doc[a]
                         \/ doc[a] # Absent /\ t.data[a] = Float[doc[a]]
    BY <1>2, ToRecord
  <1>4. store \in [Ids -> Docs \cup {Nil}] /\ wrote \in [Ids -> Docs]
    BY DEF TypeOK, Pages
  <1> HIDE DEF t, doc
  <1>5. ASSUME NEW outcome \in Outcomes, Result(g, token, outcome),
               UNCHANGED <<store, wrote>>
        PROVE  IInv'
    BY <1>1, <1>5, ResultTyped DEF TypeOK, WritesAreTheAuthors
  <1>6. CASE Refuse(g, token, t)
    BY <1>5, <1>6 DEF Refuse, Outcomes
  <1>7. CASE Read(g, token, t)
    <2>1. store \in Outcomes
      BY <1>4 DEF Outcomes, Pages
    <2>2. ASSUME t.id # Nil, store[t.id] # Nil, calls[g].op = "get",
                 Result(g, token, Only(t.id, store[t.id]))
          PROVE  IInv'
      <3>1. t.id \in Ids
        BY <1>1, <1>2, <1>7, <2>2 DEF Read
      <3> QED
        BY <1>4, <1>5, <1>7, <2>2, <3>1, OnlyTyped DEF Outcomes, Read
    <2> QED
      BY <1>5, <1>7, <2>1, <2>2 DEF Read
  <1>8. CASE Remove(g, token, t)
    <2>1. Nothing \in Outcomes
      BY DEF Nothing, Outcomes, Pages
    <2>2. /\ calls' \in [Guests -> Calls \cup {Nil}]
          /\ answer' \in [Guests -> [Tokens -> Outcomes] \cup {Failed, Nil}]
          /\ Correlated'
      BY <1>1, <1>8, <2>1, ResultTyped DEF Remove
    <2>3. store' = [store EXCEPT ![t.id] = Nil] /\ wrote' = [wrote EXCEPT ![t.id] = Blank]
      BY <1>8 DEF Remove
    <2>4. TypeOK'
      BY <1>4, <2>2, <2>3, BlankTyped DEF TypeOK, Pages
    <2>5. WritesAreTheAuthors'
      BY <1>4, <2>3 DEF WritesAreTheAuthors
    <2> QED
      BY <2>2, <2>4, <2>5
  <1>9. CASE Patch(g, token, t)
    <2> DEFINE id == t.id
               old == store[id]
               data == Merge(old, t.data)
               written == Merge(wrote[id], doc)
    <2>1. id \in Ids /\ old \in Docs /\ Write(g, token, id, data, written)
      BY <1>2, <1>4, <1>9 DEF Patch, doc, t
    <2>2. wrote[id] \in Docs
      BY <1>4, <2>1
    <2>3. data \in Docs /\ written \in Docs
      BY <1>2, <2>1, <2>2, MergeTyped
    <2>4. \A a \in Attrs : \/ old[a] = wrote[id][a]
                           \/ wrote[id][a] # Absent /\ old[a] = Float[wrote[id][a]]
      BY <2>1 DEF WritesAreTheAuthors
    <2>5. ASSUME NEW a \in Attrs
          PROVE  \/ data[a] = written[a]
                 \/ written[a] # Absent /\ data[a] = Float[written[a]]
      <3>1. data[a] = IF t.data[a] = Absent THEN old[a] ELSE t.data[a]
        BY DEF Merge
      <3>2. written[a] = IF doc[a] = Absent THEN wrote[id][a] ELSE doc[a]
        BY DEF Merge
      <3>3. doc[a] \in Values \cup {Absent}
        BY <1>2 DEF Docs
      <3>4. t.data[a] = Absent <=> doc[a] = Absent
        BY <1>3, <3>3
      <3> QED
        BY <1>3, <2>4, <3>1, <3>2, <3>4
    <2> HIDE DEF id, old, data, written
    <2> QED
      BY <1>1, <2>1, <2>3, <2>5, InvWrite
  <1>10. CASE Insert(g, token, t)
    <2>1. PICK id \in Ids : Write(g, token, id, t.data, doc)
      BY <1>10 DEF Insert, doc
    <2> QED
      BY <1>1, <1>2, <1>3, <2>1, InvWrite
  <1> QED
    BY <1>1, <1>6, <1>7, <1>8, <1>9, <1>10 DEF t

LEMMA InvReturn ==
    ASSUME IInv, NEW g \in Guests, Reply(g) \/ Error(g)
    PROVE  IInv'
  <1> USE DEF IInv
  <1>1. PICK outcome \in [Tokens -> Outcomes] \cup {Failed} : Return(g, outcome)
    <2>1. CASE Error(g)
      BY <2>1 DEF Error
    <2>2. CASE Reply(g)
      <3>1. calls[g] \in Calls
        BY <2>2 DEF Reply, TypeOK
      <3>2. Decoded(calls[g]) \in [Tokens -> Outcomes]
        BY <3>1, DecodeTyped DEF Decoded, Calls
      <3> QED
        BY <2>2, <3>2 DEF Reply
    <2> QED
      BY <2>1, <2>2
  <1>2. TypeOK'
    BY <1>1 DEF Return, TypeOK, Silence
  <1>3. Correlated'
    BY <1>1 DEF Return, TypeOK, Correlated
  <1>4. WritesAreTheAuthors'
    BY <1>1 DEF Return, WritesAreTheAuthors
  <1> QED
    BY <1>2, <1>3, <1>4

LEMMA Inductive == IInv /\ [Next]_vars => IInv'
  <1> SUFFICES ASSUME IInv, [Next]_vars PROVE IInv'
    OBVIOUS
  <1>1. CASE Next
    BY <1>1, Steps, InvCall, InvServe, InvReturn
  <1>2. CASE UNCHANGED vars
    BY <1>2 DEF IInv, TypeOK, Correlated, WritesAreTheAuthors, vars
  <1> QED
    BY <1>1, <1>2

\* What has been sent of a call are its items, whoever else writes.
THEOREM Invariant == Spec => []IInv
  BY InvInit, Inductive, PTL DEF Spec

\* Every variable keeps its type.
THEOREM TypeCorrect == Spec => []TypeOK
  <1>1. IInv => TypeOK
    BY DEF IInv
  <1> QED
    BY Invariant, <1>1, PTL

\* An attribute holds what was last written to it, at worst rounded: no write
\* reaches an attribute its author left out (records.go:116-123, 242-252).
THEOREM WritesReachOnlyWhatTheySay == Spec => []WritesAreTheAuthors
  <1>1. IInv => WritesAreTheAuthors
    BY DEF IInv
  <1> QED
    BY Invariant, <1>1, PTL

-----------------------------------------------------------------------------
(* Refinement of RecordStore.                                              *)

LEMMA Typing ==
    ASSUME TypeOK, NEW g \in Guests, calls[g] # Nil
    PROVE  /\ calls[g] \in Calls
           /\ calls[g].rows \in [Tokens -> Outcomes]
           /\ Task(g) = [op |-> calls[g].op, type |-> RowType(calls[g]),
                         items |-> calls[g].items, effects |-> calls[g].rows]
           /\ Task(g) \in Tasks /\ Task(g) # Nil
  <1>1. calls[g] \in Calls
    BY DEF TypeOK
  <1>2. Task(g) = [op |-> calls[g].op, type |-> RowType(calls[g]),
                   items |-> calls[g].items, effects |-> calls[g].rows]
    BY DEF Task
  <1>3. RowType(calls[g]) \in Types \cup {Nil}
    BY <1>1 DEF RowType, Calls
  <1>4. Task(g) \in Tasks
    BY <1>1, <1>2, <1>3 DEF Calls, Tasks
  <1> QED
    BY <1>1, <1>2, <1>4 DEF Calls

\* What the operators of the contract are in terms of this module's.
LEMMA Shared ==
    /\ Contract!Items = Items /\ Contract!Docs = Docs /\ Contract!Pages = Pages
    /\ Contract!Operations = Operations /\ Contract!Positions = Tokens
    /\ Contract!Silence = Silence /\ Contract!Nothing = Nothing
    /\ \A id, doc : Contract!Only(id, doc) = Only(id, doc)
    /\ \A old, patch : Contract!Merge(old, patch) = Merge(old, patch)
  BY DEF Contract!Items, Items, Contract!Docs, Docs, Contract!Pages, Pages,
         Contract!Operations, Operations, Contract!Positions, Tokens,
         Contract!Silence, Silence, Contract!Nothing, Nothing,
         Contract!Only, Only, Contract!Merge, Merge

LEMMA Sent ==
    ASSUME NEW type, NEW doc \in Docs PROVE toRecord(type, doc) \in Contract!Nearly(doc)
  BY ToRecord, Shared DEF Contract!Nearly

LEMMA Reported ==
    ASSUME NEW type, NEW outcome \in Outcomes
    PROVE  Contract!Report(type, outcome) = Decode(type, outcome)
  <1>1. \A doc : Contract!Seen(type, doc) = convertRecord(type, doc)
    BY DEF Contract!Seen, convertRecord, Floated
  <1> QED
    BY <1>1 DEF Contract!Report, Decode

LEMMA RefineCall ==
    ASSUME TypeOK, TypeOK', NEW g \in Guests, NEW op \in Operations,
           NEW type \in Types \cup {Nil}, NEW items \in ItemBatches,
           Call(g, op, type, items)
    PROVE  Contract!Begin(g) \/ Contract!Fail(g)
  <1>1. calls[g] = Nil /\ UNCHANGED store
    BY DEF Call
  <1>2. CASE answer' = [Silence EXCEPT ![g] = Failed] /\ UNCHANGED calls
    <2>1. [h \in Guests |-> Task(h)'] = [[h \in Guests |-> Task(h)] EXCEPT ![g] = Nil]
      BY <1>1, <1>2 DEF Task, RowType
    <2> QED
      BY <1>1, <1>2, <2>1, Shared DEF Contract!Fail
  <1>3. CASE /\ Encode(type, items) # Nil /\ answer' = Silence
             /\ calls' = [calls EXCEPT ![g] =
                             [op |-> op, type |-> type, items |-> items,
                              sent |-> Encode(type, items),
                              rows |-> [i \in Tokens |-> Nil]]]
    <2> DEFINE c == [op |-> op, type |-> type, items |-> items,
                     sent |-> Encode(type, items), rows |-> [i \in Tokens |-> Nil]]
               task == [op |-> op, type |-> RowType(c), items |-> items,
                        effects |-> [i \in Tokens |-> Nil]]
    <2>1. \A h \in Guests : calls'[h] = IF h = g THEN c ELSE calls[h]
      BY <1>3 DEF TypeOK
    <2>2. c # Nil
      BY <1>3, Encoded DEF Calls, Outcomes, ItemBatches
    <2>3. \A h \in Guests : Task(h)' = IF h = g THEN task ELSE Task(h)
      BY <2>1, <2>2 DEF Task, RowType
    <2>4. [h \in Guests |-> Task(h)'] = [[h \in Guests |-> Task(h)] EXCEPT ![g] = task]
      BY <2>3
    <2>5. RowType(c) \in Types \cup {Nil}
      BY DEF RowType
    <2>6. task \in Contract!Fresh
      BY <2>5, Shared DEF Contract!Fresh, ItemBatches
    <2>7. Task(g) = Nil
      BY <1>1 DEF Task
    <2> HIDE DEF c, task
    <2> QED
      BY <1>1, <1>3, <2>4, <2>6, <2>7, Shared DEF Contract!Begin
  <1> QED
    BY <1>2, <1>3 DEF Call

\* A result is an effect of the same task, in its place.
LEMMA RefineResult ==
    ASSUME TypeOK, NEW g \in Guests, calls[g] # Nil, NEW token \in Tokens,
           NEW outcome \in Outcomes, Result(g, token, outcome)
    PROVE  Contract!Done(g, token, outcome)
  <1> DEFINE c == [calls[g] EXCEPT !.rows[token] = outcome]
             task == [Task(g) EXCEPT !.effects[token] = outcome]
  <1>1. calls[g] \in Calls /\ calls[g] # Nil
    BY Typing
  <1>2. c \in Calls /\ c.op = calls[g].op /\ c.type = calls[g].type
        /\ c.items = calls[g].items
        /\ c.rows = [calls[g].rows EXCEPT ![token] = outcome]
    BY <1>1 DEF Calls
  <1>3. calls' = [calls EXCEPT ![g] = c]
    BY DEF Result
  <1> HIDE DEF c
  <1>4. \A h \in Guests : calls'[h] = IF h = g THEN c ELSE calls[h]
    BY <1>3 DEF TypeOK
  <1>5. c # Nil
    BY <1>2
  <1>6. RowType(c) = RowType(calls[g])
    BY <1>2 DEF RowType
  <1>7. task = [op |-> c.op, type |-> RowType(c), items |-> c.items, effects |-> c.rows]
    BY <1>2, <1>6, Typing
  <1>8. Task(g)' = task
    BY <1>4, <1>5, <1>7 DEF Task, RowType
  <1>9. \A h \in Guests : h # g => Task(h)' = Task(h)
    BY <1>4 DEF Task, RowType
  <1>10. [h \in Guests |-> Task(h)'] = [[h \in Guests |-> Task(h)] EXCEPT ![g] = task]
    BY <1>8, <1>9
  <1> QED
    BY <1>10 DEF Contract!Done

LEMMA RefineServe ==
    ASSUME TypeOK, Correlated, NEW g \in Guests, Serve(g)
    PROVE  \E i \in Tokens : Contract!Take(g, i)
  <1>1. PICK token \in Tokens :
          /\ calls[g] # Nil
          /\ calls[g].sent[token] # Nil
          /\ calls[g].rows[token] = Nil
          /\ LET transaction == calls[g].sent[token] IN
             \/ Read(g, token, transaction)
             \/ Remove(g, token, transaction)
             \/ Patch(g, token, transaction)
             \/ Insert(g, token, transaction)
             \/ Refuse(g, token, transaction)
    BY DEF Serve
  <1> DEFINE t == calls[g].sent[token]
             item == calls[g].items[token]
             op == calls[g].op
  <1>2. /\ t.id \in Ids \cup {Nil} /\ t.id = item.id
        /\ t.data \in Docs /\ t.data \in Contract!Nearly(item.doc)
    BY <1>1, Served, Sent
  <1>3. /\ Task(g) # Nil /\ Task(g).op = op
        /\ Task(g).items[token] # Nil /\ Task(g).items[token] = item
        /\ Task(g).effects[token] = Nil
    BY <1>1, Typing DEF Correlated
  <1>4. store \in Pages
    BY DEF TypeOK
  <1>5. Nothing \in Outcomes /\ store \in Outcomes /\ Refused \in Outcomes
    BY <1>4 DEF Nothing, Outcomes, Pages
  <1>6. ASSUME NEW outcome \in Outcomes, Result(g, token, outcome)
        PROVE  Contract!Done(g, token, outcome) /\ answer' = Contract!Silence
    BY <1>1, <1>6, RefineResult, Shared DEF Result
  <1> HIDE DEF t, item, op
  <1>7. ASSUME NEW id \in Ids, NEW data \in Docs, NEW written, Write(g, token, id, data, written)
        PROVE  /\ store' = [store EXCEPT ![id] = data]
               /\ Contract!Done(g, token, Only(id, data)) /\ answer' = Contract!Silence
    <2>1. Only(id, data) \in Outcomes
      BY OnlyTyped DEF Outcomes
    <2> QED
      BY <1>6, <1>7, <2>1 DEF Write
  <1> SUFFICES /\ answer' = Contract!Silence
               /\ \/ Contract!Perform(g, token, op, item)
                  \/ Contract!Done(g, token, Refused) /\ UNCHANGED store
    BY <1>3 DEF Contract!Take
  <1>8. CASE Read(g, token, t)
    <2>1. CASE op = "list" /\ Result(g, token, store)
      BY <1>5, <1>6, <1>8, <2>1 DEF Read, Contract!Perform
    <2>2. CASE op = "get" /\ t.id # Nil /\ store[t.id] # Nil
               /\ Result(g, token, Only(t.id, store[t.id]))
      <3>1. Only(t.id, store[t.id]) \in Outcomes
        BY <1>2, <1>4, <2>2, OnlyTyped DEF Outcomes, Pages
      <3>2. Contract!Perform(g, token, op, item)
        BY <1>2, <1>6, <1>8, <2>2, <3>1, Shared DEF Read, Contract!Perform
      <3> QED
        BY <1>6, <2>2, <3>1, <3>2
    <2> QED
      BY <1>8, <2>1, <2>2 DEF Read, op
  <1>9. CASE Remove(g, token, t)
    BY <1>2, <1>5, <1>6, <1>9, Shared DEF Remove, Contract!Perform, op
  <1>10. CASE Patch(g, token, t)
    <2>1. op \in {"update", "upsert"} /\ t.id \in Ids /\ store[t.id] # Nil
      BY <1>2, <1>10 DEF Patch, op
    <2>2. PICK written : Write(g, token, t.id, Merge(store[t.id], t.data), written)
      BY <1>10 DEF Patch
    <2>3. Merge(store[t.id], t.data) \in Docs
      BY <1>2, <1>4, <2>1, MergeTyped DEF Pages
    <2>4. Contract!Perform(g, token, op, item) /\ answer' = Contract!Silence
      BY <1>2, <1>7, <2>1, <2>2, <2>3, Shared DEF Contract!Perform
    <2> QED
      BY <2>4
  <1>11. CASE Insert(g, token, t)
    <2>1. op \in {"create", "upsert"} /\ (t.id # Nil => store[t.id] = Nil)
      BY <1>11 DEF Insert, op
    <2>2. PICK id \in Ids :
              store[id] = Nil /\ Write(g, token, id, t.data, calls[g].items[token].doc)
      BY <1>11 DEF Insert
    <2>3. Contract!Perform(g, token, op, item) /\ answer' = Contract!Silence
      BY <1>2, <1>7, <2>1, <2>2, Shared DEF Contract!Perform
    <2> QED
      BY <2>3
  <1>12. CASE Refuse(g, token, t)
    BY <1>5, <1>6, <1>12 DEF Refuse
  <1> QED
    BY <1>1, <1>8, <1>9, <1>10, <1>11, <1>12 DEF t

\* A call that is over has no task; one that has a reply had every item
\* accounted for.
LEMMA RefineReturn ==
    ASSUME TypeOK, Correlated, NEW g \in Guests, Reply(g) \/ Error(g)
    PROVE  Contract!Succeed(g) \/ Contract!Fail(g)
  <1>1. calls[g] # Nil
    BY DEF Reply, Error
  <1>2. ASSUME NEW outcome, Return(g, outcome)
        PROVE  /\ [h \in Guests |-> Task(h)'] = [[h \in Guests |-> Task(h)] EXCEPT ![g] = Nil]
               /\ answer' = [Silence EXCEPT ![g] = outcome]
               /\ UNCHANGED store
    BY <1>2 DEF Return, Task, RowType, TypeOK
  <1>3. CASE Error(g)
    BY <1>2, <1>3, Shared DEF Error, Contract!Fail
  <1>4. CASE Reply(g)
    <2>1. Return(g, Decoded(calls[g]))
          /\ \A i \in Tokens : calls[g].sent[i] # Nil => calls[g].rows[i] # Nil
      BY <1>4 DEF Reply
    <2>2. \A i \in Tokens : Contract!Report(Task(g).type, Task(g).effects[i])
                              = Decode(RowType(calls[g]), calls[g].rows[i])
      BY <1>1, Typing, Reported
    <2>3. Decoded(calls[g]) =
            [i \in Tokens |-> Contract!Report(Task(g).type, Task(g).effects[i])]
      BY <2>2 DEF Decoded
    <2>4. Task(g) # Nil
          /\ \A i \in Tokens : Task(g).items[i] # Nil => Task(g).effects[i] # Nil
      BY <1>1, <2>1, Typing DEF Correlated
    <2> QED
      BY <1>2, <2>1, <2>3, <2>4, Shared DEF Contract!Succeed
  <1> QED
    BY <1>3, <1>4

\* The records client keeps its contract: every step is a step of it or a
\* stutter (records.go:116-123, 209-213).
THEOREM Refinement == Spec => ImplementsRecordStore
  <1>1. Init => Contract!Init
    BY Shared DEF Init, Contract!Init, Task
  <1>2. IInv /\ [Next]_vars => [Contract!Next]_Contract!vars
    <2> SUFFICES ASSUME IInv, [Next]_vars PROVE [Contract!Next]_Contract!vars
      OBVIOUS
    <2>1. TypeOK /\ Correlated
      BY DEF IInv
    <2>2. TypeOK'
      BY Inductive DEF IInv
    <2>3. CASE Next
      BY <2>1, <2>2, <2>3, Steps, RefineCall, RefineServe, RefineReturn, Shared
         DEF Contract!Next
    <2>4. CASE UNCHANGED vars
      BY <2>4 DEF vars, Contract!vars, Task, RowType
    <2> QED
      BY <2>3, <2>4
  <1> QED
    BY <1>1, <1>2, Invariant, PTL DEF Spec, ImplementsRecordStore, Contract!Spec
=============================================================================
