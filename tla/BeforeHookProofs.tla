-------------------------- MODULE BeforeHookProofs --------------------------
(***************************************************************************)
(* What TLAPS proves of the typed hook wrappers, for every set of          *)
(* attributes, values and handler types.                                   *)
(***************************************************************************)
EXTENDS BeforeHook, TLAPS

USE MarkersAssumption, HandlersAssumption

-----------------------------------------------------------------------------
(* Lemmas about the operators.                                             *)

LEMMA CallTyped ==
    ASSUME TypeOK, call # None
    PROVE  /\ call \in Calls
           /\ call.event \in Events
           /\ call.type \in Handlers /\ call.type \in Types
           /\ call.record \in Docs \cup {Null}
           /\ call.current \in Docs \cup {None}
  BY DEF TypeOK, Calls

\* The two kinds of events are disjoint.
LEMMA EventKinds == RecordEvents \cap VoidEvents = {}
  BY DEF RecordEvents, VoidEvents

LEMMA BlankTyped == Blank \in Docs
  BY DEF Blank, Docs

\* The overlay of two documents is a document.
LEMMA OverlayTyped ==
    ASSUME NEW type, NEW record \in Docs, NEW encoded \in Docs
    PROVE  Overlay(type, record, encoded) \in Docs
  BY DEF Overlay, Docs

\* What a type encodes as, short of null, is absent where it emits nothing.
LEMMA EncodingKeys ==
    ASSUME NEW type \in Types, NEW encoded \in Encodings(type)
    PROVE  /\ encoded \in Docs \cup {Null}
           /\ encoded # Null => encoded \in Docs
           /\ encoded # Null => \A a \in Attrs \ type.emits : encoded[a] = Absent
  BY DEF Encodings, Keys

\* The event after an operation is one without a payload.
LEMMA AfterIsVoid ==
    ASSUME NEW event \in DOMAIN AfterOf
    PROVE  AfterOf[event] \in VoidEvents
  BY DEF AfterOf, VoidEvents

\* Concluding an operation leaves the host idle or with an after-hook to run.
LEMMA ConcludeCalls ==
    ASSUME NEW record \in Docs \cup {Null}, call.event \in DOMAIN AfterOf,
           Conclude(record)
    PROVE  /\ call' \in Calls \cup {None}
           /\ pc' \in {"idle", "running"}
           /\ (pc' = "idle") <=> (call' = None)
           /\ Fresh'
           /\ call' # None => call'.event \in VoidEvents
  <1>1. Fresh'
    BY DEF Conclude, Discard, Fresh
  <1>2. CASE call' = None /\ pc' = "idle"
    BY <1>1, <1>2
  <1>3. ASSUME NEW type \in Handlers,
               Dispatch(AfterOf[call.event], type, record, None)
        PROVE  /\ call' \in Calls /\ call' # None
               /\ pc' = "running" /\ call'.event \in VoidEvents
    <2>1. AfterOf[call.event] \in VoidEvents
      BY AfterIsVoid
    <2> DEFINE c == [event |-> AfterOf[call.event], type |-> type,
                     record |-> record, current |-> None]
    <2>2. call' = c /\ pc' = "running"
      BY <1>3 DEF Dispatch
    <2> QED
      BY <2>1, <2>2 DEF Calls, Events
  <1> QED
    BY <1>1, <1>2, <1>3 DEF Conclude

\* While the loop runs, the output is an object.
LEMMA LoopOut ==
    ASSUME TypeOK, LoopInvariant, pc = "echoing"
    PROVE  /\ call # None
           /\ call.record \in Docs /\ typedOut \in Docs /\ out \in Docs
           /\ Overlay(call.type, call.record, typedOut) \in Docs
  <1>1. call # None
    BY DEF TypeOK
  <1>2. call.record \in Docs /\ typedOut \in Docs
    BY <1>1, CallTyped, EncodingKeys DEF LoopInvariant, ShortCircuits
  <1>3. Overlay(call.type, call.record, typedOut) \in Docs
    BY <1>2, OverlayTyped
  <1>4. out \in Docs
    BY <1>2, <1>3 DEF LoopInvariant, Docs
  <1> QED
    BY <1>1, <1>2, <1>3, <1>4

-----------------------------------------------------------------------------
(* Type correctness.                                                       *)

LEMMA TypeInit == Init => TypeOK
  BY BlankTyped DEF Init, Fresh, TypeOK, Docs, Blank

\* The three operations of the host dispatch well-typed calls.
LEMMA TypeHost ==
    ASSUME TypeOK, FreshUntilReturn, Create \/ Update \/ Delete
    PROVE  TypeOK'
  <1> USE DEF Dispatch, locals
  <1>1. CASE Create
    <2>1. PICK record \in Docs \cup {Null}, type \in Handlers :
            /\ call' = [event |-> "before_create", type |-> type,
                        record |-> record, current |-> None]
            /\ pc' = "running"
            /\ intended' = IF record = Null THEN Blank ELSE record
      BY <1>1 DEF Create
    <2>2. call' \in Calls /\ call'.event \notin VoidEvents
      BY <2>1 DEF Calls, Events, RecordEvents, VoidEvents
    <2>3. intended' \in [Attrs -> Values \cup {Absent, None}]
      BY <2>1 DEF Docs, Blank
    <2> QED
      BY <1>1, <2>1, <2>2, <2>3 DEF Create, TypeOK
  <1>2. CASE Update
    <2>1. PICK patch \in [Attrs -> Values \cup {Absent, None}], type \in Handlers :
            /\ call' = [event |-> "before_update", type |-> type,
                        record |-> [a \in Attrs |-> IF patch[a] = None THEN stored[a]
                                                    ELSE patch[a]],
                        current |-> stored]
            /\ pc' = "running"
            /\ intended' = [a \in Attrs |-> IF patch[a] = None THEN callers[a]
                                            ELSE patch[a]]
      BY <1>2 DEF Update
    <2>2. stored \in Docs
      BY <1>2 DEF Update, TypeOK
    <2>3. [a \in Attrs |-> IF patch[a] = None THEN stored[a] ELSE patch[a]] \in Docs
      BY <2>1, <2>2 DEF Docs
    <2>4. call' \in Calls /\ call'.event \notin VoidEvents
      BY <2>1, <2>2, <2>3 DEF Calls, Events, RecordEvents, VoidEvents
    <2>5. intended' \in [Attrs -> Values \cup {Absent, None}]
      BY <2>1 DEF TypeOK
    <2> QED
      BY <1>2, <2>1, <2>4, <2>5 DEF Update, TypeOK
  <1>3. CASE Delete
    <2>1. PICK type \in Handlers :
            /\ call' = [event |-> "before_delete", type |-> type,
                        record |-> stored, current |-> None]
            /\ pc' = "running"
      BY <1>3 DEF Delete
    <2>2. stored \in Docs
      BY <1>3 DEF Delete, TypeOK
    <2>3. call' \in Calls
      BY <2>1, <2>2 DEF Calls, Events, VoidEvents
    <2>4. out' = None
      BY <1>3 DEF Delete, FreshUntilReturn, Fresh
    <2> QED
      BY <1>3, <2>1, <2>3, <2>4 DEF Delete, TypeOK
  <1> QED
    BY <1>1, <1>2, <1>3

\* The steps of the wrapper keep every variable's type.
LEMMA TypeWrapper ==
    ASSUME TypeOK, FreshUntilReturn, LoopInvariant,
           Fail \/ ReturnVoid \/ ReturnUntouched \/ StartEcho \/ EchoKey \/ EndEcho
    PROVE  TypeOK'
  <1>1. CASE Fail
    BY <1>1 DEF Fail, TypeOK
  <1>2. CASE ReturnVoid
    BY <1>2 DEF ReturnVoid, locals, TypeOK
  <1>3. CASE ReturnUntouched
    <2>1. call # None /\ call.event \notin VoidEvents
      BY <1>3, EventKinds DEF ReturnUntouched, TypeOK
    <2>2. out' \in Docs \cup {Null} /\ typedOut' \in Docs \cup {Null}
      BY <1>3, <2>1, CallTyped, EncodingKeys DEF ReturnUntouched
    <2> QED
      BY <1>3, <2>1, <2>2 DEF ReturnUntouched, TypeOK
  <1>4. CASE StartEcho
    <2>1. call # None /\ call.event \notin VoidEvents
      BY <1>4, EventKinds DEF StartEcho, TypeOK
    <2>2. out' \in Docs \cup {Null} /\ typedOut' \in Docs \cup {Null}
      BY <1>4, <2>1, CallTyped, EncodingKeys DEF StartEcho
    <2>3. todo' \subseteq Attrs
      BY <1>4 DEF StartEcho, Keys
    <2> QED
      BY <1>4, <2>1, <2>2, <2>3 DEF StartEcho, TypeOK
  <1>5. CASE EchoKey
    <2>1. call # None /\ call.event \notin VoidEvents
      BY <1>5, EventKinds DEF EchoKey, LoopInvariant, TypeOK
    <2>2. out \in Docs /\ todo \subseteq Keys(call.record)
      BY <1>5, LoopOut, <2>1 DEF EchoKey, LoopInvariant
    <2>3. out' \in Docs
      BY <1>5, <2>2 DEF EchoKey, Keys, Docs, Input
    <2>4. todo' \subseteq Attrs
      BY <1>5 DEF EchoKey, TypeOK
    <2> QED
      BY <1>5, <2>1, <2>3, <2>4 DEF EchoKey, TypeOK
  <1>6. CASE EndEcho
    BY <1>6 DEF EndEcho, locals, TypeOK
  <1> QED
    BY <1>1, <1>2, <1>3, <1>4, <1>5, <1>6

\* So do the host's once the wrapper has returned.
LEMMA TypeConclusion ==
    ASSUME TypeOK, Persist \/ Remove \/ Refuse \/ Notified
    PROVE  TypeOK' /\ Fresh' /\ pc' \in {"idle", "running"}
                   /\ (call' # None => call'.event \in VoidEvents)
  <1> USE DEF Discard
  <1>1. call # None
    BY DEF TypeOK, Persist, Remove, Refuse, Notified
  <1>2. CASE Persist
    <2>1. call.event \in DOMAIN AfterOf /\ out \in Docs /\ Conclude(out)
      BY <1>2 DEF Persist, RecordEvents, AfterOf
    <2>2. callers' \in [Attrs -> Values \cup {Absent, None}]
      BY <1>2 DEF Persist, TypeOK
    <2>3. stored' \in Docs /\ intended' = intended
      BY <1>2, <2>1 DEF Persist
    <2> QED
      BY <2>1, <2>2, <2>3, ConcludeCalls DEF TypeOK, Fresh
  <1>3. CASE Remove
    <2>1. call.event \in DOMAIN AfterOf /\ Conclude(call.record)
      BY <1>3 DEF Remove, AfterOf
    <2>2. callers' \in [Attrs -> Values \cup {Absent, None}]
      BY <1>3, BlankTyped DEF Remove, Docs
    <2>3. stored' = None /\ intended' = intended
      BY <1>3 DEF Remove
    <2> QED
      BY <1>1, <2>1, <2>2, <2>3, CallTyped, ConcludeCalls DEF TypeOK, Fresh
  <1>4. CASE Refuse
    BY <1>4 DEF Refuse, TypeOK, Fresh
  <1>5. CASE Notified
    BY <1>5 DEF Notified, TypeOK, Fresh
  <1> QED
    BY <1>2, <1>3, <1>4, <1>5

-----------------------------------------------------------------------------
(* The wrapper: the loop completes the output to the overlay.              *)

\* Where no loop runs, its invariant says nothing.
LEMMA LoopStep ==
    ASSUME TypeOK, FreshUntilReturn, LoopInvariant, [Next]_vars
    PROVE  LoopInvariant'
  <1>1. CASE StartEcho
    <2> USE DEF Input
    <2>1. PICK encoded \in Encodings(call.type) :
            /\ ~ShortCircuits(call.type, call.record, encoded)
            /\ typedOut' = encoded /\ out' = encoded
      BY <1>1 DEF StartEcho
    <2>2. /\ pc = "running" /\ call # None /\ call' = call /\ ~failed'
          /\ call.event \in RecordEvents /\ todo' = Keys(call.record)
      BY <1>1 DEF StartEcho, FreshUntilReturn, Fresh, TypeOK
    <2>3. call.record \in Docs /\ encoded \in Docs
      BY <2>1, <2>2, CallTyped, EncodingKeys DEF ShortCircuits
    <2>4. encoded = [a \in Attrs |->
                       IF a \in Keys(call.record) THEN encoded[a]
                       ELSE Overlay(call.type, call.record, encoded)[a]]
      BY <2>3 DEF Docs, Keys, Overlay
    <2>5. out' = [a \in Attrs |->
                    IF a \in todo' THEN typedOut'[a]
                    ELSE Overlay(call'.type, call'.record, typedOut')[a]]
      BY <2>1, <2>2, <2>4
    <2> QED
      BY <2>1, <2>2, <2>5 DEF LoopInvariant
  <1>2. CASE EchoKey
    <2> USE DEF Input
    <2>1. PICK key \in todo :
            /\ todo' = todo \ {key}
            /\ out' = IF key \in call.type.declared \/ out[key] # Absent THEN out
                      ELSE [out EXCEPT ![key] = call.record[key]]
      BY <1>2 DEF EchoKey
    <2>2. /\ pc = "echoing" /\ call' = call /\ typedOut' = typedOut /\ failed' = failed
      BY <1>2 DEF EchoKey
    <2> DEFINE over == Overlay(call.type, call.record, typedOut)
    <2>3. /\ call.event \in RecordEvents /\ ~failed
          /\ typedOut \in Encodings(call.type)
          /\ ~ShortCircuits(call.type, call.record, typedOut)
          /\ todo \subseteq Keys(call.record)
          /\ out = [a \in Attrs |-> IF a \in todo THEN typedOut[a] ELSE over[a]]
      BY <2>2 DEF LoopInvariant
    <2>4. key \in Attrs /\ out[key] = typedOut[key]
      BY <2>1, <2>3 DEF Keys
    <2>5. over[key] = IF key \in call.type.declared \/ typedOut[key] # Absent
                      THEN typedOut[key] ELSE call.record[key]
      BY <2>4 DEF Overlay
    <2> HIDE DEF over
    <2>6. out' = [a \in Attrs |-> IF a \in todo \ {key} THEN typedOut[a] ELSE over[a]]
      BY <2>1, <2>3, <2>4, <2>5
    <2> QED
      BY <2>1, <2>2, <2>3, <2>6 DEF LoopInvariant, over
  <1>3. ASSUME pc' # "echoing" PROVE LoopInvariant'
    BY <1>3 DEF LoopInvariant
  <1>4. CASE UNCHANGED vars
    BY <1>4 DEF vars, LoopInvariant
  <1>5. CASE Persist \/ Remove \/ Refuse \/ Notified
    BY <1>3, <1>5, TypeConclusion
  <1> QED
    BY <1>1, <1>2, <1>3, <1>4, <1>5
       DEF Next, Create, Update, Delete, Dispatch, Fail, ReturnVoid,
           ReturnUntouched, EndEcho

\* Whatever the map's order, the payload is the overlay.
LEMMA PayloadStep ==
    ASSUME TypeOK, FreshUntilReturn, LoopInvariant, OutputEncodes, PayloadIsOverlay,
           [Next]_vars
    PROVE  OutputEncodes' /\ PayloadIsOverlay'
  <1>1. CASE ReturnUntouched
    BY <1>1 DEF ReturnUntouched, Input, OutputEncodes, PayloadIsOverlay
  <1>2. CASE EndEcho
    <2>1. /\ pc = "echoing" /\ todo = {} /\ call' = call /\ typedOut' = typedOut
          /\ out' = out /\ failed' = failed
      BY <1>2 DEF EndEcho, locals
    <2>2. out = [a \in Attrs |-> Overlay(call.type, call.record, typedOut)[a]]
      BY <2>1 DEF LoopInvariant
    <2>3. out = Overlay(call.type, call.record, typedOut)
      BY <2>2 DEF Overlay
    <2> QED
      BY <2>1, <2>3 DEF LoopInvariant, OutputEncodes, PayloadIsOverlay
  <1>3. CASE ReturnVoid
    BY <1>3, EventKinds DEF ReturnVoid, locals, OutputEncodes, PayloadIsOverlay
  <1>4. CASE Fail
    BY <1>4 DEF Fail, OutputEncodes, PayloadIsOverlay
  <1>5. ASSUME pc' # "returned" PROVE OutputEncodes' /\ PayloadIsOverlay'
    BY <1>5 DEF OutputEncodes, PayloadIsOverlay
  <1>6. CASE UNCHANGED vars
    BY <1>6 DEF vars, OutputEncodes, PayloadIsOverlay
  <1>7. CASE Persist \/ Remove \/ Refuse \/ Notified
    BY <1>5, <1>7, TypeConclusion
  <1> QED
    BY <1>1, <1>2, <1>3, <1>4, <1>5, <1>6, <1>7
       DEF Next, Create, Update, Delete, Dispatch, StartEcho, EchoKey

-----------------------------------------------------------------------------
(* The record: what callers wrote outside the jurisdictions survives.      *)

\* Outside the handler's jurisdiction the payload is the record on offer.
LEMMA Carried ==
    ASSUME TypeOK, OutputEncodes, PayloadIsOverlay, pc = "returned", ~failed,
           call.event \in RecordEvents, out \in Docs,
           NEW a \in Attrs \ Governs(call.type)
    PROVE  out[a] = Offered[a]
  <1>1. call # None /\ call.type \in Types /\ call.record \in Docs \cup {Null}
    BY CallTyped DEF TypeOK
  <1>2. /\ call.type.declared # None
        /\ a \notin call.type.declared /\ a \notin call.type.emits
    BY DEF Governs
  <1>3. typedOut \in Encodings(call.type)
    BY DEF OutputEncodes
  <1>4. CASE ShortCircuits(call.type, call.record, typedOut)
    <2>1. out = typedOut /\ typedOut # Null
      BY <1>4 DEF PayloadIsOverlay
    <2>2. Offered = Blank
      BY <1>2, <1>4, <2>1 DEF ShortCircuits, Offered
    <2> QED
      BY <1>1, <1>2, <1>3, <2>1, <2>2, EncodingKeys DEF Blank
  <1>5. CASE ~ShortCircuits(call.type, call.record, typedOut)
    <2>1. out = Overlay(call.type, call.record, typedOut)
      BY <1>5 DEF PayloadIsOverlay
    <2>2. typedOut[a] = Absent
      BY <1>1, <1>2, <1>3, <1>5, EncodingKeys DEF ShortCircuits
    <2>3. out[a] = call.record[a]
      BY <1>2, <2>1, <2>2 DEF Overlay
    <2> QED
      BY <1>5, <2>3 DEF ShortCircuits, Offered
  <1> QED
    BY <1>4, <1>5

\* The record on offer holds what the callers wrote and no hook has written.
LEMMA IntendedStep ==
    ASSUME TypeOK, IntendedIsOffered, UndeclaredIsTheCallers, [Next]_vars
    PROVE  IntendedIsOffered'
  <1>1. CASE Create
    <2>1. PICK record \in Docs \cup {Null}, type \in Handlers :
            /\ call' = [event |-> "before_create", type |-> type,
                        record |-> record, current |-> None]
            /\ intended' = IF record = Null THEN Blank ELSE record
      BY <1>1 DEF Create, Dispatch
    <2> QED
      BY <2>1 DEF IntendedIsOffered, Offered
  <1>2. CASE Update
    <2>1. PICK patch \in [Attrs -> Values \cup {Absent, None}], type \in Handlers :
            /\ call' = [event |-> "before_update", type |-> type,
                        record |-> [a \in Attrs |-> IF patch[a] = None THEN stored[a]
                                                    ELSE patch[a]],
                        current |-> stored]
            /\ intended' = [a \in Attrs |-> IF patch[a] = None THEN callers[a]
                                            ELSE patch[a]]
      BY <1>2 DEF Update, Dispatch
    <2>2. stored \in Docs
      BY <1>2 DEF Update, TypeOK
    <2>3. [a \in Attrs |-> IF patch[a] = None THEN stored[a] ELSE patch[a]] \in Docs
      BY <2>1, <2>2 DEF Docs
    <2>4. \A a \in Attrs : callers[a] # None => stored[a] = callers[a]
      BY <1>2 DEF Update, UndeclaredIsTheCallers
    <2>5. Offered' = [a \in Attrs |-> IF patch[a] = None THEN stored[a] ELSE patch[a]]
      BY <2>1, <2>3 DEF Offered
    <2> QED
      BY <2>1, <2>4, <2>5 DEF IntendedIsOffered
  <1>3. CASE Delete
    BY <1>3 DEF Delete, Dispatch, IntendedIsOffered, IsOffer, RecordEvents
  <1>4. CASE Persist \/ Remove \/ Refuse \/ Notified
    <2>1. call' # None => call'.event \notin RecordEvents
      BY <1>4, TypeConclusion, EventKinds
    <2> QED
      BY <2>1 DEF IntendedIsOffered, IsOffer
  <1>5. ASSUME call' = call, intended' = intended PROVE IntendedIsOffered'
    BY <1>5 DEF IntendedIsOffered, IsOffer, Offered
  <1> QED
    BY <1>1, <1>2, <1>3, <1>4, <1>5
       DEF Next, vars, Fail, ReturnVoid, ReturnUntouched, StartEcho, EchoKey, EndEcho

LEMMA CallersStep ==
    ASSUME TypeOK, OutputEncodes, PayloadIsOverlay, IntendedIsOffered,
           UndeclaredIsTheCallers, [Next]_vars
    PROVE  UndeclaredIsTheCallers'
  <1>1. CASE Persist
    <2>1. /\ pc = "returned" /\ ~failed /\ call.event \in RecordEvents /\ out \in Docs
          /\ stored' = out
          /\ callers' = [a \in Attrs |-> IF a \in Governs(call.type) THEN None
                                         ELSE intended[a]]
      BY <1>1 DEF Persist
    <2>2. IsOffer
      BY <2>1 DEF IsOffer, TypeOK
    <2>3. ASSUME NEW a \in Attrs, callers'[a] # None
          PROVE  stored'[a] = callers'[a]
      <3>1. a \notin Governs(call.type) /\ callers'[a] = intended[a]
        BY <2>1, <2>3
      <3>2. intended[a] = Offered[a]
        BY <2>2, <2>3, <3>1 DEF IntendedIsOffered
      <3>3. out[a] = Offered[a]
        BY <2>1, <3>1, Carried
      <3> QED
        BY <2>1, <3>1, <3>2, <3>3
    <2> QED
      BY <2>3 DEF UndeclaredIsTheCallers
  <1>2. CASE Remove
    BY <1>2 DEF Remove, UndeclaredIsTheCallers
  <1>3. ASSUME UNCHANGED <<stored, callers>> PROVE UndeclaredIsTheCallers'
    BY <1>3 DEF UndeclaredIsTheCallers
  <1> QED
    BY <1>1, <1>2, <1>3
       DEF Next, vars, Create, Update, Delete, Fail, ReturnVoid, ReturnUntouched,
           StartEcho, EchoKey, EndEcho, Refuse, Notified

-----------------------------------------------------------------------------
(* The theorems.                                                           *)

LEMMA FreshStep ==
    ASSUME TypeOK, FreshUntilReturn, [Next]_vars
    PROVE  FreshUntilReturn'
  <1>1. CASE Create \/ Update \/ Delete
    BY <1>1 DEF Create, Update, Delete, locals, FreshUntilReturn, Fresh
  <1>2. CASE Persist \/ Remove \/ Refuse \/ Notified
    BY <1>2, TypeConclusion DEF FreshUntilReturn
  <1>3. CASE UNCHANGED vars
    BY <1>3 DEF vars, FreshUntilReturn, Fresh
  <1> QED
    BY <1>1, <1>2, <1>3
       DEF Next, Fail, ReturnVoid, ReturnUntouched, StartEcho, EchoKey, EndEcho,
           FreshUntilReturn

\* The invariant is inductive.
LEMMA Inductive ==
    ASSUME IInv, [Next]_vars
    PROVE  IInv'
  <1> USE DEF IInv
  <1>1. TypeOK'
    <2>1. CASE UNCHANGED vars
      BY <2>1 DEF vars, TypeOK
    <2> QED
      BY <2>1, TypeHost, TypeWrapper, TypeConclusion DEF Next
  <1> QED
    BY <1>1, FreshStep, LoopStep, PayloadStep, IntendedStep, CallersStep

\* A record on offer is a document.
LEMMA OfferTyped ==
    ASSUME TypeOK, IsOffer
    PROVE  Offered \in Docs /\ Offered # None
  BY CallTyped, BlankTyped DEF IsOffer, Offered

\* What the loop, the payload and the record on offer are at every step.
THEOREM Invariant == Spec => []IInv
  <1>1. Init => IInv
    <2> SUFFICES ASSUME Init PROVE IInv
      OBVIOUS
    <2>1. TypeOK /\ FreshUntilReturn
      BY TypeInit DEF Init, FreshUntilReturn
    <2> QED
      BY <2>1 DEF Init, IInv, LoopInvariant, OutputEncodes, PayloadIsOverlay,
                  IntendedIsOffered, IsOffer, UndeclaredIsTheCallers
  <1> QED
    BY <1>1, Inductive, PTL DEF Spec

\* Every variable holds a value of its type, and hooks without a payload
\* return none.
THEOREM TypeCorrect == Spec => []TypeOK
  <1>1. IInv => TypeOK
    BY DEF IInv
  <1> QED
    BY <1>1, Invariant, PTL

\* Whatever order Go ranges the input map in, the payload is the handler's
\* output overlaid on the record (declared.go:162-199).
THEOREM OrderIndependent == Spec => []PayloadIsOverlay
  <1>1. IInv => PayloadIsOverlay
    BY DEF IInv
  <1> QED
    BY <1>1, Invariant, PTL

\* Over any history of writes, an attribute no hook governing it has written
\* holds what the callers last wrote (declared.go:10-25).
THEOREM UndeclaredSurvives == Spec => []UndeclaredIsTheCallers
  <1>1. IInv => UndeclaredIsTheCallers
    BY DEF IInv
  <1> QED
    BY <1>1, Invariant, PTL

\* The wrapper implements the contract of the jurisdiction rule
\* (declared.go:10-27).
THEOREM Refinement == Spec => ImplementsContract
  <1>1. Init => Contract!Init
    BY DEF Init, Contract!Init, IsOffer
  <1>2. IInv /\ [Next]_vars => [Contract!Next]_Contract!vars
    <2> SUFFICES ASSUME IInv, [Next]_vars PROVE [Contract!Next]_Contract!vars
      OBVIOUS
    <2> USE DEF IInv
    <2>1. call' # None => call' \in Calls
      <3>1. TypeOK'
        BY Inductive
      <3> QED
        BY <3>1 DEF TypeOK
    <2>2. ASSUME stored' = stored, call' = call PROVE Contract!vars' = Contract!vars
      BY <2>2 DEF Contract!vars, IsOffer, Offered
    <2>3. ASSUME stored' = stored, ~IsOffer, ~IsOffer'
          PROVE  Contract!vars' = Contract!vars
      BY <2>3 DEF Contract!vars
    <2>4. ASSUME stored' = stored, IsOffer, ~IsOffer' PROVE Contract!Refuse
      <3>1. Offered # None
        BY <2>4, OfferTyped
      <3> QED
        BY <2>4, <3>1 DEF Contract!Refuse
    <2>5. CASE Create \/ Update
      <3>1. /\ stored' = stored /\ call = None /\ call' # None
            /\ call'.event \in RecordEvents
        <4>1. pc' = "running" /\ stored' = stored /\ call'.event \in RecordEvents
          BY <2>5 DEF Create, Update, Dispatch, RecordEvents
        <4>2. call = None
          BY <2>5 DEF Create, Update, TypeOK
        <4>3. TypeOK'
          BY Inductive
        <4> QED
          BY <4>1, <4>2, <4>3 DEF TypeOK
      <3>2. ~IsOffer /\ IsOffer'
        BY <3>1 DEF IsOffer
      <3>3. call'.type \in Handlers /\ call'.record \in Docs \cup {Null}
        BY <2>1, <3>1 DEF Calls
      <3>4. Offered' \in Contract!Records
        BY <3>3, BlankTyped DEF Offered, Blank, Contract!Records, Docs
      <3> QED
        BY <3>1, <3>2, <3>3, <3>4 DEF Contract!Next, Contract!Offer
    <2>6. CASE Delete
      <3>1. stored' = stored /\ ~IsOffer /\ ~IsOffer'
        BY <2>6 DEF Delete, Dispatch, TypeOK, IsOffer, RecordEvents
      <3> QED
        BY <2>3, <3>1
    <2>7. CASE Fail \/ ReturnVoid \/ ReturnUntouched \/ StartEcho \/ EchoKey \/ EndEcho
      BY <2>2, <2>7 DEF Fail, ReturnVoid, ReturnUntouched, StartEcho, EchoKey, EndEcho
    <2>8. CASE Persist
      <3>1. /\ pc = "returned" /\ ~failed /\ call.event \in RecordEvents
            /\ out \in Docs /\ stored' = out
        BY <2>8 DEF Persist
      <3>2. IsOffer /\ ~IsOffer'
        BY <2>8, <3>1, TypeConclusion, EventKinds DEF IsOffer, TypeOK
      <3>3. Offered # None
        BY <3>2, OfferTyped
      <3>4. stored' \in Contract!Records
        BY <3>1 DEF Contract!Records, Docs
      <3>5. \A a \in Attrs \ Governs(call.type) : stored'[a] = Offered[a]
        BY <3>1, Carried
      <3> QED
        BY <3>2, <3>3, <3>4, <3>5 DEF Contract!Next, Contract!Accept
    <2>9. CASE Remove
      <3>1. ~IsOffer /\ ~IsOffer' /\ stored' = None
        BY <2>9, TypeConclusion, EventKinds DEF Remove, IsOffer, VoidEvents
      <3> QED
        BY <3>1 DEF Contract!Next, Contract!Delete
    <2>10. CASE Refuse \/ Notified
      <3>1. stored' = stored /\ ~IsOffer'
        BY <2>10 DEF Refuse, Notified, IsOffer
      <3> QED
        BY <2>3, <2>4, <3>1 DEF Contract!Next
    <2>11. CASE UNCHANGED vars
      BY <2>2, <2>11 DEF vars
    <2> QED
      BY <2>5, <2>6, <2>7, <2>8, <2>9, <2>10, <2>11 DEF Next
  <1> QED
    BY <1>1, <1>2, Invariant, PTL DEF Spec, ImplementsContract, Contract!Spec
=============================================================================
