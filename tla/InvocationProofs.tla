-------------------------- MODULE InvocationProofs --------------------------
(***************************************************************************)
(* What TLAPS proves of an export call, for every parameter type, header   *)
(* and author's function.                                                  *)
(***************************************************************************)
EXTENDS Invocation, TLAPS

USE ZeroAssumption, CanonicalAssumption, MarkersAssumption

-----------------------------------------------------------------------------
(* Lemmas about the operators.                                             *)

LEMMA EnvelopeTyped ==
    ASSUME NEW e \in Envelopes
    PROVE  /\ e # Nil
           /\ e.export \in {"runHook", "runAction", "runConnectorMethod"}
           /\ e.parameters \in Parameters
           /\ e.record \in Ids \cup {Nil} /\ e.records \in SUBSET Ids
           /\ e.headers \in CanonicalMaps
           /\ e.expiry \in Times \cup {Garbled, Nil}
  <1>1. NoHeaders \in CanonicalMaps
    BY DEF NoHeaders, CanonicalMaps, Maps
  <1>2. CASE e \in HookEnvelopes
    BY <1>1, <1>2 DEF HookEnvelopes
  <1>3. CASE e \in ActionEnvelopes
    BY <1>3 DEF ActionEnvelopes
  <1>4. CASE e \in ConnectorMethodEnvelopes
    BY <1>1, <1>4 DEF ConnectorMethodEnvelopes
  <1> QED
    BY <1>2, <1>3, <1>4 DEF Envelopes

LEMMA ZeroTyped == ZeroParams \in Params
  BY DEF ZeroParams, Params

\* A document decoded onto the zero value: what it leaves out stays zero.
LEMMA UnmarshalFresh ==
    ASSUME NEW raw \in Parameters, Parses(raw)
    PROVE  /\ Unmarshal(raw, ZeroParams) \in Params
           /\ \A f \in Fields :
                \/ Unmarshal(raw, ZeroParams)[f] = Zero /\ (raw = Null \/ raw[f] = Absent)
                \/ raw # Null /\ Unmarshal(raw, ZeroParams)[f] = raw[f]
  <1>1. raw = Null \/ raw \in Docs
    BY DEF Parses, Parameters
  <1> QED
    BY <1>1 DEF Unmarshal, ZeroParams, Params, Docs

\* In a map with canonical names a look-up by any spelling finds the header,
\* and nothing else, in whatever order the map is ranged.
LEMMA Lookup ==
    ASSUME NEW map \in CanonicalMaps, NEW name \in Names
    PROVE  Header(map, name) = {map[Canonical[name]]}
  <1> DEFINE folded == {n \in Names : Canonical[n] = Canonical[name] /\ map[n] # Nil}
  <1>1. \A n \in Names : map[n] # Nil => Canonical[n] = n
    BY DEF CanonicalMaps
  <1>2. Canonical[name] \in Names /\ Canonical[Canonical[name]] = Canonical[name]
    OBVIOUS
  <1>3. folded \subseteq {Canonical[name]}
    BY <1>1
  <1>4. CASE map[name] # Nil
    BY <1>1, <1>4 DEF Header
  <1>5. CASE map[name] = Nil /\ folded = {}
    <2>1. map[Canonical[name]] = Nil
      BY <1>2, <1>5
    <2> QED
      BY <1>5, <2>1 DEF Header
  <1>6. CASE map[name] = Nil /\ folded # {}
    <2>1. folded = {Canonical[name]}
      BY <1>3, <1>6
    <2>2. Header(map, name) = {map[n] : n \in folded}
      BY <1>6 DEF Header
    <2> QED
      BY <2>1, <2>2
  <1> QED
    BY <1>4, <1>5, <1>6

LEMMA InternalTyped == Internal \in Errors
  BY DEF Internal, Errors

LEMMA NoHeadersTyped == NoHeaders \in CanonicalMaps
  BY DEF NoHeaders, CanonicalMaps, Maps

-----------------------------------------------------------------------------
(* The inductive invariant, action by action.                              *)

LEMMA InvInit == Init => IInv
  <1> SUFFICES ASSUME Init PROVE IInv
    OBVIOUS
  <1> USE DEF Init
  <1>1. TypeOK
    BY ZeroTyped, NoHeadersTyped DEF TypeOK
  <1>2. HandedThisCall /\ OutcomeIsTheAuthors /\ HeaderIsFound
    BY DEF HandedThisCall, OutcomeIsTheAuthors, HeaderIsFound
  <1>3. Unreturned /\ Progress /\ Decoded /\ Finished
    BY DEF Unreturned, Progress, Decoded, Finished
  <1> QED
    BY <1>1, <1>2, <1>3 DEF IInv

LEMMA InvInvoke ==
    ASSUME IInv, Invoke \/ warm PROVE IInv'
  <1> USE DEF IInv, Clear
  <1>1. CASE Invoke
    <2>1. TypeOK'
      BY <1>1, NoHeadersTyped DEF Invoke, TypeOK
    <2>2. (HandedThisCall /\ OutcomeIsTheAuthors /\ HeaderIsFound)'
      BY <1>1 DEF Invoke, HandedThisCall, OutcomeIsTheAuthors, HeaderIsFound
    <2>3. (Unreturned /\ Progress /\ Decoded /\ Finished)'
      BY <1>1, EnvelopeTyped DEF Invoke, Unreturned, Progress, Decoded, Finished
    <2> QED
      BY <2>1, <2>2, <2>3
  <1>2. CASE warm
    <2>1. TypeOK'
      BY <1>2, NoHeadersTyped DEF warm, TypeOK
    <2>2. (HandedThisCall /\ OutcomeIsTheAuthors /\ HeaderIsFound)'
      BY <1>2 DEF warm, HandedThisCall, OutcomeIsTheAuthors, HeaderIsFound
    <2>3. (Unreturned /\ Progress /\ Decoded /\ Finished)'
      BY <1>2 DEF warm, Unreturned, Progress, Decoded, Finished
    <2> QED
      BY <2>1, <2>2, <2>3
  <1> QED
    BY <1>1, <1>2

\* The call fails before the author's function is reached.
LEMMA InvNotReached ==
    ASSUME IInv, NotDispatched \/ DoesNotParse PROVE IInv'
  <1> USE DEF IInv, Fail, host, NotDispatched, DoesNotParse
  <1>1. /\ pc' = "finished" /\ err' = Internal
        /\ returned' = Nil /\ given' = given /\ given = Nil
        /\ output' = Nil /\ error' = Nil
    BY DEF Unreturned, Progress
  <1>2. TypeOK'
    BY InternalTyped DEF TypeOK
  <1>3. HandedThisCall' /\ HeaderIsFound'
    BY DEF HandedThisCall, HeaderIsFound
  <1>4. OutcomeIsTheAuthors' /\ Unreturned' /\ Decoded'
    BY <1>1 DEF OutcomeIsTheAuthors, Unreturned, Decoded
  <1>5. Progress'
    BY <1>1 DEF Progress
  <1>6. Finished'
    BY <1>1, InternalTyped DEF Finished
  <1> QED
    BY <1>2, <1>3, <1>4, <1>5, <1>6

LEMMA InvResolve ==
    ASSUME IInv, Resolve PROVE IInv'
  <1> USE DEF IInv, Resolve, local, host
  <1>1. TypeOK'
    BY DEF TypeOK
  <1>2. (HandedThisCall /\ OutcomeIsTheAuthors /\ HeaderIsFound)'
    BY DEF HandedThisCall, OutcomeIsTheAuthors, HeaderIsFound, Progress
  <1>3. (Unreturned /\ Decoded /\ Finished)'
    BY DEF Unreturned, Decoded, Finished
  <1>4. Progress'
    BY DEF Progress
  <1> QED
    BY <1>1, <1>2, <1>3, <1>4

LEMMA InvDecode ==
    ASSUME IInv, Decode PROVE IInv'
  <1> USE DEF IInv, Decode, host
  <1>1. envelope \in Envelopes
    BY DEF Progress, TypeOK
  <1>2. TypeOK'
    BY <1>1, EnvelopeTyped, UnmarshalFresh DEF TypeOK
  <1>3. (HandedThisCall /\ OutcomeIsTheAuthors /\ HeaderIsFound)'
    BY DEF HandedThisCall, OutcomeIsTheAuthors, HeaderIsFound
  <1>4. (Unreturned /\ Progress /\ Finished)'
    BY DEF Unreturned, Progress, Finished
  <1>5. Decoded'
    BY DEF Decoded
  <1> QED
    BY <1>2, <1>3, <1>4, <1>5

LEMMA InvCall ==
    ASSUME IInv, Call PROVE IInv'
  <1> USE DEF IInv, Call, local, host
  <1>1. envelope \in Envelopes /\ scope \in Scopes /\ given = Nil /\ runs = 0
    BY DEF Progress, TypeOK, HandedThisCall
  <1>2. Parses(envelope.parameters) /\ params = Unmarshal(envelope.parameters, ZeroParams)
    BY DEF Decoded
  <1>3. /\ given'.params = params
        /\ given'.record = IF scope = "record" THEN envelope.record ELSE Nil
        /\ given'.records = IF scope = "batch" THEN envelope.records ELSE {}
        /\ given'.headers = envelope.headers
        /\ given'.expiry = Expiry(envelope.expiry)
    OBVIOUS
  <1>4. Expiry(envelope.expiry) \in Times \cup {Nil}
    BY DEF Expiry
  <1>5. given' \in Arguments /\ given' # Nil
    BY <1>1, <1>4, EnvelopeTyped DEF Arguments, TypeOK
  <1>6. TypeOK'
    BY <1>1, <1>5 DEF TypeOK
  <1>7. \A f \in Fields :
          \/ given'.params[f] = Zero
             /\ (envelope.parameters = Null \/ envelope.parameters[f] = Absent)
          \/ envelope.parameters # Null /\ given'.params[f] = envelope.parameters[f]
    BY <1>1, <1>2, <1>3, EnvelopeTyped, UnmarshalFresh
  <1>8. HandedThisCall'
    BY <1>1, <1>3, <1>5, <1>7 DEF HandedThisCall, Expiry
  <1>9. (OutcomeIsTheAuthors /\ HeaderIsFound /\ Unreturned /\ Decoded /\ Finished)'
    BY DEF OutcomeIsTheAuthors, HeaderIsFound, Unreturned, Decoded, Finished
  <1>10. Progress'
    BY <1>2, <1>5 DEF Progress
  <1> QED
    BY <1>6, <1>8, <1>9, <1>10

\* The author's function looks up a header or makes a request.
LEMMA InvRead ==
    ASSUME IInv, ReadHeader \/ Fetch \/ ReadResponseHeader PROVE IInv'
  <1> USE DEF IInv, author, host
  <1>1. /\ pc = "running" /\ envelope \in Envelopes /\ given # Nil
        /\ given.headers = envelope.headers /\ envelope.headers \in CanonicalMaps
    <2>1. pc = "running"
      BY DEF ReadHeader, Fetch, ReadResponseHeader, Running
    <2> QED
      BY <2>1, EnvelopeTyped DEF Progress, TypeOK, HandedThisCall
  <1>2. UNCHANGED <<pc, envelope, scope, given, runs, params, returned, err,
                    code, output, error, heard>>
    BY DEF ReadHeader, Fetch, ReadResponseHeader
  <1>3. (HandedThisCall /\ OutcomeIsTheAuthors /\ Unreturned /\ Decoded /\ Finished)'
    BY <1>2 DEF HandedThisCall, OutcomeIsTheAuthors, Unreturned, Decoded, Finished
  <1>4. Progress'
    BY <1>1, <1>2 DEF Progress
  <1>5. CASE Fetch
    BY <1>2, <1>3, <1>4, <1>5 DEF Fetch, TypeOK, HeaderIsFound
  <1>6. CASE ReadHeader
    <2>1. PICK n \in Names : \E value \in Header(given.headers, n) :
            read' = [of |-> "request", name |-> n, value |-> value]
      BY <1>6 DEF ReadHeader
    <2>2. read' = [of |-> "request", name |-> n, value |-> envelope.headers[Canonical[n]]]
      BY <1>1, <2>1, Lookup
    <2>3. envelope.headers[Canonical[n]] \in Tokens \cup {Nil}
      BY <1>1 DEF CanonicalMaps, Maps
    <2>4. read' \in Reads
      BY <2>2, <2>3 DEF Reads
    <2>5. response' = response
      BY <1>6 DEF ReadHeader
    <2>6. TypeOK'
      BY <1>2, <2>4, <2>5 DEF TypeOK
    <2>7. HeaderIsFound'
      BY <1>2, <2>2 DEF HeaderIsFound
    <2> QED
      BY <1>3, <1>4, <2>6, <2>7
  <1>7. CASE ReadResponseHeader
    <2>1. PICK n \in Names : read' = [of |-> "response", name |-> n, value |-> response[n]]
      BY <1>7 DEF ReadResponseHeader
    <2>2. response \in CanonicalMaps /\ response' = response
      BY <1>7 DEF ReadResponseHeader, TypeOK
    <2>3. read' \in Reads
      BY <2>1, <2>2 DEF Reads, CanonicalMaps, Maps
    <2>4. TypeOK' /\ HeaderIsFound'
      BY <1>2, <2>1, <2>2, <2>3 DEF TypeOK, HeaderIsFound
    <2> QED
      BY <1>3, <1>4, <2>4
  <1> QED
    BY <1>5, <1>6, <1>7

LEMMA InvPanic ==
    ASSUME IInv, Panic PROVE IInv'
  <1> USE DEF IInv, Panic, Running, local, host
  <1>1. TypeOK'
    BY DEF TypeOK
  <1>2. (HandedThisCall /\ OutcomeIsTheAuthors /\ HeaderIsFound)'
    BY DEF HandedThisCall, OutcomeIsTheAuthors, HeaderIsFound
  <1>3. (Unreturned /\ Progress /\ Decoded /\ Finished)'
    BY DEF Unreturned, Progress, Decoded, Finished
  <1> QED
    BY <1>1, <1>2, <1>3

\* The author's function returns; what it returned decides the wrapper's error.
LEMMA InvReturn ==
    ASSUME IInv, ReturnError \/ ReturnResult PROVE IInv'
  <1> USE DEF IInv, host
  <1>1. /\ pc = "running" /\ given # Nil /\ output = Nil /\ error = Nil
        /\ pc' = "finished" /\ read' = Nil /\ response' = NoHeaders
        /\ UNCHANGED <<envelope, scope, given, runs, params, code, output, error, heard>>
    BY DEF ReturnError, ReturnResult, Running, Fail, Unreturned, Progress
  <1>2. /\ returned' \in Results \cup {Nothing, Unencodable} \cup Errors
        /\ err' \in Errors \cup {Nil}
        /\ err' = Nil <=> returned' \in Results \cup {Nothing}
        /\ err' # Nil => err' = IF returned' \in Errors THEN returned' ELSE Internal
    <2>1. CASE ReturnError
      <3>1. PICK text \in Texts, user \in BOOLEAN :
              /\ returned' = [text |-> text, user |-> user]
              /\ err' = [text |-> text, user |-> user]
        BY <2>1 DEF ReturnError, Fail
      <3>2. returned' \in Errors
        BY <3>1 DEF Errors
      <3> QED
        BY <3>1, <3>2
    <2>2. CASE ReturnResult
      <3>1. returned' \in Results \cup {Nothing, Unencodable}
        BY <2>2 DEF ReturnResult
      <3>2. err' = IF returned' = Unencodable THEN Internal ELSE Nil
        BY <2>2 DEF ReturnResult, Fail
      <3> QED
        BY <3>1, <3>2, InternalTyped
    <2> QED
      BY <2>1, <2>2
  <1>3. TypeOK'
    BY <1>1, <1>2, NoHeadersTyped DEF TypeOK
  <1>4. (HandedThisCall /\ OutcomeIsTheAuthors /\ HeaderIsFound)'
    BY <1>1 DEF HandedThisCall, OutcomeIsTheAuthors, HeaderIsFound
  <1>5. (Unreturned /\ Decoded)'
    BY <1>1 DEF Unreturned, Decoded
  <1>6. Progress'
    BY <1>1 DEF Progress
  <1>7. Finished'
    BY <1>1, <1>2 DEF Finished
  <1> QED
    BY <1>3, <1>4, <1>5, <1>6, <1>7

LEMMA InvExport ==
    ASSUME IInv, Export PROVE IInv'
  <1> USE DEF IInv, local
  <1>1. /\ pc = "finished" /\ pc' = "answered" /\ output = Nil /\ error = Nil
        /\ UNCHANGED <<envelope, scope, given, runs, params, returned, response, read, err>>
    BY DEF Export, Finished
  <1>2. /\ err = Nil <=> returned \in Results \cup {Nothing}
        /\ err # Nil => err = IF returned \in Errors THEN returned ELSE Internal
        /\ returned # Nil => runs = 1
    BY <1>1 DEF Finished, HandedThisCall
  <1>3. (HandedThisCall /\ HeaderIsFound /\ Unreturned /\ Progress /\ Decoded /\ Finished)'
    BY <1>1 DEF HandedThisCall, HeaderIsFound, Unreturned, Progress, Decoded, Finished
  <1>4. CASE err = Nil
    <2>1. code' = 0 /\ output' = returned /\ error' = Nil /\ heard' = heard
      BY <1>1, <1>4 DEF Export, Output
    <2>2. TypeOK'
      BY <1>1, <1>2, <1>4, <2>1 DEF TypeOK
    <2>3. OutcomeIsTheAuthors'
      BY <1>1, <1>2, <1>4, <2>1 DEF OutcomeIsTheAuthors
    <2> QED
      BY <1>3, <2>2, <2>3
  <1>5. CASE err # Nil
    <2>1. /\ code' = 1 /\ output' = Nil /\ error' = err.text
          /\ heard' = IF err.text = Own THEN heard
                      ELSE [heard EXCEPT ![err.text] = @ \cup {err.user}]
      BY <1>1, <1>5 DEF Export, SetError
    <2>2. err \in Errors /\ err.text \in Texts \cup {Own} /\ err.user \in BOOLEAN
      BY <1>5 DEF TypeOK, Errors
    <2>3. heard' \in [Texts -> SUBSET BOOLEAN]
      BY <2>1, <2>2 DEF TypeOK
    <2>4. TypeOK'
      BY <1>1, <2>1, <2>2, <2>3 DEF TypeOK
    <2>5. error' = IF returned \in Errors THEN returned.text ELSE Own
      BY <1>2, <1>5, <2>1 DEF Internal
    <2>6. OutcomeIsTheAuthors'
      BY <1>1, <1>2, <1>5, <2>1, <2>5 DEF OutcomeIsTheAuthors
    <2> QED
      BY <1>3, <2>4, <2>6
  <1> QED
    BY <1>4, <1>5

LEMMA Inductive == IInv /\ [Next]_vars => IInv'
  <1> SUFFICES ASSUME IInv, [Next]_vars PROVE IInv'
    OBVIOUS
  <1>1. CASE Next
    BY <1>1, InvInvoke, InvNotReached, InvResolve, InvDecode, InvCall, InvRead,
       InvPanic, InvReturn, InvExport DEF Next
  <1>2. CASE UNCHANGED vars
    <2> USE <1>2 DEF vars, local, host, IInv
    <2>1. TypeOK' /\ HandedThisCall' /\ OutcomeIsTheAuthors' /\ HeaderIsFound'
      BY DEF TypeOK, HandedThisCall, OutcomeIsTheAuthors, HeaderIsFound
    <2>2. Unreturned' /\ Progress' /\ Decoded' /\ Finished'
      BY DEF Unreturned, Progress, Decoded, Finished
    <2> QED
      BY <2>1, <2>2
  <1> QED
    BY <1>1, <1>2

-----------------------------------------------------------------------------
(* Theorems.                                                               *)

\* Where a call is tells what has been decoded, called and returned so far.
THEOREM Invariant == Spec => []IInv
  BY InvInit, Inductive, PTL DEF Spec

\* Every variable keeps its type.
THEOREM TypeCorrect == Spec => []TypeOK
  <1>1. IInv => TypeOK
    BY DEF IInv
  <1> QED
    BY Invariant, <1>1, PTL

\* An author's function runs at most once for an envelope, with exactly what
\* this envelope says, the whole set of a batch included, and nothing of an
\* earlier one (register.go:115-168; connector.go:59-91).
THEOREM HandedItsOwn == Spec => []HandedThisCall
  <1>1. IInv => HandedThisCall
    BY DEF IInv
  <1> QED
    BY Invariant, <1>1, PTL

\* The host is given an output if and only if the author's function succeeded,
\* and otherwise one error (autoexport.go:11-42).
THEOREM Outcome == Spec => []OutcomeIsTheAuthors
  <1>1. IInv => OutcomeIsTheAuthors
    BY DEF IInv
  <1> QED
    BY Invariant, <1>1, PTL

\* An inbound header is found by any spelling, in any order of the map
\* (context.go:33-49).
THEOREM HeaderFound == Spec => []HeaderIsFound
  <1>1. IInv => HeaderIsFound
    BY DEF IInv
  <1> QED
    BY Invariant, <1>1, PTL
=============================================================================
