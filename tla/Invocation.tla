----------------------------- MODULE Invocation -----------------------------
(***************************************************************************)
(* One call of an export after another, from the host's envelope to the    *)
(* return code: the exports (runtime/autoexport/autoexport.go), the        *)
(* dispatch entry points once the handler is resolved                      *)
(* (internal/dispatch/dispatch.go), the typed wrappers around the author's *)
(* function (fn/register.go, fn/connector.go), the context it is handed    *)
(* (fn/context.go) and the response headers it may read (fn/http.go).      *)
(*                                                                         *)
(* Which handler an envelope resolves to is the subject of module          *)
(* Registry; here any may be found, or none.  What before-hooks carry over *)
(* is the subject of BeforeHook.  The author's function is arbitrary: it   *)
(* looks up headers, makes requests, panics, fails or returns anything.    *)
(***************************************************************************)
EXTENDS Naturals

CONSTANTS
    Fields,       \* the fields of the parameter or record type
    Values,       \* their values
    Zero,         \* the zero value of a field
    Absent,       \* the field is not in the document
    Garbled,      \* a document or time that does not parse
    Missing,      \* no parameters in the envelope
    Null,         \* the JSON text null
    Ids,          \* record ids
    Names,        \* spellings of header names, and
    Canonical,    \* for each its canonical form
    Tokens,       \* header values
    Times,        \* token expiry times
    Results,      \* encoded results of authors' functions
    Nothing,      \* the empty output of a void hook
    Unencodable,  \* a result that does not encode
    Texts,        \* texts of authors' errors
    Own,          \* text of an error of the SDK or of encoding/json
    Nil           \* none

Docs == [Fields -> Values \cup {Absent}]
Params == [Fields -> Values]
Parameters == Docs \cup {Garbled, Missing, Null}

\* Header maps, by spelling of the name; the host canonicalizes names.
Maps == [Names -> Tokens \cup {Nil}]
CanonicalMaps == {map \in Maps : \A n \in Names : Canonical[n] # n => map[n] = Nil}
NoHeaders == [n \in Names |-> Nil]

\* Handlers: hooks with and without a payload, the three scopes of an action,
\* connector methods; and the export each is reached by.
ExportOf == [hook |-> "runHook", void |-> "runHook", record |-> "runAction",
             batch |-> "runAction", global |-> "runAction",
             method |-> "runConnectorMethod"]
Scopes == DOMAIN ExportOf

\* What an envelope tells the author's function; routing is left out.
HookEnvelopes ==
    [export: {"runHook"}, parameters: Parameters, record: {Nil}, records: {{}},
     headers: {NoHeaders}, expiry: {Nil}]
ActionEnvelopes ==
    [export: {"runAction"}, parameters: Parameters, record: Ids \cup {Nil},
     records: SUBSET Ids, headers: CanonicalMaps, expiry: {Nil}]
ConnectorMethodEnvelopes ==
    [export: {"runConnectorMethod"}, parameters: Parameters, record: {Nil},
     records: {{}}, headers: {NoHeaders}, expiry: Times \cup {Garbled, Nil}]
Envelopes == HookEnvelopes \cup ActionEnvelopes \cup ConnectorMethodEnvelopes

\* What the author's function is handed.
Arguments == [params: Params, record: Ids \cup {Nil}, records: SUBSET Ids,
              headers: CanonicalMaps, expiry: Times \cup {Nil}]

\* An error: its text, and whether UserError made it.
Errors == [text: Texts \cup {Own}, user: BOOLEAN]
Internal == [text |-> Own, user |-> FALSE]

\* A look-up of a header: in which message, by which name, and what it found.
Reads == [of: {"request", "response"}, name: Names, value: Tokens \cup {Nil}]

ASSUME ZeroAssumption == Zero \in Values
ASSUME CanonicalAssumption ==
    /\ Canonical \in [Names -> Names]
    /\ \A n \in Names : Canonical[Canonical[n]] = Canonical[n]
ASSUME MarkersAssumption ==
    /\ Absent \notin Values
    /\ Docs \cap {Garbled, Missing, Null} = {}
    /\ Null \notin {Garbled, Missing}
    /\ Garbled \notin Times
    /\ Nil \notin Ids \cup Tokens \cup Times \cup Results \cup Texts \cup {Own}
                  \cup {Nothing, Unencodable} \cup Arguments \cup Errors \cup Envelopes
                  \cup Reads \cup Scopes
    /\ {Nothing, Unencodable} \cap Results = {} /\ Nothing # Unencodable
    /\ Errors \cap (Results \cup {Nothing, Unencodable}) = {}

VARIABLES
    pc,         \* where the call is
    envelope,   \* the host's input
    scope,      \* the kind of handler resolved
    params,     \* the wrapper's local variable
    given,      \* what the author's function was handed
    runs,       \* history: how often it was called for this envelope
    returned,   \* history: the result or error it returned
    response,   \* while it runs, headers of the response to its last request
    read,       \* history: while it runs, its last look-up of a header
    err,        \* the error the wrapper returns
    code, output, error,    \* what the host is given
    heard       \* history: the classes of the errors the host was given a text of

local == <<params, returned, response, read, err>>
host == <<code, output, error, heard>>
vars == <<pc, envelope, scope, given, runs, local, host>>

ZeroParams == [f \in Fields |-> Zero]

\* Nothing of a call has happened yet.
Clear ==
    /\ scope' = Nil /\ given' = Nil /\ runs' = 0
    /\ returned' = Nil /\ response' = NoHeaders /\ read' = Nil /\ err' = Nil

Init ==
    /\ pc = "idle"
    /\ envelope = Nil /\ scope = Nil /\ given = Nil /\ runs = 0
    /\ params = ZeroParams
    /\ returned = Nil /\ response = NoHeaders /\ read = Nil /\ err = Nil
    /\ code = Nil /\ output = Nil /\ error = Nil
    /\ heard = [t \in Texts |-> {}]

-----------------------------------------------------------------------------
(* The host calls an export; what the last call left behind is gone.       *)

Ready == pc \in {"idle", "answered"}

Invoke ==
    /\ Ready
    /\ envelope' \in Envelopes
    /\ pc' = "called"
    /\ code' = Nil /\ output' = Nil /\ error' = Nil
    /\ Clear
    /\ UNCHANGED <<params, heard>>

\* The warm-up export does nothing and says so.
warm ==
    /\ Ready
    /\ pc' = "answered"
    /\ envelope' = Nil
    /\ code' = 0 /\ output' = Nil /\ error' = Nil
    /\ Clear
    /\ UNCHANGED <<params, heard>>

-----------------------------------------------------------------------------
(* Dispatch and the typed wrappers.                                        *)

Fail(e) == err' = e /\ pc' = "finished"

\* The envelope does not decode, finds no handler, or names another method
\* than the binary implements.
NotDispatched ==
    /\ pc = "called"
    /\ Fail(Internal)
    /\ UNCHANGED <<envelope, scope, given, runs, params, returned, response, read, host>>

Resolve ==
    /\ pc = "called"
    /\ scope' \in {s \in Scopes : ExportOf[s] = envelope.export}
    /\ pc' = "wrapping"
    /\ UNCHANGED <<envelope, given, runs, local, host>>

\* json.Unmarshal into a variable: null and absent fields leave it as it was.
Unmarshal(raw, into) ==
    [f \in Fields |-> IF raw = Null THEN into[f]
                      ELSE IF raw[f] = Absent THEN into[f] ELSE raw[f]]

Parses(raw) == raw \notin {Garbled, Missing}

DoesNotParse ==
    /\ pc = "wrapping"
    /\ ~Parses(envelope.parameters)
    /\ Fail(Internal)
    /\ UNCHANGED <<envelope, scope, given, runs, params, returned, response, read, host>>

\* Faulty variant: the variable belongs to the registration, not to the call.
DecodeInPlace ==
    /\ pc = "wrapping"
    /\ Parses(envelope.parameters)
    /\ params' = Unmarshal(envelope.parameters, params)
    /\ pc' = "calling"
    /\ UNCHANGED <<envelope, scope, given, runs, returned, response, read, err, host>>

\* var params P, decoded into.
Decode ==
    /\ pc = "wrapping"
    /\ Parses(envelope.parameters)
    /\ params' = Unmarshal(envelope.parameters, ZeroParams)
    /\ pc' = "calling"
    /\ UNCHANGED <<envelope, scope, given, runs, returned, response, read, err, host>>

\* Faulty variant: the text is handed on unparsed.
ExpiryAsText(text) == text

\* The expiry of the connection's token, none if it does not parse.
Expiry(text) == IF text \in Times THEN text ELSE Nil

\* The author's function is called: an entity action with its record, a batch
\* action with its records, the others with neither.
Call ==
    /\ pc = "calling"
    /\ given' = [params |-> params,
                 record |-> IF scope = "record" THEN envelope.record ELSE Nil,
                 records |-> IF scope = "batch" THEN envelope.records ELSE {},
                 headers |-> envelope.headers,
                 expiry |-> Expiry(envelope.expiry)]
    /\ runs' = runs + 1
    /\ pc' = "running"
    /\ UNCHANGED <<envelope, scope, local, host>>

-----------------------------------------------------------------------------
(* The author's function.                                                  *)

Running == pc = "running"
author == <<pc, envelope, scope, given, runs, params, returned, err, host>>

\* Faulty variant: only the exact spelling is found.
HeaderExact(map, name) == {map[name]}

\* Context.Header: the exact spelling, else any that differs in case only;
\* a Go map is ranged in a random order.
Header(map, name) ==
    LET folded == {n \in Names : Canonical[n] = Canonical[name] /\ map[n] # Nil} IN
    IF map[name] # Nil \/ folded = {} THEN {map[name]}
    ELSE {map[n] : n \in folded}

ReadHeader ==
    /\ Running
    /\ \E n \in Names : \E value \in Header(given.headers, n) :
         read' = [of |-> "request", name |-> n, value |-> value]
    /\ UNCHANGED <<author, response>>

\* An outbound request has been answered (module HostCall).
Fetch ==
    /\ Running
    /\ response' \in CanonicalMaps
    /\ read' = Nil
    /\ UNCHANGED author

\* Response.Header: the map is indexed.
ReadResponseHeader ==
    /\ Running
    /\ \E n \in Names : read' = [of |-> "response", name |-> n, value |-> response[n]]
    /\ UNCHANGED <<author, response>>

\* The function panics and the instance with it.
Panic ==
    /\ Running
    /\ pc' = "trapped"
    /\ UNCHANGED <<envelope, scope, given, runs, local, host>>

ReturnError ==
    /\ Running
    /\ \E text \in Texts, user \in BOOLEAN :
         /\ returned' = [text |-> text, user |-> user]
         /\ Fail([text |-> text, user |-> user])
    /\ response' = NoHeaders /\ read' = Nil
    /\ UNCHANGED <<envelope, scope, given, runs, params, host>>

\* The result is encoded, if the handler has one.
ReturnResult ==
    /\ Running
    /\ returned' \in IF scope = "void" THEN {Nothing} ELSE Results \cup {Unencodable}
    /\ IF returned' = Unencodable THEN Fail(Internal) ELSE Fail(Nil)
    /\ response' = NoHeaders /\ read' = Nil
    /\ UNCHANGED <<envelope, scope, given, runs, params, host>>

-----------------------------------------------------------------------------
(* The export returns.                                                     *)

\* pdk.SetError hands over the text of an error.
SetError ==
    /\ error' = err.text
    /\ heard' = IF err.text = Own THEN heard
                ELSE [heard EXCEPT ![err.text] = @ \cup {err.user}]
    /\ UNCHANGED output

Output ==
    /\ output' = returned
    /\ UNCHANGED <<error, heard>>

\* Faulty variant: the early return after an error is missing.
ExportOnwards ==
    /\ pc = "finished"
    /\ output' = returned
    /\ error' = IF err = Nil THEN Nil ELSE err.text
    /\ code' = 0
    /\ pc' = "answered"
    /\ UNCHANGED <<envelope, scope, given, runs, local, heard>>

Export ==
    /\ pc = "finished"
    /\ IF err # Nil THEN SetError /\ code' = 1 ELSE Output /\ code' = 0
    /\ pc' = "answered"
    /\ UNCHANGED <<envelope, scope, given, runs, local>>

Next ==
    \/ Invoke \/ warm
    \/ NotDispatched \/ Resolve \/ DoesNotParse \/ Decode \/ Call
    \/ ReadHeader \/ Fetch \/ ReadResponseHeader
    \/ Panic \/ ReturnError \/ ReturnResult
    \/ Export

Spec == Init /\ [][Next]_vars

-----------------------------------------------------------------------------
(* Properties.                                                             *)

\* Every variable holds a value of its type.
TypeOK ==
    /\ pc \in {"idle", "called", "wrapping", "calling", "running", "finished",
               "answered", "trapped"}
    /\ envelope \in Envelopes \cup {Nil}
    /\ scope \in Scopes \cup {Nil}
    /\ params \in Params
    /\ given \in Arguments \cup {Nil}
    /\ runs \in Nat
    /\ returned \in Results \cup {Nothing, Unencodable, Nil} \cup Errors
    /\ response \in CanonicalMaps
    /\ read \in Reads \cup {Nil}
    /\ err \in Errors \cup {Nil}
    /\ code \in {0, 1, Nil}
    /\ output \in Results \cup {Nothing, Nil}
    /\ error \in Texts \cup {Own, Nil}
    /\ heard \in [Texts -> SUBSET BOOLEAN]

\* An author's function is called at most once for an envelope, with all that
\* this envelope says and no more: a batch with its whole set of records, never
\* once for every record of it; an entity action with its record; a field the
\* envelope leaves out is zero whatever an earlier call set it to; a token that
\* expires at no time that parses has no expiry (register.go:115-168;
\* connector.go:59-91).
HandedThisCall ==
    /\ runs = IF given = Nil THEN 0 ELSE 1
    /\ given # Nil =>
         /\ \A f \in Fields :
              \/ given.params[f] = Zero
                 /\ (envelope.parameters = Null \/ envelope.parameters[f] = Absent)
              \/ envelope.parameters # Null /\ given.params[f] = envelope.parameters[f]
         /\ given.record = IF scope = "record" THEN envelope.record ELSE Nil
         /\ given.records = IF scope = "batch" THEN envelope.records ELSE {}
         /\ given.headers = envelope.headers
         /\ given.expiry = IF envelope.expiry \in Times THEN envelope.expiry ELSE Nil

\* The host is given an output, with code 0, if and only if the author's
\* function ran and returned a result that encodes; otherwise, unless the
\* instance is gone, the text of one error with code 1, the author's own if
\* the function returned one (autoexport.go:11-42).
OutcomeIsTheAuthors ==
    pc = "answered" /\ envelope # Nil =>
        LET succeeded == returned \in Results \cup {Nothing} IN
        /\ code = 0 <=> succeeded
        /\ code = 1 <=> ~succeeded
        /\ output = IF succeeded THEN returned ELSE Nil
        /\ error = IF succeeded THEN Nil
                   ELSE IF returned \in Errors THEN returned.text ELSE Own
        /\ returned # Nil => runs = 1

\* A header of the inbound request is found under any spelling of its name,
\* and one the request does not carry is not found: hooks, methods and later
\* calls never see it (context.go:21-25, 33-35).
HeaderIsFound ==
    read # Nil /\ read.of = "request" =>
        read.value = envelope.headers[Canonical[read.name]]

\* A comment says of Response.Header: "Lookup is case-insensitive - the host
\* normalizes to canonical form" (http.go:30).
ResponseHeaderIsFound ==
    read # Nil /\ read.of = "response" =>
        read.value = response[Canonical[read.name]]

\* A comment says that the host can tell an author's UserError from any other
\* error (fn.go:26-29): then no text may stand for both.
ClassSurvives == \A t \in Texts : heard[t] # BOOLEAN

-----------------------------------------------------------------------------
(* The inductive invariant behind them.                                    *)

\* Nothing has been returned before the author's function has run.
Unreturned ==
    pc \in {"called", "wrapping", "calling", "running"} =>
        returned = Nil /\ err = Nil /\ output = Nil /\ error = Nil

\* The function has been called in these places, and not before.
Progress ==
    /\ pc \in {"called", "wrapping", "calling"} => given = Nil
    /\ pc = "running" => given # Nil
    /\ pc \notin {"idle", "answered"} => envelope # Nil
    /\ pc \in {"wrapping", "calling", "running"} => scope # Nil
    /\ given # Nil => Parses(envelope.parameters)
    /\ envelope = Nil => given = Nil /\ read = Nil
    /\ read # Nil => given # Nil

\* The decoded parameters are this envelope's.
Decoded ==
    pc = "calling" =>
        /\ Parses(envelope.parameters)
        /\ params = Unmarshal(envelope.parameters, ZeroParams)

\* The wrapper's error says how the author's function ended.
Finished ==
    pc = "finished" =>
        /\ output = Nil /\ error = Nil
        /\ err = Nil <=> returned \in Results \cup {Nothing}
        /\ err # Nil => err = IF returned \in Errors THEN returned ELSE Internal
        /\ returned # Nil => given # Nil

IInv == /\ TypeOK /\ HandedThisCall /\ OutcomeIsTheAuthors /\ HeaderIsFound
        /\ Unreturned /\ Progress /\ Decoded /\ Finished
=============================================================================
