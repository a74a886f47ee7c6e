# functions-sdk-go: a verification project

TLA+ models of the Proteos functions SDK for Go, the TLC runs that check them on
small instances and the theorems TLAPS proves about them for every instance. The
modules follow the source under `src/`; line numbers below refer to it.

## The system

The SDK is linked into a WebAssembly guest. A module author writes typed handlers
and registers them from `init()`; the platform's host instantiates the guest and
calls one of its exports with a JSON envelope; the handler may call back into the
host for records, cache, HTTP and so on. A guest is single-threaded: what is hard
is not parallelism but *state that outlives a call and code that runs in an order
or fails at a point nobody wrote down*.

| Component | State | Operations | Talks to |
|---|---|---|---|
| Registry and dispatch, `internal/dispatch/dispatch.go` | `bundleSlug`; unkeyed and slug-keyed hooks, actions, connector methods | `WithSlug`, eight setters, `RunHook`, `RunAction`, `RunConnectorMethod` | called by `fn` wrappers and by the exports |
| Bundle entry, `runtime/bundle` | none | `Register` | `WithSlug` |
| Exports, `runtime/autoexport` | none | `runHook`, `runAction`, `runConnectorMethod`, `warm` | host; dispatch |
| Jurisdiction, `fn/declared.go` 10-160 | per registration: the declared keys of T | `declaredFields`, `collectDeclared` | must agree with `encoding/json` |
| Typed hooks, `fn/register.go` 9-108, `preserveUndeclared` | the record, held by the host between calls | six wrappers | dispatch; the author's function |
| Typed actions and methods, `fn/register.go` 110-168, `fn/connector.go` | none | four wrappers | dispatch; the author's function |
| Context and headers, `fn/context.go`, `fn/http.go` | none | `Context.Header`, `Response.Header` | the author's function |
| Errors, `fn/fn.go`, `fn/errors.go` | none | `UserError`, sentinels, `codeToError` | every boundary |
| Host calls, `fn/transport*.go`, `fn/envelope.go` | the transport table; blocks in guest memory | `call`, `wasipCall`, `decode` | host imports |
| Records, `fn/records.go` | in the data service, shared by guests | six free-form operations and their typed siblings; a batch has a result per row | host calls |
| Cache, `fn/cache.go` | in a store shared by guests | get, set with a time to live, delete | host calls |
| Query, storage, secrets, connections, http, log | all in the host | one request, one reply each | host calls |

### What is hard

* `bundleSlug` is an ambient variable: which function a registration belongs to
  depends on when it runs. Registrations panic, panics are recovered at any depth,
  and `WithSlug` may be called inside `WithSlug`.
* Dispatch resolves a key per function for hooks and per entry otherwise, with a
  fallback to unkeyed handlers that must never reach a sibling.
* `collectDeclared` decides in one pass over fields, in declaration order, what
  `encoding/json` decides by collecting and sorting; types embed one another,
  repeatedly and in circles.
* A before-hook's payload becomes the whole record. What one write loses is lost
  for every later one, and the payload is put together in the random order of a Go
  map.
* The data service and the cache are shared. Other guests write between two calls of
  one guest, and a call may fail after it took effect.
* Conversions lose: numbers become float64 on the way through a map, durations become
  whole seconds, a time that does not parse becomes none.
* Failures: a wrapper may fail at each of four points; a batch succeeds row by row;
  an error loses its class on its way out.

What makes each component correct: a registration is reachable under its function
and only there, and is never replaced; the declared keys are the keys json reads
and writes; a handler changes its jurisdiction and nothing else; a host call frees
what it allocated and maps every reply to a value or an error; a write reaches the
attributes its author named and a batch accounts for every row; an export gives the
host the author's result or one error; an error keeps its class. The hazards, with their lines and the properties that cover them, are in
`PROJECT.json`.

## Modules

| Module | What it is |
|---|---|
| `Registry` | `dispatch.go`: registration, panics, dispatch |
| `RoutingTable` | what the registry promises, as a set of accepted registrations |
| `MCRegistry` | TLC instances (`MCRegistry.cfg`, `MCRegistryFair.cfg`) |
| `RegistryProofs` | theorems about `Registry` |
| `Jurisdiction` | the walk of `collectDeclared` and `declaredFieldsOf` |
| `TypeFields` | `encoding/json`'s field collection, external, for comparison |
| `MCJurisdiction` | TLC instances (`MCJurisdiction.cfg`, `MCDiamond.cfg`) |
| `JurisdictionProofs` | theorems about `Jurisdiction` |
| `TypeFieldsProofs` | theorems about the comparison with `encoding/json`, and that the walk ends |
| `BeforeHook` | hook wrappers and `preserveUndeclared` over a record's life |
| `RecordContract` | the jurisdiction rule as an abstract specification |
| `MCBeforeHook` | TLC instance (`MCBeforeHook.cfg`) |
| `BeforeHookProofs` | theorems about `BeforeHook` |
| `HostCall` | one host call after another: clients, envelope, transport, guest memory |
| `MCHostCall` | TLC instance (`MCHostCall.cfg`) |
| `HostCallProofs` | theorems about `HostCall` |
| `Records` | the records client, used by several guests at once |
| `RecordStore` | what the records client promises, as an abstract specification |
| `MCRecords` | TLC instance (`MCRecords.cfg`) |
| `RecordsProofs` | theorems about `Records` |
| `Invocation` | an export call from envelope to return code |
| `MCInvocation` | TLC instances (`MCInvocation.cfg`, `MCErrorClass.cfg`, `MCResponseHeader.cfg`) |
| `InvocationProofs` | theorems about `Invocation` |
| `Cache` | the cache client and its conversion of times to live |
| `MCCache` | TLC instances (`MCCache.cfg`, `MCCacheTTL.cfg`) |
| `CacheProofs` | theorems about `Cache` |

`PROJECT.json` maps each definition to its lines. Definitions introduced by the
comment "Faulty variant" are not part of the model: each is a plausible bug, used
to confirm that a property can fail.

### Registry

The package variables keep their names. A map entry that is missing is `Nil`. A
handler value carries the function that registered it, which the program does not
record; the properties need it. The Go call stack is a variable of its own,
`frames`, so that the function *really* executing is known whatever `bundleSlug`
says; a panic is a flag that unwinds `frames` one deferred reset at a time, may be
recovered at any depth and otherwise ends the instance. `WithSlug` pushes,
`RegisterReturns` and `Unwind` run its deferred reset. The six hook setters are one
action with the event as parameter: they differ in the slot only. Exports read and
never write the registry; `result` is what the last one did. What user code does
besides calling the SDK is invisible and left out.

`MaxCalls` bounds the SDK calls of the init code. Five are enough for the longest
patterns of interest: enter, register, panic in a nested call, recover, register
again; or two functions with two registrations each. Two hook events represent the
six, since no action tells one event from another; the same holds for two slugs, two methods and
two handler values, which is why symmetry over them is sound (it is used with
safety properties only).

### Jurisdiction and TypeFields

One action is one iteration of the field loop: a field is skipped, descended into,
found to be a type already being walked, or claimed. `stack` is Go's call stack;
`depth` is its height less one. `found` is a history variable: every claim in the order
the walk met it, with the path of types and fields that led to it. A field is what the walk reads of it: whether it is
exported and anonymous, the kind of its tag, its names, the struct type it holds.
Characters of tags are not modelled, only whether `isValidTag` accepts them. The
set of type declarations is a constant; TLC takes all 7776 combinations of eight
root shapes, nine shapes for each of two middle structs, four and three for two
lower ones, covering promotion, shadowing, tagged and untagged contests at equal
depth, bad tags, unexported embeds, embeds of the root and of each other.

`TypeFields` states the keys `json.Marshal` emits, from the standard library's
breadth-first collection: a type is scanned once, at its shallowest level, and its
own fields are recorded twice if it was queued more than once there. It assumes that a
program declares finitely many types.

### BeforeHook and RecordContract

The host is external: it merges an update into the stored record, dispatches a
before-hook, stores the payload as the whole record, and may dispatch an
after-hook. Each write may be served by a different handler. A handler type is
what the wrapper depends on: its declared keys (`None` for a type without field
structure), the keys `json.Marshal` can and must emit for it, and whether it can
encode as something other than an object. The author's function is arbitrary:
every encodable result and an error are possible at every call, and any document
may fail to decode. Values are opaque. The loop over the input map takes its keys
in any order, one `EchoKey` per key.

The payload `null` of a nil pointer or map is handed to the host, whose answer is
not in this repository; the model has the write refused.

Three attributes, two values and three handler types (a struct; one whose
`MarshalJSON` emits more than it declares and which may be nil; a map) give every
combination of declared, emitted, absent, cleared and untouched keys. The wrapper
only tests presence, so two values suffice to tell one document's from another's.

### HostCall

A client starts a call with a request that may not encode, if it takes a value of the
author's, and makes something of the data: it decodes them, as a whole, hands them on
(`InvokeMethod`) or drops them (`emitLog`). `Kind` tells these apart; `Fitting` are the
data that decode. Then one action is one statement of `wasipCall`: the request is copied into a block, the
host is called, its block is read, and the two deferred frees run, the output's
first. `NotSent` is a request that does not encode or a transport table that no
`init` has filled. With the last free `wasipCall` returns and the caller is given
what the client makes of `decode` of the bytes, or nothing if it is a log line. The
nineteen imports differ in name only and are one; so do the HTTP verbs. Guest memory (a set of blocks, free or holding one
message) and the host are external: it replies with any bytes, with no block, or
ends the instance. Calls do not overlap: a guest is single-threaded, and
the host is assumed not to enter the instance while it serves its call. `served` is a history variable, the request the host saw and
its reply.

`Replies` is an envelope as far as `decode` reads it: does it parse, its `ok`, its
data, the code of its `err` if any. Messages and details only end up in texts.
Three blocks are one more than a call uses, so that a leaked block is seen as such
and not only as a call that finds no room; two requests let a call find another
one's request; one unknown code stands for all.

### Records and RecordStore

Several guests, each an instance of its own, call one data service. A call is three
kinds of step: the guest encodes and sends (`Call`, with one action for each of the
operations that leads to it), the service deals with the transactions one at a time,
in any order and interleaved with those of other calls (`Serve`), and the guest
decodes the reply (`Reply`) or fails (`Error`). A call may fail at any point, with any
part of its transactions performed: the host call fails, the service refuses, a row
does not convert. `Call` fails by itself when an item does not encode.

A document gives each attribute a value or none. `Float` is what a float64 makes of a
value: `toRecord` and `convertRecord` pass documents through a map, free-form writes do
not. A record type is the attributes it declares. A transaction is named by the index
of its item, as `BatchUpsertRecords` does; the ids of a free-form batch are the
caller's choice and are taken to be distinct, hence indexes as well.

The service is external and taken from the comment at records.go:116-123: an upsert of
an id that exists is a partial merge, anything else a create, each transaction
succeeds or fails by itself. Assumed beyond it: a transaction takes effect at one
moment, and none takes effect after its call has returned. For a
service that goes on after the host call has failed, a failed call would not be over
when it returns.

`RecordStore` has items, effects and answers and knows nothing of transactions,
encodings or replies. `wrote` is a history variable: what authors last wrote to each
attribute, before any conversion.

Two guests, two records, two attributes, a value that a float64 changes and one it does
not, a type that declares one attribute, batches of up to two rows. Authors pass a new
record, a document with the type's attribute only, which an update or upsert through the
type sends as a partial merge, a document with the other attribute, which only free-form
writes can send, and an item that does not encode. So a typed update meets a record
whose other attribute another guest has written or is writing, and a zero sent for it,
or a value read earlier, would show. `OneBatch` bounds the runs: beside a batch under way
the other guest updates or deletes a record; reads and creates are explored beside
everything but batches. A second batch, a create or a read adds no kind of step to a
batch, since the service takes transactions one at a time. Guests are
symmetric and no property of this run needs fairness.

### Invocation

One export call after another. `Resolve` finds a handler of some scope the export leads
to, or `NotDispatched` fails: which one is the subject of `Registry`. The wrapper
decodes parameters into its variable, calls the author's function with the context it
builds, and encodes the result. The author's function is arbitrary: it reads headers,
makes requests, panics, fails with a `UserError` or another error of any text, or
returns any result, which may not encode. The export hands output or error text to
the host and returns its code.

`params` survives from call to call in the model, as it would if the variable were
not the call's own; `Decode` starts from the zero value since the code declares it
inside the closure. JSON is abstracted to whether a document parses, is null, and
which fields it has. Header names are spellings with a canonical form; the host is
assumed to send canonical names (context.go:23-25) and to start every call without
output or error. `heard` is a history variable: the classes of the errors for which
the host was given a text.

Two fields, two values, two records, two spellings of one header name and another name,
one result and one error text: enough for fields left over from another call, for a
batch that one record does not stand for, so that a handler run record by record or
handed a part of the set would show, for a header under another spelling and for two
errors of one text. Two calls in a row are
the longest pattern, and calls repeat without bound.

### Cache

The store behind `fn.Cache` is external: it keeps an entry for the seconds it was told,
for good if told 0, refuses a negative number, and may drop any entry earlier. A time
to live is a number of clock ticks, `Second` of them to a second. `Set` and `Delete`
may fail after they took effect. `asked` is a history variable: what the last effective
`Set` of each key asked for.

Two keys, a value beside the empty string, two ticks to a second and a clock of four
ticks, after which entries count as living for ever: times to live of -3 to 3 ticks
lie below, at and between whole seconds on both sides of 0, and an entry can be set,
expire and be set again.

## Runs

| Run | Shows |
|---|---|
| `registry` | scope, reachability, no sibling, write-once, refinement of `RoutingTable`; deadlock is off because a trapped guest and a ready one with no call pending may stop |
| `registry_fair` | every scope is closed again |
| `jurisdiction` | the walk is acyclic and declares exactly the dominant keys; none that json does not emit; all that it emits, save one shape; deadlock is off because the walk ends |
| `diamond` | that one shape: a disagreement with `encoding/json` |
| `before_hook` | the payload is the overlay whatever the order; what callers wrote outside the jurisdictions survives every sequence of writes; refinement of `RecordContract` |
| `host_call` | no block outlives its call; every call finds memory and returns once the host has replied; every caller is told what the host said about its own request; deadlock is off because an instance the host has ended stops |
| `records` | a write reaches the attributes its author named and no other, whoever else writes; every item is performed or refused once and reported at its own position (refinement of `RecordStore`); deadlock is off because of the bound `OneBatch` |
| `invocation` | an author's function runs once per envelope, a batch included, and is handed exactly what this envelope says: parameters, record or records, headers, expiry; the host gets the author's result or one error; an inbound header is found under any spelling; deadlock is off because a panic ends the instance |
| `error_class` | a violation: the class of an author's error is lost |
| `response_header` | a violation: a response header is found under its exact name only |
| `cache` | a hit is the value last set, within the life asked for; what is set for a second or more expires in time |
| `cache_ttl` | a violation: a life below a second is for ever |

Every property of a passing run is broken by a faulty variant listed under
"mutants".

**Fairness.** Two runs need any. `registry_fair` takes weak fairness of the init code's
steps: Go runs package initialisation to its end before any export can be called, so
init code that can take a step takes one. `host_call` takes weak fairness of the
guest's own steps within a call: Go code runs on to its next host call or its end.
Nothing is assumed of the host, which may answer a call or not.

## Findings

`diamond`: declared.go:90 says that `collectDeclared` walks fields the way
`encoding/json` does. When a struct C is embedded through two paths at one level
and itself embeds D, json emits D's keys, because it queues C once and duplicates
only C's own fields. `collectDeclared` walks C twice, meets D's fields twice and
counts them as contested, so they are not declared. A handler that clears such an
`omitempty` field finds its value carried over from the input. None of the drift
guard's fixtures (declared_test.go:267-311) has this shape.
The theorem `SameAsJSON` shows that it is the only shape, of all declarations, where
the two differ; `NothingUnemitted` that the error is on one side.

`error_class`: fn.go:26-29 and 34-35 say that the host checks an error with
`IsUserError` and reports an author's as GUEST_ERROR. `pdk.SetError` hands over a text
and the export returns 1, for every error: the host is given the same for a `UserError`
and for any other error of the same text. The class does not cross.

`response_header`: http.go:30 calls `Response.Header` case-insensitive because the host
normalizes names. That makes the stored names canonical, not the one asked for, and
the code indexes the map with it. `HeaderIsFound` shows that `Context.Header` does what
the other only says.

`cache_ttl`: cache.go:38 reserves 0 for "no expiry", and any time to live below a second
becomes 0. `HitIsCurrent` and `ExpiresInTime` show that from one second on the dropped
fraction only shortens a life, by less than a second.

## Proofs

All theorems hold for every value of the constants, under the named assumptions of
the modules, which only say that markers such as `Nil` are distinct from values, that
parameters have their types and, for `TypeFields`, that there are finitely many types. The proofs use no other assumption.

* **Registry.** The inductive invariant `IInv` says, besides types, that
  `bundleSlug` is the executing function and at most one `WithSlug` is under way
  (`ScopeMatchesExecution`), and that the six variables hold exactly the accepted
  registrations, each under its function (`Recorded`). Neither is inductive
  without the other: a registration lands under `bundleSlug` and is recorded under
  the executing function. `EntriesInUse`, no empty entry in `bundledHooks`, is
  needed because dispatch tests for an entry, not for a handler. Reachability, no
  sibling, write-once and the refinement follow from `IInv` step by step.
* **Jurisdiction.** `WalkIsAcyclic` is inductive with types. `Merge` shows that the
  claim kept for a key summarises the whole history of claims: none outranks it,
  one ties with it, and it is contested when two do. It rests on `BeatsOrder`:
  `beats` is a strict weak order whose incomparable claims tie. `Dominance` follows
  for the finished walk. What the claims are is the subject of `Exhaustive`: a *route*
  is a way from T through embeddings, never through one type twice, to a field that
  claims a key, and the finished walk has claimed every route exactly once and nothing
  else. Its inductive invariant `WalkInv` says that the stack is a route as far as it
  goes, that every route is either ahead of the loops on the stack or in the history,
  and that what is in the history is a route, of its own, that is no longer ahead.
  The three parts need each other: a claim comes from a route because the stack leads
  somewhere, it is new because its route was still ahead. `WalkFree` combines the two:
  a key is declared exactly when one route to it outranks the others, which mentions
  no walk at all.
* **TypeFields.** `EmittedKeys` is defined by levels, one above the other, so the proofs
  need induction over the number of embeddings. `LeastNatural`, a least element of every
  set of numbers, supplies it; it comes from the library's well-founded order of finite
  sets. Types visited only become more, each is
  scanned at one level, and a route reaches no type before its level has visited it.
  Hence down the levels there is a route to every field json records, and none is
  shorter. A route that outranks all others of its key is therefore such a route, and
  its last type was queued once: twice would mean two routes that tie
  (`TwiceIsTwoPaths`). So json records that field once and ranks it first, which is
  `NothingUnemitted`. Conversely, when json emits a field, two routes to it on its
  level meet in a type queued twice (`PathsMeet`): the field's own, whose second record
  would have annihilated it, or one above it, which is what `EmbedsBelowTwice` excludes.
  So there is one, and it wins: `SameAsJSON`. `Ends` gives the walk a number
  that every step lessens, the size of the set of positions it has not passed. It needs
  the stack to be no deeper than there are types (`Shallow`) and no loop to run
  past its end (`LoopsWithin`).
* **BeforeHook.** The invariant says what the loop has done for the keys it has
  visited, whichever these are; at the end it gives the closed form
  `PayloadIsOverlay`. `Carried` then shows that outside the jurisdiction the payload
  is the record on offer, which gives both `UndeclaredSurvives` and the refinement.
* **HostCall.** The two properties are not inductive: the invariant adds that the
  input block holds the request until it is freed (`InputHeld`), that the output
  block is another one and holds the reply (`OutputHeld`), and that what the host
  served and the guest read belongs to this call (`ServedRequest`).
  `DecodeIsFaithful` is the lemma about `decode`. `FindsMemory` is the safety half of
  `EveryCallGetsThrough`: a call starts with all blocks free.
* **Records.** `WritesAreTheAuthors` needs `Correlated`: what was sent under a position
  is the encoding of the item at that position, so that the write recorded for an
  item is the one performed. That `Float` is idempotent is an assumption (a float64
  survives being read as a float64). The refinement maps a call to its items and the
  results of its rows; an aborted call maps to a failed one without effects.
* **Invocation.** The properties speak of a call that has reached the author's function or has finished; `Progress`, `Unreturned`,
  `Decoded` and `Finished` say for each place of the call what has happened by then.
  `HeaderIsFound` rests on canonical names: the only entry that differs from the name in
  case is the one under its canonical form.
* **Cache.** `HitIsCurrent` follows from `Agrees` (an entry holds what was last asked
  for) and `ExpiresInTime`, and that from a lemma about integer division. The time to
  live and the length of a second are arbitrary.

Every safety property of a passing run is stated by a theorem. Model-checked only are
`ScopeReleased` and `EveryCallGetsThrough`: they are liveness properties under fairness,
which this prover does not reach. That the walk ends is proved as far as `Ends` goes;
that the Go program goes on taking steps until then is not stated.

## Not modelled

* Types, docs, the example and the test reset have no behaviour of their own; `fn.JSON`
  is a helper for tests and examples.
* Characters: of tags, keys, header values, messages. Hence not the match of JSON keys to
  fields regardless of case (declared.go:187).
* Paging, sorting and filters of `List`, and the entity a record belongs to.
* The check of a connector method's name ignores the connector's key
  (dispatch.go:428): the registry is never told one, so there is nothing to state.
* Two guests that read, change and write back one record overwrite each other: no
  version is sent, and nothing promises otherwise.
* Wall-clock formats: a token's expiry parses or does not.

## Plan

Done: `RoutingTable`, `Registry`, `RegistryProofs`; `Jurisdiction`, `TypeFields`,
`JurisdictionProofs`, `TypeFieldsProofs`; `RecordContract`, `BeforeHook`, `BeforeHookProofs`; `HostCall`,
`HostCallProofs`; `RecordStore`, `Records`, `RecordsProofs`; `Invocation`,
`InvocationProofs`; `Cache`, `CacheProofs`.

1. Composition: `Registry` + `Invocation` + `BeforeHook`, a guest serving a record's
   writes through the registry; the declared keys of `Jurisdiction` as the
   jurisdiction of `BeforeHook`, with the diamond's effect on a cleared field.
2. Proofs: properties of the abstract specifications that users of the SDK rely on,
   proved there once and inherited through the refinements; a closed form of what the
   walk leaves out in the shape of `diamond`.
3. A data service that goes on with a batch after the call has failed.
