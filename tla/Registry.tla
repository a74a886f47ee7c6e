------------------------------ MODULE Registry ------------------------------
(***************************************************************************)
(* The handler registry of a guest: internal/dispatch/dispatch.go, its one *)
(* caller for bundles (runtime/bundle) and the three exports that dispatch *)
(* through it.                                                             *)
(*                                                                         *)
(* A guest lives in two phases.  While phase = "init" the package inits    *)
(* (and, in a bundle, the generated main) call WithSlug and the Register*  *)
(* setters.  A setter learns which function it works for from the package  *)
(* variable bundleSlug alone.  Once init has returned, the host calls      *)
(* RunHook, RunAction and RunConnectorMethod with envelopes whose key      *)
(* selects a handler.                                                      *)
(*                                                                         *)
(* The Go call stack is modelled separately from bundleSlug: `frames`      *)
(* holds the WithSlug calls under way, innermost first, so the function    *)
(* whose code is REALLY running is known whatever bundleSlug says.  A      *)
(* panic is a state (`panicking`) that unwinds frame by frame, may be      *)
(* recovered by any user code on the way, and otherwise traps the guest.   *)
(***************************************************************************)
EXTENDS Naturals, Sequences

CONSTANTS
    Slugs,        \* non-empty slugs: the functions of a bundle, and the
                  \* keys a host may send
    HookEvents,   \* the hook events of this instance, among the six below
    Methods,      \* non-empty connector-method names
    Fns,          \* handler function values
    Nil,          \* Go's nil / a missing map entry
    MaxCalls      \* bound: SDK calls the guest's init code makes

NoSlug == ""      \* the empty slug: outside any bundle function, no key sent
NoName == ""      \* the empty connector-method name
UnknownEvent == "unknown_event"
AllEvents == {"before_create", "before_update", "before_delete",
              "after_create", "after_update", "after_delete"}

Keys == Slugs \cup {NoSlug}
MethodNames == Methods \cup {NoName}
\* A handler value remembers whose code registered it; the program does not
\* record that, the properties below are about it.
Handlers == [owner: Keys, fn: Fns]
ConnectorMethodHandlers == [name: Methods, fn: Handlers]
HookSlots == [HookEvents -> Handlers \cup {Nil}]

ASSUME SlugAssumption == NoSlug \notin Slugs
ASSUME MethodAssumption == NoName \notin Methods
ASSUME EventAssumption == HookEvents \subseteq AllEvents
ASSUME NilAssumption == Nil \notin Handlers /\ Nil \notin HookSlots
                        /\ Nil \notin ConnectorMethodHandlers
ASSUME FnAssumption == Nil \notin Fns
ASSUME BoundAssumption == MaxCalls \in Nat

VARIABLES
    phase,                      \* "init", "ready" or "trapped"
    frames,                     \* slugs of the WithSlug calls under way
    panicking,                  \* a panic is unwinding the stack
    calls,                      \* SDK calls made by init code so far
    bundleSlug,
    standaloneHooks,
    bundledHooks,
    standaloneAction,
    bundledActions,
    standaloneConnectorMethod,
    bundledConnectorMethods,
    accepted,                   \* history: registrations that returned
    result                      \* what the last export call did

control == <<phase, frames, panicking>>
hooks == <<standaloneHooks, bundledHooks>>
actions == <<standaloneAction, bundledActions>>
connectorMethods == <<standaloneConnectorMethod, bundledConnectorMethods>>
vars == <<control, calls, bundleSlug, hooks, actions, connectorMethods,
          accepted, result>>

EmptyHooks == [e \in HookEvents |-> Nil]
NoResult == [export |-> "none"]

Init ==
    /\ phase = "init"
    /\ frames = <<>>
    /\ panicking = FALSE
    /\ calls = 0
    /\ bundleSlug = NoSlug
    /\ standaloneHooks = EmptyHooks
    /\ bundledHooks = [s \in Slugs |-> Nil]
    /\ standaloneAction = Nil
    /\ bundledActions = [s \in Slugs |-> Nil]
    /\ standaloneConnectorMethod = Nil
    /\ bundledConnectorMethods = [s \in Slugs |-> Nil]
    /\ accepted = {}
    /\ result = NoResult

-----------------------------------------------------------------------------
(* Init code: one function's registration under WithSlug.                  *)

\* The function whose code is executing, NoSlug outside every WithSlug.
CurrentFunction == IF frames = <<>> THEN NoSlug ELSE Head(frames)

\* Init code is executing and makes one more call into the SDK.
Call ==
    /\ phase = "init"
    /\ ~panicking
    /\ calls < MaxCalls
    /\ calls' = calls + 1

\* A call that ends in a panic before it changed anything.
Panics == panicking' = TRUE /\ UNCHANGED <<phase, frames>>

\* Faulty variant: the deferred reset is installed ahead of the checks, so
\* a rejected nested call closes the outer scope.
WithSlugDefersFirst(slug) ==
    /\ Call
    /\ IF slug = NoSlug \/ bundleSlug # NoSlug
       THEN Panics /\ bundleSlug' = NoSlug
       ELSE /\ bundleSlug' = slug
            /\ frames' = <<slug>> \o frames
            /\ UNCHANGED <<phase, panicking>>
    /\ UNCHANGED <<hooks, actions, connectorMethods, accepted, result>>

\* Both checks come before the deferred reset is installed: a WithSlug that
\* panics there leaves bundleSlug to the WithSlug that set it.
WithSlug(slug) ==
    /\ Call
    /\ IF slug = NoSlug \/ bundleSlug # NoSlug
       THEN Panics /\ UNCHANGED bundleSlug
       ELSE /\ bundleSlug' = slug
            /\ frames' = <<slug>> \o frames
            /\ UNCHANGED <<phase, panicking>>
    /\ UNCHANGED <<hooks, actions, connectorMethods, accepted, result>>

\* The deferred function of the innermost WithSlug.
ResetScope == bundleSlug' = NoSlug

\* register() returned.
RegisterReturns ==
    /\ phase = "init"
    /\ ~panicking
    /\ frames # <<>>
    /\ ResetScope
    /\ frames' = Tail(frames)
    /\ UNCHANGED <<phase, panicking, calls, hooks, actions, connectorMethods,
                   accepted, result>>

\* Faulty variant: the reset follows register() instead of being deferred.
UnwindWithoutReset ==
    /\ phase = "init"
    /\ panicking
    /\ frames # <<>>
    /\ frames' = Tail(frames)
    /\ UNCHANGED <<phase, panicking, calls, bundleSlug, hooks, actions,
                   connectorMethods, accepted, result>>

\* register() panicked: the panic leaves the innermost WithSlug, whose
\* deferred reset still runs.
Unwind ==
    /\ phase = "init"
    /\ panicking
    /\ frames # <<>>
    /\ ResetScope
    /\ frames' = Tail(frames)
    /\ UNCHANGED <<phase, panicking, calls, hooks, actions, connectorMethods,
                   accepted, result>>

\* Init code panics for a reason of its own.
UserPanic ==
    /\ Call
    /\ Panics
    /\ UNCHANGED <<bundleSlug, hooks, actions, connectorMethods, accepted, result>>

\* A recover() of the user code at the present depth of the stack.
Recover ==
    /\ phase = "init"
    /\ panicking
    /\ panicking' = FALSE
    /\ UNCHANGED <<phase, frames, calls, bundleSlug, hooks, actions,
                   connectorMethods, accepted, result>>

\* No frame recovered: the instance is lost.
Trap ==
    /\ phase = "init"
    /\ panicking
    /\ frames = <<>>
    /\ phase' = "trapped"
    /\ UNCHANGED <<frames, panicking, calls, bundleSlug, hooks, actions,
                   connectorMethods, accepted, result>>

\* Package init is over; from here the host calls the exports.
InitReturns ==
    /\ phase = "init"
    /\ ~panicking
    /\ frames = <<>>
    /\ phase' = "ready"
    /\ UNCHANGED <<frames, panicking, calls, bundleSlug, hooks, actions,
                   connectorMethods, accepted, result>>

-----------------------------------------------------------------------------
(* Init code: the Register* setters.                                       *)

\* Faulty variant: the setter stores no handler.
NewHandlerNil(fn) == [owner |-> CurrentFunction, fn |-> Nil]

NewHandler(fn) == [owner |-> CurrentFunction, fn |-> fn]

\* The setter returned normally to the function that called it.
Accept(slot, name, fn) ==
    /\ accepted' = accepted \cup
            {[owner |-> CurrentFunction, slot |-> slot, name |-> name, fn |-> fn]}
    /\ UNCHANGED <<phase, frames, panicking>>

\* Faulty variant: a bundle function's entry is created afresh every time.
FreshHooksForRegistration ==
    IF bundleSlug = NoSlug THEN standaloneHooks ELSE EmptyHooks

\* Where the current hook registration lands; a bundle function's entry is
\* created on first use.
hooksForRegistration ==
    IF bundleSlug = NoSlug THEN standaloneHooks
    ELSE IF bundledHooks[bundleSlug] = Nil THEN EmptyHooks
    ELSE bundledHooks[bundleSlug]

StoreHooks(slots) ==
    IF bundleSlug = NoSlug
    THEN standaloneHooks' = slots /\ UNCHANGED bundledHooks
    ELSE /\ bundledHooks' = [bundledHooks EXCEPT ![bundleSlug] = slots]
         /\ UNCHANGED standaloneHooks

\* RegisterBeforeCreate ... RegisterAfterDelete: six setters, one per event.
RegisterHook(event, fn) ==
    /\ Call
    /\ LET slots == hooksForRegistration IN
         IF slots[event] # Nil
         THEN Panics /\ StoreHooks(slots) /\ UNCHANGED accepted
         ELSE /\ StoreHooks([slots EXCEPT ![event] = NewHandler(fn)])
              /\ Accept(event, NoName, fn)
    /\ UNCHANGED <<bundleSlug, actions, connectorMethods, result>>

\* The value a setter checks and fills: the bundle function's entry of a
\* slug-keyed map, the unkeyed slot otherwise.
Selected(unkeyed, keyed) ==
    IF bundleSlug = NoSlug THEN unkeyed ELSE keyed[bundleSlug]

\* Faulty variant: the last registration wins.
RegisterActionReplacing(fn) ==
    /\ Call
    /\ Accept("action", NoName, fn)
    /\ IF bundleSlug # NoSlug
       THEN /\ bundledActions' = [bundledActions EXCEPT ![bundleSlug] = NewHandler(fn)]
            /\ UNCHANGED standaloneAction
       ELSE standaloneAction' = NewHandler(fn) /\ UNCHANGED bundledActions
    /\ UNCHANGED <<bundleSlug, hooks, connectorMethods, result>>

RegisterAction(fn) ==
    /\ Call
    /\ IF Selected(standaloneAction, bundledActions) # Nil
       THEN Panics /\ UNCHANGED <<actions, accepted>>
       ELSE /\ Accept("action", NoName, fn)
            /\ IF bundleSlug # NoSlug
               THEN /\ bundledActions' =
                          [bundledActions EXCEPT ![bundleSlug] = NewHandler(fn)]
                    /\ UNCHANGED standaloneAction
               ELSE /\ standaloneAction' = NewHandler(fn)
                    /\ UNCHANGED bundledActions
    /\ UNCHANGED <<bundleSlug, hooks, connectorMethods, result>>

RegisterConnectorMethod(name, fn) ==
    /\ Call
    /\ IF \/ name = NoName
          \/ Selected(standaloneConnectorMethod, bundledConnectorMethods) # Nil
       THEN Panics /\ UNCHANGED <<connectorMethods, accepted>>
       ELSE LET handler == [name |-> name, fn |-> NewHandler(fn)] IN
            /\ Accept("connector_method", name, fn)
            /\ IF bundleSlug # NoSlug
               THEN /\ bundledConnectorMethods' =
                          [bundledConnectorMethods EXCEPT ![bundleSlug] = handler]
                    /\ UNCHANGED standaloneConnectorMethod
               ELSE /\ standaloneConnectorMethod' = handler
                    /\ UNCHANGED bundledConnectorMethods
    /\ UNCHANGED <<bundleSlug, hooks, actions, result>>

-----------------------------------------------------------------------------
(* Dispatch.  An export reads the registry and changes nothing in it.      *)

\* The entry for a key when there is one, else the unkeyed slot.
Resolve(key, unkeyed, keyed) ==
    IF key = NoSlug THEN unkeyed
    ELSE IF keyed[key] = Nil THEN unkeyed
    ELSE keyed[key]

\* Faulty variant: the fallback is per slot, so code outside the bundle
\* answers for a function that left the event unhandled.
HooksForDispatchPerSlot(hookSlug) ==
    [e \in HookEvents |->
        LET own == Resolve(hookSlug, standaloneHooks, bundledHooks)[e] IN
        IF own = Nil THEN standaloneHooks[e] ELSE own]

\* Hooks are resolved per function, not per slot: a function with an entry
\* and no handler for the event does not fall back.
hooksForDispatch(hookSlug) == Resolve(hookSlug, standaloneHooks, bundledHooks)

Outcome(export, key, slot, method, outcome, ran) ==
    [export |-> export, key |-> key, slot |-> slot, method |-> method,
     outcome |-> outcome, ran |-> ran]

Export ==
    /\ phase = "ready"
    /\ UNCHANGED <<control, calls, bundleSlug, hooks, actions,
                   connectorMethods, accepted>>

RunHook(hook, event) ==
    /\ Export
    /\ result' =
         IF event \notin HookEvents
         THEN Outcome("runHook", hook, event, NoName, "unknown_event", Nil)
         ELSE LET handler == hooksForDispatch(hook)[event] IN
              Outcome("runHook", hook, event, NoName,
                      IF handler = Nil THEN "no_handler" ELSE "ran", handler)

RunAction(action) ==
    /\ Export
    /\ LET handler == Resolve(action, standaloneAction, bundledActions) IN
         result' = Outcome("runAction", action, "action", NoName,
                           IF handler = Nil THEN "no_handler" ELSE "ran", handler)

\* Faulty variant: the method name is not compared with the registered one.
RunConnectorMethodUnchecked(action, method) ==
    /\ Export
    /\ LET handler == Resolve(action, standaloneConnectorMethod,
                              bundledConnectorMethods)
           Ends(outcome, ran) == Outcome("runConnectorMethod", action,
                                   "connector_method", method, outcome, ran)
       IN result' = IF handler = Nil THEN Ends("no_handler", Nil)
                    ELSE Ends("ran", handler.fn)

RunConnectorMethod(action, method) ==
    /\ Export
    /\ LET handler == Resolve(action, standaloneConnectorMethod,
                              bundledConnectorMethods)
           Ends(outcome, ran) == Outcome("runConnectorMethod", action,
                                   "connector_method", method, outcome, ran)
       IN result' = IF handler = Nil THEN Ends("no_handler", Nil)
                    ELSE IF method # handler.name THEN Ends("mis_deployed", Nil)
                    ELSE Ends("ran", handler.fn)

\* The input is not a JSON envelope; the registry is not consulted.
RunUndecodable(export) ==
    /\ Export
    /\ result' = Outcome(export, NoSlug, "none", NoName, "decode_error", Nil)

-----------------------------------------------------------------------------
Exports == {"runHook", "runAction", "runConnectorMethod"}

InitStep ==
    \/ \E slug \in Keys : WithSlug(slug)
    \/ RegisterReturns
    \/ UserPanic
    \/ Unwind
    \/ Recover
    \/ Trap
    \/ InitReturns
    \/ \E event \in HookEvents, fn \in Fns : RegisterHook(event, fn)
    \/ \E fn \in Fns : RegisterAction(fn)
    \/ \E name \in MethodNames, fn \in Fns : RegisterConnectorMethod(name, fn)

HostStep ==
    \/ \E hook \in Keys, event \in HookEvents \cup {UnknownEvent} : RunHook(hook, event)
    \/ \E action \in Keys : RunAction(action)
    \/ \E action \in Keys, method \in MethodNames : RunConnectorMethod(action, method)
    \/ \E export \in Exports : RunUndecodable(export)

Next == InitStep \/ HostStep

Spec == Init /\ [][Next]_vars

\* Go runs package init to its end before any export: init code that can
\* take a step takes one.  The host owes the guest no call.
FairSpec == Spec /\ WF_vars(InitStep)

-----------------------------------------------------------------------------
(* Properties.                                                             *)

Slots == HookEvents \cup {"action", "connector_method"}
Registrations == [owner: Keys, slot: Slots, name: MethodNames, fn: Fns]
Outcomes == {"ran", "no_handler", "unknown_event", "mis_deployed", "decode_error"}
Results == [export: Exports, key: Keys, slot: Slots \cup {UnknownEvent, "none"},
            method: MethodNames, outcome: Outcomes, ran: Handlers \cup {Nil}]

\* Every variable holds a value of its Go type.
TypeOK ==
    /\ phase \in {"init", "ready", "trapped"}
    /\ frames \in Seq(Slugs)
    /\ panicking \in BOOLEAN
    /\ calls \in 0 .. MaxCalls
    /\ bundleSlug \in Keys
    /\ standaloneHooks \in HookSlots
    /\ bundledHooks \in [Slugs -> HookSlots \cup {Nil}]
    /\ standaloneAction \in Handlers \cup {Nil}
    /\ bundledActions \in [Slugs -> Handlers \cup {Nil}]
    /\ standaloneConnectorMethod \in ConnectorMethodHandlers \cup {Nil}
    /\ bundledConnectorMethods \in [Slugs -> ConnectorMethodHandlers \cup {Nil}]
    /\ accepted \subseteq Registrations
    /\ result \in Results \cup {NoResult}

\* bundleSlug names the function whose registration is really executing, at
\* every depth of every panic and recovery: a WithSlug rejected inside
\* another one does not close the outer one's scope, and a scope whose
\* registration panicked does not stay open (dispatch.go:139-149).
ScopeMatchesExecution ==
    /\ bundleSlug = CurrentFunction
    /\ Len(frames) <= 1

\* What a function was told it registered is what its key finds: a dispatch
\* that names the function (or, for a standalone guest, names nothing) and
\* the slot resolves to exactly that handler (dispatch.go:83-96).
AcceptedIsReachable ==
    \A r \in accepted :
        LET handler == [owner |-> r.owner, fn |-> r.fn] IN
        /\ r.slot \in HookEvents => hooksForDispatch(r.owner)[r.slot] = handler
        /\ r.slot = "action" =>
             Resolve(r.owner, standaloneAction, bundledActions) = handler
        /\ r.slot = "connector_method" =>
             Resolve(r.owner, standaloneConnectorMethod, bundledConnectorMethods)
               = [name |-> r.name, fn |-> handler]

\* The slots a dispatch through slot is resolved among.
Family(slot) == IF slot \in HookEvents THEN HookEvents ELSE {slot}

\* A handler that ran belongs to the function the envelope named; code
\* outside the bundle functions runs only for a key under which no bundle
\* function registered anything of the kind (dispatch.go:165-175, 323-328,
\* 420-425; "a bundle must never fall back to a sibling",
\* dispatch_bundle_test.go:44).
NeverRunsSibling ==
    (result # NoResult /\ result.ran # Nil) =>
        \/ result.ran.owner = result.key
        \/ /\ result.ran.owner = NoSlug
           /\ \A r \in accepted : r.owner = result.key => r.slot \notin Family(result.slot)

\* Nothing is ever replaced or taken out of the registry, by an accepted
\* registration of another function or a rejected one of the same
\* (dispatch.go:194-259, 393-409).
Kept(old, new) == old = Nil \/ new = old
WriteOnce ==
    [][/\ \A e \in HookEvents : Kept(standaloneHooks[e], standaloneHooks'[e])
       /\ \A s \in Slugs :
            /\ bundledHooks[s] # Nil =>
                 /\ bundledHooks'[s] # Nil
                 /\ \A e \in HookEvents : Kept(bundledHooks[s][e], bundledHooks'[s][e])
            /\ Kept(bundledActions[s], bundledActions'[s])
            /\ Kept(bundledConnectorMethods[s], bundledConnectorMethods'[s])
       /\ Kept(standaloneAction, standaloneAction')
       /\ Kept(standaloneConnectorMethod, standaloneConnectorMethod')]_vars

\* The registry implements the routing table of RoutingTable: the function
\* registering comes from the call stack, never from bundleSlug, and a
\* dispatch answers from the registrations that were accepted, never from
\* the six variables that hold them (dispatch.go:77-96).
Table == INSTANCE RoutingTable WITH current <- CurrentFunction
ImplementsTable == Table!Spec

\* However a function's registration ends, by returning or by a panic
\* recovered anywhere or nowhere, its scope is closed (dispatch.go:147).
ScopeReleased == \A s \in Slugs : bundleSlug = s ~> bundleSlug = NoSlug

-----------------------------------------------------------------------------
(* The inductive invariant: the six variables of the registry hold exactly *)
(* the accepted registrations, each under the function that asked for it.  *)

HeldHook(owner, event) ==
    IF owner = NoSlug THEN standaloneHooks[event]
    ELSE IF bundledHooks[owner] = Nil THEN Nil
    ELSE bundledHooks[owner][event]

Held(owner, unkeyed, keyed) == IF owner = NoSlug THEN unkeyed ELSE keyed[owner]
HeldAction(owner) == Held(owner, standaloneAction, bundledActions)
HeldMethod(owner) ==
    Held(owner, standaloneConnectorMethod, bundledConnectorMethods)

HandlerOf(r) == [owner |-> r.owner, fn |-> r.fn]
IsAccepted(owner, slot) == \E r \in accepted : r.owner = owner /\ r.slot = slot

HooksRecorded ==
    /\ \A r \in accepted : r.slot \in HookEvents =>
         r.name = NoName /\ HeldHook(r.owner, r.slot) = HandlerOf(r)
    /\ \A o \in Keys, e \in HookEvents : HeldHook(o, e) # Nil => IsAccepted(o, e)

\* hooksForRegistration leaves no entry behind without a handler in it.
EntriesInUse ==
    \A s \in Slugs : bundledHooks[s] # Nil =>
        \E e \in HookEvents : bundledHooks[s][e] # Nil

ActionsRecorded ==
    /\ \A r \in accepted : r.slot = "action" =>
         r.name = NoName /\ HeldAction(r.owner) = HandlerOf(r)
    /\ \A o \in Keys : HeldAction(o) # Nil => IsAccepted(o, "action")

MethodsRecorded ==
    /\ \A r \in accepted : r.slot = "connector_method" =>
         /\ r.name \in Methods
         /\ HeldMethod(r.owner) = [name |-> r.name, fn |-> HandlerOf(r)]
    /\ \A o \in Keys : HeldMethod(o) # Nil => IsAccepted(o, "connector_method")

NoDispatchDuringInit == phase # "ready" => result = NoResult

Recorded == HooksRecorded /\ EntriesInUse /\ ActionsRecorded /\ MethodsRecorded

IInv == TypeOK /\ ScopeMatchesExecution /\ Recorded /\ NoDispatchDuringInit
=============================================================================
