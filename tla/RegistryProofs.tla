--------------------------- MODULE RegistryProofs ---------------------------
(***************************************************************************)
(* What TLAPS proves of Registry for every set of slugs, hook events,      *)
(* method names and handler values and every bound on init's calls.        *)
(***************************************************************************)
EXTENDS Registry, TLAPS

USE SlugAssumption, MethodAssumption, EventAssumption, NilAssumption,
    FnAssumption, BoundAssumption

-----------------------------------------------------------------------------
(* Type correctness.                                                       *)

\* The stack holds slugs, so the function executing is a key.
LEMMA CurrentFunctionIsKey == TypeOK => CurrentFunction \in Keys
  BY DEF TypeOK, CurrentFunction, Keys

\* What a setter stores is a handler.
LEMMA NewHandlerIsHandler ==
    ASSUME TypeOK, NEW fn \in Fns
    PROVE  NewHandler(fn) \in Handlers /\ NewHandler(fn) # Nil
  BY CurrentFunctionIsKey DEF NewHandler, Handlers

\* A lookup finds what the unkeyed slot or some entry holds.
LEMMA ResolveFinds ==
    ASSUME NEW S, NEW unkeyed \in S \cup {Nil},
           NEW keyed \in [Slugs -> S \cup {Nil}], NEW key \in Keys
    PROVE  Resolve(key, unkeyed, keyed) \in S \cup {Nil}
  BY DEF Resolve, Keys

\* The initial values have their types.
LEMMA TypeInit == Init => TypeOK
  <1> SUFFICES ASSUME Init PROVE TypeOK
    OBVIOUS
  <1>1. frames \in Seq(Slugs)
    BY DEF Init
  <1>2. standaloneHooks \in HookSlots
    BY DEF Init, EmptyHooks, HookSlots
  <1>3. calls \in 0 .. MaxCalls
    BY DEF Init
  <1> QED
    BY <1>1, <1>2, <1>3 DEF Init, TypeOK, Keys

\* Every action keeps them.
LEMMA TypeStep == TypeOK /\ [Next]_vars => TypeOK'
  <1> SUFFICES ASSUME TypeOK, [Next]_vars PROVE TypeOK'
    OBVIOUS
  <1> USE DEF control, hooks, actions, connectorMethods
  <1>1. ASSUME NEW slug \in Keys, WithSlug(slug) PROVE TypeOK'
    <2>1. slug # NoSlug => slug \in Slugs
      BY DEF Keys
    <2>2. calls' \in 0 .. MaxCalls
      BY <1>1 DEF TypeOK, WithSlug, Call
    <2>3. slug # NoSlug => <<slug>> \o frames \in Seq(Slugs)
      BY <2>1 DEF TypeOK
    <2>4. frames' \in Seq(Slugs) /\ bundleSlug' \in Keys
      BY <1>1, <2>3 DEF TypeOK, WithSlug, Panics
    <2>5. phase' = phase /\ panicking' \in BOOLEAN
      BY <1>1 DEF TypeOK, WithSlug, Panics
    <2> QED
      BY <1>1, <2>2, <2>4, <2>5 DEF TypeOK, WithSlug
  <1>2. CASE RegisterReturns
    BY <1>2 DEF TypeOK, RegisterReturns, ResetScope, Keys
  <1>3. CASE UserPanic
    BY <1>3 DEF TypeOK, UserPanic, Call, Panics
  <1>4. CASE Unwind
    BY <1>4 DEF TypeOK, Unwind, ResetScope, Keys
  <1>5. CASE Recover
    BY <1>5 DEF TypeOK, Recover
  <1>6. CASE Trap
    BY <1>6 DEF TypeOK, Trap
  <1>7. CASE InitReturns
    BY <1>7 DEF TypeOK, InitReturns
  <1>8. ASSUME NEW event \in HookEvents, NEW fn \in Fns, RegisterHook(event, fn)
        PROVE  TypeOK'
    <2>1. hooksForRegistration \in HookSlots
      BY DEF TypeOK, hooksForRegistration, EmptyHooks, HookSlots, Keys
    <2>2. [hooksForRegistration EXCEPT ![event] = NewHandler(fn)] \in HookSlots
      BY <2>1, NewHandlerIsHandler DEF HookSlots
    <2>3. ASSUME NEW slots \in HookSlots, StoreHooks(slots)
          PROVE  /\ standaloneHooks' \in HookSlots
                 /\ bundledHooks' \in [Slugs -> HookSlots \cup {Nil}]
      BY <2>3 DEF TypeOK, StoreHooks, Keys
    <2>4. /\ standaloneHooks' \in HookSlots
          /\ bundledHooks' \in [Slugs -> HookSlots \cup {Nil}]
      BY <1>8, <2>1, <2>2, <2>3 DEF RegisterHook
    <2>5. accepted' \subseteq Registrations
      BY <1>8, CurrentFunctionIsKey
         DEF TypeOK, RegisterHook, Accept, Registrations, Slots, MethodNames
    <2>6. calls' \in 0 .. MaxCalls
      BY <1>8 DEF TypeOK, RegisterHook, Call
    <2>0. phase' = phase /\ frames' = frames /\ panicking' \in BOOLEAN
      BY <1>8 DEF TypeOK, RegisterHook, Panics, Accept
    <2>7. UNCHANGED <<bundleSlug, actions, connectorMethods, result>>
      BY <1>8 DEF RegisterHook
    <2> QED
      BY <2>0, <2>4, <2>5, <2>6, <2>7 DEF TypeOK
  <1>9. ASSUME NEW fn \in Fns, RegisterAction(fn) PROVE TypeOK'
    <2>1. accepted' \subseteq Registrations
      BY <1>9, CurrentFunctionIsKey
         DEF TypeOK, RegisterAction, Accept, Registrations, Slots, MethodNames
    <2>2. /\ standaloneAction' \in Handlers \cup {Nil}
          /\ bundledActions' \in [Slugs -> Handlers \cup {Nil}]
      BY <1>9, NewHandlerIsHandler DEF TypeOK, RegisterAction
    <2>3. calls' \in 0 .. MaxCalls
      BY <1>9 DEF TypeOK, RegisterAction, Call
    <2>0. phase' = phase /\ frames' = frames /\ panicking' \in BOOLEAN
      BY <1>9 DEF TypeOK, RegisterAction, Panics, Accept
    <2>4. UNCHANGED <<bundleSlug, hooks, connectorMethods, result>>
      BY <1>9 DEF RegisterAction
    <2> QED
      BY <2>0, <2>1, <2>2, <2>3, <2>4 DEF TypeOK
  <1>10. ASSUME NEW name \in MethodNames, NEW fn \in Fns,
                RegisterConnectorMethod(name, fn)
         PROVE  TypeOK'
    <2>1. accepted' \subseteq Registrations
      BY <1>10, CurrentFunctionIsKey
         DEF TypeOK, RegisterConnectorMethod, Accept, Registrations, Slots
    <2>2. name # NoName =>
            [name |-> name, fn |-> NewHandler(fn)] \in ConnectorMethodHandlers
      BY NewHandlerIsHandler DEF ConnectorMethodHandlers, MethodNames
    <2>3. /\ standaloneConnectorMethod' \in ConnectorMethodHandlers \cup {Nil}
          /\ bundledConnectorMethods' \in
               [Slugs -> ConnectorMethodHandlers \cup {Nil}]
      BY <1>10, <2>2 DEF TypeOK, RegisterConnectorMethod
    <2>4. calls' \in 0 .. MaxCalls
      BY <1>10 DEF TypeOK, RegisterConnectorMethod, Call
    <2>0. phase' = phase /\ frames' = frames /\ panicking' \in BOOLEAN
      BY <1>10 DEF TypeOK, RegisterConnectorMethod, Panics, Accept
    <2>5. UNCHANGED <<bundleSlug, hooks, actions, result>>
      BY <1>10 DEF RegisterConnectorMethod
    <2> QED
      BY <2>0, <2>1, <2>3, <2>4, <2>5 DEF TypeOK
  <1> DEFINE Untouched == UNCHANGED <<control, calls, bundleSlug, hooks, actions,
                                      connectorMethods, accepted>>
  <1>11. ASSUME Untouched, result' \in Results PROVE TypeOK'
    BY <1>11 DEF TypeOK
  <1>12. ASSUME NEW hook \in Keys, NEW event \in HookEvents \cup {UnknownEvent},
                RunHook(hook, event)
         PROVE  TypeOK'
    <2>1. hooksForDispatch(hook) \in HookSlots
      BY ResolveFinds DEF TypeOK, hooksForDispatch, Resolve, Keys
    <2>2. event \in HookEvents => hooksForDispatch(hook)[event] \in Handlers \cup {Nil}
      BY <2>1 DEF HookSlots
    <2>3. result' \in Results
      BY <1>12, <2>2 DEF RunHook, Outcome, Results, Outcomes, Exports, Slots, MethodNames
    <2> QED
      BY <1>12, <2>3, <1>11 DEF RunHook, Export
  <1>13. ASSUME NEW action \in Keys, RunAction(action) PROVE TypeOK'
    <2>1. Resolve(action, standaloneAction, bundledActions) \in Handlers \cup {Nil}
      BY ResolveFinds DEF TypeOK
    <2>2. result' \in Results
      BY <1>13, <2>1 DEF RunAction, Outcome, Results, Outcomes, Exports, Slots, MethodNames
    <2> QED
      BY <1>13, <2>2, <1>11 DEF RunAction, Export
  <1>14. ASSUME NEW action \in Keys, NEW method \in MethodNames,
                RunConnectorMethod(action, method)
         PROVE  TypeOK'
    <2> DEFINE handler == Resolve(action, standaloneConnectorMethod,
                                  bundledConnectorMethods)
    <2>1. handler \in ConnectorMethodHandlers \cup {Nil}
      BY ResolveFinds DEF TypeOK
    <2>2. handler # Nil => handler.fn \in Handlers
      BY <2>1 DEF ConnectorMethodHandlers
    <2>3. result' \in Results
      BY <1>14, <2>2
         DEF RunConnectorMethod, Outcome, Results, Outcomes, Exports, Slots, MethodNames
    <2> QED
      BY <1>14, <2>3, <1>11 DEF RunConnectorMethod, Export
  <1>15. ASSUME NEW export \in Exports, RunUndecodable(export) PROVE TypeOK'
    <2>1. result' \in Results
      BY <1>15 DEF RunUndecodable, Outcome, Results, Outcomes, Keys, MethodNames
    <2> QED
      BY <1>15, <2>1, <1>11 DEF RunUndecodable, Export
  <1>16. CASE UNCHANGED vars
    BY <1>16 DEF TypeOK, vars
  <1> QED
    BY <1>1, <1>2, <1>3, <1>4, <1>5, <1>6, <1>7, <1>8, <1>9, <1>10, <1>12,
       <1>13, <1>14, <1>15, <1>16 DEF Next, InitStep, HostStep

\* Every variable holds a value of its Go type.
THEOREM TypeCorrect == Spec => []TypeOK
  <1> QED
    BY TypeInit, TypeStep, PTL DEF Spec

-----------------------------------------------------------------------------
(* The scope: bundleSlug and the function really executing.                *)

\* A function's scope opens, closes and survives every panic with the frame
\* of the WithSlug that set it.
LEMMA ScopeStep ==
    TypeOK /\ ScopeMatchesExecution /\ [Next]_vars => ScopeMatchesExecution'
  <1> SUFFICES ASSUME TypeOK, ScopeMatchesExecution, [Next]_vars
               PROVE  ScopeMatchesExecution'
    OBVIOUS
  <1> USE DEF control
  <1>1. frames \in Seq(Slugs) /\ Len(frames) <= 1
    BY DEF TypeOK, ScopeMatchesExecution
  <1>2. bundleSlug = NoSlug <=> frames = <<>>
    BY <1>1 DEF ScopeMatchesExecution, CurrentFunction
  <1>3. ASSUME frames' = frames, bundleSlug' = bundleSlug
        PROVE  ScopeMatchesExecution'
    BY <1>3 DEF ScopeMatchesExecution, CurrentFunction
  <1>4. ASSUME NEW slug \in Keys, WithSlug(slug) PROVE ScopeMatchesExecution'
    <2>1. CASE slug = NoSlug \/ bundleSlug # NoSlug
      BY <1>4, <2>1, <1>3 DEF WithSlug, Panics
    <2>2. CASE slug # NoSlug /\ bundleSlug = NoSlug
      <3>1. frames = <<>> /\ slug \in Slugs
        BY <2>2, <1>2 DEF Keys
      <3>2. frames' = <<slug>> /\ bundleSlug' = slug
        BY <1>4, <2>2, <3>1 DEF WithSlug
      <3> QED
        BY <3>2 DEF ScopeMatchesExecution, CurrentFunction
    <2> QED
      BY <2>1, <2>2
  <1>5. ASSUME frames # <<>>, frames' = Tail(frames), ResetScope
        PROVE  ScopeMatchesExecution'
    <2>1. frames' = <<>>
      BY <1>1, <1>5
    <2> QED
      BY <2>1, <1>5 DEF ScopeMatchesExecution, CurrentFunction, ResetScope
  <1>6. CASE RegisterReturns
    BY <1>6, <1>5 DEF RegisterReturns
  <1>7. CASE Unwind
    BY <1>7, <1>5 DEF Unwind
  <1>8. CASE UserPanic \/ Recover \/ Trap \/ InitReturns
    BY <1>8, <1>3 DEF UserPanic, Panics, Recover, Trap, InitReturns
  <1>9. ASSUME NEW event \in HookEvents, NEW fn \in Fns, RegisterHook(event, fn)
        PROVE  ScopeMatchesExecution'
    BY <1>9, <1>3 DEF RegisterHook, Panics, Accept
  <1>10. ASSUME NEW fn \in Fns, RegisterAction(fn) PROVE ScopeMatchesExecution'
    BY <1>10, <1>3 DEF RegisterAction, Panics, Accept
  <1>11. ASSUME NEW name \in MethodNames, NEW fn \in Fns,
                RegisterConnectorMethod(name, fn)
         PROVE  ScopeMatchesExecution'
    BY <1>11, <1>3 DEF RegisterConnectorMethod, Panics, Accept
  <1>12. ASSUME Export PROVE ScopeMatchesExecution'
    BY <1>12, <1>3 DEF Export
  <1>13. CASE HostStep
    BY <1>13, <1>12
       DEF HostStep, RunHook, RunAction, RunConnectorMethod, RunUndecodable
  <1>14. CASE UNCHANGED vars
    BY <1>14, <1>3 DEF vars
  <1> QED
    BY <1>4, <1>6, <1>7, <1>8, <1>9, <1>10, <1>11, <1>13, <1>14
       DEF Next, InitStep

\* bundleSlug names the function whose registration is executing, through
\* every nesting, panic and recovery (dispatch.go:139-149).
THEOREM ScopeCorrect == Spec => []ScopeMatchesExecution
  <1>1. Init => ScopeMatchesExecution
    BY DEF Init, ScopeMatchesExecution, CurrentFunction
  <1> QED
    BY <1>1, TypeInit, TypeStep, ScopeStep, PTL DEF Spec

-----------------------------------------------------------------------------
(* The record: the registry's variables hold the accepted registrations.   *)

\* The slots a hook setter works on are those held for bundleSlug.
LEMMA HooksForRegistrationHeld ==
    ASSUME TypeOK, NEW e \in HookEvents
    PROVE  hooksForRegistration[e] = HeldHook(bundleSlug, e)
  BY DEF TypeOK, hooksForRegistration, HeldHook, EmptyHooks, Keys

\* Storing slots changes what is held for bundleSlug and for no one else.
LEMMA StoreHooksHeld ==
    ASSUME TypeOK, NEW slots \in HookSlots, StoreHooks(slots),
           NEW o \in Keys, NEW e \in HookEvents
    PROVE  HeldHook(o, e)' = IF o = bundleSlug THEN slots[e] ELSE HeldHook(o, e)
  <1>1. CASE bundleSlug = NoSlug
    BY <1>1 DEF TypeOK, StoreHooks, HeldHook, Keys
  <1>2. CASE bundleSlug # NoSlug
    <2>1. bundleSlug \in Slugs
      BY <1>2 DEF TypeOK, Keys
    <2>2. /\ bundledHooks' = [bundledHooks EXCEPT ![bundleSlug] = slots]
          /\ standaloneHooks' = standaloneHooks
      BY <1>2 DEF StoreHooks
    <2>3. bundledHooks'[bundleSlug] = slots /\ slots # Nil
      BY <2>1, <2>2 DEF TypeOK
    <2>4. o # bundleSlug /\ o # NoSlug => bundledHooks'[o] = bundledHooks[o]
      BY <2>2 DEF TypeOK, Keys
    <2> QED
      BY <1>2, <2>2, <2>3, <2>4 DEF HeldHook
  <1> QED
    BY <1>1, <1>2

\* What was accepted names a handler.
LEMMA AcceptedIsHandler ==
    ASSUME TypeOK, NEW r \in accepted
    PROVE  /\ r \in Registrations
           /\ HandlerOf(r) \in Handlers
           /\ HandlerOf(r) # Nil
  BY DEF TypeOK, Registrations, HandlerOf, Handlers

\* A hook setter files what it accepts under the function that called it,
\* and a rejected one changes nothing.
LEMMA RegisterHookRecorded ==
    ASSUME IInv, NEW event \in HookEvents, NEW fn \in Fns, RegisterHook(event, fn)
    PROVE  Recorded'
  <1> DEFINE slots == hooksForRegistration
             new == [slots EXCEPT ![event] = NewHandler(fn)]
  <1>1. TypeOK /\ bundleSlug = CurrentFunction /\ Recorded
    BY DEF IInv, ScopeMatchesExecution
  <1>2. bundleSlug \in Keys /\ slots \in HookSlots /\ new \in HookSlots
    <2>1. slots \in HookSlots
      BY <1>1 DEF TypeOK, hooksForRegistration, EmptyHooks, HookSlots, Keys
    <2> QED
      BY <1>1, <2>1, NewHandlerIsHandler DEF TypeOK, HookSlots
  <1>3. \A e \in HookEvents : slots[e] = HeldHook(bundleSlug, e)
    BY <1>1, HooksForRegistrationHeld
  <1>4. UNCHANGED <<actions, connectorMethods>>
    BY DEF RegisterHook
  <1>5. event # "action" /\ event # "connector_method"
    BY DEF AllEvents
  <1>6. CASE slots[event] # Nil
    <2>1. StoreHooks(slots) /\ accepted' = accepted
      BY <1>6 DEF RegisterHook
    <2>2. \A o \in Keys, e \in HookEvents : HeldHook(o, e)' = HeldHook(o, e)
      BY <1>1, <1>2, <1>3, <2>1, StoreHooksHeld
    <2>3. HooksRecorded'
      BY <1>1, <2>1, <2>2
         DEF Recorded, HooksRecorded, IsAccepted, HandlerOf, TypeOK, Registrations
    <2>4. EntriesInUse'
      BY <1>1, <1>6, <2>1 DEF Recorded, EntriesInUse, StoreHooks, TypeOK
    <2>5. ActionsRecorded' /\ MethodsRecorded'
      BY <1>1, <1>4, <2>1
         DEF Recorded, ActionsRecorded, MethodsRecorded, IsAccepted, HandlerOf,
             HeldAction, HeldMethod, Held, actions, connectorMethods
    <2> QED
      BY <2>3, <2>4, <2>5 DEF Recorded
  <1>7. CASE slots[event] = Nil
    <2> DEFINE r == [owner |-> bundleSlug, slot |-> event, name |-> NoName, fn |-> fn]
    <2>1. StoreHooks(new) /\ accepted' = accepted \cup {r}
      BY <1>1, <1>7 DEF RegisterHook, Accept
    <2>2. new[event] = [owner |-> bundleSlug, fn |-> fn] /\ new[event] # Nil
      BY <1>1, <1>2, NewHandlerIsHandler DEF NewHandler, HookSlots
    <2>3. \A e \in HookEvents : e # event => new[e] = HeldHook(bundleSlug, e)
      BY <1>2, <1>3 DEF HookSlots
    <2>4. \A o \in Keys, e \in HookEvents :
            HeldHook(o, e)' = IF o = bundleSlug /\ e = event THEN HandlerOf(r)
                              ELSE HeldHook(o, e)
      BY <1>1, <1>2, <2>1, <2>2, <2>3, StoreHooksHeld DEF HandlerOf
    <2>5. \A x \in accepted : ~(x.owner = bundleSlug /\ x.slot = event)
      BY <1>1, <1>3, <1>7, AcceptedIsHandler DEF Recorded, HooksRecorded
    <2>6. HooksRecorded'
      <3>1. ASSUME NEW x \in accepted', x.slot \in HookEvents
            PROVE  x.name = NoName /\ HeldHook(x.owner, x.slot)' = HandlerOf(x)
        <4>1. CASE x = r
          BY <4>1, <2>4, <1>2
        <4>2. CASE x \in accepted
          BY <4>2, <3>1, <2>4, <2>5, <1>1
             DEF Recorded, HooksRecorded, TypeOK, Registrations
        <4> QED
          BY <2>1, <4>1, <4>2
      <3>2. ASSUME NEW o \in Keys, NEW e \in HookEvents, HeldHook(o, e)' # Nil
            PROVE  IsAccepted(o, e)'
        <4>1. CASE o = bundleSlug /\ e = event
          <5>1. r \in accepted' /\ r.owner = o /\ r.slot = e
            BY <4>1, <2>1
          <5> HIDE DEF r
          <5> QED
            BY <5>1 DEF IsAccepted
        <4>2. CASE ~(o = bundleSlug /\ e = event)
          <5>1. HeldHook(o, e) # Nil
            BY <4>2, <3>2, <2>4
          <5>2. IsAccepted(o, e)
            BY <5>1, <1>1 DEF Recorded, HooksRecorded
          <5> QED
            BY <5>2, <2>1 DEF IsAccepted
        <4> QED
          BY <4>1, <4>2
      <3> QED
        BY <3>1, <3>2 DEF HooksRecorded, HandlerOf
    <2>7. EntriesInUse'
      BY <1>1, <2>1, <2>2 DEF Recorded, EntriesInUse, StoreHooks, TypeOK
    <2>8. ActionsRecorded' /\ MethodsRecorded'
      BY <1>1, <1>4, <1>5, <2>1
         DEF Recorded, ActionsRecorded, MethodsRecorded, IsAccepted, HandlerOf,
             HeldAction, HeldMethod, Held, actions, connectorMethods
    <2> QED
      BY <2>6, <2>7, <2>8 DEF Recorded
  <1> QED
    BY <1>6, <1>7

\* So does the action setter.
LEMMA RegisterActionRecorded ==
    ASSUME IInv, NEW fn \in Fns, RegisterAction(fn)
    PROVE  Recorded'
  <1>1. TypeOK /\ bundleSlug = CurrentFunction /\ bundleSlug \in Keys /\ Recorded
    BY DEF IInv, ScopeMatchesExecution, TypeOK
  <1>2. UNCHANGED <<hooks, connectorMethods>>
    BY DEF RegisterAction
  <1>3. CASE HeldAction(bundleSlug) # Nil
    <2>1. UNCHANGED <<actions, accepted>>
      BY <1>3 DEF RegisterAction, Selected, HeldAction, Held
    <2> QED
      BY <1>1, <1>2, <2>1
         DEF Recorded, HooksRecorded, EntriesInUse, ActionsRecorded, MethodsRecorded,
             IsAccepted, HandlerOf, HeldHook, HeldAction, HeldMethod, Held, hooks,
             actions, connectorMethods
  <1>4. CASE HeldAction(bundleSlug) = Nil
    <2> DEFINE r == [owner |-> bundleSlug, slot |-> "action", name |-> NoName, fn |-> fn]
    <2>1. accepted' = accepted \cup {r}
      BY <1>1, <1>4 DEF RegisterAction, Selected, HeldAction, Held, Accept
    <2>2. HandlerOf(r) = NewHandler(fn) /\ HandlerOf(r) # Nil
      BY <1>1, NewHandlerIsHandler DEF HandlerOf, NewHandler
    <2>3. \A o \in Keys :
            HeldAction(o)' = IF o = bundleSlug THEN HandlerOf(r) ELSE HeldAction(o)
      <3>1. CASE bundleSlug = NoSlug
        BY <1>1, <1>4, <2>2, <3>1
           DEF RegisterAction, Selected, HeldAction, Held, TypeOK, Keys
      <3>2. CASE bundleSlug # NoSlug
        BY <1>1, <1>4, <2>2, <3>2
           DEF RegisterAction, Selected, HeldAction, Held, TypeOK, Keys
      <3> QED
        BY <3>1, <3>2
    <2>4. \A x \in accepted : ~(x.owner = bundleSlug /\ x.slot = "action")
      BY <1>1, <1>4, AcceptedIsHandler DEF Recorded, ActionsRecorded
    <2>5. ActionsRecorded'
      <3>1. ASSUME NEW x \in accepted', x.slot = "action"
            PROVE  x.name = NoName /\ HeldAction(x.owner)' = HandlerOf(x)
        <4>1. CASE x = r
          BY <4>1, <2>3, <1>1
        <4>2. CASE x \in accepted
          BY <4>2, <3>1, <2>3, <2>4, <1>1
             DEF Recorded, ActionsRecorded, TypeOK, Registrations
        <4> QED
          BY <2>1, <4>1, <4>2
      <3>2. ASSUME NEW o \in Keys, HeldAction(o)' # Nil PROVE IsAccepted(o, "action")'
        BY <3>2, <2>1, <2>3, <1>1 DEF IsAccepted, Recorded, ActionsRecorded
      <3> QED
        BY <3>1, <3>2 DEF ActionsRecorded, HandlerOf
    <2>6. HooksRecorded' /\ EntriesInUse' /\ MethodsRecorded'
      BY <1>1, <1>2, <2>1
         DEF Recorded, HooksRecorded, EntriesInUse, MethodsRecorded, IsAccepted,
             HandlerOf, HeldHook, HeldMethod, Held, hooks, connectorMethods, AllEvents
    <2> QED
      BY <2>5, <2>6 DEF Recorded
  <1> QED
    BY <1>3, <1>4

\* So does the connector-method setter, with the name it was given.
LEMMA RegisterConnectorMethodRecorded ==
    ASSUME IInv, NEW name \in MethodNames, NEW fn \in Fns,
           RegisterConnectorMethod(name, fn)
    PROVE  Recorded'
  <1>1. TypeOK /\ bundleSlug = CurrentFunction /\ bundleSlug \in Keys /\ Recorded
    BY DEF IInv, ScopeMatchesExecution, TypeOK
  <1>2. UNCHANGED <<hooks, actions>>
    BY DEF RegisterConnectorMethod
  <1>3. CASE name = NoName \/ HeldMethod(bundleSlug) # Nil
    <2>1. UNCHANGED <<connectorMethods, accepted>>
      BY <1>3 DEF RegisterConnectorMethod, Selected, HeldMethod, Held
    <2> QED
      BY <1>1, <1>2, <2>1
         DEF Recorded, HooksRecorded, EntriesInUse, ActionsRecorded, MethodsRecorded,
             IsAccepted, HandlerOf, HeldHook, HeldAction, HeldMethod, Held, hooks,
             actions, connectorMethods
  <1>4. CASE name # NoName /\ HeldMethod(bundleSlug) = Nil
    <2> DEFINE r == [owner |-> bundleSlug, slot |-> "connector_method",
                     name |-> name, fn |-> fn]
               handler == [name |-> name, fn |-> NewHandler(fn)]
    <2>1. accepted' = accepted \cup {r}
      BY <1>1, <1>4 DEF RegisterConnectorMethod, Selected, HeldMethod, Held, Accept
    <2>2. HandlerOf(r) = NewHandler(fn)
      BY <1>1 DEF HandlerOf, NewHandler
    <2>3. \A o \in Keys :
            HeldMethod(o)' = IF o = bundleSlug THEN handler ELSE HeldMethod(o)
      <3>1. CASE bundleSlug = NoSlug
        BY <1>1, <1>4, <3>1
           DEF RegisterConnectorMethod, Selected, HeldMethod, Held, TypeOK, Keys
      <3>2. CASE bundleSlug # NoSlug
        BY <1>1, <1>4, <3>2
           DEF RegisterConnectorMethod, Selected, HeldMethod, Held, TypeOK, Keys
      <3> QED
        BY <3>1, <3>2
    <2>4. \A x \in accepted : ~(x.owner = bundleSlug /\ x.slot = "connector_method")
      <3> SUFFICES ASSUME NEW x \in accepted, x.owner = bundleSlug,
                          x.slot = "connector_method"
                   PROVE  FALSE
        OBVIOUS
      <3>1. /\ HeldMethod(bundleSlug) = [name |-> x.name, fn |-> HandlerOf(x)]
            /\ x.name \in Methods
            /\ HandlerOf(x) \in Handlers
        BY <1>1, AcceptedIsHandler DEF Recorded, MethodsRecorded
      <3>2. HeldMethod(bundleSlug) \in ConnectorMethodHandlers
        BY <3>1 DEF ConnectorMethodHandlers
      <3> QED
        BY <3>2, <1>4
    <2>5. MethodsRecorded'
      <3>1. ASSUME NEW x \in accepted', x.slot = "connector_method"
            PROVE  /\ x.name \in Methods
                   /\ HeldMethod(x.owner)' = [name |-> x.name, fn |-> HandlerOf(x)]
        <4>1. CASE x = r
          BY <4>1, <2>2, <2>3, <1>1, <1>4 DEF MethodNames
        <4>2. CASE x \in accepted
          BY <4>2, <3>1, <2>3, <2>4, <1>1
             DEF Recorded, MethodsRecorded, TypeOK, Registrations
        <4> QED
          BY <2>1, <4>1, <4>2
      <3>2. ASSUME NEW o \in Keys, HeldMethod(o)' # Nil
            PROVE  IsAccepted(o, "connector_method")'
        <4>1. CASE o = bundleSlug
          <5>1. r \in accepted' /\ r.owner = o /\ r.slot = "connector_method"
            BY <4>1, <2>1
          <5> HIDE DEF r
          <5> QED
            BY <5>1 DEF IsAccepted
        <4>2. CASE o # bundleSlug
          <5>1. HeldMethod(o) # Nil
            BY <4>2, <3>2, <2>3
          <5>2. IsAccepted(o, "connector_method")
            BY <5>1, <1>1 DEF Recorded, MethodsRecorded
          <5> QED
            BY <5>2, <2>1 DEF IsAccepted
        <4> QED
          BY <4>1, <4>2
      <3> QED
        BY <3>1, <3>2 DEF MethodsRecorded, HandlerOf
    <2>6. HooksRecorded' /\ EntriesInUse' /\ ActionsRecorded'
      BY <1>1, <1>2, <2>1
         DEF Recorded, HooksRecorded, EntriesInUse, ActionsRecorded, IsAccepted,
             HandlerOf, HeldHook, HeldAction, Held, hooks, actions, AllEvents
    <2> QED
      BY <2>5, <2>6 DEF Recorded
  <1> QED
    BY <1>3, <1>4

\* Nothing is registered before init runs.
LEMMA RecordInit == Init => Recorded /\ NoDispatchDuringInit
  BY DEF Init, Recorded, HooksRecorded, EntriesInUse, ActionsRecorded,
         MethodsRecorded, NoDispatchDuringInit, HeldHook, HeldAction, HeldMethod,
         Held, EmptyHooks, Keys

\* Every action keeps the registry and the record of it together.
LEMMA RecordStep == IInv /\ [Next]_vars => Recorded' /\ NoDispatchDuringInit'
  <1> SUFFICES ASSUME IInv, [Next]_vars PROVE Recorded' /\ NoDispatchDuringInit'
    OBVIOUS
  <1> USE DEF control
  <1>1. ASSUME UNCHANGED <<hooks, actions, connectorMethods, accepted>>
        PROVE  Recorded'
    BY <1>1
       DEF IInv, Recorded, HooksRecorded, EntriesInUse, ActionsRecorded,
           MethodsRecorded, IsAccepted, HandlerOf, HeldHook, HeldAction, HeldMethod,
           Held, hooks, actions, connectorMethods
  <1>2. ASSUME InitStep PROVE Recorded'
    <2>1. ASSUME NEW slug \in Keys, WithSlug(slug) PROVE Recorded'
      BY <2>1, <1>1 DEF WithSlug
    <2>2. CASE RegisterReturns \/ UserPanic \/ Unwind \/ Recover \/ Trap \/ InitReturns
      BY <2>2, <1>1 DEF RegisterReturns, UserPanic, Unwind, Recover, Trap, InitReturns
    <2> QED
      BY <1>2, <2>1, <2>2, RegisterHookRecorded, RegisterActionRecorded,
         RegisterConnectorMethodRecorded DEF InitStep
  <1>3. ASSUME HostStep PROVE Export
    BY <1>3 DEF HostStep, RunHook, RunAction, RunConnectorMethod, RunUndecodable
  <1>4. ASSUME InitStep PROVE phase = "init" /\ result' = result
    BY <1>4 DEF InitStep, WithSlug, Call, RegisterReturns, UserPanic, Unwind, Recover,
                Trap, InitReturns, RegisterHook, RegisterAction,
                RegisterConnectorMethod
  <1>5. CASE InitStep
    BY <1>5, <1>2, <1>4 DEF IInv, NoDispatchDuringInit
  <1>6. CASE HostStep
    BY <1>6, <1>1, <1>3 DEF Export, NoDispatchDuringInit
  <1>7. CASE UNCHANGED vars
    BY <1>7, <1>1 DEF IInv, NoDispatchDuringInit, vars
  <1> QED
    BY <1>5, <1>6, <1>7 DEF Next

\* The inductive invariant.
THEOREM Invariant == Spec => []IInv
  <1>1. Init => IInv
    BY TypeInit, RecordInit
       DEF IInv, Init, ScopeMatchesExecution, CurrentFunction
  <1>2. IInv /\ [Next]_vars => IInv'
    BY TypeStep, ScopeStep, RecordStep DEF IInv
  <1> QED
    BY <1>1, <1>2, PTL DEF Spec

-----------------------------------------------------------------------------
(* Dispatch.                                                               *)

\* A function's hook entry answers for it; without one nothing is accepted
\* for it and the unkeyed slots answer.
LEMMA HookResolution ==
    ASSUME IInv, NEW key \in Keys, NEW e \in HookEvents
    PROVE  IF \E r \in accepted : r.owner = key /\ r.slot \in HookEvents
           THEN hooksForDispatch(key)[e] = HeldHook(key, e)
           ELSE hooksForDispatch(key)[e] = HeldHook(NoSlug, e)
  <1>1. CASE key = NoSlug
    BY <1>1 DEF hooksForDispatch, Resolve, HeldHook
  <1>2. CASE key # NoSlug /\ bundledHooks[key] # Nil
    <2>1. \E x \in HookEvents : HeldHook(key, x) # Nil
      BY <1>2 DEF IInv, Recorded, EntriesInUse, HeldHook, Keys
    <2>2. \E r \in accepted : r.owner = key /\ r.slot \in HookEvents
      BY <2>1 DEF IInv, Recorded, HooksRecorded, IsAccepted
    <2> QED
      BY <1>2, <2>2 DEF hooksForDispatch, Resolve, HeldHook
  <1>3. CASE key # NoSlug /\ bundledHooks[key] = Nil
    <2>1. \A x \in HookEvents : HeldHook(key, x) = Nil
      BY <1>3 DEF HeldHook
    <2>2. ASSUME NEW r \in accepted, r.owner = key, r.slot \in HookEvents PROVE FALSE
      BY <2>1, <2>2, AcceptedIsHandler DEF IInv, Recorded, HooksRecorded
    <2> QED
      BY <1>3, <2>2 DEF hooksForDispatch, Resolve, HeldHook
  <1> QED
    BY <1>1, <1>2, <1>3

\* A map with one value per function answers for the functions it holds.
LEMMA SingleResolution ==
    ASSUME NEW unkeyed, NEW keyed, NEW key \in Keys
    PROVE  Resolve(key, unkeyed, keyed) =
             IF Held(key, unkeyed, keyed) # Nil THEN Held(key, unkeyed, keyed)
             ELSE Held(NoSlug, unkeyed, keyed)
  BY DEF Resolve, Held

\* What the setters accepted is what dispatch by the same key finds, in the
\* keyed maps and in the unkeyed slots.
THEOREM Reachable == Spec => []AcceptedIsReachable
  <1>1. IInv => AcceptedIsReachable
    <2> SUFFICES ASSUME IInv, NEW r \in accepted
                 PROVE  /\ r.slot \in HookEvents =>
                             hooksForDispatch(r.owner)[r.slot] = HandlerOf(r)
                        /\ r.slot = "action" =>
                             Resolve(r.owner, standaloneAction, bundledActions)
                               = HandlerOf(r)
                        /\ r.slot = "connector_method" =>
                             Resolve(r.owner, standaloneConnectorMethod,
                                     bundledConnectorMethods)
                               = [name |-> r.name, fn |-> HandlerOf(r)]
      BY DEF AcceptedIsReachable, HandlerOf
    <2>1. TypeOK /\ Recorded /\ r.owner \in Keys /\ HandlerOf(r) # Nil
          /\ HandlerOf(r) \in Handlers
      BY AcceptedIsHandler DEF IInv, Registrations
    <2>2. ASSUME r.slot \in HookEvents
          PROVE  hooksForDispatch(r.owner)[r.slot] = HandlerOf(r)
      BY <2>1, <2>2, HookResolution DEF Recorded, HooksRecorded
    <2>3. ASSUME r.slot = "action"
          PROVE  Resolve(r.owner, standaloneAction, bundledActions) = HandlerOf(r)
      BY <2>1, <2>3, SingleResolution DEF Recorded, ActionsRecorded, HeldAction
    <2>4. ASSUME r.slot = "connector_method"
          PROVE  Resolve(r.owner, standaloneConnectorMethod, bundledConnectorMethods)
                   = [name |-> r.name, fn |-> HandlerOf(r)]
      <3>1. HeldMethod(r.owner) = [name |-> r.name, fn |-> HandlerOf(r)]
        BY <2>1, <2>4 DEF Recorded, MethodsRecorded
      <3>2. HeldMethod(r.owner) \in ConnectorMethodHandlers
        BY <2>1, <2>4, <3>1 DEF Recorded, MethodsRecorded, ConnectorMethodHandlers
      <3> QED
        BY <2>1, <3>1, <3>2, SingleResolution DEF HeldMethod
    <2> QED
      BY <2>2, <2>3, <2>4
  <1> QED
    BY <1>1, Invariant, PTL

-----------------------------------------------------------------------------
(* The routing table: dispatch answers from the accepted registrations.    *)

\* The hook handler dispatch finds is the registration the table finds.
LEMMA HookAnswer ==
    ASSUME IInv, NEW key \in Keys, NEW e \in HookEvents
    PROVE  \/ /\ hooksForDispatch(key)[e] = Nil
              /\ Table!Found(key, e, HookEvents) = {}
           \/ \E r \in Table!Found(key, e, HookEvents) :
                /\ r.name = NoName
                /\ hooksForDispatch(key)[e] = HandlerOf(r)
                /\ HandlerOf(r) # Nil
  <1> DEFINE owner == Table!Route(key, HookEvents)
  <1>1. owner \in Keys
    BY DEF Table!Route, Table!NoSlug, Keys, NoSlug
  <1>2. hooksForDispatch(key)[e] = HeldHook(owner, e)
    BY HookResolution DEF Table!Route, Table!NoSlug, NoSlug
  <1>3. \A r \in accepted : r.owner = owner /\ r.slot = e =>
           r.name = NoName /\ HeldHook(owner, e) = HandlerOf(r) /\ HandlerOf(r) # Nil
    BY AcceptedIsHandler DEF IInv, Recorded, HooksRecorded
  <1>4. HeldHook(owner, e) # Nil => \E r \in accepted : r.owner = owner /\ r.slot = e
    BY <1>1 DEF IInv, Recorded, HooksRecorded, IsAccepted
  <1> HIDE DEF owner
  <1>5. Table!Found(key, e, HookEvents) = {r \in accepted : r.owner = owner /\ r.slot = e}
    BY DEF Table!Found, owner
  <1> QED
    BY <1>2, <1>3, <1>4, <1>5

\* So is the action handler.
LEMMA ActionAnswer ==
    ASSUME IInv, NEW key \in Keys
    PROVE  LET handler == Resolve(key, standaloneAction, bundledActions) IN
           \/ handler = Nil /\ Table!Found(key, "action", {"action"}) = {}
           \/ \E r \in Table!Found(key, "action", {"action"}) :
                r.name = NoName /\ handler = HandlerOf(r) /\ handler # Nil
  <1> DEFINE owner == Table!Route(key, {"action"})
             handler == Resolve(key, standaloneAction, bundledActions)
  <1>1. owner \in Keys
    BY DEF Table!Route, Table!NoSlug, Keys, NoSlug
  <1>2. \A o \in Keys, r \in accepted : r.owner = o /\ r.slot = "action" =>
           r.name = NoName /\ HeldAction(o) = HandlerOf(r) /\ HandlerOf(r) # Nil
    BY AcceptedIsHandler DEF IInv, Recorded, ActionsRecorded
  <1>3. \A o \in Keys : HeldAction(o) # Nil =>
           \E r \in accepted : r.owner = o /\ r.slot = "action"
    BY DEF IInv, Recorded, ActionsRecorded, IsAccepted
  <1>4. handler = HeldAction(owner)
    <2>1. (\E r \in accepted : r.owner = key /\ r.slot \in {"action"})
            <=> HeldAction(key) # Nil
      BY <1>2, <1>3
    <2> QED
      BY <2>1, SingleResolution DEF HeldAction, Table!Route, Table!NoSlug, NoSlug
  <1> HIDE DEF owner, handler
  <1>5. Table!Found(key, "action", {"action"}) =
          {r \in accepted : r.owner = owner /\ r.slot = "action"}
    BY DEF Table!Found, owner
  <1>6. \/ handler = Nil /\ Table!Found(key, "action", {"action"}) = {}
        \/ \E r \in Table!Found(key, "action", {"action"}) :
             r.name = NoName /\ handler = HandlerOf(r) /\ handler # Nil
    BY <1>1, <1>2, <1>3, <1>4, <1>5
  <1> QED
    BY <1>6 DEF handler

\* So is the connector-method handler, with its registered name.
LEMMA MethodAnswer ==
    ASSUME IInv, NEW key \in Keys
    PROVE  LET handler == Resolve(key, standaloneConnectorMethod,
                                  bundledConnectorMethods) IN
           \/ /\ handler = Nil
              /\ Table!Found(key, "connector_method", {"connector_method"}) = {}
           \/ \E r \in Table!Found(key, "connector_method", {"connector_method"}) :
                /\ handler = [name |-> r.name, fn |-> HandlerOf(r)]
                /\ handler # Nil
                /\ HandlerOf(r) # Nil
  <1> DEFINE owner == Table!Route(key, {"connector_method"})
             handler == Resolve(key, standaloneConnectorMethod, bundledConnectorMethods)
  <1>1. owner \in Keys
    BY DEF Table!Route, Table!NoSlug, Keys, NoSlug
  <1>2. \A r \in accepted : r.slot = "connector_method" =>
           /\ HeldMethod(r.owner) = [name |-> r.name, fn |-> HandlerOf(r)]
           /\ HeldMethod(r.owner) # Nil
           /\ HandlerOf(r) # Nil
    <2> SUFFICES ASSUME NEW r \in accepted, r.slot = "connector_method"
                 PROVE  /\ HeldMethod(r.owner) = [name |-> r.name, fn |-> HandlerOf(r)]
                        /\ HeldMethod(r.owner) # Nil
                        /\ HandlerOf(r) # Nil
      OBVIOUS
    <2>1. /\ r.name \in Methods
          /\ HeldMethod(r.owner) = [name |-> r.name, fn |-> HandlerOf(r)]
      BY DEF IInv, Recorded, MethodsRecorded
    <2>2. HandlerOf(r) \in Handlers
      BY AcceptedIsHandler DEF IInv
    <2>3. HeldMethod(r.owner) \in ConnectorMethodHandlers
      BY <2>1, <2>2 DEF ConnectorMethodHandlers
    <2> QED
      BY <2>1, <2>2, <2>3
  <1>3. \A o \in Keys : HeldMethod(o) # Nil =>
           \E r \in accepted : r.owner = o /\ r.slot = "connector_method"
    BY DEF IInv, Recorded, MethodsRecorded, IsAccepted
  <1>4. handler = HeldMethod(owner)
    <2>1. (\E r \in accepted : r.owner = key /\ r.slot \in {"connector_method"})
            <=> HeldMethod(key) # Nil
      BY <1>2, <1>3
    <2> QED
      BY <2>1, SingleResolution DEF HeldMethod, Table!Route, Table!NoSlug, NoSlug
  <1> HIDE DEF owner, handler
  <1>5. Table!Found(key, "connector_method", {"connector_method"}) =
          {r \in accepted : r.owner = owner /\ r.slot = "connector_method"}
    BY DEF Table!Found, owner
  <1>6. \/ /\ handler = Nil
           /\ Table!Found(key, "connector_method", {"connector_method"}) = {}
        \/ \E r \in Table!Found(key, "connector_method", {"connector_method"}) :
             /\ handler = [name |-> r.name, fn |-> HandlerOf(r)]
             /\ handler # Nil
             /\ HandlerOf(r) # Nil
    <2>1. CASE HeldMethod(owner) = Nil
      <3>1. Table!Found(key, "connector_method", {"connector_method"}) = {}
        BY <2>1, <1>2, <1>5
      <3> QED
        BY <2>1, <3>1, <1>4
    <2>2. CASE HeldMethod(owner) # Nil
      <3>1. PICK r \in accepted : r.owner = owner /\ r.slot = "connector_method"
        BY <2>2, <1>1, <1>3
      <3>2. r \in Table!Found(key, "connector_method", {"connector_method"})
        BY <3>1, <1>5
      <3>3. HeldMethod(owner) = [name |-> r.name, fn |-> HandlerOf(r)]
            /\ HandlerOf(r) # Nil
        BY <3>1, <1>2
      <3> QED
        BY <2>2, <3>2, <3>3, <1>4
    <2> QED
      BY <2>1, <2>2
  <1> QED
    BY <1>6 DEF handler

-----------------------------------------------------------------------------
(* The theorems about dispatch and about what a step may never do.         *)

\* A handler that ran belongs to the function the envelope named; code
\* outside the bundle answers only for a key nothing was registered under
\* (dispatch.go:165-175, "a bundle must never fall back to a sibling").
THEOREM NoSibling == Spec => []NeverRunsSibling
  <1>1. Init => NeverRunsSibling
    BY DEF Init, NeverRunsSibling
  <1>2. IInv /\ NeverRunsSibling /\ [Next]_vars => NeverRunsSibling'
    <2> SUFFICES ASSUME IInv, NeverRunsSibling, [Next]_vars PROVE NeverRunsSibling'
      OBVIOUS
    <2> USE DEF control
    <2>1. ASSUME phase # "ready", result' = result PROVE NeverRunsSibling'
      BY <2>1 DEF IInv, NoDispatchDuringInit, NeverRunsSibling
    <2>2. CASE InitStep
      <3>1. phase = "init" /\ result' = result
        BY <2>2 DEF InitStep, WithSlug, Call, RegisterReturns, UserPanic, Unwind,
                    Recover, Trap, InitReturns, RegisterHook, RegisterAction,
                    RegisterConnectorMethod
      <3> QED
        BY <3>1, <2>1
    <2>3. ASSUME NEW family, NEW r \in Table!Found(result'.key, result'.slot, family),
                 Family(result'.slot) = family, accepted' = accepted,
                 result'.ran = HandlerOf(r)
          PROVE  NeverRunsSibling'
      <3>1. r.owner = Table!Route(result'.key, family) /\ result'.ran.owner = r.owner
        BY <2>3 DEF Table!Found, HandlerOf
      <3> QED
        BY <2>3, <3>1
           DEF NeverRunsSibling, Family, Table!Route, Table!NoSlug, NoSlug
    <2>4. ASSUME result'.ran = Nil PROVE NeverRunsSibling'
      BY <2>4 DEF NeverRunsSibling
    <2>5. ASSUME NEW hook \in Keys, NEW event \in HookEvents \cup {UnknownEvent},
                 RunHook(hook, event)
          PROVE  NeverRunsSibling'
      <3>1. CASE event \in HookEvents
        <4>1. /\ result'.key = hook /\ result'.slot = event
              /\ result'.ran = hooksForDispatch(hook)[event]
              /\ accepted' = accepted
          BY <2>5, <3>1 DEF RunHook, Outcome, Export
        <4>2. Family(event) = HookEvents
          BY <3>1 DEF Family
        <4> QED
          BY <3>1, <4>1, <4>2, HookAnswer, <2>3, <2>4
      <3>2. CASE event \notin HookEvents
        BY <2>5, <3>2, <2>4 DEF RunHook, Outcome
      <3> QED
        BY <3>1, <3>2
    <2>6. ASSUME NEW action \in Keys, RunAction(action) PROVE NeverRunsSibling'
      <3>1. /\ result'.key = action /\ result'.slot = "action"
            /\ result'.ran = Resolve(action, standaloneAction, bundledActions)
            /\ accepted' = accepted
        BY <2>6 DEF RunAction, Outcome, Export
      <3>2. Family("action") = {"action"}
        BY DEF Family, AllEvents
      <3> QED
        BY <3>1, <3>2, ActionAnswer, <2>3, <2>4
    <2>7. ASSUME NEW action \in Keys, NEW method \in MethodNames,
                 RunConnectorMethod(action, method)
          PROVE  NeverRunsSibling'
      <3> DEFINE handler == Resolve(action, standaloneConnectorMethod,
                                    bundledConnectorMethods)
      <3>1. /\ result'.key = action /\ result'.slot = "connector_method"
            /\ result'.ran = Nil \/ (handler # Nil /\ result'.ran = handler.fn)
            /\ accepted' = accepted
        BY <2>7 DEF RunConnectorMethod, Outcome, Export
      <3>2. Family("connector_method") = {"connector_method"}
        BY DEF Family, AllEvents
      <3>3. CASE result'.ran = Nil
        BY <3>3, <2>4
      <3>4. CASE handler # Nil /\ result'.ran = handler.fn
        <4>1. PICK r \in Table!Found(action, "connector_method", {"connector_method"}) :
                handler = [name |-> r.name, fn |-> HandlerOf(r)]
          BY <3>4, MethodAnswer
        <4>2. result'.ran = HandlerOf(r)
          BY <3>4, <4>1
        <4> QED
          BY <3>1, <3>2, <4>2, <2>3
      <3> QED
        BY <3>1, <3>3, <3>4
    <2>8. ASSUME NEW export \in Exports, RunUndecodable(export) PROVE NeverRunsSibling'
      BY <2>8, <2>4 DEF RunUndecodable, Outcome
    <2>9. CASE UNCHANGED vars
      BY <2>9 DEF NeverRunsSibling, vars
    <2> QED
      BY <2>2, <2>5, <2>6, <2>7, <2>8, <2>9 DEF Next, HostStep
  <1> QED
    BY <1>1, <1>2, Invariant, PTL DEF Spec

\* No step replaces or removes a handler (dispatch.go:194-259, 393-409).
THEOREM NeverOverwritten == Spec => WriteOnce
  <1> DEFINE Keeps ==
        /\ \A e \in HookEvents : Kept(standaloneHooks[e], standaloneHooks'[e])
        /\ \A s \in Slugs :
             /\ bundledHooks[s] # Nil =>
                  /\ bundledHooks'[s] # Nil
                  /\ \A e \in HookEvents : Kept(bundledHooks[s][e], bundledHooks'[s][e])
             /\ Kept(bundledActions[s], bundledActions'[s])
             /\ Kept(bundledConnectorMethods[s], bundledConnectorMethods'[s])
        /\ Kept(standaloneAction, standaloneAction')
        /\ Kept(standaloneConnectorMethod, standaloneConnectorMethod')
  <1>1. TypeOK /\ [Next]_vars => [Keeps]_vars
    <2> SUFFICES ASSUME TypeOK, Next PROVE Keeps
      OBVIOUS
    <2> USE DEF Kept
    <2>1. ASSUME UNCHANGED <<hooks, actions, connectorMethods>> PROVE Keeps
      BY <2>1 DEF hooks, actions, connectorMethods
    <2>2. ASSUME NEW event \in HookEvents, NEW fn \in Fns, RegisterHook(event, fn)
          PROVE  Keeps
      <3> DEFINE slots == hooksForRegistration
                 new == [slots EXCEPT ![event] = NewHandler(fn)]
      <3>1. slots \in HookSlots
        BY DEF TypeOK, hooksForRegistration, EmptyHooks, HookSlots, Keys
      <3>2. new \in HookSlots
        BY <3>1, NewHandlerIsHandler DEF HookSlots
      <3>3. PICK stored \in HookSlots :
              /\ StoreHooks(stored)
              /\ \A e \in HookEvents : Kept(slots[e], stored[e])
        <4>1. CASE slots[event] # Nil
          BY <2>2, <3>1, <4>1 DEF RegisterHook
        <4>2. CASE slots[event] = Nil
          <5>1. \A e \in HookEvents : Kept(slots[e], new[e])
            BY <3>1, <4>2 DEF HookSlots
          <5> QED
            BY <2>2, <3>2, <4>2, <5>1 DEF RegisterHook
        <4> QED
          BY <4>1, <4>2
      <3>4. UNCHANGED <<actions, connectorMethods>>
        BY <2>2 DEF RegisterHook
      <3>5. \A e \in HookEvents : slots[e] = HeldHook(bundleSlug, e)
        BY HooksForRegistrationHeld
      <3>6. CASE bundleSlug = NoSlug
        BY <3>3, <3>4, <3>5, <3>6
           DEF StoreHooks, HeldHook, actions, connectorMethods
      <3>7. CASE bundleSlug # NoSlug
        <4>1. /\ standaloneHooks' = standaloneHooks
              /\ bundledHooks' = [bundledHooks EXCEPT ![bundleSlug] = stored]
          BY <3>3, <3>7 DEF StoreHooks
        <4>2. \A s \in Slugs : bundledHooks[s] # Nil =>
                /\ bundledHooks'[s] # Nil
                /\ \A e \in HookEvents : Kept(bundledHooks[s][e], bundledHooks'[s][e])
          BY <3>3, <3>5, <3>7, <4>1 DEF HeldHook, TypeOK
        <4> QED
          BY <3>4, <4>1, <4>2 DEF actions, connectorMethods
      <3> QED
        BY <3>6, <3>7
    <2>3. ASSUME NEW fn \in Fns, RegisterAction(fn) PROVE Keeps
      <3>1. UNCHANGED <<hooks, connectorMethods>>
        BY <2>3 DEF RegisterAction
      <3>2. /\ Kept(standaloneAction, standaloneAction')
            /\ \A s \in Slugs : Kept(bundledActions[s], bundledActions'[s])
        BY <2>3 DEF RegisterAction, Selected, TypeOK, actions
      <3> QED
        BY <3>1, <3>2 DEF hooks, connectorMethods
    <2>4. ASSUME NEW name \in MethodNames, NEW fn \in Fns,
                 RegisterConnectorMethod(name, fn)
          PROVE  Keeps
      <3>1. UNCHANGED <<hooks, actions>>
        BY <2>4 DEF RegisterConnectorMethod
      <3>2. /\ Kept(standaloneConnectorMethod, standaloneConnectorMethod')
            /\ \A s \in Slugs :
                 Kept(bundledConnectorMethods[s], bundledConnectorMethods'[s])
        BY <2>4 DEF RegisterConnectorMethod, Selected, TypeOK, connectorMethods
      <3> QED
        BY <3>1, <3>2 DEF hooks, actions
    <2>5. ASSUME NEW slug \in Keys, WithSlug(slug) PROVE Keeps
      BY <2>5, <2>1 DEF WithSlug
    <2>6. CASE RegisterReturns \/ UserPanic \/ Unwind \/ Recover \/ Trap \/ InitReturns
      BY <2>6, <2>1 DEF RegisterReturns, UserPanic, Unwind, Recover, Trap, InitReturns
    <2>7. CASE HostStep
      BY <2>7, <2>1
         DEF HostStep, RunHook, RunAction, RunConnectorMethod, RunUndecodable, Export
    <2> HIDE DEF Keeps
    <2> QED
      BY <2>2, <2>3, <2>4, <2>5, <2>6, <2>7 DEF Next, InitStep
  <1> QED
    BY <1>1, TypeCorrect, PTL DEF Spec, WriteOnce

-----------------------------------------------------------------------------
(* Refinement: the registry implements RoutingTable.                       *)

\* A setter that accepts finds no earlier registration of its function for
\* the slot.
LEMMA FirstForSlot ==
    ASSUME IInv
    PROVE  /\ \A e \in HookEvents : hooksForRegistration[e] = Nil =>
                \A r \in accepted : ~(r.owner = CurrentFunction /\ r.slot = e)
           /\ Selected(standaloneAction, bundledActions) = Nil =>
                \A r \in accepted : ~(r.owner = CurrentFunction /\ r.slot = "action")
           /\ Selected(standaloneConnectorMethod, bundledConnectorMethods) = Nil =>
                \A r \in accepted :
                    ~(r.owner = CurrentFunction /\ r.slot = "connector_method")
  <1>1. TypeOK /\ Recorded /\ bundleSlug = CurrentFunction
    BY DEF IInv, ScopeMatchesExecution
  <1>2. \A e \in HookEvents : hooksForRegistration[e] = Nil =>
          \A r \in accepted : ~(r.owner = CurrentFunction /\ r.slot = e)
    BY <1>1, HooksForRegistrationHeld, AcceptedIsHandler DEF Recorded, HooksRecorded
  <1>3. Selected(standaloneAction, bundledActions) = Nil =>
          \A r \in accepted : ~(r.owner = CurrentFunction /\ r.slot = "action")
    BY <1>1, AcceptedIsHandler
       DEF Selected, Recorded, ActionsRecorded, HeldAction, Held
  <1>4. ASSUME Selected(standaloneConnectorMethod, bundledConnectorMethods) = Nil,
               NEW r \in accepted, r.owner = CurrentFunction,
               r.slot = "connector_method"
        PROVE  FALSE
    <2>1. /\ HeldMethod(r.owner) = [name |-> r.name, fn |-> HandlerOf(r)]
          /\ r.name \in Methods /\ HandlerOf(r) \in Handlers
      BY <1>1, <1>4, AcceptedIsHandler DEF Recorded, MethodsRecorded
    <2>2. HeldMethod(r.owner) \in ConnectorMethodHandlers
      BY <2>1 DEF ConnectorMethodHandlers
    <2> QED
      BY <1>1, <1>4, <2>2 DEF Selected, HeldMethod, Held
  <1> QED
    BY <1>2, <1>3, <1>4

\* The two levels name the same keys.
LEMMA SameConstants ==
    /\ Table!NoSlug = NoSlug /\ Table!NoName = NoName
    /\ Table!Keys = Keys /\ Table!MethodNames = MethodNames
    /\ Table!UnknownEvent = UnknownEvent
  BY DEF Table!NoSlug, NoSlug, Table!NoName, NoName, Table!Keys, Keys,
         Table!MethodNames, MethodNames, Table!UnknownEvent, UnknownEvent

\* Every step of the registry is a step of the routing table or leaves it
\* as it was.
LEMMA TableStep ==
    IInv /\ IInv' /\ [Next]_vars => [Table!Next]_(Table!vars)
  <1> SUFFICES ASSUME IInv, IInv', [Next]_vars PROVE [Table!Next]_(Table!vars)
    OBVIOUS
  <1> USE SameConstants DEF control
  <1>1. /\ frames \in Seq(Slugs) /\ Len(frames) <= 1
        /\ bundleSlug = CurrentFunction /\ bundleSlug' = CurrentFunction'
        /\ (frames = <<>> <=> CurrentFunction = NoSlug)
    BY DEF IInv, TypeOK, ScopeMatchesExecution, CurrentFunction
  <1>2. ASSUME UNCHANGED <<phase, bundleSlug, accepted, result>>
        PROVE  UNCHANGED Table!vars
    BY <1>1, <1>2 DEF Table!vars
  <1>3. ASSUME NEW slug \in Keys, WithSlug(slug) PROVE [Table!Next]_(Table!vars)
    <2>1. CASE slug = NoSlug \/ bundleSlug # NoSlug
      BY <1>2, <1>3, <2>1 DEF WithSlug, Panics
    <2>2. CASE slug # NoSlug /\ bundleSlug = NoSlug
      <3>1. slug \in Slugs /\ Table!Enter(slug)
        BY <1>1, <1>3, <2>2 DEF WithSlug, Call, Table!Enter, Keys
      <3> QED
        BY <3>1 DEF Table!Next
    <2> QED
      BY <2>1, <2>2
  <1>4. CASE RegisterReturns \/ Unwind
    <2>1. Table!Leave
      BY <1>1, <1>4 DEF RegisterReturns, Unwind, ResetScope, Table!Leave
    <2> QED
      BY <2>1 DEF Table!Next
  <1>5. CASE UserPanic \/ Recover
    BY <1>2, <1>5 DEF UserPanic, Panics, Recover
  <1>6. CASE Trap \/ InitReturns
    <2>1. Table!Settle("ready") \/ Table!Settle("trapped")
      BY <1>1, <1>6 DEF Trap, InitReturns, Table!Settle
    <2> QED
      BY <2>1 DEF Table!Next
  <1>7. ASSUME NEW event \in HookEvents, NEW fn \in Fns, RegisterHook(event, fn)
        PROVE  [Table!Next]_(Table!vars)
    <2>1. CASE hooksForRegistration[event] # Nil
      BY <1>2, <1>7, <2>1 DEF RegisterHook, Panics
    <2>2. CASE hooksForRegistration[event] = Nil
      <3>1. Table!Register(event, NoName, fn)
        BY <1>1, <1>7, <2>2, FirstForSlot
           DEF RegisterHook, Call, Accept, Table!Register
      <3> QED
        BY <3>1 DEF Table!Next
    <2> QED
      BY <2>1, <2>2
  <1>8. ASSUME NEW fn \in Fns, RegisterAction(fn) PROVE [Table!Next]_(Table!vars)
    <2>1. CASE Selected(standaloneAction, bundledActions) # Nil
      BY <1>2, <1>8, <2>1 DEF RegisterAction, Panics
    <2>2. CASE Selected(standaloneAction, bundledActions) = Nil
      <3>1. Table!Register("action", NoName, fn)
        BY <1>1, <1>8, <2>2, FirstForSlot
           DEF RegisterAction, Call, Accept, Table!Register
      <3> QED
        BY <3>1 DEF Table!Next
    <2> QED
      BY <2>1, <2>2
  <1>9. ASSUME NEW name \in MethodNames, NEW fn \in Fns,
               RegisterConnectorMethod(name, fn)
        PROVE  [Table!Next]_(Table!vars)
    <2> DEFINE rejected == \/ name = NoName
                           \/ Selected(standaloneConnectorMethod,
                                       bundledConnectorMethods) # Nil
    <2>1. CASE rejected
      BY <1>2, <1>9, <2>1 DEF RegisterConnectorMethod, Panics
    <2>2. CASE ~rejected
      <3>1. name \in Methods /\ Table!Register("connector_method", name, fn)
        BY <1>1, <1>9, <2>2, FirstForSlot
           DEF RegisterConnectorMethod, Call, Accept, Table!Register, MethodNames
      <3> QED
        BY <3>1 DEF Table!Next
    <2> QED
      BY <2>1, <2>2
  <1>10. ASSUME Export PROVE phase = "ready" /\ UNCHANGED <<phase, CurrentFunction, accepted>>
    BY <1>1, <1>10 DEF Export
  <1>11. ASSUME NEW hook \in Keys, NEW event \in HookEvents \cup {UnknownEvent},
                RunHook(hook, event)
         PROVE  Table!Next
    <2>1. Export
      BY <1>11 DEF RunHook
    <2>2. CASE event \in HookEvents
      <3> DEFINE handler == hooksForDispatch(hook)[event]
      <3>1. result' = Outcome("runHook", hook, event, NoName,
                              IF handler = Nil THEN "no_handler" ELSE "ran", handler)
        BY <1>11, <2>2 DEF RunHook
      <3>2. Table!Answer("runHook", hook, event, HookEvents, NoName)
        BY <1>10, <2>1, <2>2, <3>1, HookAnswer
           DEF Table!Answer, Table!Dispatch, Outcome, HandlerOf
      <3> QED
        BY <2>2, <3>2 DEF Table!Next
    <2>3. CASE event \notin HookEvents
      <3>1. Table!Refuse("runHook", hook, UnknownEvent, "unknown_event")
        BY <1>10, <1>11, <2>1, <2>3
           DEF RunHook, Outcome, Table!Refuse, Table!Dispatch
      <3> QED
        BY <3>1 DEF Table!Next
    <2> QED
      BY <2>2, <2>3
  <1>12. ASSUME NEW action \in Keys, RunAction(action) PROVE Table!Next
    <2>1. Table!Answer("runAction", action, "action", {"action"}, NoName)
      BY <1>10, <1>12, ActionAnswer
         DEF RunAction, Table!Answer, Table!Dispatch, Outcome, HandlerOf
    <2> QED
      BY <2>1 DEF Table!Next
  <1>13. ASSUME NEW action \in Keys, NEW method \in MethodNames,
                RunConnectorMethod(action, method)
         PROVE  Table!Next
    <2> DEFINE handler == Resolve(action, standaloneConnectorMethod,
                                  bundledConnectorMethods)
               found == Table!Found(action, "connector_method", {"connector_method"})
    <2>1. Export
      BY <1>13 DEF RunConnectorMethod
    <2>2. CASE handler = Nil
      <3>1. found = {}
        BY <2>2, MethodAnswer
      <3>2. Table!Dispatch("runConnectorMethod", action, "connector_method", method,
                           "no_handler", Nil)
        BY <1>10, <1>13, <2>1, <2>2 DEF RunConnectorMethod, Outcome, Table!Dispatch
      <3>3. Table!Answer("runConnectorMethod", action, "connector_method",
                         {"connector_method"}, method)
        BY <3>1, <3>2 DEF Table!Answer
      <3> QED
        BY <3>3 DEF Table!Next
    <2>3. CASE handler # Nil
      <3>1. PICK r \in found : handler = [name |-> r.name, fn |-> HandlerOf(r)]
        BY <2>3, MethodAnswer
      <3>2. handler.name = r.name /\ handler.fn = HandlerOf(r)
        BY <3>1
      <3>3. IF r.name = method
            THEN Table!Dispatch("runConnectorMethod", action, "connector_method",
                                method, "ran", HandlerOf(r))
            ELSE Table!Dispatch("runConnectorMethod", action, "connector_method",
                                method, "mis_deployed", Nil)
        <4> HIDE DEF handler
        <4>1. result' = Outcome("runConnectorMethod", action, "connector_method", method,
                                IF r.name = method THEN "ran" ELSE "mis_deployed",
                                IF r.name = method THEN HandlerOf(r) ELSE Nil)
          BY <1>13, <2>3, <3>2 DEF RunConnectorMethod, handler
        <4> QED
          BY <1>10, <2>1, <4>1 DEF Outcome, Table!Dispatch
      <3>4. Table!Answer("runConnectorMethod", action, "connector_method",
                         {"connector_method"}, method)
        BY <3>1, <3>3 DEF Table!Answer, HandlerOf
      <3> QED
        BY <3>4 DEF Table!Next
    <2> QED
      BY <2>2, <2>3
  <1>14. ASSUME NEW export \in Exports, RunUndecodable(export) PROVE Table!Next
    <2>1. Table!Refuse(export, NoSlug, "none", "decode_error")
      BY <1>10, <1>14 DEF RunUndecodable, Outcome, Table!Refuse, Table!Dispatch
    <2> QED
      BY <2>1 DEF Table!Next, Exports
  <1>15. CASE UNCHANGED vars
    BY <1>2, <1>15 DEF vars
  <1> QED
    BY <1>3, <1>4, <1>5, <1>6, <1>7, <1>8, <1>9, <1>11, <1>12, <1>13, <1>14, <1>15
       DEF Next, InitStep, HostStep

\* The registry answers every dispatch as a table of the accepted
\* registrations would, filed under the functions really executing
\* (dispatch.go:77-96).
THEOREM Refinement == Spec => ImplementsTable
  <1>1. Init => Table!Init
    BY SameConstants DEF Init, Table!Init, CurrentFunction, NoResult
  <1> QED
    BY <1>1, TableStep, Invariant, PTL DEF Spec, ImplementsTable, Table!Spec
=============================================================================
