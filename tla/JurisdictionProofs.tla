------------------------- MODULE JurisdictionProofs -------------------------
(***************************************************************************)
(* What TLAPS proves of the walk of collectDeclared, for every set of type *)
(* declarations.                                                           *)
(***************************************************************************)
EXTENDS Jurisdiction, TLAPS

USE NilAssumption, RootAssumption, DeclarationsAssumption

-----------------------------------------------------------------------------
(* Type correctness.                                                       *)

\* The path of the walk runs along the stack.
LEMMA PathOfStack ==
    ASSUME TypeOK
    PROVE  /\ Path \in Seq(Steps) /\ Len(Path) = Len(stack)
           /\ \A k \in 1 .. Len(stack) :
                 Path[k] = [type |-> stack[k].type,
                            index |-> IF k < Len(stack) THEN stack[k].next - 1
                                      ELSE stack[k].next]
  <1>1. DOMAIN stack = 1 .. Len(stack) /\ Len(stack) \in Nat
    BY DEF TypeOK
  <1>2. \A k \in 1 .. Len(stack) : stack[k] \in Frames
    BY DEF TypeOK
  <1> DEFINE step(k) == [type |-> stack[k].type,
                         index |-> IF k < Len(stack) THEN stack[k].next - 1
                                   ELSE stack[k].next]
  <1>3. ASSUME NEW k \in 1 .. Len(stack) PROVE step(k) \in Steps
    <2>1. stack[k].type \in Types /\ stack[k].next \in Nat \ {0}
      BY <1>2 DEF Frames
    <2>2. stack[k].next - 1 \in Nat
      BY <2>1
    <2> QED
      BY <2>1, <2>2 DEF Steps
  <1>4. Path = [k \in 1 .. Len(stack) |-> step(k)]
    BY <1>1 DEF Path
  <1> HIDE DEF step
  <1>5. Path \in Seq(Steps) /\ Len(Path) = Len(stack)
    BY <1>1, <1>3, <1>4
  <1>6. \A k \in 1 .. Len(stack) : Path[k] = step(k)
    BY <1>4
  <1> QED
    BY <1>5, <1>6 DEF step

\* The field a loop is at is one of its type's fields.
LEMMA CurrentFieldTyped ==
    ASSUME TypeOK, InLoop
    PROVE  /\ Top \in Frames
           /\ CurrentField \in Fields
           /\ KeyOf(CurrentField) \in Names
           /\ Promoted(CurrentField) => CurrentField.type \in Types
           /\ NewClaim \in Claims
           /\ Path \in Seq(Steps)
           /\ Len(stack) \in Nat \ {0}
  <1>1. Len(stack) \in Nat \ {0} /\ Top \in Frames
    BY DEF TypeOK, InLoop, Top
  <1>2. fieldsOf[Top.type] \in Seq(Fields)
    BY <1>1 DEF TypeOK, Frames
  <1>3. CurrentField \in Fields
    BY <1>2 DEF InLoop, CurrentField
  <1>4. NewClaim \in Claims
    BY <1>1, <1>3 DEF NewClaim, Claims, depth, HasTagName
  <1>5. Path \in Seq(Steps)
    BY PathOfStack
  <1> QED
    BY <1>1, <1>3, <1>4, <1>5 DEF Fields, KeyOf, Promoted

\* Advancing a loop changes no type on the stack.
LEMMA AdvancedStack ==
    ASSUME TypeOK, InLoop
    PROVE  /\ Advanced \in Seq(Frames)
           /\ Len(Advanced) = Len(stack)
           /\ \A i \in 1 .. Len(stack) : Advanced[i].type = stack[i].type
  <1>1. Len(stack) \in Nat \ {0} /\ Top \in Frames
    BY CurrentFieldTyped
  <1>2. [Top EXCEPT !.next = @ + 1] \in Frames
    BY <1>1 DEF Frames
  <1>3. Advanced = [stack EXCEPT ![Len(stack)] = [Top EXCEPT !.next = @ + 1]]
    BY <1>1 DEF Advanced, Top, TypeOK
  <1>4. Advanced \in Seq(Frames) /\ Len(Advanced) = Len(stack)
    BY <1>1, <1>2, <1>3 DEF TypeOK
  <1>5. ASSUME NEW i \in 1 .. Len(stack) PROVE Advanced[i].type = stack[i].type
    BY <1>1, <1>3 DEF TypeOK, Top, Frames
  <1> QED
    BY <1>4, <1>5

\* Returning from a call leaves the frames below as they were.
LEMMA PoppedStack ==
    ASSUME TypeOK, stack # <<>>
    PROVE  LET popped == SubSeq(stack, 1, Len(stack) - 1) IN
           /\ popped \in Seq(Frames)
           /\ Len(popped) = Len(stack) - 1
           /\ \A i \in 1 .. Len(stack) - 1 : popped[i] = stack[i]
  <1> DEFINE n == Len(stack) - 1
  <1>1. stack \in Seq(Frames) /\ n \in Nat /\ n <= Len(stack)
    BY DEF TypeOK
  <1> HIDE DEF n
  <1>2. \A i \in 1 .. n : i \in 1 .. Len(stack)
    BY <1>1
  <1>3. /\ Len(SubSeq(stack, 1, n)) = n
        /\ \A i \in 1 .. n : SubSeq(stack, 1, n)[i] = stack[i]
    BY <1>1, <1>2
  <1>4. \A i \in 1 .. n : SubSeq(stack, 1, n)[i] \in Frames
    BY <1>1, <1>2, <1>3
  <1>5. SubSeq(stack, 1, n) = [i \in 1 .. n |-> stack[i]]
    BY <1>1, <1>2
  <1>6. SubSeq(stack, 1, n) \in Seq(Frames)
    BY <1>1, <1>2, <1>5
  <1> QED
    BY <1>3, <1>6 DEF n

\* Strongest keeps a claim a claim.
LEMMA StrongestTyped ==
    ASSUME NEW claim \in Claims, NEW best \in Claims \cup {Nil}
    PROVE  Strongest(claim, best) \in Claims
  BY DEF Strongest, Claims

\* Every variable holds a value of its Go type, at every step of the walk.
LEMMA TypeStep == TypeOK /\ [Next]_vars => TypeOK'
  <1> SUFFICES ASSUME TypeOK, [Next]_vars PROVE TypeOK'
    OBVIOUS
  <1>1. CASE SkipField
    BY <1>1, AdvancedStack DEF SkipField, TypeOK
  <1>2. CASE Revisit
    BY <1>2, AdvancedStack DEF Revisit, TypeOK
  <1>3. CASE Descend
    <2>1. CurrentField.type \in Types /\ Frame(CurrentField.type) \in Frames
      BY <1>3, CurrentFieldTyped DEF Descend, Frame, Frames
    <2>2. stack' \in Seq(Frames) /\ visiting' \subseteq Types
      BY <1>3, <2>1, AdvancedStack DEF Descend, TypeOK
    <2> QED
      BY <1>3, <2>2 DEF Descend, TypeOK
  <1>4. CASE ClaimField
    <2> DEFINE key == KeyOf(CurrentField)
    <2>1. key \in Names /\ NewClaim \in Claims /\ Path \in Seq(Steps) /\ Advanced \in Seq(Frames)
      BY <1>4, CurrentFieldTyped, AdvancedStack DEF ClaimField
    <2>2. claims' \in [Names -> Claims \cup {Nil}]
      BY <1>4, <2>1, StrongestTyped DEF ClaimField, TypeOK
    <2>3. found' \in Seq(KeyedClaims)
      BY <1>4, <2>1 DEF ClaimField, TypeOK, KeyedClaims
    <2> QED
      BY <1>4, <2>1, <2>2, <2>3 DEF ClaimField, TypeOK
  <1>5. CASE Return
    BY <1>5, PoppedStack DEF Return, TypeOK
  <1>6. CASE Finish
    BY <1>6 DEF Finish, TypeOK, Uncontested
  <1>7. CASE UNCHANGED vars
    BY <1>7 DEF vars, TypeOK
  <1> QED
    BY <1>1, <1>2, <1>3, <1>4, <1>5, <1>6, <1>7 DEF Next

\* The walk starts well typed.
LEMMA TypeInit == Init => TypeOK
  <1> SUFFICES ASSUME Init PROVE TypeOK
    OBVIOUS
  <1>1. Frame(Root) \in Frames
    BY DEF Frame, Frames
  <1>2. stack \in Seq(Frames) /\ found \in Seq(KeyedClaims)
    BY <1>1 DEF Init
  <1>3. fieldsOf \in [Types -> Seq(Fields)]
    BY DEF Init
  <1>4. visiting \subseteq Types /\ declared \in (SUBSET Names) \cup {Nil}
    BY DEF Init
  <1>5. claims \in [Names -> Claims \cup {Nil}]
    BY DEF Init
  <1> QED
    BY <1>2, <1>3, <1>4, <1>5 DEF TypeOK

\* Every variable holds a value of its Go type.
THEOREM TypeCorrect == Spec => []TypeOK
  BY TypeInit, TypeStep, PTL DEF Spec

-----------------------------------------------------------------------------
(* The recursion is bounded by the types.                                  *)

\* No type is on the stack twice and exactly those on it are marked.
LEMMA AcyclicStep == TypeOK /\ WalkIsAcyclic /\ [Next]_vars => WalkIsAcyclic'
  <1> SUFFICES ASSUME TypeOK, WalkIsAcyclic, [Next]_vars PROVE WalkIsAcyclic'
    OBVIOUS
  <1>1. stack \in Seq(Frames) /\ Len(stack) \in Nat /\ DOMAIN stack = 1 .. Len(stack)
    BY DEF TypeOK
  <1>2. /\ \A i, j \in 1 .. Len(stack) : stack[i].type = stack[j].type => i = j
        /\ visiting = {stack[i].type : i \in 1 .. Len(stack)}
    BY <1>1 DEF WalkIsAcyclic
  <1>3. ASSUME InLoop, stack' = Advanced, visiting' = visiting PROVE WalkIsAcyclic'
    <2>1. DOMAIN stack' = 1 .. Len(stack)
      BY <1>3, AdvancedStack
    <2> QED
      BY <1>2, <1>3, <2>1, AdvancedStack DEF WalkIsAcyclic
  <1>4. CASE SkipField
    BY <1>3, <1>4 DEF SkipField
  <1>5. CASE Revisit
    BY <1>3, <1>5 DEF Revisit
  <1>6. CASE ClaimField
    BY <1>3, <1>6 DEF ClaimField
  <1>7. CASE Descend
    <2> DEFINE t == CurrentField.type
               n == Len(stack)
    <2>1. /\ stack' = Append(Advanced, Frame(t)) /\ visiting' = visiting \cup {t}
          /\ t \notin visiting /\ InLoop
      BY <1>7 DEF Descend
    <2>2. /\ DOMAIN stack' = 1 .. n + 1
          /\ \A i \in 1 .. n : stack'[i].type = stack[i].type
          /\ stack'[n + 1].type = t
      BY <1>1, <2>1, AdvancedStack DEF Frame
    <2>3. \A i \in 1 .. n : stack[i].type # t
      BY <1>2, <2>1
    <2>4. \A i \in 1 .. n + 1 : i \in 1 .. n \/ i = n + 1
      BY <1>1
    <2> HIDE DEF t, n
    <2>5. \A i, j \in 1 .. n + 1 : stack'[i].type = stack'[j].type => i = j
      BY <1>2, <2>2, <2>3, <2>4 DEF n
    <2>6. visiting' = {stack'[i].type : i \in 1 .. n + 1}
      <3>1. 1 .. n \subseteq 1 .. n + 1 /\ n + 1 \in 1 .. n + 1
        BY <1>1 DEF n
      <3> QED
        BY <1>2, <2>1, <2>2, <2>4, <3>1 DEF n
    <2> QED
      BY <2>2, <2>5, <2>6 DEF WalkIsAcyclic
  <1>8. CASE Return
    <2> DEFINE n == Len(stack) - 1
    <2>1. /\ stack # <<>> /\ visiting' = visiting \ {Top.type}
          /\ stack' = SubSeq(stack, 1, n)
      BY <1>8 DEF Return
    <2>2. n \in Nat /\ Top.type = stack[n + 1].type
      BY <1>1, <2>1 DEF Top
    <2>3. DOMAIN stack' = 1 .. n /\ \A i \in 1 .. n : stack'[i] = stack[i]
      BY <1>1, <2>1, <2>2, PoppedStack
    <2>4. /\ \A i \in 1 .. n : i \in 1 .. Len(stack) /\ i # n + 1
          /\ \A i \in 1 .. Len(stack) : i \in 1 .. n \/ i = n + 1
          /\ n + 1 \in 1 .. Len(stack)
      <3>1. Len(stack) = n + 1
        BY <1>1
      <3> HIDE DEF n
      <3> QED
        BY <2>2, <3>1
    <2> HIDE DEF n
    <2>5. visiting' = {stack'[i].type : i \in 1 .. n}
      BY <1>2, <2>1, <2>2, <2>3, <2>4
    <2> QED
      BY <1>2, <2>3, <2>4, <2>5 DEF WalkIsAcyclic
  <1>9. CASE Finish \/ UNCHANGED vars
    BY <1>9 DEF Finish, vars, WalkIsAcyclic
  <1> QED
    BY <1>4, <1>5, <1>6, <1>7, <1>8, <1>9 DEF Next

\* However the types embed one another, no type is walked inside a walk of
\* itself (declared.go:91-96).
THEOREM Acyclic == Spec => []WalkIsAcyclic
  <1>1. Init => WalkIsAcyclic
    BY DEF Init, WalkIsAcyclic, Frame
  <1> QED
    BY <1>1, TypeInit, TypeStep, AcyclicStep, PTL DEF Spec

-----------------------------------------------------------------------------
(* Dominance.                                                              *)

\* beats is a strict order whose incomparable claims tie.
LEMMA BeatsOrder ==
    ASSUME NEW a \in Claims, NEW b \in Claims, NEW c \in Claims
    PROVE  /\ ~beats(a, a)
           /\ beats(a, b) => ~beats(b, a) /\ ~ties(a, b)
           /\ beats(a, b) \/ beats(b, a) \/ ties(a, b)
           /\ beats(a, b) /\ ~beats(c, b) => beats(a, c)
           /\ beats(a, b) /\ ties(a, c) => beats(c, b)
           /\ beats(a, b) /\ ties(b, c) => beats(a, c)
           /\ ties(a, b) => ties(b, a)
           /\ ties(a, b) /\ ties(b, c) => ties(a, c)
  BY DEF beats, ties, Claims

\* A history grown by one claim on key keeps the claims on other keys.
LEMMA GrownHistory ==
    ASSUME TypeOK, NEW key \in Names, NEW claim \in Claims, NEW path,
           found' = Append(found, [key |-> key, claim |-> claim, path |-> path]),
           NEW n \in Names
    PROVE  /\ ClaimsOn(n)' = IF n = key THEN ClaimsOn(n) \cup {Len(found) + 1}
                                        ELSE ClaimsOn(n)
           /\ \A i \in ClaimsOn(n) : /\ found'[i] = found[i]
                                     /\ found[i].claim \in Claims
                                     /\ i # Len(found) + 1
           /\ found'[Len(found) + 1].claim = claim
  <1> DEFINE last == Len(found) + 1
  <1>1. found \in Seq(KeyedClaims) /\ DOMAIN found = 1 .. Len(found) /\ Len(found) \in Nat
    BY DEF TypeOK
  <1>2. DOMAIN found' = 1 .. last /\ last \notin DOMAIN found
    BY <1>1
  <1>3. \A i \in DOMAIN found : found'[i] = found[i] /\ found[i].claim \in Claims
    <2>1. \A i \in 1 .. Len(found) : found'[i] = found[i]
      BY <1>1
    <2>2. \A i \in 1 .. Len(found) : found[i] \in KeyedClaims
      BY <1>1
    <2> QED
      BY <1>1, <2>1, <2>2 DEF KeyedClaims
  <1>4. /\ found'[last].key = key /\ found'[last].claim = claim
    <2>1. found'[last] = [key |-> key, claim |-> claim, path |-> path]
      BY <1>1
    <2> QED
      BY <2>1
  <1>5. 1 .. last = DOMAIN found \cup {last}
    BY <1>1
  <1> HIDE DEF last
  <1>6. ClaimsOn(n)' = IF n = key THEN ClaimsOn(n) \cup {last} ELSE ClaimsOn(n)
    BY <1>2, <1>3, <1>4, <1>5 DEF ClaimsOn
  <1>7. \A i \in ClaimsOn(n) :
           found'[i] = found[i] /\ found[i].claim \in Claims /\ i # last
    BY <1>2, <1>3 DEF ClaimsOn
  <1> QED
    BY <1>4, <1>6, <1>7 DEF last

\* Merging one more claim keeps what the merge stands for.
LEMMA StrongestSummarises ==
    ASSUME TypeOK, NEW key \in Names, NEW claim \in Claims, ~claim.contested, NEW path,
           found' = Append(found, [key |-> key, claim |-> claim, path |-> path]),
           Summarises(claims[key], key),
           NEW new, new = Strongest(claim, claims[key])
    PROVE  IF ClaimsOn(key)' = {} THEN new = Nil
           ELSE /\ new # Nil
                /\ \A i \in ClaimsOn(key)' : ~beats(found'[i].claim, new)
                /\ \E i \in ClaimsOn(key)' : ties(found'[i].claim, new)
                /\ new.contested <=>
                     \E i, j \in ClaimsOn(key)' :
                        i # j /\ ties(found'[i].claim, new) /\ ties(found'[j].claim, new)
  <1> DEFINE last == Len(found) + 1
             best == claims[key]
             old == ClaimsOn(key)
  <1>1. /\ ClaimsOn(key)' = old \cup {last}
        /\ \A i \in old : found'[i] = found[i] /\ found[i].claim \in Claims /\ i # last
        /\ found'[last].claim = claim
    BY GrownHistory
  <1>2. best \in Claims \cup {Nil} /\ new # Nil /\ new \in Claims
    BY StrongestTyped DEF TypeOK
  <1>3. /\ old = {} => best = Nil
        /\ old # {} => /\ best # Nil
                       /\ \A i \in old : ~beats(found[i].claim, best)
                       /\ \E i \in old : ties(found[i].claim, best)
                       /\ best.contested <=> \E i, j \in old :
                            i # j /\ ties(found[i].claim, best) /\ ties(found[j].claim, best)
    BY DEF Summarises
  <1> HIDE DEF last, best, old
  <1>4. CASE best = Nil
    <2>1. new = claim /\ old = {}
      BY <1>3, <1>4 DEF Strongest, best
    <2> QED
      BY <1>1, <1>2, <2>1 DEF beats, ties, Claims
  <1>5. CASE best # Nil /\ beats(claim, best)
    <2>1. new = claim /\ old # {}
      BY <1>3, <1>5 DEF Strongest, best
    <2>2. \A i \in old : beats(claim, found[i].claim)
      BY <1>1, <1>2, <1>3, <1>5, <2>1, BeatsOrder
    <2>3. \A i \in old : ~beats(found[i].claim, claim) /\ ~ties(found[i].claim, claim)
      BY <1>1, <2>2, BeatsOrder
    <2>4. ~beats(claim, claim) /\ ties(claim, claim)
      BY DEF beats, ties
    <2> QED
      BY <1>1, <1>2, <2>1, <2>3, <2>4
  <1>6. CASE best # Nil /\ ~beats(claim, best) /\ ties(claim, best)
    <2>1. /\ new = [best EXCEPT !.contested = TRUE] /\ old # {}
      BY <1>3, <1>6 DEF Strongest, best
    <2>2. new.depth = best.depth /\ new.isTagged = best.isTagged /\ new.contested
      BY <1>2, <1>6, <2>1 DEF Claims
    <2>3. \A c \in Claims : /\ beats(c, new) <=> beats(c, best)
                            /\ ties(c, new) <=> ties(c, best)
      BY <2>2 DEF beats, ties
    <2>4. PICK i \in old : ties(found[i].claim, best)
      BY <1>3, <2>1
    <2>5. /\ i \in ClaimsOn(key)' /\ last \in ClaimsOn(key)' /\ i # last
          /\ ties(found'[i].claim, new) /\ ties(found'[last].claim, new)
      BY <1>1, <1>6, <2>3, <2>4
    <2>6. \A k \in ClaimsOn(key)' : ~beats(found'[k].claim, new)
      BY <1>1, <1>3, <1>6, <2>1, <2>3
    <2>7. /\ ClaimsOn(key)' # {}
          /\ \E k \in ClaimsOn(key)' : ties(found'[k].claim, new)
          /\ \E k, j \in ClaimsOn(key)' :
                k # j /\ ties(found'[k].claim, new) /\ ties(found'[j].claim, new)
      BY <2>5
    <2>8. new.contested <=>
            \E k, j \in ClaimsOn(key)' :
                k # j /\ ties(found'[k].claim, new) /\ ties(found'[j].claim, new)
      BY <1>2, <2>2, <2>7 DEF Claims
    <2> QED
      BY <1>2, <2>6, <2>7, <2>8
  <1>7. CASE best # Nil /\ ~beats(claim, best) /\ ~ties(claim, best)
    <2>1. new = best /\ old # {}
      BY <1>3, <1>7 DEF Strongest, best
    <2>2. ~ties(found'[last].claim, new) /\ ~beats(found'[last].claim, new)
      BY <1>1, <1>7, <2>1
    <2>3. \A i \in old : found'[i].claim = found[i].claim
      BY <1>1
    <2>4. \A i \in ClaimsOn(key)' : ~beats(found'[i].claim, new)
      BY <1>1, <1>3, <2>1, <2>2, <2>3
    <2>5. ClaimsOn(key)' # {} /\ \E i \in ClaimsOn(key)' : ties(found'[i].claim, new)
      BY <1>1, <1>3, <2>1, <2>3
    <2>6. \A i \in ClaimsOn(key)' :
             ties(found'[i].claim, new) <=> i \in old /\ ties(found[i].claim, best)
      BY <1>1, <2>1, <2>2, <2>3
    <2>7. new.contested <=>
            \E i, j \in ClaimsOn(key)' :
                i # j /\ ties(found'[i].claim, new) /\ ties(found'[j].claim, new)
      BY <1>1, <1>3, <2>1, <2>6
    <2> QED
      BY <1>2, <2>4, <2>5, <2>7
  <1> QED
    BY <1>4, <1>5, <1>6, <1>7

\* Every step of the walk keeps the claims a summary of the history.
LEMMA DominanceStep == TypeOK /\ ClaimsAreDominant /\ [Next]_vars => ClaimsAreDominant'
  <1> SUFFICES ASSUME TypeOK, ClaimsAreDominant, [Next]_vars PROVE ClaimsAreDominant'
    OBVIOUS
  <1>1. ASSUME UNCHANGED <<claims, found>> PROVE ClaimsAreDominant'
    BY <1>1 DEF ClaimsAreDominant, Summarises, ClaimsOn
  <1>2. CASE ClaimField
    <2>1. PICK key \in Names, claim \in Claims :
            /\ ~claim.contested
            /\ claims' = [claims EXCEPT ![key] = Strongest(claim, claims[key])]
            /\ found' = Append(found, [key |-> key, claim |-> claim, path |-> Path])
      <3>1. /\ KeyOf(CurrentField) \in Names /\ NewClaim \in Claims
            /\ ~NewClaim.contested
        BY <1>2, CurrentFieldTyped DEF ClaimField, NewClaim
      <3>2. LET key == KeyOf(CurrentField) IN
            /\ claims' = [claims EXCEPT ![key] = Strongest(NewClaim, claims[key])]
            /\ found' = Append(found, [key |-> key, claim |-> NewClaim, path |-> Path])
        BY <1>2 DEF ClaimField
      <3> QED
        BY <3>1, <3>2
    <2>3. /\ claims'[key] = Strongest(claim, claims[key])
          /\ \A n \in Names : n # key => claims'[n] = claims[n]
      BY <2>1 DEF TypeOK
    <2>4. Summarises(claims[key], key)
      BY <2>1 DEF ClaimsAreDominant
    <2>5. Summarises(claims[key], key)'
      <3> DEFINE new == Strongest(claim, claims[key])
      <3>1. IF ClaimsOn(key)' = {} THEN new = Nil
            ELSE /\ new # Nil
                 /\ \A i \in ClaimsOn(key)' : ~beats(found'[i].claim, new)
                 /\ \E i \in ClaimsOn(key)' : ties(found'[i].claim, new)
                 /\ new.contested <=>
                      \E i, j \in ClaimsOn(key)' :
                        i # j /\ ties(found'[i].claim, new) /\ ties(found'[j].claim, new)
        BY <2>1, <2>4, StrongestSummarises
      <3>2. claims'[key] = new
        BY <2>3
      <3> HIDE DEF new
      <3> QED
        BY <3>1, <3>2 DEF Summarises
    <2>6. ASSUME NEW n \in Names, n # key PROVE Summarises(claims[n], n)'
      <3>1. /\ ClaimsOn(n)' = ClaimsOn(n)
            /\ \A i \in ClaimsOn(n) : found'[i] = found[i]
        BY <2>1, <2>6, GrownHistory
      <3> QED
        BY <2>3, <2>6, <3>1 DEF ClaimsAreDominant, Summarises
    <2> QED
      BY <2>5, <2>6 DEF ClaimsAreDominant
  <1>3. CASE SkipField \/ Revisit \/ Descend \/ Return \/ Finish
    BY <1>1, <1>3 DEF SkipField, Revisit, Descend, Return, Finish
  <1>4. CASE UNCHANGED vars
    BY <1>1, <1>4 DEF vars
  <1> QED
    BY <1>2, <1>3, <1>4 DEF Next

\* Merging claims one by one, in whatever order the walk meets them, keeps
\* for every key a claim no claim of the history outranks, contested exactly
\* when two of the history are as strong (declared.go:148-159).
THEOREM Merge == Spec => []ClaimsAreDominant
  <1>1. Init => ClaimsAreDominant
    BY DEF Init, ClaimsAreDominant, Summarises, ClaimsOn
  <1> QED
    BY <1>1, TypeInit, TypeStep, DominanceStep, PTL DEF Spec

\* The keys whose kept claim is alone are those with a claim that outranks
\* every other.
LEMMA UncontestedIsDominant ==
    ASSUME TypeOK, ClaimsAreDominant
    PROVE  Uncontested =
             {n \in Names : \E i \in ClaimsOn(n) : \A j \in ClaimsOn(n) \ {i} :
                              beats(found[i].claim, found[j].claim)}
  <1> SUFFICES ASSUME NEW n \in Names
               PROVE  n \in Uncontested <=>
                        \E i \in ClaimsOn(n) : \A j \in ClaimsOn(n) \ {i} :
                            beats(found[i].claim, found[j].claim)
    BY DEF Uncontested
  <1> DEFINE best == claims[n]
             on == ClaimsOn(n)
  <1>1. \A i \in on : found[i].claim \in Claims
    <2>1. \A i \in DOMAIN found : found[i] \in KeyedClaims
      BY DEF TypeOK
    <2> QED
      BY <2>1 DEF ClaimsOn, KeyedClaims
  <1>2. best \in Claims \cup {Nil} /\ (n \in Uncontested <=> best # Nil /\ ~best.contested)
    BY DEF TypeOK, Uncontested
  <1>3. /\ on = {} => best = Nil
        /\ on # {} => /\ best # Nil
                      /\ \A i \in on : ~beats(found[i].claim, best)
                      /\ \E i \in on : ties(found[i].claim, best)
                      /\ best.contested <=> \E i, j \in on :
                           i # j /\ ties(found[i].claim, best) /\ ties(found[j].claim, best)
    BY DEF ClaimsAreDominant, Summarises
  <1> HIDE DEF best, on
  <1>4. ASSUME best # Nil, ~best.contested
        PROVE  \E i \in on : \A j \in on \ {i} : beats(found[i].claim, found[j].claim)
    <2>1. PICK i \in on : ties(found[i].claim, best)
      BY <1>3, <1>4
    <2>2. ASSUME NEW j \in on \ {i} PROVE beats(found[i].claim, found[j].claim)
      <3>1. ~ties(found[j].claim, best) /\ ~beats(found[j].claim, best)
        BY <1>3, <1>4, <2>1
      <3>2. beats(best, found[j].claim)
        BY <1>1, <1>2, <1>4, <3>1, BeatsOrder
      <3> QED
        BY <1>1, <1>2, <1>4, <2>1, <3>2, BeatsOrder
    <2> QED
      BY <2>2
  <1>5. ASSUME NEW i \in on,
               \A j \in on \ {i} : beats(found[i].claim, found[j].claim)
        PROVE  best # Nil /\ ~best.contested
    <2>1. best # Nil /\ best \in Claims
      BY <1>2, <1>3
    <2>2. ASSUME NEW j \in on, j # i, ties(found[j].claim, best) PROVE FALSE
      <3>1. beats(found[i].claim, found[j].claim)
        BY <1>5, <2>2
      <3>2. beats(found[i].claim, best)
        BY <1>1, <2>1, <2>2, <3>1, BeatsOrder
      <3> QED
        BY <1>3, <3>2
    <2>3. ~ \E k, j \in on : k # j /\ ties(found[k].claim, best) /\ ties(found[j].claim, best)
      BY <2>2
    <2> QED
      BY <1>3, <2>1, <2>3
  <1> QED
    BY <1>2, <1>4, <1>5 DEF best, on

\* The result, once there, is what the finished walk's claims come to.
Settled == declared # Nil => stack = <<>> /\ declared = Uncontested

\* No step unsettles it.
LEMMA SettledStep == Settled /\ [Next]_vars => Settled'
  <1> SUFFICES ASSUME Settled, [Next]_vars PROVE Settled'
    OBVIOUS
  <1>1. ASSUME InLoop \/ stack # <<>>, declared' = declared PROVE Settled'
    BY <1>1 DEF Settled, InLoop
  <1>2. CASE SkipField \/ Revisit \/ Descend \/ ClaimField \/ Return
    BY <1>1, <1>2 DEF SkipField, Revisit, Descend, ClaimField, Return
  <1>3. CASE Finish
    BY <1>3 DEF Finish, Settled, Uncontested
  <1>4. CASE UNCHANGED vars
    BY <1>4 DEF vars, Settled, Uncontested
  <1> QED
    BY <1>2, <1>3, <1>4 DEF Next

\* A key is declared exactly when one claim on it outranks every other, for
\* every set of type declarations and every order of their fields
\* (declared.go:63-88, 148-159).
THEOREM Dominance == Spec => []DeclaredIsDominant
  <1>1. Init => Settled
    BY DEF Init, Settled
  <1>2. TypeOK /\ ClaimsAreDominant /\ Settled => DeclaredIsDominant
    BY UncontestedIsDominant DEF Settled, DeclaredIsDominant
  <1> QED
    BY <1>1, <1>2, TypeCorrect, Merge, SettledStep, PTL DEF Spec

-----------------------------------------------------------------------------
(* The walk meets every field of T once.                                   *)

\* A route leads from Root, one embedded struct inside the other and no type
\* inside itself, to a field with a key: where a claim can come from.
FieldAt(step) == fieldsOf[step.type][step.index]

EmbedsAt(step, type) ==
    /\ step.index \in DOMAIN fieldsOf[step.type]
    /\ ~Skipped(FieldAt(step))
    /\ Promoted(FieldAt(step))
    /\ FieldAt(step).type = type

ClaimsAt(step) ==
    /\ step.index \in DOMAIN fieldsOf[step.type]
    /\ ~Skipped(FieldAt(step))
    /\ ~Promoted(FieldAt(step))

Leads(r) ==
    /\ r # <<>>
    /\ r[1].type = Root
    /\ \A k \in 1 .. Len(r) - 1 : EmbedsAt(r[k], r[k + 1].type)
    /\ \A j, k \in 1 .. Len(r) : r[j].type = r[k].type => j = k

Routes == {r \in Seq(Steps) : Leads(r) /\ ClaimsAt(r[Len(r)])}

\* The claim at the end of a route.
ClaimOf(r) == [depth |-> Len(r) - 1, isTagged |-> HasTagName(FieldAt(r[Len(r)])),
               contested |-> FALSE]
KeyAt(r) == KeyOf(FieldAt(r[Len(r)]))

\* The loops on the stack have not passed the route yet: they share its first
\* steps, and the next of them is at the route's field or before it.
AheadAt(r, k) ==
    /\ k <= Len(r)
    /\ \A j \in 1 .. k - 1 : r[j] = Path[j]
    /\ r[k].type = stack[k].type
    /\ r[k].index >= stack[k].next
Ahead(r) == \E k \in 1 .. Len(stack) : AheadAt(r, k)

\* The route goes through the field the innermost loop is at.
Through(r) ==
    /\ Len(stack) <= Len(r)
    /\ \A k \in 1 .. Len(stack) : r[k] = Path[k]

\* The inductive invariant: the stack is a route as far as it goes, every
\* route is ahead or has its claim in the history, and every claim of the
\* history comes from a route of its own that is no longer ahead.
StackLeads ==
    stack # <<>> =>
        /\ stack[1].type = Root
        /\ \A k \in 1 .. Len(stack) - 1 : EmbedsAt(Path[k], stack[k + 1].type)
NoRouteIsMissed == \A r \in Routes : Ahead(r) \/ \E i \in DOMAIN found : found[i].path = r
ClaimsAreMetOnce ==
    \A i \in DOMAIN found :
        /\ found[i].path \in Routes
        /\ ~Ahead(found[i].path)
        /\ \A j \in DOMAIN found : found[j].path = found[i].path => i = j
        /\ found[i].key = KeyAt(found[i].path)
        /\ found[i].claim = ClaimOf(found[i].path)
WalkInv == TypeOK /\ WalkIsAcyclic /\ StackLeads /\ NoRouteIsMissed /\ ClaimsAreMetOnce

\* What holds of each step of a route.
LEMMA RouteSteps ==
    ASSUME TypeOK, NEW r \in Routes
    PROVE  /\ r \in Seq(Steps) /\ Len(r) \in Nat \ {0} /\ Leads(r)
           /\ \A k \in 1 .. Len(r) :
                /\ r[k] \in Steps
                /\ r[k].index \in 1 .. Len(fieldsOf[r[k].type])
                /\ ~Skipped(FieldAt(r[k]))
                /\ IF Promoted(FieldAt(r[k]))
                   THEN k < Len(r) /\ FieldAt(r[k]).type = r[k + 1].type
                   ELSE k = Len(r)
  <1>1. r \in Seq(Steps) /\ Leads(r) /\ ClaimsAt(r[Len(r)]) /\ r # <<>>
    BY DEF Routes, Leads
  <1>2. Len(r) \in Nat \ {0}
    BY <1>1
  <1>3. ASSUME NEW k \in 1 .. Len(r)
        PROVE  /\ r[k] \in Steps
               /\ r[k].index \in 1 .. Len(fieldsOf[r[k].type])
               /\ ~Skipped(FieldAt(r[k]))
               /\ IF Promoted(FieldAt(r[k]))
                  THEN k < Len(r) /\ FieldAt(r[k]).type = r[k + 1].type
                  ELSE k = Len(r)
    <2>1. r[k] \in Steps
      BY <1>1, <1>3
    <2>2. DOMAIN fieldsOf[r[k].type] = 1 .. Len(fieldsOf[r[k].type])
      <3>1. fieldsOf[r[k].type] \in Seq(Fields)
        BY <2>1 DEF TypeOK, Steps
      <3> QED
        BY <3>1
    <2>3. CASE k = Len(r)
      BY <1>1, <2>1, <2>2, <2>3 DEF ClaimsAt
    <2>4. CASE k # Len(r)
      <3>1. k \in 1 .. Len(r) - 1 /\ k < Len(r)
        BY <1>2, <1>3, <2>4
      <3>2. EmbedsAt(r[k], r[k + 1].type)
        BY <1>1, <3>1 DEF Leads
      <3> QED
        BY <2>1, <2>2, <3>1, <3>2 DEF EmbedsAt
    <2> QED
      BY <2>3, <2>4
  <1> QED
    BY <1>1, <1>2, <1>3

\* The type declarations do not change, nor do the routes.
LEMMA RoutesStay ==
    ASSUME fieldsOf' = fieldsOf
    PROVE  /\ Routes' = Routes
           /\ \A r : /\ Leads(r)' <=> Leads(r)
                     /\ KeyAt(r)' = KeyAt(r)
                     /\ ClaimOf(r)' = ClaimOf(r)
  BY DEF Routes, Leads, EmbedsAt, ClaimsAt, FieldAt, KeyAt, ClaimOf

\* The frames of the stack and the steps of the path, loop by loop.
LEMMA StackSteps ==
    ASSUME TypeOK
    PROVE  /\ \A k \in 1 .. Len(stack) :
                 stack[k].next \in Nat \ {0} /\ Path[k].type = stack[k].type
           /\ \A k \in 1 .. Len(stack) - 1 : Path[k].index = stack[k].next - 1
  <1>1. Len(stack) \in Nat /\ \A k \in 1 .. Len(stack) : stack[k] \in Frames
    BY DEF TypeOK
  <1>2. \A k \in 1 .. Len(stack) - 1 : k \in 1 .. Len(stack) /\ k < Len(stack)
    BY <1>1
  <1>3. \A k \in 1 .. Len(stack) : stack[k].next \in Nat \ {0}
    BY <1>1 DEF Frames
  <1>4. ASSUME NEW k \in 1 .. Len(stack) PROVE Path[k].type = stack[k].type
    <2>1. Path[k] = [type |-> stack[k].type,
                     index |-> IF k < Len(stack) THEN stack[k].next - 1 ELSE stack[k].next]
      BY PathOfStack
    <2> QED
      BY <2>1
  <1>5. ASSUME NEW k \in 1 .. Len(stack) - 1 PROVE Path[k].index = stack[k].next - 1
    <2>1. Path[k] = [type |-> stack[k].type,
                     index |-> IF k < Len(stack) THEN stack[k].next - 1 ELSE stack[k].next]
      BY <1>2, PathOfStack
    <2> QED
      BY <1>2, <2>1
  <1> QED
    BY <1>3, <1>4, <1>5

\* How the steps of the walk change its stack and its path.
LEMMA OnAdvance ==
    ASSUME TypeOK, InLoop, stack' = Advanced
    PROVE  LET n == Len(stack) IN
           /\ n \in Nat \ {0} /\ Len(stack') = n /\ Len(Path') = n
           /\ \A k \in 1 .. n - 1 : stack'[k] = stack[k] /\ Path'[k] = Path[k]
           /\ Path[n] = [type |-> stack[n].type, index |-> stack[n].next]
           /\ stack'[n].type = stack[n].type /\ stack'[n].next = stack[n].next + 1
           /\ Path'[n].type = stack[n].type
  <1> DEFINE n == Len(stack)
  <1>1. n \in Nat \ {0} /\ Top \in Frames /\ DOMAIN stack = 1 .. n
    BY CurrentFieldTyped DEF TypeOK
  <1>2. Advanced = [stack EXCEPT ![n] = [Top EXCEPT !.next = @ + 1]]
    BY <1>1 DEF Advanced, Top
  <1>3. /\ \A k \in 1 .. n - 1 : stack'[k] = stack[k]
        /\ stack'[n] = [Top EXCEPT !.next = @ + 1]
        /\ DOMAIN stack' = 1 .. n /\ Len(stack') = n
    BY <1>1, <1>2, AdvancedStack
  <1>4. stack'[n].type = stack[n].type /\ stack'[n].next = stack[n].next + 1
    BY <1>1, <1>3 DEF Top, Frames
  <1>5. Path' = [k \in 1 .. n |->
                   [type |-> stack'[k].type,
                    index |-> IF k < n THEN stack'[k].next - 1 ELSE stack'[k].next]]
    BY <1>3 DEF Path
  <1>6. \A k \in 1 .. n :
           Path[k] = [type |-> stack[k].type,
                      index |-> IF k < n THEN stack[k].next - 1 ELSE stack[k].next]
    BY PathOfStack
  <1> HIDE DEF n
  <1>7. \A k \in 1 .. n - 1 : k \in 1 .. n /\ k < n
    BY <1>1
  <1>8. \A k \in 1 .. n - 1 : Path'[k] = Path[k]
    BY <1>3, <1>5, <1>6, <1>7
  <1>9. n \in 1 .. n /\ ~(n < n)
    BY <1>1
  <1>10. Len(Path') = n
    BY <1>1, <1>5
  <1> QED
    BY <1>1, <1>3, <1>4, <1>5, <1>6, <1>8, <1>9, <1>10 DEF n

\* A descent extends the path by the embedded type's first field.
LEMMA OnDescend ==
    ASSUME TypeOK, Descend
    PROVE  LET n == Len(stack) IN
           /\ n \in Nat \ {0} /\ Len(stack') = n + 1 /\ Len(Path') = n + 1
           /\ \A k \in 1 .. n : Path'[k] = Path[k] /\ stack'[k].type = stack[k].type
           /\ \A k \in 1 .. n - 1 : stack'[k].next = stack[k].next
           /\ Path[n] = [type |-> stack[n].type, index |-> stack[n].next]
           /\ stack'[n].next = stack[n].next + 1
           /\ stack'[n + 1] = Frame(CurrentField.type)
           /\ Path'[n + 1].type = CurrentField.type
  <1> DEFINE n == Len(stack)
  <1>1. /\ n \in Nat \ {0} /\ Top \in Frames /\ DOMAIN stack = 1 .. n
        /\ Frame(CurrentField.type) \in Frames
    BY CurrentFieldTyped DEF TypeOK, Descend, Frame, Frames
  <1>2. Advanced = [stack EXCEPT ![n] = [Top EXCEPT !.next = @ + 1]]
    BY <1>1 DEF Advanced, Top
  <1>3. /\ \A k \in 1 .. n - 1 : Advanced[k] = stack[k]
        /\ Advanced[n] = [Top EXCEPT !.next = @ + 1]
        /\ Advanced \in Seq(Frames) /\ Len(Advanced) = n
    BY <1>1, <1>2, AdvancedStack DEF Descend
  <1>4. /\ stack' = Append(Advanced, Frame(CurrentField.type))
        /\ Len(stack') = n + 1 /\ DOMAIN stack' = 1 .. n + 1
        /\ \A k \in 1 .. n : stack'[k] = Advanced[k]
        /\ stack'[n + 1] = Frame(CurrentField.type)
    BY <1>1, <1>3 DEF Descend
  <1>5. Path' = [k \in 1 .. n + 1 |->
                   [type |-> stack'[k].type,
                    index |-> IF k < n + 1 THEN stack'[k].next - 1 ELSE stack'[k].next]]
    BY <1>4 DEF Path
  <1>6. \A k \in 1 .. n :
           Path[k] = [type |-> stack[k].type,
                      index |-> IF k < n THEN stack[k].next - 1 ELSE stack[k].next]
    BY PathOfStack
  <1>7. Advanced[n].type = stack[n].type /\ Advanced[n].next = stack[n].next + 1
        /\ stack[n].next \in Nat
    BY <1>1, <1>3 DEF Top, Frames
  <1> HIDE DEF n
  <1>8. /\ \A k \in 1 .. n - 1 : k \in 1 .. n /\ k \in 1 .. n + 1 /\ k < n /\ k < n + 1
        /\ n \in 1 .. n /\ n \in 1 .. n + 1 /\ n < n + 1 /\ ~(n < n)
        /\ n + 1 \in 1 .. n + 1
        /\ \A k \in 1 .. n : k = n \/ k \in 1 .. n - 1
    BY <1>1
  <1>9. \A k \in 1 .. n - 1 : Path'[k] = Path[k] /\ stack'[k] = stack[k]
    <2> SUFFICES ASSUME NEW k \in 1 .. n - 1
                 PROVE  Path'[k] = Path[k] /\ stack'[k] = stack[k]
      OBVIOUS
    <2>1. stack'[k] = stack[k]
      BY <1>3, <1>4, <1>8
    <2>2. Path'[k] = [type |-> stack'[k].type, index |-> stack'[k].next - 1]
      BY <1>5, <1>8
    <2>3. Path[k] = [type |-> stack[k].type, index |-> stack[k].next - 1]
      BY <1>6, <1>8
    <2> QED
      BY <2>1, <2>2, <2>3
  <1>10. Path'[n] = [type |-> stack[n].type, index |-> stack[n].next]
         /\ Path[n] = [type |-> stack[n].type, index |-> stack[n].next]
    <2>1. Path'[n] = [type |-> stack'[n].type, index |-> stack'[n].next - 1]
      BY <1>5, <1>8
    <2>2. stack'[n].type = stack[n].type /\ stack'[n].next = stack[n].next + 1
      BY <1>4, <1>7, <1>8
    <2>3. Path[n] = [type |-> stack[n].type, index |-> stack[n].next]
      BY <1>6, <1>8
    <2>4. stack'[n].next - 1 = stack[n].next
      BY <1>7, <2>2
    <2> QED
      BY <2>1, <2>2, <2>3, <2>4
  <1>11. Path'[n] = Path[n]
    BY <1>10
  <1>12. Len(Path') = n + 1
    BY <1>1, <1>5
  <1>13. Path'[n + 1].type = CurrentField.type
    BY <1>4, <1>5, <1>8 DEF Frame
  <1>14. \A k \in 1 .. n : Path'[k] = Path[k] /\ stack'[k].type = stack[k].type
    BY <1>4, <1>7, <1>8, <1>9, <1>11
  <1>15. \A k \in 1 .. n - 1 : stack'[k].next = stack[k].next
    BY <1>9
  <1>16. stack'[n].next = stack[n].next + 1
    BY <1>4, <1>7, <1>8
  <1> QED
    BY <1>1, <1>4, <1>10, <1>12, <1>13, <1>14, <1>15, <1>16 DEF n

\* A return leaves the frames below as they were.
LEMMA OnReturn ==
    ASSUME TypeOK, Return
    PROVE  LET n == Len(stack) IN
           /\ n \in Nat \ {0} /\ Len(stack') = n - 1 /\ Len(Path') = n - 1
           /\ \A k \in 1 .. n - 1 : stack'[k] = stack[k] /\ Path'[k].type = stack[k].type
           /\ \A k \in 1 .. n - 2 : Path'[k] = Path[k]
  <1> DEFINE n == Len(stack)
  <1>1. n \in Nat \ {0}
    BY DEF TypeOK, Return
  <1>2. /\ stack' \in Seq(Frames) /\ Len(stack') = n - 1
        /\ \A k \in 1 .. n - 1 : stack'[k] = stack[k]
    BY PoppedStack DEF Return
  <1>3. Path' = [k \in 1 .. n - 1 |->
                   [type |-> stack'[k].type,
                    index |-> IF k < n - 1 THEN stack'[k].next - 1 ELSE stack'[k].next]]
    BY <1>2 DEF Path
  <1>4. \A k \in 1 .. n :
           Path[k] = [type |-> stack[k].type,
                      index |-> IF k < n THEN stack[k].next - 1 ELSE stack[k].next]
    BY PathOfStack
  <1> HIDE DEF n
  <1>5. \A k \in 1 .. n - 2 : k \in 1 .. n - 1 /\ k \in 1 .. n /\ k < n - 1 /\ k < n
    BY <1>1
  <1>6. Len(Path') = n - 1
    BY <1>1, <1>3
  <1>7. \A k \in 1 .. n - 2 : Path'[k] = Path[k]
    BY <1>2, <1>3, <1>4, <1>5
  <1> QED
    BY <1>1, <1>2, <1>3, <1>6, <1>7 DEF n

\* A loop passes the routes that go through its field, and no other.
LEMMA AheadOnAdvance ==
    ASSUME TypeOK, InLoop, stack' = Advanced, NEW r \in Routes
    PROVE  Ahead(r)' <=> Ahead(r) /\ ~Through(r)
  <1>1. PICK n \in Nat \ {0} :
          /\ n = Len(stack) /\ Len(stack') = n
          /\ \A k \in 1 .. n - 1 : stack'[k] = stack[k] /\ Path'[k] = Path[k]
          /\ Path[n] = [type |-> stack[n].type, index |-> stack[n].next]
          /\ stack'[n].type = stack[n].type /\ stack'[n].next = stack[n].next + 1
    BY OnAdvance
  <1>2. /\ Len(r) \in Nat
        /\ \A k \in 1 .. Len(r) : r[k] \in Steps /\ r[k].index \in Nat
    BY RouteSteps DEF Steps
  <1>3. /\ \A k \in 1 .. n : stack[k].next \in Nat
        /\ \A k \in 1 .. n - 1 : Path[k].index = stack[k].next - 1
    BY <1>1, StackSteps
  <1>4. /\ \A k \in 1 .. n - 1 : k \in 1 .. n
        /\ \A k \in 1 .. n : k \in 1 .. n - 1 \/ k = n
        /\ \A k \in 1 .. n : \A j \in 1 .. k - 1 : j \in 1 .. n - 1
        /\ n \in 1 .. n
    BY <1>1
  <1>5. ASSUME NEW k \in 1 .. n - 1 PROVE AheadAt(r, k)' <=> AheadAt(r, k)
    <2>1. stack'[k] = stack[k] /\ \A j \in 1 .. k - 1 : Path'[j] = Path[j]
      BY <1>1, <1>4
    <2> QED
      BY <2>1 DEF AheadAt
  <1>6. ASSUME NEW k \in 1 .. n - 1, Through(r) PROVE ~AheadAt(r, k)
    <2>1. r[k].index = stack[k].next - 1 /\ stack[k].next \in Nat
      BY <1>1, <1>3, <1>4, <1>6 DEF Through
    <2> QED
      BY <2>1 DEF AheadAt
  <1>7. AheadAt(r, n)' <=> AheadAt(r, n) /\ ~Through(r)
    <2>1. ASSUME n <= Len(r), \A j \in 1 .. n - 1 : r[j] = Path[j],
                 r[n].type = stack[n].type
          PROVE  Through(r) <=> r[n].index = stack[n].next
      <3>1. r[n] \in Steps
        BY <1>1, <1>2, <2>1
      <3>2. r[n] = Path[n] <=> r[n].index = stack[n].next
        BY <1>1, <2>1, <3>1 DEF Steps
      <3>3. Through(r) <=> r[n] = Path[n]
        BY <1>1, <1>4, <2>1 DEF Through
      <3> QED
        BY <3>2, <3>3
    <2>2. AheadAt(r, n)' <=> /\ n <= Len(r)
                             /\ \A j \in 1 .. n - 1 : r[j] = Path[j]
                             /\ r[n].type = stack[n].type
                             /\ r[n].index >= stack[n].next + 1
      BY <1>1 DEF AheadAt
    <2>3. n <= Len(r) => r[n].index \in Nat /\ stack[n].next \in Nat
      BY <1>1, <1>2, <1>3
    <2>4. n <= Len(r) => (r[n].index >= stack[n].next + 1 <=>
                            r[n].index >= stack[n].next /\ r[n].index # stack[n].next)
      BY <2>3
    <2> QED
      BY <2>1, <2>2, <2>4 DEF AheadAt
  <1>8. Ahead(r)' <=> \E k \in 1 .. n : AheadAt(r, k)'
    BY <1>1 DEF Ahead
  <1>9. Ahead(r) <=> \E k \in 1 .. n : AheadAt(r, k)
    BY <1>1 DEF Ahead
  <1> QED
    BY <1>4, <1>5, <1>6, <1>7, <1>8, <1>9

\* A route through the field the loop is at goes on as the field says.
LEMMA ThroughField ==
    ASSUME TypeOK, InLoop, NEW r \in Routes, Through(r)
    PROVE  /\ ~Skipped(CurrentField)
           /\ IF Promoted(CurrentField)
              THEN Len(stack) < Len(r) /\ CurrentField.type = r[Len(stack) + 1].type
              ELSE r = Path
  <1>1. PICK n \in Nat \ {0} : n = Len(stack)
    BY CurrentFieldTyped
  <1>2. n \in 1 .. n /\ n \in 1 .. Len(r) /\ r \in Seq(Steps) /\ Len(r) \in Nat
    BY <1>1, RouteSteps DEF Through
  <1>3. r[n] = Path[n]
    BY <1>1, <1>2 DEF Through
  <1>4. Path[n] = [type |-> stack[n].type, index |-> stack[n].next]
    BY <1>1, <1>2, PathOfStack
  <1>5. CurrentField = FieldAt(r[n])
    BY <1>1, <1>3, <1>4 DEF CurrentField, Top, FieldAt
  <1>6. /\ ~Skipped(CurrentField)
        /\ IF Promoted(CurrentField)
           THEN n < Len(r) /\ CurrentField.type = r[n + 1].type
           ELSE n = Len(r)
    BY <1>2, <1>5, RouteSteps
  <1>7. ASSUME n = Len(r) PROVE r = Path
    <2>1. Path \in Seq(Steps) /\ Len(Path) = n
      BY <1>1, PathOfStack
    <2>2. \A k \in 1 .. n : r[k] = Path[k]
      BY <1>1 DEF Through
    <2> QED
      BY <1>2, <1>7, <2>1, <2>2
  <1> QED
    BY <1>1, <1>6, <1>7

\* Entering an embedded struct, the walk leaves no route behind.
LEMMA AheadOnDescend ==
    ASSUME TypeOK, Descend, NEW r \in Routes
    PROVE  Ahead(r)' <=> Ahead(r)
  <1>1. PICK n \in Nat \ {0} :
          /\ n = Len(stack) /\ Len(stack') = n + 1
          /\ \A k \in 1 .. n : Path'[k] = Path[k] /\ stack'[k].type = stack[k].type
          /\ \A k \in 1 .. n - 1 : stack'[k].next = stack[k].next
          /\ Path[n] = [type |-> stack[n].type, index |-> stack[n].next]
          /\ stack'[n].next = stack[n].next + 1
          /\ stack'[n + 1] = Frame(CurrentField.type)
    BY OnDescend
  <1>2. /\ Len(r) \in Nat
        /\ \A k \in 1 .. Len(r) : r[k] \in Steps /\ r[k].index \in Nat \ {0}
    <2>1. \A k \in 1 .. Len(r) : r[k].index \in 1 .. Len(fieldsOf[r[k].type]) /\ r[k] \in Steps
      BY RouteSteps
    <2> QED
      BY <2>1, RouteSteps DEF Steps
  <1>3. InLoop /\ Promoted(CurrentField)
    BY DEF Descend
  <1>4. /\ \A k \in 1 .. n - 1 : k \in 1 .. n
        /\ \A k \in 1 .. n : k \in 1 .. n - 1 \/ k = n
        /\ \A k \in 1 .. n : \A j \in 1 .. k - 1 : j \in 1 .. n
        /\ \A k \in 1 .. n + 1 : k \in 1 .. n \/ k = n + 1
        /\ n \in 1 .. n /\ n + 1 \in 1 .. n + 1 /\ 1 .. n = 1 .. n + 1 - 1
    BY <1>1
  <1>5. stack[n].next \in Nat
    BY <1>1, <1>4, StackSteps
  <1>6. ASSUME NEW k \in 1 .. n - 1 PROVE AheadAt(r, k)' <=> AheadAt(r, k)
    <2>1. /\ stack'[k].type = stack[k].type /\ stack'[k].next = stack[k].next
          /\ \A j \in 1 .. k - 1 : Path'[j] = Path[j]
      BY <1>1, <1>4
    <2> QED
      BY <2>1 DEF AheadAt
  <1>7. ASSUME AheadAt(r, n)' PROVE AheadAt(r, n)
    <2>1. /\ n <= Len(r) /\ \A j \in 1 .. n - 1 : r[j] = Path[j]
          /\ r[n].type = stack[n].type /\ r[n].index >= stack[n].next + 1
      BY <1>1, <1>4, <1>7 DEF AheadAt
    <2>2. r[n].index \in Nat
      BY <1>1, <1>2, <2>1
    <2> QED
      BY <1>5, <2>1, <2>2 DEF AheadAt
  <1>8. ASSUME AheadAt(r, n + 1)' PROVE AheadAt(r, n)
    <2>1. n + 1 <= Len(r) /\ \A j \in 1 .. n : r[j] = Path[j]
      BY <1>1, <1>4, <1>8 DEF AheadAt
    <2>2. n <= Len(r) /\ \A j \in 1 .. n - 1 : r[j] = Path[j]
      BY <1>1, <1>2, <1>4, <2>1
    <2>3. r[n].type = stack[n].type /\ r[n].index >= stack[n].next
      BY <1>1, <1>4, <1>5, <2>1
    <2> QED
      BY <2>2, <2>3 DEF AheadAt
  <1>9. ASSUME AheadAt(r, n) PROVE AheadAt(r, n)' \/ AheadAt(r, n + 1)'
    <2>1. /\ n <= Len(r) /\ \A j \in 1 .. n - 1 : r[j] = Path[j]
          /\ r[n].type = stack[n].type /\ r[n].index >= stack[n].next
      BY <1>9 DEF AheadAt
    <2>2. r[n].index \in Nat /\ r[n] \in Steps
      BY <1>1, <1>2, <2>1
    <2>3. CASE r[n].index = stack[n].next
      <3>1. r[n] = Path[n]
        BY <1>1, <2>1, <2>2, <2>3 DEF Steps
      <3>2. Through(r)
        BY <1>1, <1>4, <2>1, <3>1 DEF Through
      <3>3. n + 1 <= Len(r) /\ r[n + 1].type = CurrentField.type
        BY <1>1, <1>2, <1>3, <3>2, ThroughField
      <3>4. r[n + 1].index >= 1
        BY <1>1, <1>2, <3>3
      <3>5. \A j \in 1 .. n + 1 - 1 : r[j] = Path'[j]
        BY <1>1, <1>4, <3>2 DEF Through
      <3> QED
        BY <1>1, <3>3, <3>4, <3>5 DEF AheadAt, Frame
    <2>4. CASE r[n].index # stack[n].next
      <3>1. r[n].index >= stack[n].next + 1
        BY <1>5, <2>1, <2>2, <2>4
      <3> QED
        BY <1>1, <1>4, <2>1, <3>1 DEF AheadAt
    <2> QED
      BY <2>3, <2>4
  <1>10. Ahead(r)' <=> \E k \in 1 .. n + 1 : AheadAt(r, k)'
    BY <1>1 DEF Ahead
  <1>11. Ahead(r) <=> \E k \in 1 .. n : AheadAt(r, k)
    BY <1>1 DEF Ahead
  <1>12. ASSUME Ahead(r)' PROVE Ahead(r)
    BY <1>4, <1>6, <1>7, <1>8, <1>10, <1>11, <1>12
  <1>13. ASSUME Ahead(r) PROVE Ahead(r)'
    <2>1. PICK k \in 1 .. n : AheadAt(r, k)
      BY <1>11, <1>13
    <2>2. CASE k \in 1 .. n - 1
      BY <1>1, <1>6, <1>10, <2>1, <2>2
    <2>3. CASE k = n
      <3>1. n \in 1 .. n + 1
        BY <1>1
      <3> QED
        BY <1>4, <1>9, <1>10, <2>1, <2>3, <3>1
    <2> QED
      BY <1>4, <2>2, <2>3
  <1> QED
    BY <1>12, <1>13

\* A loop that is over has nothing ahead.
LEMMA AheadOnReturn ==
    ASSUME TypeOK, Return, NEW r \in Routes
    PROVE  Ahead(r)' <=> Ahead(r)
  <1>1. PICK n \in Nat \ {0} :
          /\ n = Len(stack) /\ Len(stack') = n - 1
          /\ \A k \in 1 .. n - 1 : stack'[k] = stack[k]
          /\ \A k \in 1 .. n - 2 : Path'[k] = Path[k]
    BY OnReturn
  <1>2. /\ \A k \in 1 .. n - 1 : k \in 1 .. n
        /\ \A k \in 1 .. n : k \in 1 .. n - 1 \/ k = n
        /\ \A k \in 1 .. n - 1 : \A j \in 1 .. k - 1 : j \in 1 .. n - 2
        /\ n \in 1 .. n
    BY <1>1
  <1>3. ASSUME NEW k \in 1 .. n - 1 PROVE AheadAt(r, k)' <=> AheadAt(r, k)
    <2>1. stack'[k] = stack[k] /\ \A j \in 1 .. k - 1 : Path'[j] = Path[j]
      BY <1>1, <1>2
    <2> QED
      BY <2>1 DEF AheadAt
  <1>4. ~AheadAt(r, n)
    <2> SUFFICES ASSUME AheadAt(r, n) PROVE FALSE
      OBVIOUS
    <2>1. n \in 1 .. Len(r) /\ r[n].type = stack[n].type /\ r[n].index >= stack[n].next
      BY <1>1, RouteSteps DEF AheadAt
    <2>2. r[n].index \in 1 .. Len(fieldsOf[stack[n].type]) /\ stack[n].type \in Types
      BY <2>1, RouteSteps DEF Steps
    <2>3. stack[n].next \in Nat \ {0}
      BY <1>1, <1>2, StackSteps
    <2>4. fieldsOf[stack[n].type] \in Seq(Fields)
      BY <2>2 DEF TypeOK
    <2>5. stack[n].next \notin 1 .. Len(fieldsOf[stack[n].type])
      BY <1>1, <2>4 DEF Return, Top
    <2> QED
      BY <2>1, <2>2, <2>3, <2>4, <2>5
  <1>5. Ahead(r)' <=> \E k \in 1 .. n - 1 : AheadAt(r, k)'
    BY <1>1 DEF Ahead
  <1>6. Ahead(r) <=> \E k \in 1 .. n : AheadAt(r, k)
    BY <1>1 DEF Ahead
  <1> QED
    BY <1>2, <1>3, <1>4, <1>5, <1>6

\* The stack stays a route as far as it goes.
LEMMA LeadsStep == TypeOK /\ StackLeads /\ [Next]_vars => StackLeads'
  <1> SUFFICES ASSUME TypeOK, StackLeads, [Next]_vars, stack' # <<>>
               PROVE  /\ stack'[1].type = Root
                      /\ \A k \in 1 .. Len(stack') - 1 :
                            EmbedsAt(Path[k], stack[k + 1].type)'
    BY DEF StackLeads
  <1>1. fieldsOf' = fieldsOf
    BY DEF Next, vars, SkipField, Descend, Revisit, ClaimField, Return, Finish
  <1>2. \A step, type : EmbedsAt(step, type)' <=> EmbedsAt(step, type)
    BY <1>1 DEF EmbedsAt, FieldAt
  <1>3. ASSUME InLoop, stack' = Advanced
        PROVE  /\ stack'[1].type = Root
               /\ \A k \in 1 .. Len(stack') - 1 : EmbedsAt(Path[k], stack[k + 1].type)'
    <2>1. PICK n \in Nat \ {0} :
            /\ n = Len(stack) /\ Len(stack') = n
            /\ \A k \in 1 .. n - 1 : stack'[k] = stack[k] /\ Path'[k] = Path[k]
            /\ stack'[n].type = stack[n].type
      BY <1>3, OnAdvance
    <2>2. /\ \A k \in 1 .. n : k \in 1 .. n - 1 \/ k = n
          /\ 1 \in 1 .. n /\ \A k \in 1 .. n - 1 : k + 1 \in 1 .. n
      BY <2>1
    <2>3. \A k \in 1 .. n : stack'[k].type = stack[k].type
      BY <2>1, <2>2
    <2>4. /\ stack[1].type = Root
          /\ \A k \in 1 .. n - 1 : EmbedsAt(Path[k], stack[k + 1].type)
      BY <1>3, <2>1 DEF StackLeads, InLoop
    <2>5. ASSUME NEW k \in 1 .. n - 1 PROVE EmbedsAt(Path[k], stack[k + 1].type)'
      <3>1. Path'[k] = Path[k] /\ stack'[k + 1].type = stack[k + 1].type
        BY <2>1, <2>2, <2>3
      <3>2. EmbedsAt(Path[k], stack[k + 1].type)
        BY <2>4
      <3> QED
        BY <1>1, <3>1, <3>2 DEF EmbedsAt, FieldAt
    <2> QED
      BY <2>1, <2>2, <2>3, <2>4, <2>5
  <1>4. CASE SkipField \/ Revisit \/ ClaimField
    BY <1>3, <1>4 DEF SkipField, Revisit, ClaimField
  <1>5. CASE Descend
    <2>1. PICK n \in Nat \ {0} :
            /\ n = Len(stack) /\ Len(stack') = n + 1
            /\ \A k \in 1 .. n : Path'[k] = Path[k] /\ stack'[k].type = stack[k].type
            /\ Path[n] = [type |-> stack[n].type, index |-> stack[n].next]
            /\ stack'[n + 1] = Frame(CurrentField.type)
      BY <1>5, OnDescend
    <2>2. /\ \A k \in 1 .. n : k \in 1 .. n - 1 \/ k = n
          /\ 1 \in 1 .. n /\ \A k \in 1 .. n - 1 : k \in 1 .. n /\ k + 1 \in 1 .. n
          /\ 1 .. n + 1 - 1 = 1 .. n /\ n \in 1 .. n
      BY <2>1
    <2>3. /\ stack[1].type = Root
          /\ \A k \in 1 .. n - 1 : EmbedsAt(Path[k], stack[k + 1].type)
      BY <1>5, <2>1 DEF StackLeads, InLoop, Descend
    <2>4. EmbedsAt(Path[n], CurrentField.type)
      <3>1. /\ stack[n].next \in DOMAIN fieldsOf[stack[n].type]
            /\ CurrentField = fieldsOf[stack[n].type][stack[n].next]
            /\ ~Skipped(CurrentField) /\ Promoted(CurrentField)
        BY <1>5, <2>1 DEF Descend, InLoop, Top, CurrentField
      <3> QED
        BY <2>1, <3>1 DEF EmbedsAt, FieldAt
    <2>5. ASSUME NEW k \in 1 .. n PROVE EmbedsAt(Path[k], stack[k + 1].type)'
      <3>1. CASE k = n
        <4>1. Path'[k] = Path[n] /\ stack'[k + 1].type = CurrentField.type
          BY <2>1, <2>2, <3>1 DEF Frame
        <4> QED
          BY <1>1, <2>4, <4>1 DEF EmbedsAt, FieldAt
      <3>2. CASE k \in 1 .. n - 1
        <4>1. Path'[k] = Path[k] /\ stack'[k + 1].type = stack[k + 1].type
          BY <2>1, <2>2, <3>2
        <4>2. EmbedsAt(Path[k], stack[k + 1].type)
          BY <2>3, <3>2
        <4> QED
          BY <1>1, <4>1, <4>2 DEF EmbedsAt, FieldAt
      <3> QED
        BY <2>2, <3>1, <3>2
    <2> QED
      BY <2>1, <2>2, <2>3, <2>5
  <1>6. CASE Return
    <2>1. PICK n \in Nat \ {0} :
            /\ n = Len(stack) /\ Len(stack') = n - 1
            /\ \A k \in 1 .. n - 1 : stack'[k] = stack[k]
            /\ \A k \in 1 .. n - 2 : Path'[k] = Path[k]
      BY <1>6, OnReturn
    <2>2. n - 1 # 0
      <3>1. stack' \in Seq(Frames)
        BY <1>6, PoppedStack DEF Return
      <3> QED
        BY <2>1, <3>1
    <2>3. /\ 1 \in 1 .. n - 1 /\ 1 .. n - 1 - 1 = 1 .. n - 2
          /\ \A k \in 1 .. n - 2 : k + 1 \in 1 .. n - 1 /\ k \in 1 .. n - 1
      BY <2>1, <2>2
    <2>4. /\ stack[1].type = Root
          /\ \A k \in 1 .. n - 1 : EmbedsAt(Path[k], stack[k + 1].type)
      BY <1>6, <2>1 DEF StackLeads, Return
    <2>5. ASSUME NEW k \in 1 .. n - 2 PROVE EmbedsAt(Path[k], stack[k + 1].type)'
      <3>1. Path'[k] = Path[k] /\ stack'[k + 1].type = stack[k + 1].type
        BY <2>1, <2>3
      <3>2. EmbedsAt(Path[k], stack[k + 1].type)
        BY <2>3, <2>4
      <3> QED
        BY <1>1, <3>1, <3>2 DEF EmbedsAt, FieldAt
    <2> QED
      BY <2>1, <2>3, <2>4, <2>5
  <1>7. CASE Finish \/ UNCHANGED vars
    <2>1. stack' = stack /\ Path' = Path
      BY <1>7 DEF Finish, vars, Path
    <2> QED
      BY <1>2, <2>1 DEF StackLeads
  <1> QED
    BY <1>4, <1>5, <1>6, <1>7 DEF Next

\* A field about to be claimed is at the end of a route that is ahead.
LEMMA ClaimedRoute ==
    ASSUME TypeOK, WalkIsAcyclic, StackLeads, ClaimField
    PROVE  /\ Path \in Routes /\ Ahead(Path) /\ Through(Path)
           /\ KeyOf(CurrentField) = KeyAt(Path)
           /\ NewClaim = ClaimOf(Path)
  <1>1. PICK n \in Nat \ {0} : n = Len(stack)
    BY CurrentFieldTyped DEF ClaimField
  <1>2. /\ n \in 1 .. n /\ 1 \in 1 .. n
        /\ \A k \in 1 .. n - 1 : k \in 1 .. n /\ k + 1 \in 1 .. n
        /\ DOMAIN stack = 1 .. n
    BY <1>1 DEF TypeOK
  <1>3. /\ Path \in Seq(Steps) /\ Len(Path) = n
        /\ \A k \in 1 .. n : Path[k].type = stack[k].type
        /\ Path[n] = [type |-> stack[n].type, index |-> stack[n].next]
    BY <1>1, <1>2, PathOfStack, StackSteps
  <1>4. Leads(Path)
    <2>1. /\ stack[1].type = Root
          /\ \A k \in 1 .. n - 1 : EmbedsAt(Path[k], stack[k + 1].type)
      BY <1>1 DEF StackLeads, ClaimField, InLoop
    <2>2. \A j, k \in 1 .. n : Path[j].type = Path[k].type => j = k
      BY <1>2, <1>3 DEF WalkIsAcyclic
    <2>3. Path # <<>>
      BY <1>1, <1>3
    <2>4. \A k \in 1 .. n - 1 : EmbedsAt(Path[k], Path[k + 1].type)
      BY <1>2, <1>3, <2>1
    <2> QED
      BY <1>2, <1>3, <2>1, <2>2, <2>3, <2>4 DEF Leads
  <1>5. FieldAt(Path[n]) = CurrentField
    BY <1>1, <1>3 DEF FieldAt, CurrentField, Top
  <1>6. ClaimsAt(Path[n])
    BY <1>1, <1>3, <1>5 DEF ClaimsAt, ClaimField, InLoop, Top
  <1>7. Path \in Routes
    BY <1>3, <1>4, <1>6 DEF Routes
  <1>8. stack[n].next \in Nat
    BY <1>1, <1>2, StackSteps
  <1>9. AheadAt(Path, n)
    BY <1>1, <1>3, <1>8 DEF AheadAt
  <1>10. Ahead(Path) /\ Through(Path)
    BY <1>1, <1>2, <1>3, <1>9 DEF Ahead, Through
  <1>11. KeyOf(CurrentField) = KeyAt(Path) /\ NewClaim = ClaimOf(Path)
    BY <1>1, <1>3, <1>5 DEF KeyAt, ClaimOf, NewClaim, depth
  <1> QED
    BY <1>7, <1>10, <1>11

\* Claiming a field takes its route, and no other, out of what is ahead.
LEMMA AheadOnClaim ==
    ASSUME TypeOK, WalkIsAcyclic, StackLeads, ClaimField, NEW r \in Routes
    PROVE  Ahead(r)' <=> Ahead(r) /\ r # Path
  <1>1. Ahead(r)' <=> Ahead(r) /\ ~Through(r)
    BY AheadOnAdvance DEF ClaimField
  <1>2. Through(r) => r = Path
    BY ThroughField DEF ClaimField
  <1>3. Through(Path)
    BY ClaimedRoute
  <1> QED
    BY <1>1, <1>2, <1>3

\* Every other step leaves ahead what is ahead.
LEMMA AheadStays ==
    ASSUME TypeOK, WalkIsAcyclic, NEW r \in Routes,
           SkipField \/ Descend \/ Revisit \/ Return \/ Finish \/ UNCHANGED vars
    PROVE  Ahead(r)' <=> Ahead(r)
  <1>1. CASE SkipField
    <2>1. ~Through(r)
      BY <1>1, ThroughField DEF SkipField
    <2> QED
      BY <1>1, <2>1, AheadOnAdvance DEF SkipField
  <1>2. CASE Revisit
    <2>1. ASSUME Through(r) PROVE FALSE
      <3>1. PICK n \in Nat \ {0} : n = Len(stack) /\ DOMAIN stack = 1 .. n
        BY <1>2, CurrentFieldTyped DEF Revisit, TypeOK
      <3>2. n < Len(r) /\ CurrentField.type = r[n + 1].type
        BY <1>2, <2>1, <3>1, ThroughField DEF Revisit
      <3>3. PICK j \in 1 .. n : CurrentField.type = stack[j].type
        BY <1>2, <3>1 DEF Revisit, WalkIsAcyclic
      <3>4. r[j].type = stack[j].type
        BY <2>1, <3>1, StackSteps DEF Through
      <3>5. j \in 1 .. Len(r) /\ n + 1 \in 1 .. Len(r) /\ j # n + 1
        BY <3>1, <3>2, RouteSteps
      <3>6. \A a, b \in 1 .. Len(r) : r[a].type = r[b].type => a = b
        BY RouteSteps DEF Leads
      <3> QED
        BY <3>2, <3>3, <3>4, <3>5, <3>6
    <2> QED
      BY <1>2, <2>1, AheadOnAdvance DEF Revisit
  <1>3. CASE Finish \/ UNCHANGED vars
    <2>1. stack' = stack /\ Path' = Path
      BY <1>3 DEF Finish, vars, Path
    <2>2. \A k \in 1 .. Len(stack) : AheadAt(r, k)' <=> AheadAt(r, k)
      BY <2>1 DEF AheadAt
    <2> QED
      BY <2>1, <2>2 DEF Ahead
  <1> QED
    BY <1>1, <1>2, <1>3, AheadOnDescend, AheadOnReturn

\* No step misses a route or claims one twice.
LEMMA HistoryStep ==
    ASSUME TypeOK, WalkIsAcyclic, StackLeads, NoRouteIsMissed, ClaimsAreMetOnce,
           [Next]_vars
    PROVE  NoRouteIsMissed' /\ ClaimsAreMetOnce'
  <1>1. fieldsOf' = fieldsOf
    BY DEF Next, vars, SkipField, Descend, Revisit, ClaimField, Return, Finish
  <1>2. /\ Routes' = Routes
        /\ \A r : KeyAt(r)' = KeyAt(r) /\ ClaimOf(r)' = ClaimOf(r)
    BY <1>1, RoutesStay
  <1>3. CASE SkipField \/ Descend \/ Revisit \/ Return \/ Finish \/ UNCHANGED vars
    <2>1. found' = found
      BY <1>3 DEF SkipField, Descend, Revisit, Return, Finish, vars
    <2>2. \A r \in Routes : Ahead(r)' <=> Ahead(r)
      BY <1>3, AheadStays
    <2>3. NoRouteIsMissed'
      BY <1>2, <2>1, <2>2 DEF NoRouteIsMissed
    <2>4. ASSUME NEW i \in DOMAIN found
          PROVE  /\ found[i].path \in Routes'
                 /\ ~Ahead(found[i].path)'
                 /\ \A j \in DOMAIN found : found[j].path = found[i].path => i = j
                 /\ found[i].key = KeyAt(found[i].path)'
                 /\ found[i].claim = ClaimOf(found[i].path)'
      <3>1. /\ found[i].path \in Routes
            /\ ~Ahead(found[i].path)
            /\ \A j \in DOMAIN found : found[j].path = found[i].path => i = j
            /\ found[i].key = KeyAt(found[i].path)
            /\ found[i].claim = ClaimOf(found[i].path)
        BY DEF ClaimsAreMetOnce
      <3>2. PICK r \in Routes : r = found[i].path
        BY <3>1
      <3>3. ~Ahead(r)'
        BY <2>2, <3>1, <3>2
      <3>4. KeyAt(r)' = KeyAt(r) /\ ClaimOf(r)' = ClaimOf(r)
        BY <1>2
      <3>5. Ahead(found[i].path)' <=> Ahead(r)'
        BY <2>1, <3>2 DEF Ahead, AheadAt
      <3>6. KeyAt(found[i].path)' = KeyAt(r)' /\ ClaimOf(found[i].path)' = ClaimOf(r)'
        BY <2>1, <3>2 DEF KeyAt, ClaimOf
      <3> QED
        BY <1>2, <3>1, <3>2, <3>3, <3>4, <3>5, <3>6
    <2>5. ClaimsAreMetOnce'
      BY <2>1, <2>4 DEF ClaimsAreMetOnce
    <2> QED
      BY <2>3, <2>5
  <1>4. CASE ClaimField
    <2>1. PICK p \in Routes : p = Path
      BY <1>4, ClaimedRoute
    <2> DEFINE last == Len(found) + 1
               entry == [key |-> KeyAt(p), claim |-> ClaimOf(p), path |-> p]
    <2>2. found' = Append(found, entry)
      BY <1>4, <2>1, ClaimedRoute DEF ClaimField
    <2>3. /\ DOMAIN found' = DOMAIN found \cup {last} /\ last \notin DOMAIN found
          /\ \A i \in DOMAIN found : found'[i] = found[i]
          /\ found'[last] = entry
      BY <2>2 DEF TypeOK
    <2> HIDE DEF last, entry
    <2>4. \A r \in Routes : Ahead(r)' <=> Ahead(r) /\ r # p
      BY <1>4, <2>1, AheadOnClaim
    <2>5. Ahead(p) /\ entry.path = p
      BY <1>4, <2>1, ClaimedRoute DEF entry
    <2>6. NoRouteIsMissed'
      <3> SUFFICES ASSUME NEW r \in Routes, ~Ahead(r)'
                   PROVE  \E i \in DOMAIN found' : found'[i].path = r
        BY <1>2 DEF NoRouteIsMissed
      <3>1. CASE r = p
        BY <2>3, <2>5, <3>1
      <3>2. CASE r # p
        <4>1. ~Ahead(r)
          BY <2>4, <3>2
        <4>2. PICK i \in DOMAIN found : found[i].path = r
          BY <4>1 DEF NoRouteIsMissed
        <4> QED
          BY <2>3, <4>2
      <3> QED
        BY <3>1, <3>2
    <2>7. ClaimsAreMetOnce'
      <3> SUFFICES ASSUME NEW i \in DOMAIN found', NEW r, r = found'[i].path
                   PROVE  /\ r \in Routes'
                          /\ ~Ahead(r)'
                          /\ \A j \in DOMAIN found' : found'[j].path = r => i = j
                          /\ found'[i].key = KeyAt(r)'
                          /\ found'[i].claim = ClaimOf(r)'
        BY DEF ClaimsAreMetOnce, Ahead, AheadAt, KeyAt, ClaimOf
      <3>1. KeyAt(r)' = KeyAt(r) /\ ClaimOf(r)' = ClaimOf(r)
        BY <1>2
      <3>2. \A j \in DOMAIN found : found[j].path \in Routes /\ found[j].path # p
        BY <2>5 DEF ClaimsAreMetOnce
      <3>3. CASE i = last
        <4>1. r = p /\ found'[i].key = KeyAt(p) /\ found'[i].claim = ClaimOf(p)
          BY <2>3, <3>3 DEF entry
        <4>2. ~Ahead(r)'
          BY <2>4, <4>1
        <4>3. \A j \in DOMAIN found' : found'[j].path = r => i = j
          BY <2>3, <3>2, <3>3, <4>1
        <4> QED
          BY <1>2, <3>1, <4>1, <4>2, <4>3
      <3>4. CASE i \in DOMAIN found
        <4>1. /\ found'[i] = found[i] /\ r = found[i].path /\ r \in Routes /\ ~Ahead(r)
              /\ \A j \in DOMAIN found : found[j].path = r => i = j
              /\ found[i].key = KeyAt(r) /\ found[i].claim = ClaimOf(r)
          BY <2>3, <3>4 DEF ClaimsAreMetOnce
        <4>2. ~Ahead(r)'
          BY <2>4, <4>1
        <4>3. \A j \in DOMAIN found' : found'[j].path = r => i = j
          BY <2>3, <2>5, <3>2, <3>4, <4>1
        <4> QED
          BY <1>2, <3>1, <4>1, <4>2, <4>3
      <3> QED
        BY <2>3, <3>3, <3>4
    <2> QED
      BY <2>6, <2>7
  <1> QED
    BY <1>3, <1>4 DEF Next

\* The walk starts with every route ahead of it.
LEMMA WalkInit == Init => WalkIsAcyclic /\ StackLeads /\ NoRouteIsMissed /\ ClaimsAreMetOnce
  <1> SUFFICES ASSUME Init
               PROVE  WalkIsAcyclic /\ StackLeads /\ NoRouteIsMissed /\ ClaimsAreMetOnce
    OBVIOUS
  <1>1. TypeOK
    BY TypeInit
  <1>2. Len(stack) = 1 /\ stack[1].type = Root /\ stack[1].next = 1
    BY DEF Init, Frame
  <1>3. WalkIsAcyclic
    BY DEF Init, WalkIsAcyclic, Frame
  <1>4. StackLeads
    BY <1>2 DEF StackLeads
  <1>5. ASSUME NEW r \in Routes PROVE Ahead(r)
    <2>1. 1 \in 1 .. Len(r) /\ 1 <= Len(r) /\ r[1].type = Root
      BY <1>1, RouteSteps DEF Leads
    <2>2. r[1].index \in 1 .. Len(fieldsOf[r[1].type]) /\ fieldsOf[r[1].type] \in Seq(Fields)
      BY <1>1, <2>1, RouteSteps DEF TypeOK, Steps
    <2>3. r[1].index >= 1
      BY <2>2
    <2> QED
      BY <1>2, <2>1, <2>3 DEF Ahead, AheadAt
  <1>6. NoRouteIsMissed /\ ClaimsAreMetOnce
    BY <1>5 DEF NoRouteIsMissed, ClaimsAreMetOnce, Init
  <1> QED
    BY <1>3, <1>4, <1>6

\* The inductive invariant of the walk.
LEMMA WalkInvariant == Spec => []WalkInv
  <1>1. Init => WalkInv
    BY TypeInit, WalkInit DEF WalkInv
  <1>2. WalkInv /\ [Next]_vars => WalkInv'
    BY TypeStep, AcyclicStep, LeadsStep, HistoryStep DEF WalkInv
  <1> QED
    BY <1>1, <1>2, PTL DEF Spec

\* When the walk has ended, every field a route leads to has been claimed
\* exactly once, with the key, the depth and the tagging it has there, and
\* nothing else has.
EveryFieldIsClaimedOnce ==
    declared # Nil =>
        /\ \A r \in Routes : \E i \in DOMAIN found :
              /\ found[i].path = r
              /\ \A j \in DOMAIN found : found[j].path = r => j = i
        /\ \A i \in DOMAIN found :
              /\ found[i].path \in Routes
              /\ found[i].key = KeyAt(found[i].path)
              /\ found[i].claim = ClaimOf(found[i].path)

\* The walk does not stop short: the check on visiting (declared.go:91-96)
\* ends the recursion of a type that embeds itself and cuts off no field
\* that another embedding leads to.
THEOREM Exhaustive == Spec => []EveryFieldIsClaimedOnce
  <1>1. Init => Settled
    BY DEF Init, Settled
  <1>2. WalkInv /\ Settled => EveryFieldIsClaimedOnce
    <2> SUFFICES ASSUME WalkInv, stack = <<>> PROVE EveryFieldIsClaimedOnce
      BY DEF Settled, EveryFieldIsClaimedOnce
    <2>1. \A r : ~Ahead(r)
      BY DEF Ahead
    <2> QED
      BY <2>1 DEF WalkInv, NoRouteIsMissed, ClaimsAreMetOnce, EveryFieldIsClaimedOnce
  <1> QED
    BY <1>1, <1>2, WalkInvariant, SettledStep, PTL DEF Spec

\* The routes that give a key, and the route whose claim wins it.
RoutesTo(n) == {r \in Routes : KeyAt(r) = n}
Wins(r, n) ==
    /\ r \in RoutesTo(n)
    /\ \A q \in RoutesTo(n) \ {r} : beats(ClaimOf(r), ClaimOf(q))

\* What the declared keys are, said without the walk.
DeclaredByRoutes == declared # Nil => declared = {n \in Names : \E r : Wins(r, n)}

\* A key is declared exactly when one of the fields that T's embeddings lead
\* to outranks all others of that key: the result depends on the shape of T
\* alone and not on the order of the walk (declared.go:63-88).
THEOREM WalkFree == Spec => []DeclaredByRoutes
  <1>1. DeclaredIsDominant /\ EveryFieldIsClaimedOnce => DeclaredByRoutes
    <2> SUFFICES ASSUME DeclaredIsDominant, EveryFieldIsClaimedOnce, declared # Nil,
                        NEW n \in Names
                 PROVE  (\E i \in ClaimsOn(n) : \A j \in ClaimsOn(n) \ {i} :
                             beats(found[i].claim, found[j].claim)) <=> \E r : Wins(r, n)
      BY DEF DeclaredIsDominant, DeclaredByRoutes
    <2>1. \A i \in ClaimsOn(n) : /\ found[i].path \in RoutesTo(n)
                                 /\ found[i].claim = ClaimOf(found[i].path)
      BY DEF EveryFieldIsClaimedOnce, ClaimsOn, RoutesTo
    <2>2. \A r \in RoutesTo(n) : \E i \in ClaimsOn(n) :
             found[i].path = r /\ \A j \in ClaimsOn(n) : found[j].path = r => j = i
      BY DEF EveryFieldIsClaimedOnce, ClaimsOn, RoutesTo
    <2>3. ASSUME NEW i \in ClaimsOn(n),
                 \A j \in ClaimsOn(n) \ {i} : beats(found[i].claim, found[j].claim)
          PROVE  \E r : Wins(r, n)
      <3> DEFINE r == found[i].path
      <3>1. ASSUME NEW q \in RoutesTo(n) \ {r} PROVE beats(ClaimOf(r), ClaimOf(q))
        <4>1. PICK j \in ClaimsOn(n) : found[j].path = q
          BY <2>2
        <4>2. j # i
          BY <3>1, <4>1
        <4>3. beats(found[i].claim, found[j].claim)
          BY <2>3, <4>2
        <4>4. found[i].claim = ClaimOf(r) /\ found[j].claim = ClaimOf(q)
          BY <2>1, <4>1
        <4> QED
          BY <4>3, <4>4
      <3> QED
        BY <2>1, <3>1 DEF Wins
    <2>4. ASSUME NEW r, Wins(r, n)
          PROVE  \E i \in ClaimsOn(n) : \A j \in ClaimsOn(n) \ {i} :
                    beats(found[i].claim, found[j].claim)
      <3>1. PICK i \in ClaimsOn(n) :
               found[i].path = r /\ \A j \in ClaimsOn(n) : found[j].path = r => j = i
        BY <2>2, <2>4 DEF Wins
      <3>2. ASSUME NEW j \in ClaimsOn(n) \ {i} PROVE beats(found[i].claim, found[j].claim)
        <4>1. found[j].path \in RoutesTo(n) \ {r}
          BY <2>1, <3>1
        <4>2. beats(ClaimOf(r), ClaimOf(found[j].path))
          BY <2>4, <4>1 DEF Wins
        <4>3. found[i].claim = ClaimOf(r) /\ found[j].claim = ClaimOf(found[j].path)
          BY <2>1, <3>1
        <4> QED
          BY <4>2, <4>3
      <3> QED
        BY <3>2
    <2> QED
      BY <2>3, <2>4
  <1> QED
    BY <1>1, Dominance, Exhaustive, PTL
=============================================================================
