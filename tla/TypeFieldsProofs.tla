-------------------------- MODULE TypeFieldsProofs --------------------------
(***************************************************************************)
(* What TLAPS proves of the walk where counting is needed.  Compared with  *)
(* encoding/json, for every set of type declarations the keys              *)
(* collectDeclared finds are among those json emits, and but for one shape *)
(* they are those.  And the walk ends.                                     *)
(***************************************************************************)
EXTENDS TypeFields, JurisdictionProofs, FiniteSetTheorems

-----------------------------------------------------------------------------
(* Induction: a set of numbers has a least one.                            *)

\* It comes from the library's well-founded order of the finite sets, here
\* the initial segments 0 .. m.
LEMMA LeastNatural ==
    ASSUME NEW T, T \subseteq Nat, T # {}
    PROVE  \E m \in T : \A k \in T : m <= k
  <1> DEFINE Up == {0 .. m : m \in T}
  <1>1. \A m \in Nat : IsFiniteSet(0 .. m) /\ 0 .. m \subseteq Nat
    BY FS_Interval
  <1>2. Up \subseteq FiniteSubsetsOf(Nat) /\ Up # {}
    BY <1>1 DEF FiniteSubsetsOf
  <1>3. IsWellFoundedOn(StrictSubsetOrdering(Nat), FiniteSubsetsOf(Nat))
    BY FS_StrictSubsetOrderingWellFounded
  <1>4. \E x \in Up : \A y \in Up : ~ (<<y, x>> \in StrictSubsetOrdering(Nat))
    <2> HIDE DEF Up
    <2> QED
      BY <1>2, <1>3, WFMin
  <1>5. PICK m \in T : \A k \in T : ~ (<<0 .. k, 0 .. m>> \in StrictSubsetOrdering(Nat))
    BY <1>4
  <1>6. ASSUME NEW k \in T, k < m PROVE FALSE
    <2>1. k \in Nat /\ m \in Nat
      OBVIOUS
    <2>2. m \in 0 .. m /\ m \notin 0 .. k /\ 0 .. k \subseteq 0 .. m
      BY <1>6, <2>1
    <2> QED
      BY <1>1, <1>5, <2>2 DEF StrictSubsetOrdering
  <1> QED
    BY <1>6

-----------------------------------------------------------------------------
(* The levels of encoding/json's walk.                                     *)

Depths == 0 .. Cardinality(Types)

\* The recursive definition of the levels has a solution.
LEMMA LevelsExist ==
    ASSUME NEW m \in Nat
    PROVE  \E f : f = [k \in 0 .. m |-> IF k = 0 THEN FirstLevel ELSE LevelBelow(f[k - 1])]
  <1> DEFINE Solved(n) ==
        \E f : f = [k \in 0 .. n |-> IF k = 0 THEN FirstLevel ELSE LevelBelow(f[k - 1])]
             Unsolved == {n \in Nat : ~Solved(n)}
  <1>1. ASSUME Unsolved # {} PROVE FALSE
    <2>1. PICK n \in Unsolved : \A k \in Unsolved : n <= k
      <3> HIDE DEF Unsolved
      <3>1. Unsolved \subseteq Nat
        BY DEF Unsolved
      <3> QED
        BY <1>1, <3>1, LeastNatural
    <2>2. CASE n = 0
      <3> DEFINE f == [k \in 0 .. 0 |-> FirstLevel]
      <3>1. f = [k \in 0 .. 0 |-> IF k = 0 THEN FirstLevel ELSE LevelBelow(f[k - 1])]
        OBVIOUS
      <3> HIDE DEF f
      <3> QED
        BY <2>1, <2>2, <3>1
    <2>3. CASE n # 0
      <3>1. n - 1 \in Nat /\ n \in Nat /\ ~(n <= n - 1)
        BY <2>1, <2>3
      <3>2. Solved(n - 1)
        BY <2>1, <3>1
      <3>3. PICK f : f = [k \in 0 .. n - 1 |->
                            IF k = 0 THEN FirstLevel ELSE LevelBelow(f[k - 1])]
        BY <3>2
      <3> DEFINE g == [k \in 0 .. n |-> IF k = n THEN LevelBelow(f[n - 1]) ELSE f[k]]
      <3>4. /\ \A k \in 0 .. n : k # n => k \in 0 .. n - 1
            /\ \A k \in 0 .. n : k # 0 => k - 1 \in 0 .. n - 1 /\ k - 1 \in 0 .. n /\ k - 1 # n
        BY <3>1
      <3>5. \A k \in 0 .. n - 1 :
               f[k] = IF k = 0 THEN FirstLevel ELSE LevelBelow(f[k - 1])
        BY <3>3
      <3>6. \A k \in 0 .. n : k # 0 => g[k - 1] = f[k - 1]
        BY <3>4
      <3>7. ASSUME NEW k \in 0 .. n
            PROVE  g[k] = IF k = 0 THEN FirstLevel ELSE LevelBelow(g[k - 1])
        <4>1. CASE k = n
          BY <2>3, <3>6, <4>1
        <4>2. CASE k # n
          <5>1. g[k] = f[k]
            BY <4>2
          <5>2. f[k] = IF k = 0 THEN FirstLevel ELSE LevelBelow(f[k - 1])
            BY <3>4, <3>5, <4>2
          <5> HIDE DEF g
          <5> QED
            BY <3>6, <5>1, <5>2
        <4> QED
          BY <4>1, <4>2
      <3>8. g = [k \in 0 .. n |-> g[k]]
        OBVIOUS
      <3> HIDE DEF g
      <3>9. g = [k \in 0 .. n |-> IF k = 0 THEN FirstLevel ELSE LevelBelow(g[k - 1])]
        BY <3>7, <3>8
      <3> QED
        BY <2>1, <3>9
    <2> QED
      BY <2>2, <2>3
  <1> QED
    BY <1>1

\* Level is that solution.
LEMMA LevelEquation ==
    /\ Cardinality(Types) \in Nat
    /\ Level = [k \in Depths |-> IF k = 0 THEN FirstLevel ELSE LevelBelow(Level[k - 1])]
  <1>1. Cardinality(Types) \in Nat
    BY TypesAssumption, FS_CardinalityType
  <1>2. \E f : f = [k \in Depths |-> IF k = 0 THEN FirstLevel ELSE LevelBelow(f[k - 1])]
    BY <1>1, LevelsExist DEF Depths
  <1>3. Level = CHOOSE f : f = [k \in Depths |->
                                  IF k = 0 THEN FirstLevel ELSE LevelBelow(f[k - 1])]
    BY DEF Level, Depths
  <1> QED
    BY <1>1, <1>2, <1>3

Scanned(k) == Level[k].scanned
Visited(k) == Level[k].visited
Count(k, type) == Level[k].count[type]

\* The first level scans Root, queued once.
LEMMA LevelZero ==
    /\ 0 \in Depths /\ Scanned(0) = {Root} /\ Visited(0) = {Root}
    /\ \A t \in Types : ~(Count(0, t) > 1)
  <1>1. 0 \in Depths
    BY LevelEquation DEF Depths
  <1>2. Level[0] = FirstLevel
    BY <1>1, LevelEquation
  <1>3. \A t \in Types : Count(0, t) = IF t = Root THEN 1 ELSE 0
    <2>1. Level[0].count = [t \in Types |-> IF t = Root THEN 1 ELSE 0]
      BY <1>2 DEF FirstLevel
    <2> QED
      BY <2>1 DEF Count
  <1> QED
    BY <1>1, <1>2, <1>3 DEF Scanned, Visited, FirstLevel

\* A level below scans what the level above queued and was not scanned yet.
LEMMA LevelDown ==
    ASSUME NEW k \in Depths, k # 0
    PROVE  /\ k - 1 \in Depths
           /\ \A t \in Types : Count(k, t) = TimesQueued(Scanned(k - 1), t)
           /\ Scanned(k) = {t \in Types : Count(k, t) > 0} \ Visited(k - 1)
           /\ Visited(k) = Visited(k - 1) \cup Scanned(k)
  <1> DEFINE above == Level[k - 1]
             count == [t \in Types |-> TimesQueued(above.scanned, t)]
             scanned == {t \in Types : count[t] > 0} \ above.visited
  <1>1. k - 1 \in Depths
    BY LevelEquation DEF Depths
  <1>2. Level[k] = LevelBelow(above)
    BY LevelEquation
  <1>3. Level[k] = [scanned |-> scanned, visited |-> above.visited \cup scanned,
                    count |-> count]
    BY <1>2 DEF LevelBelow
  <1>4. /\ Level[k].scanned = scanned /\ Level[k].count = count
        /\ Level[k].visited = above.visited \cup scanned
    <2> HIDE DEF above, count, scanned
    <2> QED
      BY <1>3
  <1>5. \A t \in Types : Count(k, t) = count[t]
    BY <1>4 DEF Count
  <1>6. \A t \in Types : count[t] = TimesQueued(Scanned(k - 1), t)
    BY DEF Scanned
  <1>7. scanned = {t \in Types : count[t] > 0} \ Visited(k - 1)
    BY DEF Visited
  <1> HIDE DEF count, scanned
  <1>8. Scanned(k) = {t \in Types : Count(k, t) > 0} \ Visited(k - 1)
    BY <1>4, <1>5, <1>7 DEF Scanned
  <1>9. Visited(k) = Visited(k - 1) \cup Scanned(k)
    BY <1>4 DEF Scanned, Visited
  <1> QED
    BY <1>1, <1>5, <1>6, <1>8, <1>9

\* The same, from the level above.
LEMMA LevelNext ==
    ASSUME NEW k \in Depths, k + 1 \in Depths
    PROVE  /\ \A t \in Types : Count(k + 1, t) = TimesQueued(Scanned(k), t)
           /\ Scanned(k + 1) = {t \in Types : Count(k + 1, t) > 0} \ Visited(k)
           /\ Visited(k + 1) = Visited(k) \cup Scanned(k + 1)
  <1> HIDE DEF Visited, Scanned, Count
  <1>1. PICK m \in Depths : m = k + 1
    OBVIOUS
  <1>2. m # 0 /\ m - 1 = k
    BY <1>1, LevelEquation DEF Depths
  <1> QED
    BY <1>1, <1>2, LevelDown

\* What a level scans are types.
LEMMA ScannedTypes == \A k \in Depths : Scanned(k) \subseteq Types
  <1> SUFFICES ASSUME NEW k \in Depths PROVE Scanned(k) \subseteq Types
    OBVIOUS
  <1>1. CASE k = 0
    BY <1>1, LevelZero, RootAssumption
  <1>2. CASE k # 0
    <2>1. Scanned(k) = {t \in Types : Count(k, t) > 0} \ Visited(k - 1)
      BY <1>2, LevelDown
    <2> HIDE DEF Scanned, Count, Visited
    <2> QED
      BY <2>1
  <1> QED
    BY <1>1, <1>2

-----------------------------------------------------------------------------
(* How often a type is queued.                                             *)

\* The embeddings of a type in the types of a set.
EmbeddingsIn(scanned, type) == {s \in Steps : s.type \in scanned /\ EmbedsAt(s, type)}

\* The embeddings json counts, as pairs.
Queued(scanned, type) ==
    UNION {{<<t, i>> : i \in {j \in Embeds(t) : fieldsOf[t][j].type = type}} : t \in scanned}

\* The pairs stand for the embeddings.
LEMMA QueuedEmbeddings ==
    ASSUME TypeOK, NEW scanned \in SUBSET Types, NEW type
    PROVE  /\ \A s \in EmbeddingsIn(scanned, type) : <<s.type, s.index>> \in Queued(scanned, type)
           /\ \A p \in Queued(scanned, type) :
                \E s \in EmbeddingsIn(scanned, type) : p = <<s.type, s.index>>
  <1>1. ASSUME NEW s \in EmbeddingsIn(scanned, type)
        PROVE  <<s.type, s.index>> \in Queued(scanned, type)
    <2>1. /\ s.type \in scanned /\ s.index \in Embeds(s.type)
          /\ fieldsOf[s.type][s.index].type = type
      BY DEF EmbeddingsIn, EmbedsAt, FieldAt, Embeds
    <2> QED
      BY <2>1 DEF Queued
  <1>2. ASSUME NEW p \in Queued(scanned, type)
        PROVE  \E s \in EmbeddingsIn(scanned, type) : p = <<s.type, s.index>>
    <2>1. PICK t \in scanned :
            p \in {<<t, i>> : i \in {j \in Embeds(t) : fieldsOf[t][j].type = type}}
      BY DEF Queued
    <2>2. PICK i \in Embeds(t) : fieldsOf[t][i].type = type /\ p = <<t, i>>
      BY <2>1
    <2> DEFINE s == [type |-> t, index |-> i]
    <2>3. t \in Types /\ i \in Nat
      <3>1. fieldsOf[t] \in Seq(Fields)
        BY DEF TypeOK
      <3> QED
        BY <3>1 DEF Embeds
    <2>4. s \in Steps /\ s.type = t /\ s.index = i
      BY <2>3 DEF Steps
    <2> HIDE DEF s
    <2>5. s \in EmbeddingsIn(scanned, type)
      BY <2>2, <2>4 DEF EmbeddingsIn, EmbedsAt, FieldAt, Embeds
    <2> QED
      BY <2>2, <2>4, <2>5
  <1> QED
    BY <1>1, <1>2

\* There are finitely many.
LEMMA QueuedFinite ==
    ASSUME TypeOK, NEW scanned \in SUBSET Types, NEW type
    PROVE  IsFiniteSet(Queued(scanned, type))
  <1> DEFINE from(t) == {<<t, i>> : i \in {j \in Embeds(t) : fieldsOf[t][j].type = type}}
             all == {from(t) : t \in scanned}
             f == [t \in scanned |-> from(t)]
  <1>1. ASSUME NEW t \in scanned PROVE IsFiniteSet(from(t))
    <2>1. fieldsOf[t] \in Seq(Fields)
      BY DEF TypeOK
    <2>2. Len(fieldsOf[t]) \in Nat /\ DOMAIN fieldsOf[t] = 1 .. Len(fieldsOf[t])
      BY <2>1
    <2>3. IsFiniteSet(1 .. Len(fieldsOf[t])) /\ IsFiniteSet({t})
      <3>1. 1 \in Int /\ Len(fieldsOf[t]) \in Int
        BY <2>2
      <3>2. IsFiniteSet(1 .. Len(fieldsOf[t]))
        BY <3>1, FS_Interval
      <3> QED
        BY <3>2, FS_Singleton
    <2>4. IsFiniteSet({t} \X (1 .. Len(fieldsOf[t])))
      BY <2>3, FS_Product
    <2>5. from(t) \subseteq {t} \X (1 .. Len(fieldsOf[t]))
      BY <2>2 DEF Embeds
    <2> QED
      BY <2>4, <2>5, FS_Subset
  <1>2. IsFiniteSet(scanned)
    BY TypesAssumption, FS_Subset
  <1>3. f \in Surjection(scanned, all)
    BY DEF Surjection
  <1>4. IsFiniteSet(all)
    <2> HIDE DEF f, all
    <2> QED
      BY <1>2, <1>3, FS_Surjection
  <1>5. \A s \in all : IsFiniteSet(s)
    BY <1>1
  <1>6. IsFiniteSet(UNION all)
    <2> HIDE DEF all
    <2> QED
      BY <1>4, <1>5, FS_UNION
  <1> QED
    BY <1>6 DEF Queued

\* A type is queued for each embedding of it in the types scanned: once when
\* there is one, more than once when there are two.
LEMMA QueueCount ==
    ASSUME TypeOK, NEW scanned \in SUBSET Types, NEW type
    PROVE  /\ TimesQueued(scanned, type) > 0 <=> EmbeddingsIn(scanned, type) # {}
           /\ TimesQueued(scanned, type) > 1 <=>
                \E s, u \in EmbeddingsIn(scanned, type) : s # u
  <1> DEFINE Q == Queued(scanned, type)
             E == EmbeddingsIn(scanned, type)
  <1>1. TimesQueued(scanned, type) = Cardinality(Q)
    BY DEF TimesQueued, Queued
  <1>2. IsFiniteSet(Q)
    BY QueuedFinite
  <1>3. /\ \A s \in E : s \in Steps /\ <<s.type, s.index>> \in Q
        /\ \A p \in Q : \E s \in E : p = <<s.type, s.index>>
    BY QueuedEmbeddings DEF EmbeddingsIn
  <1>4. \A s, u \in E : <<s.type, s.index>> = <<u.type, u.index>> => s = u
    <2> HIDE DEF E
    <2> SUFFICES ASSUME NEW s \in E, NEW u \in E,
                        <<s.type, s.index>> = <<u.type, u.index>>
                 PROVE  s = u
      OBVIOUS
    <2>1. s \in Steps /\ u \in Steps /\ s.type = u.type /\ s.index = u.index
      BY <1>3
    <2> QED
      BY <2>1 DEF Steps
  <1> HIDE DEF Q, E
  <1>5. Cardinality(Q) \in Nat /\ (Cardinality(Q) = 0 <=> Q = {})
    BY <1>2, FS_CardinalityType, FS_EmptySet
  <1>6. Cardinality(Q) > 0 <=> E # {}
    <2>1. Q = {} <=> E = {}
      BY <1>3
    <2> QED
      BY <1>5, <2>1
  <1>7. ASSUME Cardinality(Q) > 1 PROVE \E s, u \in E : s # u
    <2>1. PICK p \in Q : TRUE
      BY <1>5, <1>7
    <2>2. Q \ {p} # {}
      <3>1. IsFiniteSet(Q \ {p}) /\ Cardinality(Q \ {p}) = Cardinality(Q) - 1
        BY <1>2, <2>1, FS_RemoveElement
      <3>2. Cardinality(Q \ {p}) # 0
        BY <1>5, <1>7, <3>1
      <3> QED
        BY <3>1, <3>2, FS_EmptySet
    <2>3. PICK q \in Q : q # p
      BY <2>2
    <2>4. PICK s \in E, u \in E : p = <<s.type, s.index>> /\ q = <<u.type, u.index>>
      BY <1>3, <2>1
    <2> QED
      BY <2>3, <2>4
  <1>8. ASSUME NEW s \in E, NEW u \in E, s # u PROVE Cardinality(Q) > 1
    <2> DEFINE p == <<s.type, s.index>>
               q == <<u.type, u.index>>
    <2>1. p \in Q /\ q \in Q /\ p # q
      BY <1>3, <1>4, <1>8
    <2> HIDE DEF p, q
    <2>2. IsFiniteSet(Q \ {p}) /\ Cardinality(Q \ {p}) = Cardinality(Q) - 1
      BY <1>2, <2>1, FS_RemoveElement
    <2>3. Cardinality(Q \ {p}) # 0
      BY <2>1, <2>2, FS_EmptySet
    <2>4. Cardinality(Q \ {p}) \in Nat
      BY <2>2, FS_CardinalityType
    <2> QED
      BY <1>5, <2>2, <2>3, <2>4
  <1> QED
    BY <1>1, <1>6, <1>7, <1>8 DEF E

-----------------------------------------------------------------------------
(* At which level a type is scanned.                                       *)

\* What was visited stays visited.
LEMMA VisitedGrows ==
    \A j, k \in Depths : j <= k => Visited(j) \subseteq Visited(k)
  <1> DEFINE Bad == {k \in Depths : \E j \in Depths : j <= k /\ ~(Visited(j) \subseteq Visited(k))}
  <1>1. ASSUME Bad # {} PROVE FALSE
    <2>1. PICK k \in Bad : \A m \in Bad : k <= m
      <3>1. Bad \subseteq Nat
        BY LevelEquation DEF Depths
      <3> HIDE DEF Bad
      <3> QED
        BY <1>1, <3>1, LeastNatural
    <2>2. PICK j \in Depths : j <= k /\ ~(Visited(j) \subseteq Visited(k))
      BY <2>1
    <2>3. k \in Depths /\ k \in Nat /\ j \in Nat /\ j # k
      BY <2>1, <2>2, LevelEquation DEF Depths
    <2>4. k # 0 /\ k - 1 \in Depths /\ j <= k - 1 /\ ~(k <= k - 1)
      BY <2>2, <2>3, LevelEquation DEF Depths
    <2>5. Visited(j) \subseteq Visited(k - 1)
      BY <2>1, <2>4
    <2>6. Visited(k) = Visited(k - 1) \cup Scanned(k)
      BY <2>3, <2>4, LevelDown
    <2> HIDE DEF Visited, Scanned
    <2> QED
      BY <2>2, <2>5, <2>6
  <1> QED
    BY <1>1

\* What a level has visited was scanned at it or above.
LEMMA VisitedIsScanned ==
    \A k \in Depths : \A t \in Visited(k) : \E j \in Depths : j <= k /\ t \in Scanned(j)
  <1> DEFINE Bad == {k \in Depths : ~ \A t \in Visited(k) :
                                      \E j \in Depths : j <= k /\ t \in Scanned(j)}
  <1>1. ASSUME Bad # {} PROVE FALSE
    <2>1. PICK k \in Bad : \A m \in Bad : k <= m
      <3>1. Bad \subseteq Nat
        BY LevelEquation DEF Depths
      <3> HIDE DEF Bad
      <3> QED
        BY <1>1, <3>1, LeastNatural
    <2>2. PICK t \in Visited(k) : \A j \in Depths : j <= k => t \notin Scanned(j)
      BY <2>1
    <2>3. k \in Depths /\ k \in Nat /\ k <= k
      BY <2>1, LevelEquation DEF Depths
    <2>4. t \notin Scanned(k)
      BY <2>2, <2>3
    <2>5. k # 0
      BY <2>2, <2>4, LevelZero
    <2>6. Visited(k) = Visited(k - 1) \cup Scanned(k) /\ k - 1 \in Depths
      BY <2>3, <2>5, LevelDown
    <2>7. t \in Visited(k - 1) /\ ~(k <= k - 1) /\ \A j \in Depths : j <= k - 1 => j <= k
      <3>1. t \in Visited(k - 1)
        <4> HIDE DEF Visited, Scanned
        <4> QED
          BY <2>2, <2>4, <2>6
      <3> QED
        BY <2>3, <3>1, LevelEquation DEF Depths
    <2>8. k - 1 \notin Bad
      BY <2>1, <2>7
    <2>9. PICK j \in Depths : j <= k - 1 /\ t \in Scanned(j)
      BY <2>6, <2>7, <2>8
    <2> QED
      BY <2>2, <2>7, <2>9
  <1> QED
    BY <1>1

\* A type is scanned at one level only, and not after it was visited.
LEMMA ScannedOnce ==
    /\ \A k \in Depths : Scanned(k) \subseteq Visited(k)
    /\ \A k \in Depths : k # 0 => Scanned(k) \cap Visited(k - 1) = {}
    /\ \A j, k \in Depths : \A t \in Scanned(j) : t \in Scanned(k) => j = k
  <1> HIDE DEF Visited, Scanned, Count
  <1>1. ASSUME NEW k \in Depths PROVE Scanned(k) \subseteq Visited(k)
    <2>1. CASE k = 0
      BY <2>1, LevelZero
    <2>2. CASE k # 0
      BY <2>2, LevelDown
    <2> QED
      BY <2>1, <2>2
  <1>2. ASSUME NEW k \in Depths, k # 0 PROVE Scanned(k) \cap Visited(k - 1) = {}
    BY <1>2, LevelDown
  <1>3. ASSUME NEW j \in Depths, NEW k \in Depths, j < k,
               NEW t \in Scanned(j), t \in Scanned(k)
        PROVE  FALSE
    <2>1. k # 0 /\ k - 1 \in Depths /\ j <= k - 1
      BY <1>3, LevelEquation DEF Depths
    <2>2. t \in Visited(k - 1)
      BY <1>1, <1>3, <2>1, VisitedGrows
    <2> QED
      BY <1>2, <1>3, <2>1, <2>2
  <1>4. \A j, k \in Depths : j < k \/ k < j \/ j = k
    BY LevelEquation DEF Depths
  <1> QED
    BY <1>1, <1>2, <1>3, <1>4

\* What an embedding holds is a struct type.
LEMMA EmbeddedType ==
    ASSUME TypeOK, NEW s \in Steps, NEW type, EmbedsAt(s, type)
    PROVE  type \in Types
  <1>1. fieldsOf[s.type] \in Seq(Fields)
    BY DEF TypeOK, Steps
  <1>2. FieldAt(s) \in Fields
    BY <1>1 DEF EmbedsAt, FieldAt
  <1> QED
    BY <1>2 DEF EmbedsAt, Promoted, Fields

\* What a visited type embeds is visited one level further down.
LEMMA EmbeddedIsVisited ==
    ASSUME TypeOK, NEW k \in Depths, k + 1 \in Depths,
           NEW s \in Steps, s.type \in Visited(k), NEW type, EmbedsAt(s, type)
    PROVE  type \in Visited(k + 1)
  <1> HIDE DEF Visited, Scanned, Count
  <1>1. PICK j \in Depths : j <= k /\ s.type \in Scanned(j)
    BY VisitedIsScanned
  <1>2. j + 1 \in Depths /\ j + 1 <= k + 1
    BY <1>1, LevelEquation DEF Depths
  <1>3. type \in Types
    BY EmbeddedType
  <1>4. s \in EmbeddingsIn(Scanned(j), type)
    BY <1>1 DEF EmbeddingsIn
  <1>5. TimesQueued(Scanned(j), type) > 0
    BY <1>4, QueueCount, ScannedTypes
  <1>6. type \in Scanned(j + 1) \/ type \in Visited(j)
    BY <1>2, <1>3, <1>5, LevelNext
  <1>7. type \in Visited(j + 1)
    BY <1>2, <1>6, LevelNext
  <1> QED
    BY <1>2, <1>7, VisitedGrows

-----------------------------------------------------------------------------
(* Routes and levels.                                                      *)

\* A route has no more steps than there are types.
LEMMA RouteDepths ==
    ASSUME TypeOK, NEW r \in Routes
    PROVE  \A k \in 1 .. Len(r) : k - 1 \in Depths
  <1> DEFINE f == [k \in 1 .. Len(r) |-> r[k].type]
  <1>1. Len(r) \in Nat /\ \A k \in 1 .. Len(r) : r[k] \in Steps
    BY RouteSteps
  <1>2. \A j, k \in 1 .. Len(r) : r[j].type = r[k].type => j = k
    BY RouteSteps DEF Leads
  <1>3. f \in [1 .. Len(r) -> Types]
    BY <1>1 DEF Steps
  <1>4. f \in Injection(1 .. Len(r), Types)
    BY <1>2, <1>3 DEF Injection, IsInjective
  <1>5. Cardinality(1 .. Len(r)) <= Cardinality(Types)
    <2> HIDE DEF f
    <2> QED
      BY <1>4, TypesAssumption, FS_Injection
  <1>6. Cardinality(1 .. Len(r)) = Len(r)
    <2>1. 1 \in Int /\ Len(r) \in Int
      BY <1>1
    <2>2. Cardinality(1 .. Len(r)) = IF 1 > Len(r) THEN 0 ELSE Len(r) - 1 + 1
      BY <2>1, FS_Interval
    <2> QED
      BY <1>1, <2>2
  <1> QED
    BY <1>1, <1>5, <1>6, LevelEquation DEF Depths

\* A route reaches no type before its level has visited it.
LEMMA StepsAreVisited ==
    ASSUME TypeOK, NEW r \in Routes
    PROVE  \A k \in 1 .. Len(r) : r[k].type \in Visited(k - 1)
  <1> HIDE DEF Visited
  <1> DEFINE Bad == {k \in 1 .. Len(r) : r[k].type \notin Visited(k - 1)}
  <1>1. ASSUME Bad # {} PROVE FALSE
    <2>1. PICK k \in Bad : \A m \in Bad : k <= m
      <3>1. Bad \subseteq Nat
        OBVIOUS
      <3> HIDE DEF Bad
      <3> QED
        BY <1>1, <3>1, LeastNatural
    <2>2. /\ k \in 1 .. Len(r) /\ r[k].type \notin Visited(k - 1)
          /\ r \in Seq(Steps) /\ Len(r) \in Nat /\ Leads(r)
      BY <2>1, RouteSteps
    <2>3. k # 1
      BY <2>2, LevelZero DEF Leads
    <2>4. PICK j \in 1 .. Len(r) - 1 : j + 1 = k
      <3>1. k - 1 \in 1 .. Len(r) - 1 /\ k - 1 + 1 = k
        BY <2>2, <2>3
      <3> QED
        BY <3>1
    <2>5. j \in 1 .. Len(r) /\ ~(k <= j) /\ k - 1 = j
      BY <2>2, <2>4
    <2>6. r[j].type \in Visited(j - 1)
      BY <2>1, <2>5
    <2>7. EmbedsAt(r[j], r[k].type) /\ r[j] \in Steps
      BY <2>2, <2>4, <2>5 DEF Leads
    <2>8. j - 1 \in Depths /\ j \in Depths /\ j - 1 + 1 = j
      BY <2>2, <2>5, RouteDepths
    <2>9. r[k].type \in Visited(j)
      BY <2>6, <2>7, <2>8, EmbeddedIsVisited
    <2> QED
      BY <2>2, <2>5, <2>9
  <1> QED
    BY <1>1

\* A path that descends one level with each step.
OnLevels(r, k) ==
    /\ r \in Seq(Steps)
    /\ Len(r) = k + 1
    /\ \A j \in 1 .. k + 1 : r[j].type \in Scanned(j - 1)
    /\ \A j \in 1 .. k : EmbedsAt(r[j], r[j + 1].type)

\* To a field with a key it is a route.
LEMMA OnLevelsIsRoute ==
    ASSUME NEW k \in Depths, NEW r, OnLevels(r, k), ClaimsAt(r[k + 1])
    PROVE  r \in Routes
  <1> HIDE DEF Scanned
  <1>1. k \in Nat /\ 1 .. Len(r) = 1 .. k + 1 /\ 1 .. Len(r) - 1 = 1 .. k /\ 1 \in 1 .. k + 1
    BY LevelEquation DEF OnLevels, Depths
  <1>2. r # <<>> /\ r[1].type = Root
    <2>1. r[1].type \in Scanned(0)
      BY <1>1 DEF OnLevels
    <2> QED
      BY <1>1, <2>1, LevelZero DEF OnLevels
  <1>3. ASSUME NEW a \in 1 .. k + 1, NEW b \in 1 .. k + 1, r[a].type = r[b].type
        PROVE  a = b
    <2>1. a - 1 \in Depths /\ b - 1 \in Depths
      BY <1>1, LevelEquation DEF Depths
    <2>2. r[a].type \in Scanned(a - 1) /\ r[a].type \in Scanned(b - 1)
      BY <1>3 DEF OnLevels
    <2>3. a - 1 = b - 1
      BY <2>1, <2>2, ScannedOnce
    <2> QED
      BY <1>1, <2>3
  <1>4. Leads(r)
    BY <1>1, <1>2, <1>3 DEF Leads, OnLevels
  <1> QED
    BY <1>4 DEF Routes, OnLevels

\* Descending one level further.
LEMMA LongerOnLevels ==
    ASSUME NEW k \in Depths, k + 1 \in Depths, NEW r, OnLevels(r, k), NEW s \in Steps,
           s.type \in Scanned(k + 1), EmbedsAt(r[k + 1], s.type)
    PROVE  OnLevels(Append(r, s), k + 1) /\ Append(r, s)[k + 2] = s
             /\ Append(r, s)[k + 1] = r[k + 1]
  <1> HIDE DEF Scanned
  <1> DEFINE q == Append(r, s)
  <1>1. k \in Nat /\ r \in Seq(Steps) /\ Len(r) = k + 1
    BY LevelEquation DEF OnLevels, Depths
  <1>2. /\ q \in Seq(Steps) /\ Len(q) = k + 2 /\ q[k + 2] = s
        /\ \A j \in 1 .. k + 1 : q[j] = r[j]
    BY <1>1
  <1> HIDE DEF q
  <1>3. /\ \A j \in 1 .. k + 2 : j \in 1 .. k + 1 \/ (j = k + 2 /\ j - 1 = k + 1)
        /\ \A j \in 1 .. k + 1 : j \in 1 .. k \/ j = k + 1
        /\ \A j \in 1 .. k : j \in 1 .. k + 1 /\ j + 1 \in 1 .. k + 1
        /\ k + 1 \in 1 .. k + 1 /\ k + 1 + 1 = k + 2
    BY <1>1
  <1>4. ASSUME NEW j \in 1 .. k + 2 PROVE q[j].type \in Scanned(j - 1)
    <2>1. CASE j \in 1 .. k + 1
      BY <1>2, <2>1 DEF OnLevels
    <2>2. CASE j = k + 2 /\ j - 1 = k + 1
      BY <1>2, <2>2
    <2> QED
      BY <1>3, <2>1, <2>2
  <1>5. ASSUME NEW j \in 1 .. k + 1 PROVE EmbedsAt(q[j], q[j + 1].type)
    <2>1. CASE j \in 1 .. k
      BY <1>2, <1>3, <2>1 DEF OnLevels
    <2>2. CASE j = k + 1
      BY <1>2, <1>3, <2>2
    <2> QED
      BY <1>3, <2>1, <2>2
  <1>6. OnLevels(q, k + 1)
    BY <1>2, <1>3, <1>4, <1>5 DEF OnLevels
  <1> QED
    BY <1>2, <1>3, <1>6 DEF q

\* Such a path leads to every field of every type scanned.
LEMMA OnLevelsExists ==
    ASSUME TypeOK
    PROVE  \A k \in Depths : \A s \in Steps :
              s.type \in Scanned(k) => \E r : OnLevels(r, k) /\ r[k + 1] = s
  <1> HIDE DEF Scanned, Visited, Count
  <1> DEFINE Reached(k) == \A s \in Steps :
                s.type \in Scanned(k) => \E r : OnLevels(r, k) /\ r[k + 1] = s
             Bad == {k \in Depths : ~Reached(k)}
  <1>1. ASSUME Bad # {} PROVE FALSE
    <2>1. PICK k \in Bad : \A m \in Bad : k <= m
      <3>1. Bad \subseteq Nat
        BY LevelEquation DEF Depths
      <3> HIDE DEF Bad
      <3> QED
        BY <1>1, <3>1, LeastNatural
    <2>2. k \in Depths /\ k \in Nat
      BY <2>1, LevelEquation DEF Depths
    <2>3. PICK s \in Steps : s.type \in Scanned(k) /\ ~ \E r : OnLevels(r, k) /\ r[k + 1] = s
      BY <2>1
    <2>4. CASE k = 0
      <3> DEFINE r == <<s>>
      <3>1. r \in Seq(Steps) /\ Len(r) = 1 /\ r[1] = s
        OBVIOUS
      <3> HIDE DEF r
      <3>2. OnLevels(r, 0)
        BY <2>3, <2>4, <3>1 DEF OnLevels
      <3> QED
        BY <2>3, <2>4, <3>1, <3>2
    <2>5. CASE k # 0
      <3>1. PICK j \in Depths : j + 1 = k
        <4>1. k - 1 \in Depths /\ k - 1 + 1 = k
          BY <2>2, <2>5, LevelDown
        <4> QED
          BY <4>1
      <3>2. j \in Nat /\ ~(k <= j) /\ j + 2 = k + 1
        BY <2>2, <3>1, LevelEquation DEF Depths
      <3>3. s.type \in Types /\ Count(k, s.type) > 0
            /\ Count(k, s.type) = TimesQueued(Scanned(j), s.type)
        <4>1. s.type \in Types
          BY DEF Steps
        <4>2. s.type \in Scanned(j + 1) /\ j + 1 \in Depths
          BY <2>2, <2>3, <3>1
        <4>3. Count(j + 1, s.type) > 0 /\ Count(j + 1, s.type) = TimesQueued(Scanned(j), s.type)
          BY <4>1, <4>2, LevelNext
        <4> QED
          BY <3>1, <4>1, <4>3
      <3>4. PICK e \in EmbeddingsIn(Scanned(j), s.type) : TRUE
        BY <3>3, QueueCount, ScannedTypes
      <3>5. e \in Steps /\ e.type \in Scanned(j) /\ EmbedsAt(e, s.type)
        BY DEF EmbeddingsIn
      <3>6. Reached(j)
        BY <2>1, <3>2
      <3>7. PICK r : OnLevels(r, j) /\ r[j + 1] = e
        BY <3>5, <3>6
      <3>8. /\ j + 1 \in Depths /\ s.type \in Scanned(j + 1)
            /\ EmbedsAt(r[j + 1], s.type)
        BY <2>2, <2>3, <3>1, <3>5, <3>7
      <3>9. OnLevels(Append(r, s), j + 1) /\ Append(r, s)[j + 2] = s
        BY <3>7, <3>8, LongerOnLevels
      <3>10. OnLevels(Append(r, s), k) /\ Append(r, s)[k + 1] = s
        BY <3>1, <3>2, <3>9
      <3> QED
        BY <2>3, <3>10
    <2> QED
      BY <2>4, <2>5
  <1> QED
    BY <1>1

\* A route that reaches its last type when json scans it has descended one
\* level with each step.
LEMMA RouteOnLevels ==
    ASSUME TypeOK, NEW r \in Routes, NEW k \in Depths, Len(r) = k + 1,
           r[k + 1].type \in Scanned(k)
    PROVE  OnLevels(r, k)
  <1> HIDE DEF Scanned, Visited
  <1> DEFINE Bad == {q \in 0 .. k : r[k + 1 - q].type \notin Scanned(k - q)}
  <1>1. k \in Nat /\ r \in Seq(Steps) /\ Leads(r)
    BY LevelEquation, RouteSteps DEF Depths
  <1>2. ASSUME Bad # {} PROVE FALSE
    <2>1. PICK q \in Bad : \A m \in Bad : q <= m
      <3>1. Bad \subseteq Nat
        OBVIOUS
      <3> HIDE DEF Bad
      <3> QED
        BY <1>2, <3>1, LeastNatural
    <2>2. q \in 0 .. k /\ r[k + 1 - q].type \notin Scanned(k - q)
      BY <2>1
    <2>3. q # 0
      BY <1>1, <2>2
    <2>4. PICK p \in 1 .. k : p = k + 1 - q
      <3>1. k + 1 - q \in 1 .. k
        BY <1>1, <2>2, <2>3
      <3> QED
        BY <3>1
    <2>5. /\ k - q = p - 1 /\ q - 1 \in 0 .. k /\ ~(q <= q - 1)
          /\ k + 1 - (q - 1) = p + 1 /\ k - (q - 1) = p
          /\ p \in 1 .. Len(r) /\ p \in 1 .. Len(r) - 1 /\ p + 1 \in 1 .. Len(r)
      BY <1>1, <2>2, <2>3, <2>4
    <2>6. r[p].type \notin Scanned(p - 1) /\ r[p + 1].type \in Scanned(p)
      <3>1. q - 1 \notin Bad
        BY <2>1, <2>5
      <3> QED
        BY <2>2, <2>4, <2>5, <3>1
    <2>7. r[p].type \in Visited(p - 1)
      BY <2>5, StepsAreVisited
    <2>8. p # 1
      BY <1>1, <2>6, LevelZero DEF Leads
    <2>9. PICK j \in Depths : j + 1 = p - 1
      <3>1. p - 2 \in Depths /\ p - 2 + 1 = p - 1
        BY <1>1, <2>8, LevelEquation DEF Depths
      <3> QED
        BY <3>1
    <2>10. p - 1 \in Depths /\ p \in Depths /\ p # 0
      BY <1>1, LevelEquation DEF Depths
    <2>11. r[p].type \in Visited(j)
      <3>1. Visited(j + 1) = Visited(j) \cup Scanned(j + 1)
        BY <2>9, <2>10, LevelNext
      <3> QED
        BY <2>6, <2>7, <2>9, <3>1
    <2>12. EmbedsAt(r[p], r[p + 1].type) /\ r[p] \in Steps
      BY <1>1, <2>5, RouteSteps DEF Leads
    <2>13. r[p + 1].type \in Visited(p - 1)
      <3>1. r[p + 1].type \in Visited(j + 1)
        BY <2>9, <2>10, <2>11, <2>12, EmbeddedIsVisited
      <3> QED
        BY <2>9, <3>1
    <2> QED
      BY <2>6, <2>10, <2>13, ScannedOnce
  <1>3. ASSUME NEW j \in 1 .. k + 1 PROVE r[j].type \in Scanned(j - 1)
    <2>1. k + 1 - j \in 0 .. k /\ k + 1 - (k + 1 - j) = j /\ k - (k + 1 - j) = j - 1
      BY <1>1
    <2>2. k + 1 - j \notin Bad
      BY <1>2
    <2> QED
      BY <2>1, <2>2
  <1>4. \A j \in 1 .. k : EmbedsAt(r[j], r[j + 1].type)
    <2>1. 1 .. k = 1 .. Len(r) - 1
      BY <1>1
    <2> QED
      BY <1>1, <2>1 DEF Leads
  <1> QED
    BY <1>1, <1>3, <1>4 DEF OnLevels

\* A type queued twice is reached by two paths.
LEMMA TwiceIsTwoPaths ==
    ASSUME TypeOK, NEW k \in Depths, NEW s \in Steps, s.type \in Scanned(k),
           Count(k, s.type) > 1
    PROVE  \E r, q : /\ OnLevels(r, k) /\ OnLevels(q, k) /\ r # q
                     /\ r[k + 1] = s /\ q[k + 1] = s
  <1> HIDE DEF Scanned, Visited, Count
  <1>1. k # 0 /\ s.type \in Types
    BY LevelZero DEF Steps
  <1>2. PICK j \in Depths : j + 1 = k
    <2>1. k - 1 \in Depths /\ k - 1 + 1 = k
      BY <1>1, LevelDown, LevelEquation DEF Depths
    <2> QED
      BY <2>1
  <1>3. TimesQueued(Scanned(j), s.type) > 1
    <2>1. j + 1 \in Depths
      BY <1>2
    <2>2. Count(j + 1, s.type) = TimesQueued(Scanned(j), s.type)
      BY <1>1, <2>1, LevelNext
    <2> QED
      BY <1>2, <2>2
  <1>4. PICK e \in EmbeddingsIn(Scanned(j), s.type), f \in EmbeddingsIn(Scanned(j), s.type) :
          e # f
    BY <1>3, QueueCount, ScannedTypes
  <1>5. ASSUME NEW g \in EmbeddingsIn(Scanned(j), s.type)
        PROVE  \E r : OnLevels(r, k) /\ r[k + 1] = s /\ r[k] = g
    <2>1. g \in Steps /\ g.type \in Scanned(j) /\ EmbedsAt(g, s.type)
      BY DEF EmbeddingsIn
    <2>2. PICK r : OnLevels(r, j) /\ r[j + 1] = g
      BY <2>1, OnLevelsExists
    <2>3. j + 1 \in Depths /\ s.type \in Scanned(j + 1) /\ EmbedsAt(r[j + 1], s.type)
      BY <1>2, <2>1, <2>2
    <2>4. /\ OnLevels(Append(r, s), j + 1) /\ Append(r, s)[j + 2] = s
          /\ Append(r, s)[j + 1] = g
      BY <2>2, <2>3, LongerOnLevels
    <2>5. j + 2 = k + 1
      BY <1>2, LevelEquation DEF Depths
    <2> QED
      BY <1>2, <2>4, <2>5
  <1>6. PICK r : OnLevels(r, k) /\ r[k + 1] = s /\ r[k] = e
    BY <1>5
  <1>7. PICK q : OnLevels(q, k) /\ q[k + 1] = s /\ q[k] = f
    BY <1>5
  <1>8. r # q
    BY <1>4, <1>6, <1>7
  <1> QED
    BY <1>6, <1>7, <1>8

\* Where two paths to one field meet, a type is queued twice: the field's
\* own, or one above it with an embedding of its own.
LEMMA PathsMeet ==
    ASSUME TypeOK, NEW k \in Depths, NEW r, NEW q, OnLevels(r, k), OnLevels(q, k),
           r # q, r[k + 1] = q[k + 1]
    PROVE  Count(k, r[k + 1].type) > 1 \/ EmbedsBelowTwice
  <1> HIDE DEF Scanned, Visited, Count
  <1> DEFINE Bad == {d \in 0 .. k : r[k + 1 - d] # q[k + 1 - d]}
  <1>1. /\ k \in Nat /\ r \in Seq(Steps) /\ q \in Seq(Steps)
        /\ Len(r) = k + 1 /\ Len(q) = k + 1
    BY LevelEquation DEF Depths, OnLevels
  <1>2. Bad # {}
    <2>1. PICK j \in 1 .. k + 1 : r[j] # q[j]
      BY <1>1
    <2>2. k + 1 - j \in 0 .. k /\ k + 1 - (k + 1 - j) = j
      BY <1>1
    <2>3. r[k + 1 - (k + 1 - j)] # q[k + 1 - (k + 1 - j)]
      BY <2>1, <2>2
    <2> QED
      BY <2>2, <2>3
  <1>3. PICK d \in Bad : \A m \in Bad : d <= m
    <2>1. Bad \subseteq Nat
      OBVIOUS
    <2> HIDE DEF Bad
    <2> QED
      BY <1>2, <2>1, LeastNatural
  <1>4. d \in 0 .. k /\ r[k + 1 - d] # q[k + 1 - d]
    BY <1>3
  <1>5. d # 0
    BY <1>1, <1>4
  <1>6. PICK m \in 1 .. k : m = k + 1 - d
    <2>1. k + 1 - d \in 1 .. k
      BY <1>1, <1>4, <1>5
    <2> QED
      BY <2>1
  <1>7. r[m] # q[m] /\ r[m + 1] = q[m + 1]
    <2>1. d - 1 \in 0 .. k /\ ~(d <= d - 1) /\ k + 1 - (d - 1) = m + 1
      BY <1>1, <1>4, <1>5, <1>6
    <2>2. d - 1 \notin Bad
      BY <1>3, <2>1
    <2> QED
      BY <1>4, <1>6, <2>1, <2>2
  <1> DEFINE type == r[m + 1].type
  <1>8. /\ m \in 1 .. k + 1 /\ m + 1 \in 1 .. k + 1 /\ m + 1 - 1 = m
        /\ m \in Depths /\ m # 0 /\ m - 1 \in Depths
    BY <1>1, LevelEquation DEF Depths
  <1>9. r[m] \in Steps /\ q[m] \in Steps /\ r[m + 1] \in Steps
    BY <1>1, <1>8
  <1>10. /\ r[m] \in EmbeddingsIn(Scanned(m - 1), type)
         /\ q[m] \in EmbeddingsIn(Scanned(m - 1), type)
    BY <1>7, <1>8, <1>9 DEF OnLevels, EmbeddingsIn
  <1>11. type \in Scanned(m) /\ type \in Types
    BY <1>8, <1>9 DEF OnLevels, Steps
  <1> HIDE DEF type
  <1>12. Count(m, type) > 1
    <2>1. TimesQueued(Scanned(m - 1), type) > 1
      BY <1>7, <1>8, <1>10, QueueCount, ScannedTypes
    <2>2. Count(m, type) = TimesQueued(Scanned(m - 1), type)
      BY <1>8, <1>11, LevelDown
    <2> QED
      BY <2>1, <2>2
  <1>13. CASE m = k
    BY <1>12, <1>13 DEF type
  <1>14. CASE m # k
    <2>1. m + 1 \in 1 .. k
      BY <1>1, <1>14
    <2>2. EmbedsAt(r[m + 1], r[m + 1 + 1].type)
      BY <2>1 DEF OnLevels
    <2>3. r[m + 1].index \in Embeds(type)
      BY <2>2 DEF EmbedsAt, FieldAt, Embeds, type
    <2>4. m \in DOMAIN Level
      BY <1>8, LevelEquation
    <2>5. type \in Level[m].scanned /\ Level[m].count[type] > 1
      BY <1>11, <1>12 DEF Scanned, Count
    <2> QED
      BY <2>3, <2>4, <2>5 DEF EmbedsBelowTwice
  <1> QED
    BY <1>13, <1>14

-----------------------------------------------------------------------------
(* The fields json records and the routes to them.                         *)

\* The step of a field that competes for a key, and its record.
CompetesFor(s, n) == ClaimsAt(s) /\ KeyOf(FieldAt(s)) = n
RecordAt(s, k) == Record(s.type, s.index, k, Level)

\* What a record says of its step.
LEMMA RecordFields ==
    ASSUME NEW s, NEW k
    PROVE  /\ RecordAt(s, k).type = s.type /\ RecordAt(s, k).index = s.index
           /\ RecordAt(s, k).depth = k
           /\ RecordAt(s, k).twice = (Count(k, s.type) > 1)
           /\ RecordAt(s, k).isTagged = HasTagName(FieldAt(s))
  BY DEF RecordAt, Record, Count, FieldAt

\* json records the competing fields of the types it scans.
LEMMA Recorded ==
    ASSUME TypeOK, NEW n
    PROVE  /\ \A k \in Depths : \A s \in Steps :
                s.type \in Scanned(k) /\ CompetesFor(s, n) =>
                    RecordAt(s, k) \in RecordedFor(n, Level)
           /\ \A f \in RecordedFor(n, Level) : \E k \in Depths : \E s \in Steps :
                s.type \in Scanned(k) /\ CompetesFor(s, n) /\ f = RecordAt(s, k)
  <1>1. DOMAIN Level = Depths
    BY LevelEquation
  <1>2. ASSUME NEW k \in Depths, NEW s \in Steps, s.type \in Scanned(k), CompetesFor(s, n)
        PROVE  RecordAt(s, k) \in RecordedFor(n, Level)
    <2>1. s.index \in Competing(s.type, n)
      BY <1>2 DEF CompetesFor, ClaimsAt, FieldAt, Competing
    <2>2. s.type \in Level[k].scanned /\ k \in DOMAIN Level
      BY <1>1, <1>2 DEF Scanned
    <2> QED
      BY <2>1, <2>2 DEF RecordedFor, RecordAt
  <1>3. ASSUME NEW f \in RecordedFor(n, Level)
        PROVE  \E k \in Depths : \E s \in Steps :
                  s.type \in Scanned(k) /\ CompetesFor(s, n) /\ f = RecordAt(s, k)
    <2>1. PICK k \in Depths :
            f \in UNION {{Record(t, i, k, Level) : i \in Competing(t, n)} : t \in Level[k].scanned}
      BY <1>1 DEF RecordedFor
    <2>2. PICK t \in Level[k].scanned : f \in {Record(t, i, k, Level) : i \in Competing(t, n)}
      BY <2>1
    <2>3. PICK i \in Competing(t, n) : f = Record(t, i, k, Level)
      BY <2>2
    <2>4. t \in Types /\ t \in Scanned(k)
      BY ScannedTypes DEF Scanned
    <2>5. i \in Nat
      <3>1. fieldsOf[t] \in Seq(Fields)
        BY <2>4 DEF TypeOK
      <3> QED
        BY <3>1 DEF Competing
    <2> DEFINE s == [type |-> t, index |-> i]
    <2>6. s \in Steps /\ s.type = t /\ s.index = i
      BY <2>4, <2>5 DEF Steps
    <2> HIDE DEF s
    <2>7. CompetesFor(s, n)
      BY <2>6 DEF CompetesFor, ClaimsAt, FieldAt, Competing
    <2>8. f = RecordAt(s, k)
      BY <2>3, <2>6 DEF RecordAt
    <2> QED
      BY <2>4, <2>6, <2>7, <2>8
  <1> QED
    BY <1>2, <1>3

\* A route ends at a competing field whose type json scans at the route's
\* depth or above.
LEMMA RouteEnd ==
    ASSUME TypeOK, NEW n, NEW r \in RoutesTo(n)
    PROVE  \E s \in Steps : \E k \in Depths : \E d \in Depths :
              /\ Len(r) = d + 1 /\ r[d + 1] = s /\ CompetesFor(s, n)
              /\ k <= d /\ s.type \in Scanned(k)
  <1> HIDE DEF Scanned, Visited
  <1>1. r \in Routes /\ KeyAt(r) = n
    BY DEF RoutesTo
  <1>2. Len(r) \in Nat \ {0} /\ Len(r) \in 1 .. Len(r)
    BY <1>1, RouteSteps
  <1>3. PICK d \in Depths : d + 1 = Len(r) /\ d = Len(r) - 1
    BY <1>1, <1>2, RouteDepths
  <1>4. r[Len(r)] \in Steps /\ ClaimsAt(r[Len(r)])
    BY <1>1, <1>2, RouteSteps DEF Routes
  <1>5. r[Len(r)].type \in Visited(d)
    BY <1>1, <1>2, <1>3, StepsAreVisited
  <1>6. PICK k \in Depths : k <= d /\ r[Len(r)].type \in Scanned(k)
    BY <1>5, VisitedIsScanned
  <1>7. CompetesFor(r[Len(r)], n)
    BY <1>1, <1>4 DEF CompetesFor, KeyAt
  <1> QED
    BY <1>3, <1>4, <1>6, <1>7

\* The paths down the levels to a competing field are routes to its key.
LEMMA PathIsRoute ==
    ASSUME TypeOK, NEW n, NEW k \in Depths, NEW r, OnLevels(r, k), CompetesFor(r[k + 1], n)
    PROVE  r \in RoutesTo(n) /\ Len(r) = k + 1
  BY OnLevelsIsRoute DEF RoutesTo, KeyAt, CompetesFor, OnLevels

\* A claim beats another as json's records outrank one another.
LEMMA BeatsByDepth ==
    ASSUME NEW d \in Nat, NEW e \in Nat, NEW r, NEW q, Len(r) = d + 1, Len(q) = e + 1
    PROVE  beats(ClaimOf(r), ClaimOf(q)) <=>
             \/ d < e
             \/ d = e /\ HasTagName(FieldAt(r[d + 1])) /\ ~HasTagName(FieldAt(q[e + 1]))
  <1>1. /\ ClaimOf(r).depth = d /\ ClaimOf(q).depth = e
        /\ ClaimOf(r).isTagged = HasTagName(FieldAt(r[d + 1]))
        /\ ClaimOf(q).isTagged = HasTagName(FieldAt(q[e + 1]))
    BY DEF ClaimOf
  <1> QED
    BY <1>1 DEF beats

-----------------------------------------------------------------------------
(* The comparison.                                                         *)

\* The route whose claim wins a key leads to a field json emits.
LEMMA WinnerIsEmitted ==
    ASSUME TypeOK, NEW n \in Names, NEW r, Wins(r, n)
    PROVE  n \in EmittedKeys
  <1> HIDE DEF Scanned, Visited, Count
  <1>1. r \in RoutesTo(n) /\ \A q \in RoutesTo(n) \ {r} : beats(ClaimOf(r), ClaimOf(q))
    BY DEF Wins
  <1>2. PICK s \in Steps, k \in Depths, d \in Depths :
          /\ Len(r) = d + 1 /\ r[d + 1] = s /\ CompetesFor(s, n)
          /\ k <= d /\ s.type \in Scanned(k)
    BY <1>1, RouteEnd
  <1>3. k \in Nat /\ d \in Nat /\ \A e \in Depths : e \in Nat
    BY LevelEquation DEF Depths
  <1>4. ASSUME NEW q, OnLevels(q, k), q[k + 1] = s PROVE q = r
    <2>1. q \in RoutesTo(n) /\ Len(q) = k + 1
      BY <1>2, <1>4, PathIsRoute
    <2>2. ~beats(ClaimOf(r), ClaimOf(q))
      BY <1>2, <1>3, <1>4, <2>1, BeatsByDepth
    <2> QED
      BY <1>1, <2>1, <2>2
  <1>5. OnLevels(r, k) /\ Len(r) = k + 1 /\ d = k
    <2>1. PICK q : OnLevels(q, k) /\ q[k + 1] = s
      BY <1>2, OnLevelsExists
    <2>2. q = r
      BY <1>4, <2>1
    <2> QED
      BY <1>2, <1>3, <2>1, <2>2 DEF OnLevels
  <1> DEFINE f == RecordAt(s, k)
  <1>6. f \in RecordedFor(n, Level)
    BY <1>2, Recorded
  <1>7. ~f.twice
    <2>1. ~(Count(k, s.type) > 1)
      BY <1>2, <1>4, TwiceIsTwoPaths
    <2> QED
      BY <2>1, RecordFields
  <1>8. ASSUME NEW g \in RecordedFor(n, Level), g # f PROVE Outranks(f, g)
    <2>1. PICK e \in Depths, u \in Steps :
            u.type \in Scanned(e) /\ CompetesFor(u, n) /\ g = RecordAt(u, e)
      BY Recorded
    <2>2. u # s
      <3>1. u = s => e = k
        BY <1>2, <2>1, ScannedOnce
      <3> QED
        BY <1>8, <2>1, <3>1
    <2>3. PICK q : OnLevels(q, e) /\ q[e + 1] = u
      BY <2>1, OnLevelsExists
    <2>4. q \in RoutesTo(n) /\ Len(q) = e + 1
      BY <2>1, <2>3, PathIsRoute
    <2>5. q # r
      BY <1>2, <1>3, <1>5, <2>2, <2>3, <2>4
    <2>6. beats(ClaimOf(r), ClaimOf(q))
      BY <1>1, <2>4, <2>5
    <2>7. \/ k < e
          \/ k = e /\ HasTagName(FieldAt(s)) /\ ~HasTagName(FieldAt(u))
      BY <1>2, <1>3, <1>5, <2>3, <2>4, <2>6, BeatsByDepth
    <2>8. /\ f.depth = k /\ g.depth = e /\ f.isTagged = HasTagName(FieldAt(s))
          /\ g.isTagged = HasTagName(FieldAt(u))
      BY <2>1, RecordFields
    <2> HIDE DEF f
    <2> QED
      BY <2>7, <2>8 DEF Outranks
  <1> HIDE DEF f
  <1> QED
    BY <1>6, <1>7, <1>8 DEF EmittedKeys

\* But for types with embeddings of their own that one level embeds twice,
\* the field json emits for a key wins it.
LEMMA EmittedHasWinner ==
    ASSUME TypeOK, ~EmbedsBelowTwice, NEW n \in EmittedKeys
    PROVE  \E r : Wins(r, n)
  <1> HIDE DEF Scanned, Visited, Count
  <1>1. PICK f \in RecordedFor(n, Level) :
          ~f.twice /\ \A g \in RecordedFor(n, Level) : g # f => Outranks(f, g)
    BY DEF EmittedKeys
  <1>2. PICK k \in Depths, s \in Steps :
          s.type \in Scanned(k) /\ CompetesFor(s, n) /\ f = RecordAt(s, k)
    BY Recorded
  <1>3. PICK r : OnLevels(r, k) /\ r[k + 1] = s
    BY <1>2, OnLevelsExists
  <1>4. r \in RoutesTo(n) /\ Len(r) = k + 1
    BY <1>2, <1>3, PathIsRoute
  <1>5. k \in Nat /\ \A e \in Depths : e \in Nat
    BY LevelEquation DEF Depths
  <1>6. ASSUME NEW q \in RoutesTo(n) \ {r} PROVE beats(ClaimOf(r), ClaimOf(q))
    <2>1. PICK u \in Steps, e \in Depths, d \in Depths :
            /\ Len(q) = d + 1 /\ q[d + 1] = u /\ CompetesFor(u, n)
            /\ e <= d /\ u.type \in Scanned(e)
      BY RouteEnd
    <2>2. CASE u = s
      <3>1. e = k
        BY <1>2, <2>1, <2>2, ScannedOnce
      <3>2. d # k
        <4> SUFFICES ASSUME d = k PROVE FALSE
          OBVIOUS
        <4>1. q \in Routes /\ Len(q) = k + 1 /\ q[k + 1] = s
          BY <2>1, <2>2 DEF RoutesTo
        <4>2. OnLevels(q, k)
          BY <1>2, <4>1, RouteOnLevels
        <4>3. Count(k, s.type) > 1
          BY <1>3, <1>6, <4>1, <4>2, PathsMeet
        <4> QED
          BY <1>1, <1>2, <4>3, RecordFields
      <3>3. k < d
        BY <1>5, <2>1, <3>1, <3>2
      <3> QED
        BY <1>4, <1>5, <2>1, <3>3, BeatsByDepth
    <2>3. CASE u # s
      <3> DEFINE g == RecordAt(u, e)
      <3>1. g \in RecordedFor(n, Level)
        BY <2>1, Recorded
      <3>2. /\ f.depth = k /\ f.isTagged = HasTagName(FieldAt(s))
            /\ g.depth = e /\ g.isTagged = HasTagName(FieldAt(u))
            /\ f.type = s.type /\ f.index = s.index
            /\ g.type = u.type /\ g.index = u.index
        BY <1>2, RecordFields
      <3>3. g # f
        <4>1. s.type # u.type \/ s.index # u.index
          BY <2>3 DEF Steps
        <4> HIDE DEF g
        <4> QED
          BY <3>2, <4>1
      <3>4. Outranks(f, g)
        BY <1>1, <3>1, <3>3
      <3> HIDE DEF g
      <3>5. \/ k < e
            \/ k = e /\ HasTagName(FieldAt(s)) /\ ~HasTagName(FieldAt(u))
        BY <3>2, <3>4 DEF Outranks
      <3>6. \/ k < d
            \/ k = d /\ HasTagName(FieldAt(s)) /\ ~HasTagName(FieldAt(u))
        BY <1>5, <2>1, <3>5
      <3> QED
        BY <1>3, <1>4, <1>5, <2>1, <3>6, BeatsByDepth
    <2> QED
      BY <2>2, <2>3
  <1> QED
    BY <1>4, <1>6 DEF Wins

\* The walk never claims a key that json does not emit for T, whatever the
\* types embed (declared.go:51-54).
THEOREM NothingUnemitted == Spec => []DeclaredIsEmitted
  <1>1. TypeOK /\ DeclaredByRoutes => DeclaredIsEmitted
    BY WinnerIsEmitted DEF DeclaredByRoutes, DeclaredIsEmitted
  <1> QED
    BY <1>1, TypeCorrect, WalkFree, PTL

\* For types that embed nothing with embeddings of its own twice at one
\* level, the declared keys are exactly the keys json emits
\* (declared.go:90, declared_test.go's drift guard).
THEOREM SameAsJSON == Spec => []MatchesEncodingJSONOnTrees
  <1>1. ASSUME TypeOK, DeclaredByRoutes, declared # Nil, ~EmbedsBelowTwice
        PROVE  declared = EmittedKeys
    <2>1. declared = {n \in Names : \E r : Wins(r, n)}
      BY <1>1 DEF DeclaredByRoutes
    <2>2. EmittedKeys \subseteq Names
      BY DEF EmittedKeys
    <2>3. \A n \in Names : (\E r : Wins(r, n)) => n \in EmittedKeys
      BY <1>1, WinnerIsEmitted
    <2>4. \A n \in EmittedKeys : \E r : Wins(r, n)
      BY <1>1, EmittedHasWinner
    <2> QED
      BY <2>1, <2>2, <2>3, <2>4
  <1>2. TypeOK /\ DeclaredByRoutes => MatchesEncodingJSONOnTrees
    BY <1>1 DEF MatchesEncodingJSONOnTrees
  <1> QED
    BY <1>2, TypeCorrect, WalkFree, PTL

-----------------------------------------------------------------------------
(* The walk ends: every step passes one of finitely many positions.        *)

\* The positions the walk may be at: along embeddings, no longer than there
\* are types, each at one of its type's fields or past the last of them.
Places(type) == {[type |-> type, index |-> i] : i \in 1 .. Len(fieldsOf[type]) + 1}
AllPlaces == UNION {Places(t) : t \in Types}
Positions == {p \in Seq(AllPlaces) : Len(p) <= Cardinality(Types)}

\* The positions the walk has not passed; <<>> stands for the result.
Remaining ==
    {p \in Positions : Ahead(p)} \cup (IF declared = Nil THEN {<<>>} ELSE {})

\* A loop stops past its last field.
LoopsWithin ==
    \A k \in 1 .. Len(stack) : stack[k].next <= Len(fieldsOf[stack[k].type]) + 1

\* The places are finite in number: finitely many types, each with finitely
\* many fields.
LEMMA PlacesAreFinite ==
    ASSUME TypeOK
    PROVE  IsFiniteSet(AllPlaces) /\ AllPlaces \subseteq Steps
  <1>1. ASSUME NEW t \in Types
        PROVE  IsFiniteSet(Places(t)) /\ Places(t) \subseteq Steps
    <2> DEFINE n == Len(fieldsOf[t]) + 1
               f == [i \in 1 .. n |-> [type |-> t, index |-> i]]
    <2>1. n \in Nat
      <3>1. fieldsOf[t] \in Seq(Fields)
        BY DEF TypeOK
      <3> QED
        BY <3>1
    <2>2. f \in Surjection(1 .. n, Places(t))
      BY DEF Surjection, Places
    <2>3. IsFiniteSet(1 .. n)
      <3> HIDE DEF n
      <3>1. 1 \in Int /\ n \in Int
        BY <2>1
      <3> QED
        BY <3>1, FS_Interval
    <2>4. IsFiniteSet(Places(t))
      <3> HIDE DEF f, n
      <3> QED
        BY <2>2, <2>3, FS_Surjection
    <2> QED
      BY <2>1, <2>4 DEF Places, Steps
  <1> DEFINE each == [t \in Types |-> Places(t)]
             Each == {Places(t) : t \in Types}
  <1>2. each \in Surjection(Types, Each)
    BY DEF Surjection
  <1>3. IsFiniteSet(Each)
    <2> HIDE DEF each, Each
    <2> QED
      BY <1>2, TypesAssumption, FS_Surjection
  <1>4. \A S \in Each : IsFiniteSet(S)
    BY <1>1
  <1>5. IsFiniteSet(UNION Each)
    <2> HIDE DEF Each
    <2> QED
      BY <1>3, <1>4, FS_UNION
  <1>6. AllPlaces = UNION Each
    BY DEF AllPlaces
  <1>7. AllPlaces \subseteq Steps
    BY <1>1 DEF AllPlaces
  <1> QED
    BY <1>5, <1>6, <1>7

\* So are the sequences of places of bounded length: each is told by the set
\* of its numbered entries.
LEMMA PositionsAreFinite ==
    ASSUME TypeOK
    PROVE  IsFiniteSet(Positions) /\ Positions \subseteq Seq(Steps)
  <1> DEFINE N == Cardinality(Types)
             Entries == (1 .. N) \X AllPlaces
             Numbered(p) == {<<k, p[k]>> : k \in 1 .. Len(p)}
             f == [p \in Positions |-> Numbered(p)]
  <1>1. N \in Nat
    BY TypesAssumption, FS_CardinalityType
  <1>2. IsFiniteSet(AllPlaces) /\ AllPlaces \subseteq Steps
    BY PlacesAreFinite
  <1>3. IsFiniteSet(1 .. N)
    <2> HIDE DEF N
    <2>1. 1 \in Int /\ N \in Int
      BY <1>1
    <2> QED
      BY <2>1, FS_Interval
  <1>4. IsFiniteSet(SUBSET Entries)
    <2>1. IsFiniteSet(Entries)
      <3> HIDE DEF N
      <3> QED
        BY <1>2, <1>3, FS_Product
    <2> HIDE DEF Entries
    <2> QED
      BY <2>1, FS_SUBSET
  <1>5. ASSUME NEW p \in Positions
        PROVE  /\ p \in Seq(AllPlaces) /\ Len(p) \in Nat /\ Len(p) <= N
               /\ Numbered(p) \subseteq Entries
    <2>1. p \in Seq(AllPlaces) /\ Len(p) \in Nat /\ Len(p) <= N
      BY DEF Positions
    <2>2. \A k \in 1 .. Len(p) : k \in 1 .. N /\ p[k] \in AllPlaces
      <3> HIDE DEF N
      <3> QED
        BY <1>1, <2>1
    <2> QED
      BY <2>1, <2>2
  <1>6. ASSUME NEW p \in Positions, NEW q \in Positions, Numbered(p) = Numbered(q)
        PROVE  p = q
    <2>1. \A k \in 1 .. Len(p) : <<k, p[k]>> \in Numbered(q)
      BY <1>6
    <2>2. \A k \in 1 .. Len(q) : <<k, q[k]>> \in Numbered(p)
      BY <1>6
    <2>3. \A k \in 1 .. Len(p) : k \in 1 .. Len(q) /\ p[k] = q[k]
      BY <2>1
    <2>4. \A k \in 1 .. Len(q) : k \in 1 .. Len(p)
      BY <2>2
    <2>5. p \in Seq(AllPlaces) /\ q \in Seq(AllPlaces) /\ Len(p) \in Nat /\ Len(q) \in Nat
      BY <1>5
    <2>6. Len(p) = Len(q)
      <3>1. Len(p) <= Len(q)
        BY <2>3, <2>5
      <3>2. Len(q) <= Len(p)
        BY <2>4, <2>5
      <3> QED
        BY <2>5, <3>1, <3>2
    <2> QED
      BY <2>3, <2>5, <2>6
  <1>7. f \in Injection(Positions, SUBSET Entries)
    <2>1. f \in [Positions -> SUBSET Entries]
      BY <1>5
    <2>2. \A p, q \in Positions : f[p] = f[q] => p = q
      BY <1>6
    <2> HIDE DEF f
    <2> QED
      BY <2>1, <2>2 DEF Injection, IsInjective
  <1>8. IsFiniteSet(Positions)
    <2> HIDE DEF f, Entries
    <2> QED
      BY <1>4, <1>7, FS_Injection
  <1>9. Positions \subseteq Seq(Steps)
    BY <1>2 DEF Positions
  <1> QED
    BY <1>8, <1>9

\* No loop runs past its end.
LEMMA WithinStep == TypeOK /\ LoopsWithin /\ [Next]_vars => LoopsWithin'
  <1> SUFFICES ASSUME TypeOK, LoopsWithin, [Next]_vars PROVE LoopsWithin'
    OBVIOUS
  <1>1. fieldsOf' = fieldsOf
    BY DEF Next, vars, SkipField, Descend, Revisit, ClaimField, Return, Finish
  <1> DEFINE within(frame) == frame.next <= Len(fieldsOf[frame.type]) + 1
  <1>2. LoopsWithin' <=> \A k \in 1 .. Len(stack') : within(stack'[k])
    BY <1>1 DEF LoopsWithin
  <1>3. \A k \in 1 .. Len(stack) : within(stack[k])
    BY DEF LoopsWithin
  <1>4. ASSUME InLoop
        PROVE  Top.next \in Nat /\ Top.next + 1 <= Len(fieldsOf[Top.type]) + 1
    <2>1. fieldsOf[Top.type] \in Seq(Fields)
      BY <1>4, CurrentFieldTyped DEF TypeOK, Frames
    <2>2. Top.next \in 1 .. Len(fieldsOf[Top.type]) /\ Len(fieldsOf[Top.type]) \in Nat
      BY <1>4, <2>1 DEF InLoop
    <2> QED
      BY <2>2
  <1>5. ASSUME InLoop, stack' = Advanced PROVE LoopsWithin'
    <2>1. PICK n \in Nat \ {0} :
            /\ n = Len(stack) /\ Len(stack') = n
            /\ \A k \in 1 .. n - 1 : stack'[k] = stack[k]
            /\ stack'[n].type = stack[n].type /\ stack'[n].next = stack[n].next + 1
      BY <1>5, OnAdvance
    <2>2. \A k \in 1 .. n : k \in 1 .. n - 1 \/ k = n
      BY <2>1
    <2>3. \A k \in 1 .. n - 1 : k \in 1 .. n
      BY <2>1
    <2>4. within(stack'[n])
      BY <1>4, <1>5, <2>1 DEF Top
    <2> HIDE DEF within
    <2> QED
      BY <1>2, <1>3, <2>1, <2>2, <2>3, <2>4
  <1>6. CASE SkipField \/ Revisit \/ ClaimField
    BY <1>5, <1>6 DEF SkipField, Revisit, ClaimField
  <1>7. CASE Descend
    <2>1. PICK n \in Nat \ {0} :
            /\ n = Len(stack) /\ Len(stack') = n + 1
            /\ \A k \in 1 .. n : stack'[k].type = stack[k].type
            /\ \A k \in 1 .. n - 1 : stack'[k].next = stack[k].next
            /\ stack'[n].next = stack[n].next + 1
            /\ stack'[n + 1] = Frame(CurrentField.type)
      BY <1>7, OnDescend
    <2>2. \A k \in 1 .. n + 1 : k \in 1 .. n - 1 \/ k = n \/ k = n + 1
      BY <2>1
    <2>3. n \in 1 .. n /\ \A k \in 1 .. n - 1 : k \in 1 .. n
      BY <2>1
    <2>4. within(stack'[n])
      <3>1. InLoop
        BY <1>7 DEF Descend
      <3> QED
        BY <1>4, <2>1, <2>3, <3>1 DEF Top
    <2>5. within(stack'[n + 1])
      <3>1. CurrentField.type \in Types
        BY <1>7, CurrentFieldTyped DEF Descend
      <3>2. fieldsOf[CurrentField.type] \in Seq(Fields)
        BY <3>1 DEF TypeOK
      <3>3. 1 <= Len(fieldsOf[CurrentField.type]) + 1
        BY <3>2
      <3>4. stack'[n + 1] = [type |-> CurrentField.type, next |-> 1]
        BY <2>1 DEF Frame
      <3> QED
        BY <3>3, <3>4
    <2>6. \A k \in 1 .. n - 1 : within(stack'[k])
      BY <1>3, <2>1, <2>3
    <2> HIDE DEF within
    <2> QED
      BY <1>2, <2>1, <2>2, <2>4, <2>5, <2>6
  <1>8. CASE Return
    <2>1. PICK n \in Nat \ {0} :
            /\ n = Len(stack) /\ Len(stack') = n - 1
            /\ \A k \in 1 .. n - 1 : stack'[k] = stack[k]
      BY <1>8, OnReturn
    <2>2. \A k \in 1 .. n - 1 : k \in 1 .. n
      BY <2>1
    <2> QED
      BY <1>2, <1>3, <2>1, <2>2
  <1>9. CASE Finish \/ UNCHANGED vars
    <2>1. stack' = stack
      BY <1>9 DEF Finish, vars
    <2> QED
      BY <1>2, <1>3, <2>1
  <1> QED
    BY <1>6, <1>7, <1>8, <1>9 DEF Next

\* The stack is no deeper than there are types.
LEMMA StackIsShallow ==
    ASSUME TypeOK, WalkIsAcyclic
    PROVE  Len(stack) <= Cardinality(Types)
  <1> DEFINE f == [k \in 1 .. Len(stack) |-> stack[k].type]
  <1>1. /\ Len(stack) \in Nat /\ DOMAIN stack = 1 .. Len(stack)
        /\ \A k \in 1 .. Len(stack) : stack[k] \in Frames
    BY DEF TypeOK
  <1>2. \A j, k \in 1 .. Len(stack) : stack[j].type = stack[k].type => j = k
    BY <1>1 DEF WalkIsAcyclic
  <1>3. f \in [1 .. Len(stack) -> Types]
    BY <1>1 DEF Frames
  <1>4. f \in Injection(1 .. Len(stack), Types)
    BY <1>2, <1>3 DEF Injection, IsInjective
  <1>5. Cardinality(1 .. Len(stack)) <= Cardinality(Types)
    <2> HIDE DEF f
    <2> QED
      BY <1>4, TypesAssumption, FS_Injection
  <1>6. Cardinality(1 .. Len(stack)) = Len(stack)
    <2>1. 1 \in Int /\ Len(stack) \in Int
      BY <1>1
    <2>2. Cardinality(1 .. Len(stack)) = IF 1 > Len(stack) THEN 0 ELSE Len(stack) - 1 + 1
      BY <2>1, FS_Interval
    <2> QED
      BY <1>1, <2>2
  <1> QED
    BY <1>5, <1>6

\* The walk is at a position it has not passed.
LEMMA PathIsAhead ==
    ASSUME TypeOK, WalkIsAcyclic, StackLeads, LoopsWithin, stack # <<>>
    PROVE  Path \in Positions /\ Ahead(Path)
  <1>1. PICK n \in Nat \ {0} : n = Len(stack)
    BY DEF TypeOK
  <1>2. Len(Path) = n /\ Path \in Seq(Steps)
    BY <1>1, PathOfStack
  <1>3. /\ \A k \in 1 .. n : Path[k].type = stack[k].type /\ stack[k].type \in Types
        /\ Path[n] = [type |-> stack[n].type, index |-> stack[n].next]
        /\ stack[n].next \in Nat \ {0}
    <2>1. \A k \in 1 .. n : stack[k] \in Frames
      BY <1>1 DEF TypeOK
    <2>2. n \in 1 .. n
      BY <1>1
    <2> QED
      BY <1>1, <2>1, <2>2, PathOfStack, StackSteps DEF Frames
  <1>4. ASSUME NEW k \in 1 .. n
        PROVE  Path[k].index \in 1 .. Len(fieldsOf[Path[k].type]) + 1
    <2> DEFINE m == Len(fieldsOf[Path[k].type])
    <2>1. fieldsOf[Path[k].type] \in Seq(Fields)
      BY <1>3 DEF TypeOK
    <2>2. m \in Nat /\ DOMAIN fieldsOf[Path[k].type] = 1 .. m
      BY <2>1
    <2>3. CASE k = n
      <3>1. Path[k].index = stack[n].next /\ stack[n].next <= m + 1
        BY <1>1, <1>3, <2>3 DEF LoopsWithin
      <3> QED
        BY <1>3, <2>2, <3>1
    <2>4. CASE k # n
      <3>1. k \in 1 .. Len(stack) - 1
        BY <1>1, <2>4
      <3>2. Path[k].index \in 1 .. m
        BY <2>2, <3>1 DEF StackLeads, EmbedsAt
      <3> QED
        BY <2>2, <3>2
    <2> QED
      BY <2>3, <2>4
  <1>5. ASSUME NEW k \in 1 .. n PROVE Path[k] \in AllPlaces
    <2>1. Path[k] = [type |-> Path[k].type, index |-> Path[k].index]
      <3>1. Path[k] \in Steps
        BY <1>2
      <3> QED
        BY <3>1 DEF Steps
    <2>2. Path[k] \in Places(Path[k].type)
      BY <1>4, <2>1 DEF Places
    <2> QED
      BY <1>3, <2>2 DEF AllPlaces
  <1>6. Path \in Seq(AllPlaces)
    <2>1. DOMAIN Path = 1 .. n
      BY <1>1, <1>2
    <2>2. Path = [k \in 1 .. n |-> Path[k]]
      BY <1>2, <2>1
    <2> QED
      BY <1>1, <1>5, <2>2
  <1>7. n <= Cardinality(Types)
    BY <1>1, StackIsShallow
  <1>8. AheadAt(Path, n)
    BY <1>1, <1>2, <1>3 DEF AheadAt
  <1>9. n \in 1 .. Len(stack)
    BY <1>1
  <1> QED
    BY <1>2, <1>6, <1>7, <1>8, <1>9 DEF Positions, Ahead

\* A position passed stays passed.
LEMMA PassedStays ==
    ASSUME TypeOK, Next, NEW p \in Seq(Steps), Ahead(p)'
    PROVE  Ahead(p)
  <1>1. \A k \in 1 .. Len(p) : p[k].index \in Nat
    <2>1. \A k \in 1 .. Len(p) : p[k] \in Steps
      OBVIOUS
    <2> QED
      BY <2>1 DEF Steps
  <1>2. Len(p) \in Nat /\ Len(stack) \in Nat
    BY DEF TypeOK
  <1>3. PICK k \in 1 .. Len(stack') : AheadAt(p, k)'
    BY DEF Ahead
  <1>4. /\ k <= Len(p) /\ \A j \in 1 .. k - 1 : p[j] = Path'[j]
        /\ p[k].type = stack'[k].type /\ p[k].index >= stack'[k].next
    BY <1>3 DEF AheadAt
  <1>5. ASSUME NEW i \in 1 .. Len(stack), i = k,
               \A j \in 1 .. k - 1 : Path'[j] = Path[j],
               stack'[k].type = stack[k].type,
               stack'[k].next = stack[k].next \/ stack'[k].next = stack[k].next + 1
        PROVE  Ahead(p)
    <2>1. p[k].index \in Nat /\ stack[k].next \in Nat
      <3>1. k \in 1 .. Len(p)
        BY <1>2, <1>4, <1>5
      <3>2. stack[k].next \in Nat \ {0}
        BY <1>5, StackSteps
      <3> QED
        BY <1>1, <3>1, <3>2
    <2>2. p[k].index >= stack[k].next
      BY <1>4, <1>5, <2>1
    <2> QED
      BY <1>4, <1>5, <2>2 DEF Ahead, AheadAt
  <1>6. CASE SkipField \/ Revisit \/ ClaimField
    <2>1. InLoop /\ stack' = Advanced
      BY <1>6 DEF SkipField, Revisit, ClaimField
    <2>2. PICK n \in Nat \ {0} :
            /\ n = Len(stack) /\ Len(stack') = n
            /\ \A j \in 1 .. n - 1 : stack'[j] = stack[j] /\ Path'[j] = Path[j]
            /\ stack'[n].type = stack[n].type /\ stack'[n].next = stack[n].next + 1
      BY <2>1, OnAdvance
    <2>3. k \in 1 .. n /\ (k \in 1 .. n - 1 \/ k = n) /\ \A j \in 1 .. k - 1 : j \in 1 .. n - 1
      BY <1>3, <2>2
    <2> QED
      BY <1>5, <2>2, <2>3
  <1>7. CASE Descend
    <2>1. PICK n \in Nat \ {0} :
            /\ n = Len(stack) /\ Len(stack') = n + 1
            /\ \A j \in 1 .. n : Path'[j] = Path[j] /\ stack'[j].type = stack[j].type
            /\ \A j \in 1 .. n - 1 : stack'[j].next = stack[j].next
            /\ Path[n] = [type |-> stack[n].type, index |-> stack[n].next]
            /\ stack'[n].next = stack[n].next + 1
      BY <1>7, OnDescend
    <2>2. CASE k = n + 1
      <3>1. n <= Len(p) /\ \A j \in 1 .. n : p[j] = Path[j]
        BY <1>2, <1>4, <2>1, <2>2
      <3>2. n \in 1 .. n /\ \A j \in 1 .. n - 1 : j \in 1 .. n
        BY <2>1
      <3>3. stack[n].next \in Nat
        BY <2>1, <3>2, StackSteps
      <3>4. p[n].type = stack[n].type /\ p[n].index >= stack[n].next
        BY <2>1, <3>1, <3>2, <3>3
      <3> QED
        BY <2>1, <3>1, <3>2, <3>4 DEF Ahead, AheadAt
    <2>3. CASE k # n + 1
      <3>1. k \in 1 .. n /\ (k \in 1 .. n - 1 \/ k = n) /\ \A j \in 1 .. k - 1 : j \in 1 .. n
        BY <1>3, <2>1, <2>3
      <3> QED
        BY <1>5, <2>1, <3>1
    <2> QED
      BY <2>2, <2>3
  <1>8. CASE Return
    <2>1. PICK n \in Nat \ {0} :
            /\ n = Len(stack) /\ Len(stack') = n - 1
            /\ \A j \in 1 .. n - 1 : stack'[j] = stack[j]
            /\ \A j \in 1 .. n - 2 : Path'[j] = Path[j]
      BY <1>8, OnReturn
    <2>2. k \in 1 .. n /\ k \in 1 .. n - 1 /\ \A j \in 1 .. k - 1 : j \in 1 .. n - 2
      BY <1>3, <2>1
    <2> QED
      BY <1>5, <2>1, <2>2
  <1>9. CASE Finish
    <2>1. stack' = stack /\ Path' = Path
      BY <1>9 DEF Finish, Path
    <2> QED
      BY <1>3, <1>5, <2>1
  <1> QED
    BY <1>6, <1>7, <1>8, <1>9 DEF Next

\* Every step passes the position the walk was at.
LEMMA PathIsPassed ==
    ASSUME TypeOK, Next, stack # <<>>, NEW p, p = Path
    PROVE  ~Ahead(p)'
  <1>1. SUFFICES ASSUME NEW k \in 1 .. Len(stack'), AheadAt(p, k)' PROVE FALSE
    BY DEF Ahead
  <1>2. Len(p) = Len(stack) /\ Len(stack) \in Nat \ {0}
    BY PathOfStack DEF TypeOK
  <1>3. k <= Len(p) /\ p[k].index >= stack'[k].next
    BY <1>1 DEF AheadAt
  <1>4. k \in 1 .. Len(stack)
    <2>1. k \in Nat /\ k >= 1
      <3>1. stack' \in Seq(Frames)
        BY TypeStep DEF TypeOK
      <3> QED
        BY <3>1
    <2> QED
      BY <1>2, <1>3, <2>1
  <1>5. /\ stack[k].next \in Nat \ {0}
        /\ p[k].index = IF k < Len(stack) THEN stack[k].next - 1 ELSE stack[k].next
    <2>1. p[k] = [type |-> stack[k].type,
                  index |-> IF k < Len(stack) THEN stack[k].next - 1 ELSE stack[k].next]
      BY <1>4, PathOfStack
    <2> QED
      BY <1>4, <2>1, StackSteps
  <1>6. CASE SkipField \/ Revisit \/ ClaimField
    <2>1. InLoop /\ stack' = Advanced
      BY <1>6 DEF SkipField, Revisit, ClaimField
    <2>2. PICK n \in Nat \ {0} :
            /\ n = Len(stack)
            /\ \A j \in 1 .. n - 1 : stack'[j] = stack[j]
            /\ stack'[n].next = stack[n].next + 1
      BY <2>1, OnAdvance
    <2>3. k = n \/ k \in 1 .. n - 1
      BY <1>4, <2>2
    <2> QED
      BY <1>3, <1>5, <2>2, <2>3
  <1>7. CASE Descend
    <2>1. PICK n \in Nat \ {0} :
            /\ n = Len(stack)
            /\ \A j \in 1 .. n - 1 : stack'[j].next = stack[j].next
            /\ stack'[n].next = stack[n].next + 1
      BY <1>7, OnDescend
    <2>2. k = n \/ k \in 1 .. n - 1
      BY <1>4, <2>1
    <2> QED
      BY <1>3, <1>5, <2>1, <2>2
  <1>8. CASE Return
    <2>1. PICK n \in Nat \ {0} :
            /\ n = Len(stack) /\ Len(stack') = n - 1
            /\ \A j \in 1 .. n - 1 : stack'[j] = stack[j]
      BY <1>8, OnReturn
    <2>2. k \in 1 .. n - 1
      BY <1>1, <2>1
    <2> QED
      BY <1>3, <1>5, <2>1, <2>2
  <1>9. ~Finish
    BY DEF Finish
  <1> QED
    BY <1>6, <1>7, <1>8, <1>9 DEF Next

\* Every step leaves strictly fewer positions to come.
LEMMA StepGetsOn ==
    ASSUME TypeOK, WalkIsAcyclic, StackLeads, LoopsWithin, Next
    PROVE  /\ Cardinality(Remaining) \in Nat /\ Cardinality(Remaining') \in Nat
           /\ Cardinality(Remaining') < Cardinality(Remaining)
  <1>1. fieldsOf' = fieldsOf
    BY DEF Next, SkipField, Descend, Revisit, ClaimField, Return, Finish
  <1>2. Positions' = Positions
    BY <1>1 DEF Positions, AllPlaces, Places
  <1>3. IsFiniteSet(Positions) /\ Positions \subseteq Seq(Steps)
    BY PositionsAreFinite
  <1>4. \A p \in Positions : Ahead(p)' => Ahead(p)
    BY <1>3, PassedStays
  <1>5. declared' = Nil => declared = Nil
    <2>1. declared' = declared \/ declared = Nil
      BY DEF Next, SkipField, Descend, Revisit, ClaimField, Return, Finish
    <2> QED
      BY <2>1
  <1>6. Remaining' \subseteq Remaining
    <2>1. Remaining' = {p \in Positions : Ahead(p)'} \cup
                         (IF declared' = Nil THEN {<<>>} ELSE {})
      BY <1>2 DEF Remaining
    <2> QED
      BY <1>4, <1>5, <2>1 DEF Remaining
  <1>7. IsFiniteSet(Remaining)
    <2>1. {p \in Positions : Ahead(p)} \in SUBSET Positions
      OBVIOUS
    <2>2. IsFiniteSet({p \in Positions : Ahead(p)})
      BY <1>3, <2>1, FS_Subset
    <2>3. IsFiniteSet({<<>>}) /\ IsFiniteSet({})
      BY FS_Singleton, FS_EmptySet
    <2> QED
      BY <2>2, <2>3, FS_Union DEF Remaining
  <1>8. Remaining' # Remaining
    <2>1. \A p \in Positions : ~Ahead(<<>>)
      BY DEF Ahead, AheadAt, TypeOK
    <2>2. CASE stack # <<>>
      <3>1. PICK p : p = Path
        OBVIOUS
      <3>2. p \in Positions /\ Ahead(p) /\ p # <<>>
        <4>1. Len(Path) = Len(stack) /\ Len(stack) # 0
          BY <2>2, PathOfStack DEF TypeOK
        <4> QED
          BY <2>2, <3>1, <4>1, PathIsAhead
      <3>3. ~Ahead(p)'
        BY <2>2, <3>1, PathIsPassed
      <3>4. p \in Remaining
        BY <3>2 DEF Remaining
      <3>5. p \notin Remaining'
        BY <1>2, <3>2, <3>3 DEF Remaining
      <3> QED
        BY <3>4, <3>5
    <2>3. CASE stack = <<>>
      <3>1. Finish
        <4>1. ~InLoop
          BY <2>3 DEF InLoop
        <4>2. ~SkipField /\ ~Descend /\ ~Revisit /\ ~ClaimField
          BY <4>1 DEF SkipField, Descend, Revisit, ClaimField
        <4>3. ~Return
          BY <2>3 DEF Return
        <4> QED
          BY <4>2, <4>3 DEF Next
      <3>2. declared = Nil /\ declared' # Nil /\ stack' = <<>>
        <4>1. Uncontested \in SUBSET Names
          BY DEF Uncontested
        <4>2. Uncontested # Nil
          BY <4>1, NilAssumption
        <4> QED
          BY <2>3, <3>1, <4>2 DEF Finish
      <3>3. <<>> \in Remaining
        BY <3>2 DEF Remaining
      <3>4. \A p : ~Ahead(p)'
        <4>1. Len(stack') = 0
          BY <3>2
        <4> QED
          BY <4>1 DEF Ahead
      <3>5. <<>> \notin Remaining'
        BY <3>2, <3>4 DEF Remaining
      <3> QED
        BY <3>3, <3>5
    <2> QED
      BY <2>2, <2>3
  <1>9. /\ IsFiniteSet(Remaining') /\ Cardinality(Remaining') <= Cardinality(Remaining)
        /\ Cardinality(Remaining) # Cardinality(Remaining')
    BY <1>6, <1>7, <1>8, FS_Subset
  <1>10. Cardinality(Remaining) \in Nat /\ Cardinality(Remaining') \in Nat
    BY <1>7, <1>9, FS_CardinalityType
  <1> QED
    BY <1>9, <1>10

\* The recursion is no deeper than there are types, whatever embeds what
\* (declared.go:91-96).
THEOREM Shallow == Spec => [](Len(stack) <= Cardinality(Types))
  <1>1. TypeOK /\ WalkIsAcyclic => Len(stack) <= Cardinality(Types)
    BY StackIsShallow
  <1> QED
    BY <1>1, TypeCorrect, Acyclic, PTL

\* The walk ends for every set of type declarations: each step of it lessens
\* a number, the positions not yet passed.  "Self-embedding types would
\* recurse forever" (declared.go:91-96); a registration with them returns.
THEOREM Ends ==
    Spec => [][/\ Cardinality(Remaining) \in Nat
               /\ Cardinality(Remaining)' < Cardinality(Remaining)]_vars
  <1> DEFINE Inv == TypeOK /\ WalkIsAcyclic /\ StackLeads /\ LoopsWithin
  <1>1. Init => LoopsWithin
    <2> SUFFICES ASSUME Init PROVE LoopsWithin
      OBVIOUS
    <2>1. fieldsOf[Root] \in Seq(Fields)
      BY TypeInit, RootAssumption DEF TypeOK
    <2>2. Len(stack) = 1 /\ stack[1] = [type |-> Root, next |-> 1]
      BY DEF Init, Frame
    <2> QED
      BY <2>1, <2>2 DEF LoopsWithin
  <1>2. Spec => []LoopsWithin
    BY <1>1, WithinStep, TypeCorrect, PTL DEF Spec
  <1>3. WalkInv => StackLeads
    BY DEF WalkInv
  <1>4. Spec => []WalkInv
    BY WalkInvariant
  <1>5. Inv /\ [Next]_vars =>
          [/\ Cardinality(Remaining) \in Nat
           /\ Cardinality(Remaining)' < Cardinality(Remaining)]_vars
    BY StepGetsOn
  <1> QED
    BY <1>2, <1>3, <1>4, <1>5, TypeCorrect, Acyclic, PTL DEF Spec
=============================================================================
