---------------------------- MODULE CacheProofs -----------------------------
(***************************************************************************)
(* What TLAPS proves of the cache, for every clock, set of keys and values *)
(* and times to live.                                                      *)
(***************************************************************************)
EXTENDS Cache, TLAPS

USE SecondAssumption, DurationsAssumption, MarkersAssumption

\* Dropping the fraction loses less than a second.
LEMMA Truncation ==
    ASSUME NEW ttl \in Nat
    PROVE  /\ Seconds(ttl) \in Nat
           /\ Seconds(ttl) * Second <= ttl
           /\ ttl < Seconds(ttl) * Second + Second
           /\ ttl >= Second => Seconds(ttl) # 0
  <1>1. Seconds(ttl) = ttl \div Second
    BY DEF Seconds
  <1>2. /\ ttl \div Second \in Nat
        /\ (ttl \div Second) * Second <= ttl
        /\ ttl < (ttl \div Second) * Second + Second
    OBVIOUS
  <1>3. ttl \div Second = 0 => (ttl \div Second) * Second = 0
    BY <1>2
  <1> QED
    BY <1>1, <1>2, <1>3

\* Seconds that are not negative are a natural number.
LEMMA SecondsTyped ==
    ASSUME NEW ttl \in Int PROVE Seconds(ttl) \in Int
  BY DEF Seconds

\* An entry stored now expires after now.
LEMMA StoreTyped ==
    ASSUME TypeOK, NEW ttl \in Durations, Seconds(ttl) >= 0
    PROVE  LET expires == IF Seconds(ttl) = 0 THEN Forever
                          ELSE Earlier(clock + Seconds(ttl) * Second, Forever)
           IN  /\ expires \in 1 .. MaxClock + 1
               /\ ttl >= Second =>
                    LET due == Earlier(clock + ttl, Forever) IN
                    expires <= due /\ due < expires + Second
  <1>1. Seconds(ttl) \in Nat
    BY SecondsTyped
  <1>2. clock \in 0 .. MaxClock
    BY DEF TypeOK
  <1>3. Seconds(ttl) * Second \in Nat /\ (Seconds(ttl) # 0 => Seconds(ttl) * Second >= 1)
    BY <1>1
  <1>4. ttl >= Second => /\ Seconds(ttl) # 0
                         /\ Seconds(ttl) * Second <= ttl
                         /\ ttl < Seconds(ttl) * Second + Second
    BY Truncation
  <1> DEFINE s == Seconds(ttl) * Second
  <1>5. s \in Nat /\ (Seconds(ttl) # 0 => s >= 1)
        /\ (ttl >= Second => Seconds(ttl) # 0 /\ s <= ttl /\ ttl < s + Second)
    BY <1>3, <1>4
  <1> HIDE DEF s
  <1>6. LET expires == IF Seconds(ttl) = 0 THEN Forever ELSE Earlier(clock + s, Forever)
        IN  /\ expires \in 1 .. MaxClock + 1
            /\ ttl >= Second =>
                 LET due == Earlier(clock + ttl, Forever) IN
                 expires <= due /\ due < expires + Second
    BY <1>2, <1>5 DEF Earlier, Forever
  <1> QED
    BY <1>6 DEF s

LEMMA InvInit == Init => IInv
  BY DEF Init, IInv, TypeOK, Agrees, Answered, Hit, ExpiresInTime

\* Only Get ends in a hit.
LEMMA NoHit ==
    ASSUME answer' = Nil \/ \E k \in Keys : \E op \in {"set", "delete", "failed"} :
                                answer' = [op |-> op, key |-> k]
    PROVE  answer' \in Answers \cup {Nil} /\ ~Hit'
  BY DEF Answers, Hit

LEMMA InvTick ==
    ASSUME IInv, Tick PROVE IInv'
  BY NoHit DEF Tick, IInv, TypeOK, Agrees, Answered, Live, ExpiresInTime

LEMMA InvEvict ==
    ASSUME IInv, Evict PROVE IInv'
  <1>1. PICK k \in Keys : entries' = [entries EXCEPT ![k] = Nil]
    BY DEF Evict
  <1>2. ~Hit' /\ answer' \in Answers \cup {Nil} /\ UNCHANGED <<clock, asked>>
    BY NoHit DEF Evict
  <1> QED
    BY <1>1, <1>2 DEF IInv, TypeOK, Agrees, Answered, ExpiresInTime

LEMMA InvGet ==
    ASSUME IInv, Get PROVE IInv'
  <1> USE DEF IInv
  <1>1. UNCHANGED <<clock, entries, asked>>
    BY DEF Get
  <1>2. Agrees' /\ ExpiresInTime'
    BY <1>1 DEF Agrees, ExpiresInTime
  <1>3. PICK k \in Keys :
          \/ answer' = [op |-> "get", key |-> k, hit |-> Live(k),
                        value |-> IF Live(k) THEN entries[k].value ELSE Empty]
          \/ Failure(k)
    BY DEF Get
  <1>4. CASE Failure(k)
    <2>1. answer' \in Answers \cup {Nil} /\ ~Hit'
      BY <1>4, NoHit DEF Failure
    <2> QED
      BY <1>1, <1>2, <2>1 DEF TypeOK, Answered
  <1>5. CASE answer' = [op |-> "get", key |-> k, hit |-> Live(k),
                        value |-> IF Live(k) THEN entries[k].value ELSE Empty]
    <2>1. Live(k) \in BOOLEAN /\ (Live(k) => entries[k].value \in Strings)
      BY DEF Live, TypeOK, Entries
    <2>2. answer' \in Answers
      BY <1>5, <2>1 DEF Answers, Strings
    <2>3. Answered'
      BY <1>1, <1>5 DEF Answered, Hit, Live
    <2> QED
      BY <1>1, <1>2, <2>2, <2>3 DEF TypeOK
  <1> QED
    BY <1>3, <1>4, <1>5

LEMMA InvSet ==
    ASSUME IInv, Set PROVE IInv'
  <1> USE DEF IInv
  <1>1. PICK k \in Keys, value \in Strings, ttl \in Durations :
          \/ /\ Seconds(ttl) >= 0
             /\ entries' = Store(k, value, Seconds(ttl))
             /\ asked' = [asked EXCEPT ![k] = [value |-> value, at |-> clock, ttl |-> ttl]]
             /\ answer' = [op |-> "set", key |-> k] \/ Failure(k)
          \/ Failure(k) /\ UNCHANGED <<entries, asked>>
    BY DEF Set
  <1>2. clock' = clock /\ answer' \in Answers \cup {Nil} /\ ~Hit'
    BY <1>1, NoHit DEF Set, Failure
  <1>3. CASE UNCHANGED <<entries, asked>>
    BY <1>2, <1>3 DEF TypeOK, Agrees, Answered, ExpiresInTime
  <1>4. CASE /\ Seconds(ttl) >= 0
             /\ entries' = Store(k, value, Seconds(ttl))
             /\ asked' = [asked EXCEPT ![k] = [value |-> value, at |-> clock, ttl |-> ttl]]
    <2> DEFINE expires == IF Seconds(ttl) = 0 THEN Forever
                          ELSE Earlier(clock + Seconds(ttl) * Second, Forever)
               entry == [value |-> value, expires |-> expires]
               asking == [value |-> value, at |-> clock, ttl |-> ttl]
    <2>1. /\ expires \in 1 .. MaxClock + 1
          /\ ttl >= Second => LET due == Earlier(clock + ttl, Forever) IN
                              expires <= due /\ due < expires + Second
      BY <1>4, StoreTyped
    <2>2. entries' = [entries EXCEPT ![k] = entry] /\ asked' = [asked EXCEPT ![k] = asking]
      BY <1>4 DEF Store
    <2> HIDE DEF expires
    <2>3. entry \in Entries /\ asking \in Askings
      BY <2>1 DEF Entries, Askings, TypeOK
    <2>4. TypeOK'
      BY <1>2, <2>2, <2>3 DEF TypeOK
    <2>5. Agrees'
      BY <2>2, <2>3 DEF Agrees, TypeOK
    <2>6. ASSUME NEW j \in Keys, entries'[j] # Nil, asked'[j].ttl >= Second
          PROVE  LET due == Earlier(asked'[j].at + asked'[j].ttl, Forever) IN
                 entries'[j].expires <= due /\ due < entries'[j].expires + Second
      <3>1. CASE j = k
        <4>1. entries'[j] = entry /\ asked'[j] = asking
          BY <2>2, <3>1 DEF TypeOK
        <4> QED
          BY <2>1, <2>6, <4>1
      <3>2. CASE j # k
        <4>1. entries'[j] = entries[j] /\ asked'[j] = asked[j]
          BY <2>2, <3>2 DEF TypeOK
        <4> QED
          BY <2>6, <4>1 DEF ExpiresInTime
      <3> QED
        BY <3>1, <3>2
    <2>7. ExpiresInTime'
      BY <2>6 DEF ExpiresInTime, Forever
    <2> QED
      BY <1>2, <2>4, <2>5, <2>7 DEF Answered
  <1> QED
    BY <1>1, <1>3, <1>4

LEMMA InvDelete ==
    ASSUME IInv, Delete PROVE IInv'
  <1> USE DEF IInv
  <1>1. PICK k \in Keys :
          \/ /\ entries' = [entries EXCEPT ![k] = Nil]
             /\ asked' = [asked EXCEPT ![k] = Nil]
             /\ answer' = [op |-> "delete", key |-> k] \/ Failure(k)
          \/ Failure(k) /\ UNCHANGED <<entries, asked>>
    BY DEF Delete
  <1>2. clock' = clock /\ answer' \in Answers \cup {Nil} /\ ~Hit'
    BY <1>1, NoHit DEF Delete, Failure
  <1> QED
    BY <1>1, <1>2 DEF TypeOK, Agrees, Answered, ExpiresInTime

LEMMA Inductive == IInv /\ [Next]_vars => IInv'
  <1> SUFFICES ASSUME IInv, [Next]_vars PROVE IInv'
    OBVIOUS
  <1>1. CASE UNCHANGED vars
    BY <1>1 DEF vars, IInv, TypeOK, Agrees, Answered, Hit, Live, ExpiresInTime
  <1> QED
    BY <1>1, InvTick, InvEvict, InvGet, InvSet, InvDelete DEF Next

\* What the store holds is what was last asked for, and expires in time.
THEOREM Invariant == Spec => []IInv
  BY InvInit, Inductive, PTL DEF Spec

\* Every variable keeps its type.
THEOREM TypeCorrect == Spec => []TypeOK
  <1>1. IInv => TypeOK
    BY DEF IInv
  <1> QED
    BY Invariant, <1>1, PTL

\* An entry set for a second or longer expires neither late nor a whole second
\* early (cache.go:38-44).
THEOREM InTime == Spec => []ExpiresInTime
  <1>1. IInv => ExpiresInTime
    BY DEF IInv
  <1> QED
    BY Invariant, <1>1, PTL

\* An entry that expires by a time and is still there has not reached it.
LEMMA LiveIsEarly ==
    ASSUME NEW at \in 0 .. MaxClock, NEW ttl \in Durations,
           NEW expires \in 1 .. MaxClock + 1, NEW now \in 0 .. MaxClock,
           expires <= Earlier(at + ttl, Forever),
           expires > now \/ expires = Forever
    PROVE  now < at + ttl
  <1>1. at \in Int /\ ttl \in Int /\ expires \in Int /\ now \in Int /\ MaxClock \in Int
    BY DurationsAssumption
  <1>2. now < expires
    BY <1>1 DEF Forever
  <1>3. expires <= at + ttl
    BY <1>1 DEF Earlier, Forever
  <1> QED
    BY <1>1, <1>2, <1>3

\* A hit gives the value last set, never later than its author asked for, if
\* that was a second or more (cache.go:15-16, 38-44).
THEOREM Current == Spec => []HitIsCurrent
  <1>1. IInv => HitIsCurrent
    <2> SUFFICES ASSUME IInv, Hit PROVE LET last == asked[answer.key] IN
                                        /\ last # Nil
                                        /\ answer.value = last.value
                                        /\ last.ttl >= Second => clock < last.at + last.ttl
      BY DEF HitIsCurrent
    <2> DEFINE k == answer.key
    <2>1. k \in Keys
      <3>1. answer \in Answers
        BY DEF IInv, TypeOK, Hit
      <3> QED
        BY <3>1 DEF Answers
    <2>2. Live(k) /\ answer.value = entries[k].value
      BY DEF IInv, Answered
    <2>3. entries[k] \in Entries /\ asked[k] \in Askings /\ answer.value = asked[k].value
      BY <2>1, <2>2 DEF IInv, TypeOK, Agrees, Live
    <2>4. ASSUME asked[k].ttl >= Second PROVE clock < asked[k].at + asked[k].ttl
      <3>1. entries[k].expires <= Earlier(asked[k].at + asked[k].ttl, Forever)
        BY <2>1, <2>2, <2>4 DEF IInv, ExpiresInTime, Live
      <3>2. asked[k].at \in 0 .. MaxClock /\ asked[k].ttl \in Durations
        BY <2>3 DEF Askings
      <3>3. entries[k].expires \in 1 .. MaxClock + 1
        BY <2>3 DEF Entries
      <3>4. clock \in 0 .. MaxClock
        BY DEF IInv, TypeOK
      <3> QED
        BY <2>2, <3>1, <3>2, <3>3, <3>4, LiveIsEarly DEF Live
    <2> QED
      BY <2>3, <2>4
  <1> QED
    BY Invariant, <1>1, PTL
=============================================================================
