------------------------------- MODULE Cache --------------------------------
(***************************************************************************)
(* The cache of fn/cache.go, which guests share: a guest sets a value with *)
(* a time to live, gets and deletes it, each by one host call that may     *)
(* fail before or after it had its effect.                                 *)
(*                                                                         *)
(* An author's time to live is a duration; the host is told whole seconds. *)
(* The store behind it is external: it keeps an entry until its seconds    *)
(* have passed, for good if they are 0, and may drop any entry earlier.    *)
(***************************************************************************)
EXTENDS Integers

CONSTANTS
    Keys, Values,
    Second,     \* ticks of the clock in a second
    Durations,  \* times to live authors ask for, in ticks
    MaxClock,   \* bound: ticks
    Empty,      \* the empty string
    Nil         \* no entry, no call

ASSUME SecondAssumption == Second \in Nat \ {0}
ASSUME DurationsAssumption == Durations \subseteq Int /\ MaxClock \in Nat

Strings == Values \cup {Empty}
Forever == MaxClock + 1
Entries == [value: Strings, expires: 1 .. MaxClock + 1]
Askings == [value: Strings, at: 0 .. MaxClock, ttl: Durations]
Answers == [op: {"get"}, key: Keys, value: Strings, hit: BOOLEAN]
           \cup [op: {"set", "delete", "failed"}, key: Keys]

ASSUME MarkersAssumption == Nil \notin Entries \cup Askings \cup Answers

VARIABLES
    clock,
    entries,    \* the store
    asked,      \* history: what the last effective Set of each key asked for
    answer      \* what the call that has just returned gave its caller

vars == <<clock, entries, asked, answer>>

Init ==
    /\ clock = 0
    /\ entries = [k \in Keys |-> Nil]
    /\ asked = [k \in Keys |-> Nil]
    /\ answer = Nil

-----------------------------------------------------------------------------
(* The store.                                                              *)

Live(k) == entries[k] # Nil /\ (entries[k].expires > clock \/ entries[k].expires = Forever)

Earlier(a, b) == IF a < b THEN a ELSE b

\* An entry for this many seconds; what outlives the bound lives for ever.
Store(k, value, seconds) ==
    [entries EXCEPT ![k] =
        [value |-> value,
         expires |-> IF seconds = 0 THEN Forever
                     ELSE Earlier(clock + seconds * Second, Forever)]]

Tick ==
    /\ clock < MaxClock
    /\ clock' = clock + 1
    /\ answer' = Nil
    /\ UNCHANGED <<entries, asked>>

Evict ==
    /\ \E k \in Keys : entries[k] # Nil /\ entries' = [entries EXCEPT ![k] = Nil]
    /\ answer' = Nil
    /\ UNCHANGED <<clock, asked>>

-----------------------------------------------------------------------------
(* The guest.                                                              *)

\* Faulty variant: a fraction of a second counts as one.
SecondsRoundedUp(ttl) == (ttl + Second - 1) \div Second

\* Faulty variant: whole minutes.
SecondsAsMinutes(ttl) == ttl \div (60 * Second)

\* int(ttl.Seconds()) drops the fraction, towards 0.
Seconds(ttl) == IF ttl >= 0 THEN ttl \div Second ELSE -((-ttl) \div Second)

\* Transport or authorization failure, or a reply that does not decode.
Failure(k) == answer' = [op |-> "failed", key |-> k]

\* Faulty variant: an entry that has expired is given out with hit = false.
GetStale ==
    \E k \in Keys :
        /\ answer' = [op |-> "get", key |-> k, hit |-> Live(k),
                      value |-> IF entries[k] # Nil THEN entries[k].value ELSE Nil]
        /\ UNCHANGED <<clock, entries, asked>>

Get ==
    \E k \in Keys :
        /\ \/ answer' = [op |-> "get", key |-> k, hit |-> Live(k),
                         value |-> IF Live(k) THEN entries[k].value ELSE Empty]
           \/ Failure(k)
        /\ UNCHANGED <<clock, entries, asked>>

\* The store refuses a negative number of seconds.
Set ==
    \E k \in Keys, value \in Strings, ttl \in Durations :
        /\ \/ /\ Seconds(ttl) >= 0
              /\ entries' = Store(k, value, Seconds(ttl))
              /\ asked' = [asked EXCEPT ![k] = [value |-> value, at |-> clock, ttl |-> ttl]]
              /\ answer' = [op |-> "set", key |-> k] \/ Failure(k)
           \/ /\ Failure(k)
              /\ UNCHANGED <<entries, asked>>
        /\ UNCHANGED clock

Delete ==
    \E k \in Keys :
        /\ \/ /\ entries' = [entries EXCEPT ![k] = Nil]
              /\ asked' = [asked EXCEPT ![k] = Nil]
              /\ answer' = [op |-> "delete", key |-> k] \/ Failure(k)
           \/ /\ Failure(k)
              /\ UNCHANGED <<entries, asked>>
        /\ UNCHANGED clock

Next == Tick \/ Evict \/ Get \/ Set \/ Delete

Spec == Init /\ [][Next]_vars

-----------------------------------------------------------------------------
(* Properties.                                                             *)

\* Every variable holds a value of its type.
TypeOK ==
    /\ clock \in 0 .. MaxClock
    /\ entries \in [Keys -> Entries \cup {Nil}]
    /\ asked \in [Keys -> Askings \cup {Nil}]
    /\ answer \in Answers \cup {Nil}

Hit == answer # Nil /\ answer.op = "get" /\ answer.hit

\* A hit gives the value last set and not deleted since, and, if it was set
\* for a second or longer, never later than the author asked for: dropping the
\* fraction of a second errs on the early side (cache.go:15-16, 38-44).
HitIsCurrent ==
    Hit => LET last == asked[answer.key] IN
           /\ last # Nil
           /\ answer.value = last.value
           /\ last.ttl >= Second => clock < last.at + last.ttl

\* An entry set for a second or longer expires, and neither late nor a whole
\* second early, as far as the clock goes (cache.go:38-44).
ExpiresInTime ==
    \A k \in Keys : entries[k] # Nil /\ asked[k].ttl >= Second =>
        LET due == Earlier(asked[k].at + asked[k].ttl, Forever) IN
        entries[k].expires <= due /\ due < entries[k].expires + Second

\* What the store holds was asked for: the inductive part of HitIsCurrent.
Agrees ==
    \A k \in Keys : entries[k] # Nil =>
        asked[k] # Nil /\ entries[k].value = asked[k].value

\* A hit reports the entry found.
Answered ==
    Hit => LET k == answer.key IN Live(k) /\ answer.value = entries[k].value

\* The inductive invariant of the proofs.
IInv == TypeOK /\ Agrees /\ Answered /\ ExpiresInTime

\* A comment says: "Set writes a value with an optional TTL. Pass 0 for no
\* expiry" (cache.go:38): a value set with a time to live does not outlive it.
TTLIsKept ==
    Hit => LET last == asked[answer.key] IN last.ttl > 0 => clock < last.at + last.ttl
=============================================================================
