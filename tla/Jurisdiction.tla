---------------------------- MODULE Jurisdiction ----------------------------
(***************************************************************************)
(* The jurisdiction of a typed before-hook handler: the JSON keys its type *)
(* T declares, computed once per registration (fn/declared.go,             *)
(* declaredFieldsOf and collectDeclared).                                  *)
(*                                                                         *)
(* collectDeclared is a depth-first walk of T's fields that descends into  *)
(* embedded structs and merges, key by key, every field it meets into the  *)
(* strongest claim found so far.  The walk is modelled field by field: its *)
(* Go call stack is `stack` (one frame per collectDeclared call, so the    *)
(* parameter depth is the stack's height less one), its map parameters are *)
(* `visiting` and `claims`.                                                *)
(*                                                                         *)
(* A struct field is abstracted to what the walk reads of it: whether it   *)
(* is exported and anonymous, whether its json tag is absent, "-", names a *)
(* key json accepts or names one it refuses, its Go name, its tag name and *)
(* the struct type it holds after deref, if any.                           *)
(***************************************************************************)
EXTENDS Naturals, Sequences

CONSTANTS
    Types,         \* struct types
    Names,         \* Go field names and json key names
    Nil,           \* not a struct type; no claim yet
    Root,          \* the T of the registration, a struct
    Declarations   \* the type declarations considered: Types -> Seq(Fields)

Tags == {"none", "ignored", "usable", "unusable"}
Fields == [exported: BOOLEAN, anonymous: BOOLEAN, tag: Tags, goName: Names,
           tagName: Names, type: Types \cup {Nil}]
Claims == [depth: Nat, isTagged: BOOLEAN, contested: BOOLEAN]

ASSUME NilAssumption == Nil \notin Types /\ Nil \notin Claims /\ \A keys \in SUBSET Names : keys # Nil
ASSUME RootAssumption == Root \in Types
ASSUME DeclarationsAssumption == Declarations \subseteq [Types -> Seq(Fields)]

VARIABLES
    fieldsOf,   \* the program's type declarations
    stack,      \* the collectDeclared calls under way, outermost first
    visiting,   \* the types on the stack
    claims,     \* the strongest claim on each key so far
    found,      \* history: every claim in the order the walk met it, and where
    declared    \* the result, Nil until the walk has ended

vars == <<fieldsOf, stack, visiting, claims, found, declared>>

-----------------------------------------------------------------------------
(* What one field means to the walk.                                       *)

\* A tag name json refuses is discarded, and the field is then untagged.
HasTagName(field) == field.tag = "usable"

\* Embedded structs of unexported types are kept: they may have exported
\* fields.
Skipped(field) ==
    \/ field.tag = "ignored"
    \/ ~field.exported /\ ~(field.anonymous /\ field.type # Nil)

\* Descended into rather than claimed.
Promoted(field) == field.anonymous /\ ~HasTagName(field) /\ field.type # Nil

KeyOf(field) == IF HasTagName(field) THEN field.tagName ELSE field.goName

-----------------------------------------------------------------------------
(* Claims.                                                                 *)

\* Faulty variant: an explicit tag outranks the embedding depth.
BeatsTagFirst(claim, other) ==
    IF claim.isTagged # other.isTagged THEN claim.isTagged
    ELSE claim.depth < other.depth

beats(claim, other) ==
    IF claim.depth # other.depth THEN claim.depth < other.depth
    ELSE claim.isTagged /\ ~other.isTagged

ties(claim, other) ==
    claim.depth = other.depth /\ claim.isTagged = other.isTagged

\* Faulty variant: a better claim inherits the contest of the one it beats.
StrongestKeepsContest(claim, best) ==
    IF best = Nil THEN claim
    ELSE IF beats(claim, best) THEN [claim EXCEPT !.contested = best.contested]
    ELSE IF ties(claim, best) THEN [best EXCEPT !.contested = TRUE]
    ELSE best

\* The claim kept for a key after one more claim on it.
Strongest(claim, best) ==
    IF best = Nil \/ beats(claim, best) THEN claim
    ELSE IF ties(claim, best) THEN [best EXCEPT !.contested = TRUE]
    ELSE best

-----------------------------------------------------------------------------
(* The walk.                                                               *)

\* Faulty variant: the loop starts before the first field.
FrameFromZero(type) == [type |-> type, next |-> 0]

Frame(type) == [type |-> type, next |-> 1]

Init ==
    /\ fieldsOf \in Declarations
    /\ stack = <<Frame(Root)>>
    /\ visiting = {Root}
    /\ claims = [n \in Names |-> Nil]
    /\ found = <<>>
    /\ declared = Nil

Top == stack[Len(stack)]

depth == Len(stack) - 1
Advanced == [stack EXCEPT ![Len(stack)].next = @ + 1]

\* The innermost call's loop has a field left, and this is it.
InLoop == stack # <<>> /\ Top.next \in DOMAIN fieldsOf[Top.type]
CurrentField == fieldsOf[Top.type][Top.next]

\* `json:"-"`, an unexported field or an unexported embedded non-struct.
SkipField ==
    /\ InLoop
    /\ Skipped(CurrentField)
    /\ stack' = Advanced
    /\ UNCHANGED <<fieldsOf, visiting, claims, found, declared>>

\* An embedded struct without a tag name: its fields are T's, one level down.
Descend ==
    /\ InLoop
    /\ ~Skipped(CurrentField)
    /\ Promoted(CurrentField)
    /\ CurrentField.type \notin visiting
    /\ stack' = Append(Advanced, Frame(CurrentField.type))
    /\ visiting' = visiting \cup {CurrentField.type}
    /\ UNCHANGED <<fieldsOf, claims, found, declared>>

\* Faulty variant: the deferred delete is installed ahead of the visiting
\* check, so it also runs for the call that returns at once.
RevisitDeletes ==
    /\ InLoop
    /\ ~Skipped(CurrentField)
    /\ Promoted(CurrentField)
    /\ CurrentField.type \in visiting
    /\ stack' = Advanced
    /\ visiting' = visiting \ {CurrentField.type}
    /\ UNCHANGED <<fieldsOf, claims, found, declared>>

\* The embedded type is already being walked: the call returns at once and
\* the type stays marked for the call that is walking it.
Revisit ==
    /\ InLoop
    /\ ~Skipped(CurrentField)
    /\ Promoted(CurrentField)
    /\ CurrentField.type \in visiting
    /\ stack' = Advanced
    /\ UNCHANGED <<fieldsOf, visiting, claims, found, declared>>

\* Where the walk is: on each level the type and the field it is at.
Path == [k \in DOMAIN stack |->
            [type |-> stack[k].type,
             index |-> IF k < Len(stack) THEN stack[k].next - 1 ELSE stack[k].next]]

NewClaim == [depth |-> depth, isTagged |-> HasTagName(CurrentField),
             contested |-> FALSE]

ClaimField ==
    /\ InLoop
    /\ ~Skipped(CurrentField)
    /\ ~Promoted(CurrentField)
    /\ LET key == KeyOf(CurrentField) IN
         /\ claims' = [claims EXCEPT ![key] = Strongest(NewClaim, @)]
         /\ found' = Append(found, [key |-> key, claim |-> NewClaim, path |-> Path])
    /\ stack' = Advanced
    /\ UNCHANGED <<fieldsOf, visiting, declared>>

\* Faulty variant: a type once walked is never walked again.
ReturnKeepsVisiting ==
    /\ stack # <<>>
    /\ Top.next \notin DOMAIN fieldsOf[Top.type]
    /\ stack' = SubSeq(stack, 1, Len(stack) - 1)
    /\ UNCHANGED <<fieldsOf, visiting, claims, found, declared>>

\* The loop is over; the deferred delete unmarks the type.
Return ==
    /\ stack # <<>>
    /\ Top.next \notin DOMAIN fieldsOf[Top.type]
    /\ stack' = SubSeq(stack, 1, Len(stack) - 1)
    /\ visiting' = visiting \ {Top.type}
    /\ UNCHANGED <<fieldsOf, claims, found, declared>>

\* The keys whose strongest claim is alone.
Uncontested == {n \in Names : claims[n] # Nil /\ ~claims[n].contested}

Finish ==
    /\ stack = <<>>
    /\ declared = Nil
    /\ declared' = Uncontested
    /\ UNCHANGED <<fieldsOf, stack, visiting, claims, found>>

Next == SkipField \/ Descend \/ Revisit \/ ClaimField \/ Return \/ Finish

Spec == Init /\ [][Next]_vars

-----------------------------------------------------------------------------
(* Properties.                                                             *)

Frames == [type: Types, next: Nat \ {0}]
Steps == [type: Types, index: Nat]
KeyedClaims == [key: Names, claim: Claims, path: Seq(Steps)]

\* Every variable holds a value of its Go type.
TypeOK ==
    /\ fieldsOf \in [Types -> Seq(Fields)]
    /\ stack \in Seq(Frames)
    /\ visiting \subseteq Types
    /\ claims \in [Names -> Claims \cup {Nil}]
    /\ found \in Seq(KeyedClaims)
    /\ declared \in (SUBSET Names) \cup {Nil}

\* No type is walked inside a walk of itself, however the types embed one
\* another, and exactly the types being walked are marked: the recursion is
\* no deeper than there are types (declared.go:91-96, "self-embedding types
\* would recurse forever").
WalkIsAcyclic ==
    /\ \A i, j \in DOMAIN stack : stack[i].type = stack[j].type => i = j
    /\ visiting = {stack[i].type : i \in DOMAIN stack}

\* The places in the history of the claims on a key.
ClaimsOn(n) == {i \in DOMAIN found : found[i].key = n}

\* The claim kept for a key stands for all claims on it met so far: none
\* outranks it, one is as strong, and it is contested when two are.
Summarises(best, n) ==
    IF ClaimsOn(n) = {} THEN best = Nil
    ELSE /\ best # Nil
         /\ \A i \in ClaimsOn(n) : ~beats(found[i].claim, best)
         /\ \E i \in ClaimsOn(n) : ties(found[i].claim, best)
         /\ best.contested <=>
              \E i, j \in ClaimsOn(n) :
                  i # j /\ ties(found[i].claim, best) /\ ties(found[j].claim, best)

ClaimsAreDominant == \A n \in Names : Summarises(claims[n], n)

\* The one-pass merge comes to what the whole history of claims amounts to,
\* in whatever order fields and embedded types are declared: a key is
\* declared exactly when one claim on it outranks every other
\* (declared.go:63-88, 148-159).
DeclaredIsDominant ==
    declared # Nil =>
        declared = {n \in Names : \E i \in ClaimsOn(n) : \A j \in ClaimsOn(n) \ {i} :
                                   beats(found[i].claim, found[j].claim)}
=============================================================================
