--------------------------- MODULE MCJurisdiction ---------------------------
(* TLC instances of Jurisdiction and its comparison with encoding/json.    *)
EXTENDS TypeFields, TLC

CONSTANTS R, A, B, C, D

MCNames == {"x", "y", "A", "B", "C", "D", "R"}
MCTypes == {R, A, B, C, D}
NameOf(t) == CASE t = R -> "R" [] t = A -> "A" [] t = B -> "B" [] t = C -> "C" [] OTHER -> "D"

Field(exported, anonymous, tag, goName, tagName, type) ==
    [exported |-> exported, anonymous |-> anonymous, tag |-> tag,
     goName |-> goName, tagName |-> tagName, type |-> type]

Embed(t) == Field(TRUE, TRUE, "none", NameOf(t), "x", t)
EmbedUnexported(t) == Field(FALSE, TRUE, "unusable", NameOf(t), "x", t)
EmbedTagged(t, key) == Field(TRUE, TRUE, "usable", NameOf(t), key, t)
Plain(name) == Field(TRUE, FALSE, "none", name, "x", Nil)
Tagged(name, key) == Field(TRUE, FALSE, "usable", name, key, Nil)
BadTag(name) == Field(TRUE, FALSE, "unusable", name, "x", Nil)
Ignored(name) == Field(TRUE, FALSE, "ignored", name, "x", Nil)
Unexported(name) == Field(FALSE, FALSE, "usable", name, "x", Nil)
EmbeddedValue(name) == Field(TRUE, TRUE, "none", name, "x", Nil)

RootShapes ==
    {<<Embed(A), Embed(B)>>, <<Embed(B), EmbedUnexported(A)>>,
     <<Embed(A), EmbedTagged(B, "x")>>, <<EmbedTagged(A, "y"), Embed(B), Plain("x")>>,
     <<Embed(A), BadTag("x")>>, <<Ignored("x"), Embed(B), Embed(A)>>,
     <<Unexported("x"), Embed(A), EmbeddedValue("y")>>, <<Embed(R), Embed(A), Embed(B)>>}
MiddleShapes(other) ==
    {<<Plain("x")>>, <<Tagged("y", "x")>>, <<Embed(C)>>, <<Embed(C), Plain("y")>>,
     <<Tagged("y", "x"), EmbedUnexported(C)>>, <<Embed(R), Plain("x")>>,
     <<Embed(C), Embed(D)>>, <<Embed(other), Tagged("x", "y")>>, <<>>}
LowerShapes ==
    {<<Plain("x")>>, <<Tagged("y", "x")>>, <<Plain("y"), Embed(D)>>, <<Embed(A), Plain("x")>>}
LowestShapes == {<<Plain("x")>>, <<Tagged("y", "x"), Embed(C)>>, <<Plain("y")>>}

MCDeclarations ==
    {(R :> r) @@ (A :> a) @@ (B :> b) @@ (C :> c) @@ (D :> d) :
        r \in RootShapes, a \in MiddleShapes(B), b \in MiddleShapes(A),
        c \in LowerShapes, d \in LowestShapes}

\* C is embedded twice at one level and embeds D: the one shape of the
\* comparison with json that the drift guard's fixtures leave out.
DiamondDeclarations ==
    {(R :> r) @@ (A :> <<Embed(C)>>) @@ (B :> <<Embed(C)>>) @@ (C :> c) @@ (D :> d) :
        r \in {<<Embed(A), Embed(B)>>, <<Ignored("x"), Embed(B), Embed(A)>>},
        c \in LowerShapes, d \in LowestShapes}
=============================================================================
