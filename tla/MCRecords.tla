----------------------------- MODULE MCRecords ------------------------------
(* TLC instance of Records.                                                *)
EXTENDS Records, TLC

CONSTANTS g1, g2, r1, r2, a, b, big, near

MCGuests == {g1, g2}
MCIds == {r1, r2}
MCAttrs == {a, b}
MCValues == {big, near}

\* A 64-bit integer above 2^53 becomes the nearest float64.
MCFloat == [v \in MCValues |-> IF v = big THEN near ELSE v]
MCTypes == {{a}}

MCItem(id, doc, encodes) == [id |-> id, doc |-> doc, encodes |-> encodes]

\* A new record; partial documents of an existing one with either attribute, of
\* which the type encodes only the first; and an item that does not encode.
MCInputs == {
    MCItem(Nil, (a :> big) @@ (b :> Absent), TRUE),
    MCItem(r1, (a :> Absent) @@ (b :> near), TRUE),
    MCItem(r1, (a :> big) @@ (b :> Absent), TRUE),
    MCItem(r1, (a :> near) @@ (b :> Absent), FALSE) }

\* Bound: beside a batch the other guest updates or deletes a record.
OneBatch ==
    \A g, h \in Guests :
        g # h /\ calls[g] # Nil /\ calls[h] # Nil /\ calls[g].op = "upsert" =>
            calls[h].op \in {"update", "delete"}

MCSymmetry == Permutations(MCGuests)
=============================================================================
