--------------------------- MODULE MCNormalization --------------------------
(* Two inputs with streams of up to three records over two times. *)
EXTENDS Normalization

Rec(name, seq, ts, key) == [name |-> name, seq |-> seq, ts |-> ts, key |-> key]

\* The records an input may hold at place i: in sequence with any key, repeating a
\* sequence number, or carrying the shared identifier.
RecordsAt(i) ==
    {Rec(Absent, i, ts, key) : ts \in {1, 2}, key \in {Absent, 1, 2}}
        \cup {Rec(Absent, 1, 1, Absent), Rec(0, i, 2, Absent), Bad}

AllStreams ==
    {<<>>} \cup {<<x>> : x \in RecordsAt(1)}
        \cup {<<x, y>> : x \in RecordsAt(1) \ {Bad}, y \in RecordsAt(2)}
        \cup {<<x, y, z>> : x \in RecordsAt(1) \ {Bad}, y \in RecordsAt(2) \ {Bad},
                            z \in RecordsAt(3)}

UniformStreams == {stream \in AllStreams : Uniform(stream)}
=============================================================================
