--------------------------- MODULE MCInputReaders ---------------------------
(* Files for TLC: every choice of the numbers 0 to 3, each with no item, with *)
(* an item outside of the sensors, or with tracks in two detectors.           *)
EXTENDS InputReaders

Item(id, detector, track, parent, inside) ==
    [id |-> id, detector |-> detector, track |-> track, parent |-> parent,
     charge |-> id, inside |-> inside]

Shower(k) == <<Item(k, "d1", 2, 1, TRUE), Item(k + 1, "d2", 2, 1, TRUE),
               Item(k + 2, "d1", 1, 0, TRUE), Item(k + 3, "d1", 2, 1, TRUE),
               Item(k + 4, "unknown", 1, 0, TRUE)>>
Contents(n) == {<<>>, <<Item(8 * n + 1, "d1", 1, 0, FALSE)>>, Shower(8 * n + 1)}

MCFiles ==
    {[i \in 1 .. Len(ns) |-> [number |-> ns[i], items |-> c[ns[i]]]] :
        ns \in {SetToSortSeq(s, <) : s \in SUBSET (0 .. 3) \ {{}}},
        c \in {f \in [0 .. 3 -> {<<>>} \cup UNION {Contents(n) : n \in 0 .. 3}] :
                 \A n \in 0 .. 3 : f[n] \in Contents(n)}}
=============================================================================
