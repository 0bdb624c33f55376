---------------------------- MODULE NodeSequences ----------------------------
(***************************************************************************)
(* What the lists of wxlist promise: each is a sequence of elements, known *)
(* by their positions.  A position stays with its element until that is    *)
(* removed; moving elements to another list takes the positions along.     *)
(***************************************************************************)
EXTENDS Integers, Sequences, FiniteSets, SequencesExt

CONSTANTS Lists, Positions, Objects

VARIABLE elems      \* for every list its elements: position and object

Elements == [pos : Positions, obj : Objects]

Init == elems = [l \in Lists |-> <<>>]

\* What a call on list l may make of the lists e: f.

\* New elements in one place, all at new positions: one object, or a copy of (part of) another list.
Add(e, f, l) ==
    LET n == Len(f[l]) - Len(e[l])
        objects(s) == [j \in DOMAIN s |-> s[j].obj]
        positions(s) == {x.pos : x \in Range(s)}
    IN  /\ f = [e EXCEPT ![l] = f[l]]
        /\ n > 0
        /\ \E i \in 0..Len(e[l]) :
            LET new == SubSeq(f[l], i + 1, i + n)
            IN  /\ e[l] = SubSeq(f[l], 1, i) \o SubSeq(f[l], i + n + 1, Len(f[l]))
                /\ Range(new) \subseteq Elements /\ Cardinality(positions(new)) = n
                /\ \A m \in Lists : positions(new) \cap positions(e[m]) = {}
                /\ n = 1 \/ \E m \in Lists \ {l} : \/ IsPrefix(objects(new), objects(e[m]))
                                                   \/ IsSuffix(objects(new), objects(e[m]))

RemoveOne(e, f, l) == \E i \in DOMAIN e[l] : f = [e EXCEPT ![l] = RemoveAt(@, i)]

RemoveEvery(e, f, l) == f = [e EXCEPT ![l] = <<>>]

\* The elements up to one of them to the tail of another list, or those from one of them to its head.
Move(e, f, l, m) ==
    \E i \in DOMAIN e[l] :
        \/ f = [e EXCEPT ![l] = SubSeq(@, i + 1, Len(@)), ![m] = @ \o SubSeq(e[l], 1, i)]
        \/ f = [e EXCEPT ![l] = SubSeq(@, 1, i - 1), ![m] = SubSeq(e[l], i, Len(e[l])) \o @]

Turn(e, f, l) == f = [e EXCEPT ![l] = Reverse(@)]

Call(e, f) ==
    \E l \in Lists : \/ Add(e, f, l) \/ RemoveOne(e, f, l) \/ RemoveEvery(e, f, l) \/ Turn(e, f, l)
                     \/ \E m \in Lists \ {l} : Move(e, f, l, m)

Next == Call(elems, elems')

Spec == Init /\ [][Next]_elems
=============================================================================
