----------------------------- MODULE LinkedList -----------------------------
(***************************************************************************)
(* CBaseList and CGenericList (wxlist.h, wxlist.cpp): doubly linked chains *)
(* of nodes with a count, and for each list a cache of nodes that are not  *)
(* in use.  Every list of the base classes, and the packet queues of the   *)
(* muxer, are made of them.                                                *)
(*                                                                         *)
(* A list is not locked: its owner makes one call at a time.  A call on    *)
(* two lists takes two different lists, and a position that is in its      *)
(* list ("use a POSITION that's in a different list and see what a mess    *)
(* you get!").  A node that is neither in a list nor in a cache is free    *)
(* memory, and when there is none the allocation of a node fails.          *)
(***************************************************************************)
EXTENDS Integers, Sequences, FiniteSets, SequencesExt

CONSTANTS Lists,
          Nodes,        \* the memory for nodes: numbers
          Objects,
          CacheSize

Null == 0
NoObject == "none"

VARIABLES node,     \* m_pPrev, m_pNext, m_pObject of every node, and whether it is allocated
          list      \* m_pFirst, m_pLast, m_Count of every list, and m_pHead, m_iUsed of its cache

lvars == <<node, list>>

\* What is left in the fields of a node outside the lists is of no interest, but for the chain of the cache.
Unused == [prev |-> Null, next |-> Null, obj |-> NoObject, used |-> FALSE]

ListInit ==
    /\ node = [n \in Nodes |-> Unused]
    /\ list = [l \in Lists |-> [first |-> Null, last |-> Null, count |-> 0, head |-> Null, cached |-> 0]]

\* The calls are functions of the nodes and lists as they find them; those that add return the new position.
Heap == [node |-> node, list |-> list]
Result(h, pos) == [h |-> h, pos |-> pos]

-----------------------------------------------------------------------------
(* The node cache.                                                         *)

AddToCache(h, l, n) ==
    IF h.list[l].cached < CacheSize
    THEN [h EXCEPT !.node[n] = [Unused EXCEPT !.next = h.list[l].head, !.used = TRUE],
                   !.list[l].head = n, !.list[l].cached = @ + 1]
    ELSE [h EXCEPT !.node[n] = Unused]

\* A node from the cache or, when it is empty, a new one; Null when there is no memory.
NewNode(h, l) ==
    LET n == h.list[l].head
        free == {m \in Nodes : ~h.node[m].used}
    IN  IF n # Null THEN Result([h EXCEPT !.list[l].head = h.node[n].next, !.list[l].cached = @ - 1], n)
        ELSE IF free = {} THEN Result(h, Null)
        ELSE LET m == CHOOSE m \in free : TRUE IN Result([h EXCEPT !.node[m].used = TRUE], m)

-----------------------------------------------------------------------------
(* One element.                                                            *)

\* A node chained in between two, either of which may be the end of the list.
ChainIn(h0, l, obj, prev, next) ==
    LET new == NewNode(h0, l)
        n == new.pos
        h1 == [new.h EXCEPT !.node[n] = [prev |-> prev, next |-> next, obj |-> obj, used |-> TRUE], !.list[l].count = @ + 1]
        h2 == IF prev = Null THEN [h1 EXCEPT !.list[l].first = n] ELSE [h1 EXCEPT !.node[prev].next = n]
        h3 == IF next = Null THEN [h2 EXCEPT !.list[l].last = n] ELSE [h2 EXCEPT !.node[next].prev = n]
    IN  IF n = Null THEN Result(h0, Null) ELSE Result(h3, n)

AddTailI(h, l, obj) == ChainIn(h, l, obj, h.list[l].last, Null)
AddHeadI(h, l, obj) == ChainIn(h, l, obj, Null, h.list[l].first)
AddAfterI(h, l, pos, obj) == IF pos = Null THEN AddHeadI(h, l, obj) ELSE ChainIn(h, l, obj, pos, h.node[pos].next)
AddBeforeI(h, l, pos, obj) == IF pos = Null THEN AddTailI(h, l, obj) ELSE ChainIn(h, l, obj, h.node[pos].prev, pos)

RemoveI(h, l, pos) ==
    LET p == h.node[pos].prev
        q == h.node[pos].next
        h1 == IF p = Null THEN [h EXCEPT !.list[l].first = q] ELSE [h EXCEPT !.node[p].next = q]
        h2 == IF q = Null THEN [h1 EXCEPT !.list[l].last = p] ELSE [h1 EXCEPT !.node[q].prev = p]
    IN  IF pos = Null THEN h ELSE [AddToCache(h2, l, pos) EXCEPT !.list[l].count = @ - 1]

\* The positions from one of them on, forwards and backwards; a chain that does not end would not terminate here either.
RECURSIVE Forwards(_, _), Backwards(_, _)
Forwards(h, n) == IF n = Null THEN <<>> ELSE <<n>> \o Forwards(h, h.node[n].next)
Backwards(h, n) == IF n = Null THEN <<>> ELSE <<n>> \o Backwards(h, h.node[n].prev)

\* Nodes are deleted, not cached.
RemoveAllI(h, l) ==
    LET gone == Range(Forwards(h, h.list[l].first))
    IN  [h EXCEPT !.node = [n \in Nodes |-> IF n \in gone THEN Unused ELSE @[n]],
                  !.list[l].first = Null, !.list[l].last = Null, !.list[l].count = 0]

-----------------------------------------------------------------------------
(* Whole lists: the elements of m are copied one by one until one cannot   *)
(* be added.                                                               *)

Copy(h, m, backwards, add(_, _, _), pos) ==
    LET from == IF backwards THEN Backwards(h, h.list[m].last) ELSE Forwards(h, h.list[m].first)
        one(r, n) == IF r.failed THEN r
                     ELSE LET a == add(r.h, r.pos, r.h.node[n].obj)
                          IN  [h |-> a.h, pos |-> a.pos, failed |-> a.pos = Null]
    IN  FoldLeft(one, [h |-> h, pos |-> pos, failed |-> FALSE], from).h

\* Mutant: the list is traversed forwards here, too.
AddHeadListReversed(h, l, m) == Copy(h, m, FALSE, LAMBDA g, p, obj : AddHeadI(g, l, obj), Null)

AddTailList(h, l, m) == Copy(h, m, FALSE, LAMBDA g, p, obj : AddTailI(g, l, obj), Null)
AddHeadList(h, l, m) == Copy(h, m, TRUE, LAMBDA g, p, obj : AddHeadI(g, l, obj), Null)
AddAfterList(h, l, m, pos) == Copy(h, m, FALSE, LAMBDA g, p, obj : AddAfterI(g, l, p, obj), pos)
AddBeforeList(h, l, m, pos) == Copy(h, m, TRUE, LAMBDA g, p, obj : AddBeforeI(g, l, p, obj), pos)

\* The elements of l up to pos go to the tail of m: the chains are joined, then broken after pos.
MoveToTail(h, l, m, pos) ==
    LET moved == Len(Backwards(h, pos))
        tail == h.list[m].last
        head == h.list[l].first
        rest == h.node[pos].next
        h1 == IF tail = Null THEN h ELSE [h EXCEPT !.node[tail].next = head]
        h2 == [h1 EXCEPT !.node[head].prev = tail]
        h3 == [h2 EXCEPT !.list[m].first = IF @ = Null THEN head ELSE @, !.list[m].last = pos, !.list[m].count = @ + moved,
                         !.list[l].first = rest, !.list[l].last = IF rest = Null THEN Null ELSE @,
                         !.list[l].count = @ - moved]
        h4 == IF rest = Null THEN h3 ELSE [h3 EXCEPT !.node[rest].prev = Null]
    IN  [h4 EXCEPT !.node[pos].next = Null]

\* The mirror image: from pos on, to the head of m.
MoveToHead(h, l, m, pos) ==
    LET moved == Len(Forwards(h, pos))
        head == h.list[m].first
        tail == h.list[l].last
        rest == h.node[pos].prev
        h1 == IF head = Null THEN h ELSE [h EXCEPT !.node[head].prev = tail]
        h2 == [h1 EXCEPT !.node[tail].next = head]
        h3 == [h2 EXCEPT !.list[m].last = IF @ = Null THEN tail ELSE @, !.list[m].first = pos, !.list[m].count = @ + moved,
                         !.list[l].last = rest, !.list[l].first = IF rest = Null THEN Null ELSE @,
                         !.list[l].count = @ - moved]
        h4 == IF rest = Null THEN h3 ELSE [h3 EXCEPT !.node[rest].next = Null]
    IN  [h4 EXCEPT !.node[pos].prev = Null]

ReverseI(h, l) ==
    LET chain == Range(Forwards(h, h.list[l].first))
    IN  [h EXCEPT !.node = [n \in Nodes |-> IF n \in chain THEN [@[n] EXCEPT !.prev = h.node[n].next, !.next = h.node[n].prev]
                                            ELSE @[n]],
                  !.list[l].first = h.list[l].last, !.list[l].last = h.list[l].first]

-----------------------------------------------------------------------------
(* Any sequence of calls.                                                  *)

Becomes(h) == node' = h.node /\ list' = h.list

PositionsOf(l) == Range(Forwards(Heap, list[l].first))

AddOne(l) ==
    \E obj \in Objects, pos \in PositionsOf(l) \cup {Null} :
        Becomes(AddAfterI(Heap, l, pos, obj).h) \/ Becomes(AddBeforeI(Heap, l, pos, obj).h)

\* RemoveHeadI and RemoveTailI remove the first and the last.
RemoveOne(l) == \E pos \in PositionsOf(l) : Becomes(RemoveI(Heap, l, pos))

AddList(l, m) ==
    \/ Becomes(AddTailList(Heap, l, m))
    \/ Becomes(AddHeadList(Heap, l, m))
    \/ \E pos \in PositionsOf(l) \cup {Null} : \/ Becomes(AddAfterList(Heap, l, m, pos))
                                               \/ Becomes(AddBeforeList(Heap, l, m, pos))

MoveSome(l, m) ==
    \E pos \in PositionsOf(l) : Becomes(MoveToTail(Heap, l, m, pos)) \/ Becomes(MoveToHead(Heap, l, m, pos))

ListNext ==
    \E l \in Lists :
        \/ AddOne(l) \/ RemoveOne(l)
        \/ Becomes(RemoveAllI(Heap, l)) \/ Becomes(ReverseI(Heap, l))
        \/ \E m \in Lists \ {l} : AddList(l, m) \/ MoveSome(l, m)

-----------------------------------------------------------------------------
(* Properties.                                                             *)

\* Read backwards a chain is the same, the counts are right, and every allocated node is in one list or one cache.
ChainsConsistent ==
    LET chain(l) == Forwards(Heap, list[l].first)
        cache(l) == Forwards(Heap, list[l].head)
        places == [l \in Lists \X {"list", "cache"} |-> IF l[2] = "list" THEN chain(l[1]) ELSE cache(l[1])]
    IN  /\ \A l \in Lists : /\ Backwards(Heap, list[l].last) = Reverse(chain(l))
                            /\ list[l].count = Len(chain(l))
                            /\ list[l].cached = Len(cache(l)) /\ list[l].cached <= CacheSize
        /\ \A n \in Nodes : Cardinality({p \in DOMAIN places : n \in Range(places[p])}) = IF node[n].used THEN 1 ELSE 0

\* The chains are the sequences the callers have in mind: whatever calls are made, positions stay with their elements
\* and keep their order.
RECURSIVE From(_)
From(n) == IF n = Null THEN <<>> ELSE <<[pos |-> n, obj |-> node[n].obj]>> \o From(node[n].next)
Sequence == INSTANCE NodeSequences WITH Positions <- Nodes, elems <- [l \in Lists |-> From(list[l].first)]

\* CBaseList implements sequences of objects at positions that stay valid (NodeSequences), and its two chains of pointers
\* agree after every call.
ListsAreSequences == Sequence!Spec /\ []ChainsConsistent
=============================================================================
