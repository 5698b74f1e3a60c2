----------------------------- MODULE BinaryHeap -----------------------------
(***************************************************************************)
(* container/heap over the cbHeap of src/src/tpl/s2s_heap.go: a sequence   *)
(* of items ordered by their launch times, heap[1] the earliest.  As in    *)
(* the library, Push and Pop of the heap call those of cbHeap and repair   *)
(* the order afterwards, and cbHeap.Push may decline its item.             *)
(***************************************************************************)
EXTENDS Integers, Sequences

\* cbHeap.Less and Swap at the positions i and j of h.
Less(h, launch, i, j) == launch[h[i]] < launch[h[j]]

Swap(h, i, j) == [h EXCEPT ![i] = h[j], ![j] = h[i]]

\* The loop of heap.up, from each position: what it makes of a sequence.
Rise(launch, n) ==
    LET rise[k \in 0..n] ==
          [s \in Seq(DOMAIN launch) |->
             IF k <= 1 \/ ~Less(s, launch, k, k \div 2) THEN s
             ELSE rise[k \div 2][Swap(s, k, k \div 2)]]
    IN  rise

\* heap.up: the item at j rises while it is earlier than its parent.
up(h, launch, j) == Rise(launch, j)[j][h]

\* The earlier child of k, among the first n.
Child(s, launch, k, n) ==
    IF 2 * k < n /\ Less(s, launch, 2 * k + 1, 2 * k) THEN 2 * k + 1 ELSE 2 * k

\* The loop of heap.down.
Sink(launch, n) ==
    LET sink[k \in 1..(n + 1)] ==
          [s \in Seq(DOMAIN launch) |->
             IF 2 * k > n \/ ~Less(s, launch, Child(s, launch, k, n), k) THEN s
             ELSE sink[Child(s, launch, k, n)][Swap(s, k, Child(s, launch, k, n))]]
    IN  sink

\* heap.down: the item at 1 sinks below its earlier child, among the first n.
down(h, launch, n) == Sink(launch, n)[1][h]

\* heap.Push after cbHeap.Push has appended the item, or has declined it.
heapPush(h, launch, x, accepted) ==
    LET s == IF accepted THEN Append(h, x) ELSE h
    IN  up(s, launch, Len(s))

\* heap.Pop: what is left of h; the item it returns is the one that was first.
heapPop(h, launch) ==
    LET n == Len(h)
        s == down(Swap(h, 1, n), launch, n - 1)
    IN  SubSeq(s, 1, n - 1)

heapTaken(h) == h[1]

\* The order the library maintains.
Ordered(h, launch) == \A k \in 2..Len(h) : launch[h[k \div 2]] <= launch[h[k]]
=============================================================================
