-------------------------------- MODULE Heap --------------------------------
(* The kernel heap: lib/heap.cpp.  A doubly linked list of headers, one per  *)
(* block, first fit, split on allocation, merged with both neighbours on     *)
(* release.  Sizes count units of HEADER_SIZE; hdr has one header per block, *)
(* at the block's address.                                                   *)
EXTENDS Integers, FiniteSets

CONSTANTS HeapSize,    \* units between _heap_start and _heap_end
          MinPay       \* the smallest payload, 16 bytes in the code

ASSUME HeapAssumption == HeapSize \in Nat \ {0} /\ MinPay \in Nat \ {0}

VARIABLE hdr           \* header_t of the block at an address

HeaderSize == 1
Null == -1             \* the null pointer
Base == 0              \* _heap_start
Blocks == DOMAIN hdr

(* The function f with value v at x, in its domain or not.                   *)
Extended(f, x, v) == [y \in DOMAIN f \cup {x} |-> IF y = x THEN v ELSE f[y]]

LowestOf(S) == CHOOSE x \in S : \A y \in S : x <= y

(* heap_init *)
HeapInit == hdr = [a \in {Base} |-> [size |-> HeapSize, next |-> Null, prev |-> Null, used |-> FALSE]]

(* kmalloc: the units taken for a request, and the blocks that can hold them *)
Needed(n) == IF n < MinPay THEN HeaderSize + MinPay ELSE HeaderSize + n
Fitting(n) == {a \in Blocks : ~hdr[a].used /\ hdr[a].size >= Needed(n)}

Splits(a, n) == hdr[a].size >= Needed(n) + HeaderSize + MinPay

(* The neighbour after a split points back to the new header.                *)
Relinked_not(h, a, b) == h
Relinked(h, a, b) == IF a = Null THEN h ELSE [h EXCEPT ![a].prev = b]

(* The headers after block a is given out for n units.                       *)
Taken(a, n) ==
    IF Splits(a, n)
    THEN LET b == a + Needed(n)
             rest == [size |-> hdr[a].size - Needed(n), next |-> hdr[a].next, prev |-> a, used |-> FALSE]
         IN Relinked(Extended([hdr EXCEPT ![a].size = Needed(n), ![a].next = b, ![a].used = TRUE], b, rest),
                     hdr[a].next, b)
    ELSE [hdr EXCEPT ![a].used = TRUE]

(* kfree: block a swallows the free block after it ...                       *)
Without(h, a) == [b \in DOMAIN h \ {a} |-> h[b]]

Swallow(h, a) ==
    LET b == h[a].next IN
    Relinked(Without([h EXCEPT ![a].size = @ + h[b].size, ![a].next = h[b].next], b), h[b].next, a)

(* ... and is swallowed by the free block before it.                         *)
JoinNext(h, a) == IF h[a].next # Null /\ ~h[h[a].next].used THEN Swallow(h, a) ELSE h
JoinPrev(h, a) == IF h[a].prev # Null /\ ~h[h[a].prev].used THEN Swallow(h, h[a].prev) ELSE h

Released(a) == LET h == [hdr EXCEPT ![a].used = FALSE] IN JoinPrev(JoinNext(h, a), a)

---------------------------------------------------------------------------
(* The list is the blocks in the order of their addresses, they tile the     *)
(* heap without gap or overlap, next and prev are inverse, and no two free   *)
(* blocks lie side by side: what was split is always put together again.     *)
HeapTiled ==
    /\ Base \in Blocks /\ hdr[Base].prev = Null
    /\ \A a \in Blocks :
         LET b == hdr[a].next IN
         IF b = Null THEN a + hdr[a].size = HeapSize
         ELSE /\ b \in Blocks /\ b = a + hdr[a].size
              /\ hdr[b].prev = a
              /\ hdr[a].used \/ hdr[b].used

============================================================================
