------------------------ MODULE PhysicalMemoryManager ------------------------
(***************************************************************************)
(* The buddy allocator of Kernel/Memory/PhysicalMemoryManager.cpp.  A page *)
(* is its offset from PhysicalAddressStart.  The allocator's state is a    *)
(* record: the free list of every order, most recently freed block first,  *)
(* and the counter of free pages.  The list nodes live in the free blocks  *)
(* themselves, so a list is the sequence of its block addresses.           *)
(***************************************************************************)
EXTENDS Integers, SequencesExt

CONSTANTS TotalNumberOfPages,   \* pages of the managed descriptor
          MAX_BUDDY_ORDERS      \* number of free lists

\* PMM_BUDDY_PHYSICAL_LIMIT keeps the descriptor far below 2^52 pages.
ASSUME PagesAssumption ==
    /\ TotalNumberOfPages \in Nat \ {0}
    /\ MAX_BUDDY_ORDERS \in Nat \ {0}
    /\ TotalNumberOfPages < 2 ^ MAX_BUDDY_ORDERS

Pages == 0 .. TotalNumberOfPages - 1
Orders == 0 .. MAX_BUDDY_ORDERS - 1
NoPages == -1                   \* the NULL that a failed allocation returns

PagesForOrder(order) == 2 ^ order
FloorLog2Pages(pages) == Max({0} \cup {o \in Orders : PagesForOrder(o) <= pages})
CeilLog2 == [pages \in 0 .. TotalNumberOfPages |->
    LET floor == FloorLog2Pages(pages)
    IN IF PagesForOrder(floor) < pages /\ floor + 1 \in Orders THEN floor + 1 ELSE floor]
CeilLog2Pages(pages) == CeilLog2[pages]
BuddyMaxOrder == FloorLog2Pages(TotalNumberOfPages)

Memory == [BuddyFreeLists : [Orders -> Seq(Pages)],
           NumberOfFreePages : 0 .. TotalNumberOfPages]

Push(list, block) == <<block>> \o list
-----------------------------------------------------------------------------
(* InitializeBuddyAllocator carves the descriptor from its first page on:  *)
(* the largest block that fits what remains and is aligned.                *)

Carved ==
    LET orderAt[offset \in Pages] ==
            Max({o \in Orders : /\ offset % PagesForOrder(o) = 0
                                /\ offset + PagesForOrder(o) <= TotalNumberOfPages})
        starts[offset \in 0 .. TotalNumberOfPages] ==
            IF offset = TotalNumberOfPages THEN {}
            ELSE {offset} \cup starts[offset + PagesForOrder(orderAt[offset])]
    IN [o \in Orders |->
          Reverse(SetToSortSeq({s \in starts[0] : orderAt[s] = o}, LAMBDA a, b : a < b))]

InitializeBuddyAllocator == [BuddyFreeLists |-> Carved,
                             NumberOfFreePages |-> TotalNumberOfPages]
-----------------------------------------------------------------------------
(* AllocatePagesFromDescriptor                                             *)

\* The smallest order, from the requested one on, with a free block.
Candidates(m, requested) ==
    {o \in requested .. BuddyMaxOrder : m.BuddyFreeLists[o] # <<>>}

\* The head of list from is taken and halved down to the requested order; the
\* upper halves become free.  The counter is compared with the rounded size
\* only after that: when it is too small the block is lost.
TakeBlock(m, requested) ==
    LET from == Min(Candidates(m, requested))
        block == Head(m.BuddyFreeLists[from])
        lists == [o \in Orders |->
                    CASE o = from -> Tail(m.BuddyFreeLists[o])
                      [] o \in requested .. from - 1 ->
                           Push(m.BuddyFreeLists[o], block + PagesForOrder(o))
                      [] OTHER -> m.BuddyFreeLists[o]]
        taken == PagesForOrder(requested)
    IN IF taken > m.NumberOfFreePages
       THEN [mem |-> [m EXCEPT !.BuddyFreeLists = lists], block |-> NoPages]
       ELSE [mem |-> [BuddyFreeLists |-> lists,
                      NumberOfFreePages |-> m.NumberOfFreePages - taken],
             block |-> block]

AllocatePagesFromDescriptor(m, pages) ==
    IF pages = 0 \/ pages > m.NumberOfFreePages \/ Candidates(m, CeilLog2Pages(pages)) = {}
    THEN [mem |-> m, block |-> NoPages]
    ELSE TakeBlock(m, CeilLog2Pages(pages))
-----------------------------------------------------------------------------
(* FreePagesFromDescriptor                                                 *)

\* Mutant: the buddy is taken to be the block that follows.
BuddyOfNext(start, order) == start + PagesForOrder(order)

\* start with bit order flipped: the XOR of the code, start being aligned.
BuddyOf(start, order) ==
    IF (start \div PagesForOrder(order)) % 2 = 0
    THEN start + PagesForOrder(order) ELSE start - PagesForOrder(order)

\* The block of the given order that holds start.
BlockAt(start, order) == start - (start % PagesForOrder(order))

\* The buddy of the block at this order is free and is merged with it.
Merges(m, start, order) ==
    LET buddy == BuddyOf(BlockAt(start, order), order)
    IN /\ order < BuddyMaxOrder
       /\ buddy + PagesForOrder(order) <= TotalNumberOfPages
       /\ Contains(m.BuddyFreeLists[order], buddy)

\* The call is accepted only for a block of the size the pages round up to.
Freeable(start, pages) ==
    LET order == CeilLog2Pages(pages)
    IN /\ pages # 0
       /\ start \in Pages
       /\ order <= BuddyMaxOrder
       /\ start + PagesForOrder(order) <= TotalNumberOfPages
       /\ start % PagesForOrder(order) = 0

FreePagesFromDescriptor(m, start, pages) ==
    LET order == CeilLog2Pages(pages)
        final == Min({o \in order .. BuddyMaxOrder : ~Merges(m, start, o)})
        lists == [o \in Orders |->
                    CASE o = final -> Push(m.BuddyFreeLists[o], BlockAt(start, o))
                      [] o \in order .. final - 1 ->
                           RemoveFirst(m.BuddyFreeLists[o], BuddyOf(BlockAt(start, o), o))
                      [] OTHER -> m.BuddyFreeLists[o]]
    IN IF ~Freeable(start, pages) THEN m
       ELSE [BuddyFreeLists |-> lists,
             NumberOfFreePages |-> Min({m.NumberOfFreePages + PagesForOrder(order),
                                        TotalNumberOfPages})]
=============================================================================
