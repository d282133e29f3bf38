-------------------------- MODULE KernelHeapManager --------------------------
(***************************************************************************)
(* The kernel heap of Kernel/Layers/Resource/KernelHeapManager.cpp: pages  *)
(* called slabs, cut into objects of one size class or joined into runs    *)
(* for large requests.  The slabs of a class that have a free object form  *)
(* a doubly linked list through their descriptors.                         *)
(*                                                                         *)
(* An address is a number of units from HeapStart, a unit being the size   *)
(* of an AllocationHeader; a pointer is modelled by its header's address.  *)
(* A header holds ALLOCATION_MAGIC exactly while it is in Headers: freeing *)
(* clears it, and the FreeObject link is written over it.                  *)
(***************************************************************************)
EXTENDS Integers, SequencesExt, FiniteSets

CONSTANTS SlabCount,         \* slabs of the heap
          SLAB_PAGE_SIZE,    \* units of a slab
          SLAB_CLASS_SIZES,  \* units of an object, by class, increasing
          Requests           \* the sizes callers ask for, in units

ASSUME HeapAssumption ==
    /\ SlabCount \in Nat \ {0}
    /\ SLAB_PAGE_SIZE \in Nat \ {0}
    /\ SLAB_CLASS_SIZES \in Seq(1 .. SLAB_PAGE_SIZE)
    /\ Requests \subseteq Nat \ {0}

VARIABLES Slabs,               \* the descriptors
          ClassAvailableHead,  \* first slab of every class's list
          Headers              \* allocated headers: slab, class, units granted for

vars == <<Slabs, ClassAvailableHead, Headers>>

SlabIndexes == 0 .. SlabCount - 1
Classes == 1 .. Len(SLAB_CLASS_SIZES)
INVALID_LIST_INDEX == -1
LARGE_CLASS_SENTINEL == 0

GetSlabBaseAddress(slab) == slab * SLAB_PAGE_SIZE
ObjectsPerSlab(class) == SLAB_PAGE_SIZE \div SLAB_CLASS_SIZES[class]

\* Mutant: no room for the header.
SelectClassIndexNoHeader(size) ==
    LET fitting == {c \in Classes : SLAB_CLASS_SIZES[c] >= size}
    IN IF fitting = {} THEN LARGE_CLASS_SENTINEL ELSE Min(fitting)

\* LARGE_CLASS_SENTINEL for a request that no class can hold.
SelectClassIndex(size) ==
    LET fitting == {c \in Classes : SLAB_CLASS_SIZES[c] >= size + 1}
    IN IF fitting = {} THEN LARGE_CLASS_SENTINEL ELSE Min(fitting)

FreeSlab == [State |-> "Free", ClassIndex |-> 0, OwnerOrSpan |-> 0, TotalObjects |-> 0,
             FreeObjects |-> 0, FreeList |-> <<>>,
             PrevAvailable |-> INVALID_LIST_INDEX, NextAvailable |-> INVALID_LIST_INDEX]

Init ==
    /\ Slabs = [i \in SlabIndexes |-> FreeSlab]
    /\ ClassAvailableHead = [c \in Classes |-> INVALID_LIST_INDEX]
    /\ Headers = <<>>
-----------------------------------------------------------------------------
(* The lists of slabs with a free object.  h is the pair of descriptors    *)
(* and list heads, as an operation changes it.                             *)

LinkSlabIntoClassList(h, i, c) ==
    LET head == h.heads[c]
        linked == [h.slabs EXCEPT ![i].PrevAvailable = INVALID_LIST_INDEX,
                                  ![i].NextAvailable = head]
    IN IF \/ h.slabs[i].PrevAvailable # INVALID_LIST_INDEX
          \/ h.slabs[i].NextAvailable # INVALID_LIST_INDEX
          \/ head = i
       THEN h
       ELSE [slabs |-> IF head = INVALID_LIST_INDEX THEN linked
                       ELSE [linked EXCEPT ![head].PrevAvailable = i],
             heads |-> [h.heads EXCEPT ![c] = i]]

\* Mutant: the successor keeps pointing back at the slab that left.
UnlinkSlabFromClassListOneWay(h, i, c) ==
    LET prev == h.slabs[i].PrevAvailable
        next == h.slabs[i].NextAvailable
        bypassed == IF prev = INVALID_LIST_INDEX THEN h.slabs
                    ELSE [h.slabs EXCEPT ![prev].NextAvailable = next]
    IN [slabs |-> [bypassed EXCEPT ![i].PrevAvailable = INVALID_LIST_INDEX,
                                   ![i].NextAvailable = INVALID_LIST_INDEX],
        heads |-> IF prev = INVALID_LIST_INDEX /\ h.heads[c] = i
                  THEN [h.heads EXCEPT ![c] = next] ELSE h.heads]

UnlinkSlabFromClassList(h, i, c) ==
    LET prev == h.slabs[i].PrevAvailable
        next == h.slabs[i].NextAvailable
        before == IF prev = INVALID_LIST_INDEX THEN h.slabs
                  ELSE [h.slabs EXCEPT ![prev].NextAvailable = next]
        after == IF next = INVALID_LIST_INDEX THEN before
                 ELSE [before EXCEPT ![next].PrevAvailable = prev]
    IN [slabs |-> [after EXCEPT ![i].PrevAvailable = INVALID_LIST_INDEX,
                                ![i].NextAvailable = INVALID_LIST_INDEX],
        heads |-> IF prev = INVALID_LIST_INDEX /\ h.heads[c] = i
                  THEN [h.heads EXCEPT ![c] = next] ELSE h.heads]

\* The objects of the slab in the order the loop leaves them: last one first.
ObjectAddresses(i, c) ==
    LET n == ObjectsPerSlab(c)
    IN [k \in 1 .. n |-> GetSlabBaseAddress(i) + (n - k) * SLAB_CLASS_SIZES[c]]

InitializeSmallSlab(h, i, c) ==
    LET n == ObjectsPerSlab(c)
        fresh == [State |-> "Small", ClassIndex |-> c, OwnerOrSpan |-> 1,
                  TotalObjects |-> n, FreeObjects |-> n, FreeList |-> ObjectAddresses(i, c),
                  PrevAvailable |-> INVALID_LIST_INDEX, NextAvailable |-> INVALID_LIST_INDEX]
    IN LinkSlabIntoClassList([h EXCEPT !.slabs[i] = fresh], i, c)

\* FindFreeSlabRun returns the first of these.
Runs(slabs, span) ==
    {i \in SlabIndexes : /\ i + span <= SlabCount
                         /\ \A j \in i .. i + span - 1 : slabs[j].State = "Free"}

ReleaseSlabRun(slabs, i, span) ==
    [j \in SlabIndexes |-> IF j \in i .. i + span - 1 THEN FreeSlab ELSE slabs[j]]
-----------------------------------------------------------------------------
(* The headers: an allocation writes one, kfree clears it.                 *)

Remember(a, i, c, size) ==
    [b \in DOMAIN Headers \cup {a} |->
       IF b = a THEN [slab |-> i, class |-> c, units |-> size + 1] ELSE Headers[b]]

Forget(a) == [b \in DOMAIN Headers \ {a} |-> Headers[b]]
-----------------------------------------------------------------------------
(* kmalloc                                                                 *)

\* The class's first slab with a free object, or a fresh one.
WithAvailableSlab(h, c) ==
    IF h.heads[c] # INVALID_LIST_INDEX THEN h
    ELSE InitializeSmallSlab(h, Min(Runs(h.slabs, 1)), c)

TakeObject(h, i, c) ==
    LET slab == [h.slabs[i] EXCEPT !.FreeList = Tail(@), !.FreeObjects = @ - 1]
        taken == [h EXCEPT !.slabs[i] = slab]
    IN IF slab.FreeObjects = 0 THEN UnlinkSlabFromClassList(taken, i, c) ELSE taken

KmallocSmall(size) ==
    LET c == SelectClassIndex(size)
        h == WithAvailableSlab([slabs |-> Slabs, heads |-> ClassAvailableHead], c)
        i == h.heads[c]
        taken == TakeObject(h, i, c)
    IN /\ c # LARGE_CLASS_SENTINEL
       /\ ClassAvailableHead[c] = INVALID_LIST_INDEX => Runs(Slabs, 1) # {}
       /\ h.slabs[i].FreeList # <<>> /\ h.slabs[i].FreeObjects # 0
       /\ Slabs' = taken.slabs
       /\ ClassAvailableHead' = taken.heads
       /\ Headers' = Remember(Head(h.slabs[i].FreeList), i, c, size)

\* A run of slabs, its first the head, the others tails that name it.
LargeSlab(i, span, j) ==
    [FreeSlab EXCEPT !.State = IF j = i THEN "LargeHead" ELSE "LargeTail",
                     !.OwnerOrSpan = IF j = i THEN span ELSE i,
                     !.TotalObjects = IF j = i THEN 1 ELSE 0]

KmallocLarge(size) ==
    LET span == (size + 1 + SLAB_PAGE_SIZE - 1) \div SLAB_PAGE_SIZE
        i == Min(Runs(Slabs, span))
    IN /\ SelectClassIndex(size) = LARGE_CLASS_SENTINEL
       /\ Runs(Slabs, span) # {}
       /\ Slabs' = [j \in SlabIndexes |->
                      IF j \in i .. i + span - 1 THEN LargeSlab(i, span, j) ELSE Slabs[j]]
       /\ Headers' = Remember(GetSlabBaseAddress(i), i, LARGE_CLASS_SENTINEL, size)
       /\ UNCHANGED ClassAvailableHead
-----------------------------------------------------------------------------
(* kfree.  Without the magic it does nothing: a stale pointer is ignored.  *)

KfreeLarge(a) ==
    LET i == Headers[a].slab
        span == Slabs[i].OwnerOrSpan
    IN /\ Headers[a].class = LARGE_CLASS_SENTINEL
       /\ Slabs[i].State = "LargeHead"
       /\ span # 0 /\ i + span <= SlabCount
       /\ a = GetSlabBaseAddress(i)
       /\ Slabs' = ReleaseSlabRun(Slabs, i, span)
       /\ Headers' = Forget(a)
       /\ UNCHANGED ClassAvailableHead

\* The object goes to the front of its slab's list; a full slab is available
\* again.
ReturnObject(h, i, c, a) ==
    LET linked == IF h.slabs[i].FreeObjects = 0 THEN LinkSlabIntoClassList(h, i, c) ELSE h
        slab == [linked.slabs[i] EXCEPT !.FreeList = <<a>> \o @, !.FreeObjects = @ + 1]
    IN [linked EXCEPT !.slabs[i] = slab]

\* Mutant: an empty slab stays with its class.
ReleaseIfEmptyNever(h, i, c) == h

\* A slab with no allocated object leaves its class.
ReleaseIfEmpty(h, i, c) ==
    LET unlinked == UnlinkSlabFromClassList(h, i, c)
    IN IF h.slabs[i].FreeObjects # h.slabs[i].TotalObjects THEN h
       ELSE [unlinked EXCEPT !.slabs = ReleaseSlabRun(@, i, 1)]

KfreeSmall(a) ==
    LET i == Headers[a].slab
        c == Headers[a].class
        h == [slabs |-> Slabs, heads |-> ClassAvailableHead]
        freed == ReleaseIfEmpty(ReturnObject(h, i, c, a), i, c)
        offset == a - GetSlabBaseAddress(i)
    IN /\ c \in Classes
       /\ Slabs[i].State = "Small" /\ Slabs[i].ClassIndex = c
       /\ offset \in 0 .. SLAB_PAGE_SIZE - 1
       /\ offset % SLAB_CLASS_SIZES[c] = 0
       /\ Slabs[i].FreeObjects < Slabs[i].TotalObjects
       /\ Slabs' = freed.slabs
       /\ ClassAvailableHead' = freed.heads
       /\ Headers' = Forget(a)
-----------------------------------------------------------------------------
Next ==
    \/ \E size \in Requests : KmallocSmall(size) \/ KmallocLarge(size)
    \/ \E a \in DOMAIN Headers : KfreeLarge(a) \/ KfreeSmall(a)

Spec == Init /\ [][Next]_vars
-----------------------------------------------------------------------------
(* Properties                                                              *)

\* kmalloc never hands out memory that overlaps an allocation or leaves the heap.
AllocationsDisjoint ==
    \A a \in DOMAIN Headers :
        /\ a + Headers[a].units <= SlabCount * SLAB_PAGE_SIZE
        /\ \A b \in DOMAIN Headers : b > a => a + Headers[a].units <= b

\* The slabs of class c that a walk from the head meets.
Available(c) ==
    LET walk[n \in 0 .. SlabCount] ==
            IF n = 0 THEN ClassAvailableHead[c]
            ELSE IF walk[n - 1] = INVALID_LIST_INDEX THEN INVALID_LIST_INDEX
                 ELSE Slabs[walk[n - 1]].NextAvailable
    IN walk

\* The list of a class holds exactly its slabs with a free object, each once, and
\* is linked the same way in both directions: kmalloc finds every free object, and
\* unlinking a slab anywhere in the list is safe.
AvailableListsExact ==
    \A c \in Classes :
        LET walk == Available(c)
            members == {i \in SlabIndexes : /\ Slabs[i].State = "Small"
                                            /\ Slabs[i].ClassIndex = c
                                            /\ Slabs[i].FreeObjects > 0}
        IN /\ {walk[n] : n \in 0 .. SlabCount} \ {INVALID_LIST_INDEX} = members
           /\ walk[SlabCount] = INVALID_LIST_INDEX
           /\ \A i \in members :
                LET prev == Slabs[i].PrevAvailable
                IN IF prev = INVALID_LIST_INDEX THEN ClassAvailableHead[c] = i
                   ELSE Slabs[prev].NextAvailable = i

\* Every object of a small slab is allocated or on its free list, not both, and
\* FreeObjects counts the latter; a slab none of whose objects is allocated has
\* gone back to the pool, so a class never keeps memory it does not use.
SlabsAccounted ==
    \A i \in SlabIndexes :
        LET s == Slabs[i]
            live == {a \in DOMAIN Headers : Headers[a].slab = i}
        IN /\ s.State = "Small" =>
                /\ live # {}
                /\ Len(s.FreeList) = s.FreeObjects
                /\ live \cup Range(s.FreeList) = Range(ObjectAddresses(i, s.ClassIndex))
                /\ Cardinality(live) + s.FreeObjects = s.TotalObjects
           /\ s.State = "LargeHead" <=> \E a \in live : Headers[a].class = LARGE_CLASS_SENTINEL
           /\ s.State = "LargeTail" => Slabs[s.OwnerOrSpan].State = "LargeHead"
=============================================================================
