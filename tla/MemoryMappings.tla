---------------------------- MODULE MemoryMappings ----------------------------
(***************************************************************************)
(* The user memory of the processes on top of the buddy allocator: the     *)
(* table of mappings and the program break of every process, its page      *)
(* table over the mapping area, and the calls that move pages between the  *)
(* allocator and them.  Every call runs with interrupts disabled and is    *)
(* one action.                                                             *)
(*                                                                         *)
(* The mapping area starts at MMAP_HIGH_BASE, above heap and stack: a      *)
(* program passes no address hint, or MAP_FIXED inside that area.  Of an   *)
(* address space's own buffers only the heap is modelled, the one that     *)
(* changes; tables of pages are not counted as memory.                     *)
(***************************************************************************)
EXTENDS PhysicalMemoryManager

CONSTANTS Processes,          \* process table entries
          InitProcess,        \* the first of them
          Callers,            \* those whose programs map memory and fork
          MaxMappings,        \* MAX_MEMORY_MAPPINGS_PER_PROCESS
          AreaPages,          \* bound on the mapping area, in pages
          RequestSizes,       \* the numbers of pages programs ask for
          ProbeStep,          \* MMAP_PROBE_STEP in pages
          PartialUnmap        \* whether programs unmap any range they like

ASSUME MappingAssumption ==
    /\ InitProcess \in Processes
    /\ Callers \subseteq Processes
    /\ MaxMappings \in Nat \ {0}
    /\ AreaPages \in Nat /\ ProbeStep \in Nat \ {0}
    /\ RequestSizes \subseteq 1 .. TotalNumberOfPages
    /\ PartialUnmap \in BOOLEAN

VARIABLES mem,                \* the allocator
          MemoryMappings,     \* the mapping table of every process
          PageTable,          \* the pages of the area its page table maps
          Heap                \* GetHeapPhysicalAddress and GetHeapSize

vars == <<mem, MemoryMappings, PageTable, Heap>>

Slots == 1 .. MaxMappings
Area == 0 .. AreaPages - 1
Lengths == 1 .. TotalNumberOfPages
NoMapping == [start |-> 0, length |-> 0, phys |-> NoPages]   \* not InUse
Mapping == [start : Area, length : Lengths, phys : Pages] \cup {NoMapping}
NoHeap == [phys |-> NoPages, size |-> 0]                     \* no process
Live(p) == Heap[p] # NoHeap

SlotOrder == [s \in Slots |-> s]
InUse(table) == {s \in Slots : table[s] # NoMapping}
EndOf(m) == m.start + m.length

\* The pages a table entry maps, and the block the allocator gave for it.
VirtualPages(m) == m.start .. EndOf(m) - 1
BlockPages(phys, length) == phys .. phys + PagesForOrder(CeilLog2Pages(length)) - 1
-----------------------------------------------------------------------------
(* The mapping table and the page table                                    *)

FindAvailableMappingSlot(table) ==
    IF InUse(table) = Slots THEN 0 ELSE Min(Slots \ InUse(table))

\* From the start of the area, past what overlaps, until no page of the range
\* is mapped; AreaPages when there is no such place.
FindFreeMappingAddress(table, pt, length) ==
    LET overlaps(c) == {s \in InUse(table) : /\ c < EndOf(table[s])
                                             /\ table[s].start < c + length}
        from[c \in 0 .. AreaPages] ==
            IF c + length > AreaPages THEN AreaPages
            ELSE IF overlaps(c) # {}
                 THEN from[Max({EndOf(table[s]) : s \in overlaps(c)})]
                 ELSE IF (c .. c + length - 1) \cap pt # {}
                      THEN from[Min({c + ProbeStep, AreaPages})]
                      ELSE c
    IN from[0]

\* Which page is behind an address follows from the mapping: only whether there
\* is one is kept.
MapPages(pt, start, count) == pt \cup (start .. start + count - 1)
\* Mutant: the page after the range goes too.
UnmapPagesInclusive(pt, first, last) == pt \ (first .. last)
UnmapPages(pt, first, last) == pt \ (first .. last - 1)
-----------------------------------------------------------------------------
(* munmap.  u is the state of the call: allocator, table, page table and   *)
(* whether it has given up.                                                *)

Trim(m, first, last) == [start |-> first, length |-> last - first,
                         phys |-> m.phys + (first - m.start)]

\* One mapping of the table: what overlaps is freed and unmapped, the rest stays
\* in its slot; a right part beside a left part takes a free slot.
UnmapSlot(u, slot, first, last) ==
    LET m == u.table[slot]
        from == Max({first, m.start})
        to == Min({last, EndOf(m)})
        freed == [u EXCEPT
                    !.mem = FreePagesFromDescriptor(@, m.phys + (from - m.start), to - from),
                    !.pt = UnmapPages(@, from, to)]
        right == FindAvailableMappingSlot(u.table)
    IN IF m = NoMapping \/ from >= to \/ u.failed THEN u
       ELSE CASE from = m.start /\ to = EndOf(m) -> [freed EXCEPT !.table[slot] = NoMapping]
              [] from = m.start /\ to < EndOf(m) ->
                   [freed EXCEPT !.table[slot] = Trim(m, to, EndOf(m))]
              [] from > m.start /\ to = EndOf(m) ->
                   [freed EXCEPT !.table[slot] = Trim(m, m.start, from)]
              [] OTHER ->
                   IF right = 0 THEN [freed EXCEPT !.failed = TRUE]
                   ELSE [freed EXCEPT !.table[right] = Trim(m, to, EndOf(m)),
                                      !.table[slot] = Trim(m, m.start, from)]

\* Mutant: a mapping cut in the middle is counted once.
ResultingInUseMappingsOneEach(table, first, last) ==
    Cardinality({s \in InUse(table) : table[s].start < first \/ last < EndOf(table[s])})

\* The number of entries in use once [first, last) is unmapped.
ResultingInUseMappings(table, first, last) ==
    LET pieces(m) == (IF m.start < Min({first, EndOf(m)}) THEN 1 ELSE 0)
                   + (IF Max({last, m.start}) < EndOf(m) THEN 1 ELSE 0)
        kept(m) == IF first < EndOf(m) /\ m.start < last THEN pieces(m) ELSE 1
    IN FoldLeft(LAMBDA n, s : IF table[s] = NoMapping THEN n ELSE n + kept(table[s]),
                0, SlotOrder)

\* HandleMunmapSystemCall
Unmapped(p, first, last) ==
    LET u == [mem |-> mem, table |-> MemoryMappings[p], pt |-> PageTable[p],
              failed |-> FALSE]
    IN IF ResultingInUseMappings(u.table, first, last) > MaxMappings
       THEN [u EXCEPT !.failed = TRUE]
       ELSE FoldLeft(LAMBDA r, s : UnmapSlot(r, s, first, last), u, SlotOrder)

\* A part of a block that is itself a block, as the allocator sees it.
IsBlock(phys, length) == /\ PagesForOrder(CeilLog2Pages(length)) = length
                         /\ phys % length = 0

\* Unless PartialUnmap, a program unmaps whole mappings, or cuts them into
\* blocks of the allocator.
MayUnmap(p, first, last) ==
    ~PartialUnmap =>
        \A s \in InUse(MemoryMappings[p]) :
            LET m == MemoryMappings[p][s]
                from == Max({first, m.start})
                to == Min({last, EndOf(m)})
                cut(a, b) == a < b => IsBlock(m.phys + (a - m.start), b - a)
            IN from < to /\ to - from < m.length =>
                 /\ IsBlock(m.phys, m.length)
                 /\ cut(m.start, from) /\ cut(from, to) /\ cut(to, EndOf(m))

\* Without a mapping in its range the call changes nothing.
Munmap(p) ==
    /\ Live(p)
    /\ \E first \in Area, last \in 1 .. AreaPages :
         LET u == Unmapped(p, first, last)
         IN /\ \E s \in InUse(MemoryMappings[p]) :
                 VirtualPages(MemoryMappings[p][s]) \cap (first .. last - 1) # {}
            /\ MayUnmap(p, first, last)
            /\ mem' = u.mem
            /\ MemoryMappings' = [MemoryMappings EXCEPT ![p] = u.table]
            /\ PageTable' = [PageTable EXCEPT ![p] = u.pt]
    /\ UNCHANGED Heap
-----------------------------------------------------------------------------
(* mmap of anonymous memory, and of a file that is copied into memory      *)

\* Pages are allocated, mapped and registered at start.  Without a free slot
\* they go back to the allocator, and the page table keeps its entries.
MmapAt(p, u, start, length) ==
    LET a == AllocatePagesFromDescriptor(u.mem, length)
        slot == FindAvailableMappingSlot(u.table)
        m == [start |-> start, length |-> length, phys |-> a.block]
        mapped == MapPages(u.pt, start, length)
    IN IF a.block = NoPages THEN [u EXCEPT !.mem = a.mem]
       ELSE IF slot = 0
            THEN [u EXCEPT !.mem = FreePagesFromDescriptor(a.mem, a.block, length),
                           !.pt = mapped]
            ELSE [u EXCEPT !.mem = a.mem, !.pt = mapped, !.table[slot] = m]

MmapDone(p, u) ==
    /\ mem' = u.mem
    /\ MemoryMappings' = [MemoryMappings EXCEPT ![p] = u.table]
    /\ PageTable' = [PageTable EXCEPT ![p] = u.pt]
    /\ UNCHANGED Heap

Mmap(p) ==
    /\ Live(p)
    /\ \E length \in RequestSizes :
         LET start == FindFreeMappingAddress(MemoryMappings[p], PageTable[p], length)
             u == [mem |-> mem, table |-> MemoryMappings[p], pt |-> PageTable[p],
                   failed |-> FALSE]
         IN /\ start < AreaPages
            /\ MmapDone(p, MmapAt(p, u, start, length))

\* MAP_FIXED unmaps the range first, and keeps it unmapped when it fails then.
\* Programs use it to replace pages they have mapped.
MmapFixed(p) ==
    /\ Live(p)
    /\ \E start \in Area, length \in RequestSizes :
         LET u == Unmapped(p, start, start + length)
         IN /\ start + length <= AreaPages
            /\ \E s \in InUse(MemoryMappings[p]) : start \in VirtualPages(MemoryMappings[p][s])
            /\ MayUnmap(p, start, start + length)
            /\ MmapDone(p, IF u.failed THEN u ELSE MmapAt(p, u, start, length))

\* MapPage may need a page for a table; it can fail when none is left.
TableFails(m) == m.NumberOfFreePages = 0

\* A page table is missing and there is no page for it: the pages mapped so far
\* stay in the page table, the block goes back.
MmapTableFails(p) ==
    /\ Live(p)
    /\ \E length \in RequestSizes :
         LET start == FindFreeMappingAddress(MemoryMappings[p], PageTable[p], length)
             a == AllocatePagesFromDescriptor(mem, length)
         IN /\ start < AreaPages
            /\ a.block # NoPages
            /\ TableFails(a.mem)
            /\ mem' = FreePagesFromDescriptor(a.mem, a.block, length)
            /\ \E count \in 0 .. length - 1 :
                 PageTable' = [PageTable EXCEPT ![p] = MapPages(@, start, count)]
    /\ UNCHANGED <<MemoryMappings, Heap>>
-----------------------------------------------------------------------------
(* brk, fork, execve and exit                                              *)

\* The heap grows: it moves to a larger block.
Brk(p) ==
    /\ Live(p)
    /\ \E size \in RequestSizes :
         LET a == AllocatePagesFromDescriptor(mem, size)
         IN /\ size > Heap[p].size
            /\ IF a.block = NoPages THEN mem' = a.mem /\ UNCHANGED Heap
               ELSE /\ mem' = FreePagesFromDescriptor(a.mem, Heap[p].phys, Heap[p].size)
                    /\ Heap' = [Heap EXCEPT ![p] = [phys |-> a.block, size |-> size]]
    /\ UNCHANGED <<MemoryMappings, PageTable>>

\* The new heap cannot be mapped: the old one is mapped again.
BrkTableFails(p) ==
    /\ Live(p)
    /\ \E size \in RequestSizes :
         LET a == AllocatePagesFromDescriptor(mem, size)
         IN /\ size > Heap[p].size
            /\ a.block # NoPages
            /\ TableFails(a.mem)
            /\ mem' = FreePagesFromDescriptor(a.mem, a.block, size)
    /\ UNCHANGED <<MemoryMappings, PageTable, Heap>>

\* FreeAnonymousProcessMappings, in slot order.
FreeAnonymousProcessMappings(m, table) ==
    FoldLeft(LAMBDA r, s : IF table[s] = NoMapping THEN r
                           ELSE FreePagesFromDescriptor(r, table[s].phys, table[s].length),
             m, SlotOrder)

EmptyTable == [s \in Slots |-> NoMapping]

\* CloneAnonymousProcessMappings: slot by slot, until an allocation fails, or the
\* mapping for want of a page table (needsTable).
CloneMapping(u, source, slot, needsTable) ==
    LET m == source[slot]
        a == AllocatePagesFromDescriptor(u.mem, m.length)
    IN CASE m = NoMapping \/ u.failed -> u
         [] a.block = NoPages /\ ~u.failed -> [u EXCEPT !.mem = a.mem, !.failed = TRUE]
         [] OTHER ->
              IF needsTable /\ TableFails(a.mem)
              THEN [u EXCEPT !.mem = FreePagesFromDescriptor(a.mem, a.block, m.length),
                             !.failed = TRUE]
              ELSE [u EXCEPT !.mem = a.mem,
                             !.table[slot] = [m EXCEPT !.phys = a.block],
                             !.pt = MapPages(@, m.start, m.length)]

CloneAnonymousProcessMappings(m, table, needsTable) ==
    FoldLeft(LAMBDA u, s : CloneMapping(u, table, s, needsTable),
             [mem |-> m, table |-> EmptyTable, pt |-> {}, failed |-> FALSE],
             SlotOrder)

\* KillProcess: the mappings, then the address space with its heap.
Released(m, table, heap) ==
    FreePagesFromDescriptor(FreeAnonymousProcessMappings(m, table), heap.phys, heap.size)

\* CopyProcess: the new address space, then the mappings; a child whose mappings
\* could not all be copied is killed.
Fork(p, child) ==
    \E needsTable \in BOOLEAN :
        LET a == AllocatePagesFromDescriptor(mem, Heap[p].size)
            heap == [phys |-> a.block, size |-> Heap[p].size]
            u == CloneAnonymousProcessMappings(a.mem, MemoryMappings[p], needsTable)
        IN /\ Live(p) /\ ~Live(child)
           /\ CASE a.block = NoPages ->
                     /\ mem' = a.mem
                     /\ UNCHANGED <<MemoryMappings, PageTable, Heap>>
                [] a.block # NoPages /\ u.failed ->
                     /\ mem' = Released(u.mem, u.table, heap)
                     /\ UNCHANGED <<MemoryMappings, PageTable, Heap>>
                [] OTHER ->
                     /\ mem' = u.mem
                     /\ MemoryMappings' = [MemoryMappings EXCEPT ![child] = u.table]
                     /\ PageTable' = [PageTable EXCEPT ![child] = u.pt]
                     /\ Heap' = [Heap EXCEPT ![child] = heap]

\* ChangeProcessExecution: the new address space, then the old mappings, then the
\* old address space.
Execve(p) ==
    LET a == AllocatePagesFromDescriptor(mem, 1)
    IN /\ Live(p)
       /\ IF a.block = NoPages
          THEN mem' = a.mem /\ UNCHANGED <<MemoryMappings, PageTable, Heap>>
          ELSE /\ mem' = Released(a.mem, MemoryMappings[p], Heap[p])
               /\ MemoryMappings' = [MemoryMappings EXCEPT ![p] = EmptyTable]
               /\ PageTable' = [PageTable EXCEPT ![p] = {}]
               /\ Heap' = [Heap EXCEPT ![p] = [phys |-> a.block, size |-> 1]]

Exit(p) ==
    /\ Live(p)
    /\ mem' = Released(mem, MemoryMappings[p], Heap[p])
    /\ MemoryMappings' = [MemoryMappings EXCEPT ![p] = EmptyTable]
    /\ PageTable' = [PageTable EXCEPT ![p] = {}]
    /\ Heap' = [Heap EXCEPT ![p] = NoHeap]
-----------------------------------------------------------------------------
Init ==
    LET a == AllocatePagesFromDescriptor(InitializeBuddyAllocator, 1)
    IN /\ mem = a.mem
       /\ MemoryMappings = [p \in Processes |-> EmptyTable]
       /\ PageTable = [p \in Processes |-> {}]
       /\ Heap = [p \in Processes |->
                    IF p = InitProcess THEN [phys |-> a.block, size |-> 1] ELSE NoHeap]

\* The init process does not exit.
Next ==
    \/ \E p \in Callers :
         \/ Munmap(p) \/ Mmap(p) \/ MmapFixed(p) \/ MmapTableFails(p)
         \/ Brk(p) \/ BrkTableFails(p) \/ Execve(p)
         \/ \E child \in Processes : Fork(p, child)
    \/ \E p \in Processes \ {InitProcess} : Exit(p)

Spec == Init /\ [][Next]_vars
-----------------------------------------------------------------------------
(* Properties                                                              *)

\* Every component of the state keeps its shape: in particular the counter of
\* free pages stays within 0 .. TotalNumberOfPages.
TypeOK ==
    /\ mem \in Memory
    /\ MemoryMappings \in [Processes -> [Slots -> Mapping]]
    /\ PageTable \in [Processes -> SUBSET Area]
    /\ Heap \in [Processes -> [phys : Pages, size : Lengths] \cup {NoHeap}]

\* Whose block a page lies in: of a free list, of a mapping, of a heap.
FreeBlocks == UNION {{<<o, i>> : i \in DOMAIN mem.BuddyFreeLists[o]} : o \in Orders}
FreePages ==
    UNION {BlockPages(mem.BuddyFreeLists[b[1]][b[2]], PagesForOrder(b[1])) : b \in FreeBlocks}
FreeHolders(f) ==
    {b \in FreeBlocks : LET start == mem.BuddyFreeLists[b[1]][b[2]]
                        IN f \in start .. start + PagesForOrder(b[1]) - 1}
MappingHolders(f) ==
    {h \in Processes \X Slots : LET m == MemoryMappings[h[1]][h[2]]
                                IN m # NoMapping /\ f \in BlockPages(m.phys, m.length)}
HeapHolders(f) ==
    {p \in Processes : Live(p) /\ f \in BlockPages(Heap[p].phys, Heap[p].size)}

\* Every page has exactly one owner, through any sequence of mmap, munmap, brk,
\* fork, execve and exit, the ones that fail half way included: none is handed
\* out while it is in use or still free, none is lost.
PagesHaveOneOwner ==
    \A f \in Pages : Cardinality(FreeHolders(f)) + Cardinality(MappingHolders(f))
                       + Cardinality(HeapHolders(f)) = 1

\* FreePagesFromDescriptor frees the number of pages it is given: what a program
\* has mapped and not unmapped is not in the free lists.
MappedIsNotFree ==
    \A p \in Processes : \A s \in InUse(MemoryMappings[p]) :
        LET m == MemoryMappings[p][s]
        IN (m.phys .. m.phys + m.length - 1) \cap FreePages = {}

\* Splitting and merging lose no capacity: where all pages of an aligned range are
\* free, the allocator has a block of at least that order to give.  And it gives
\* it: NumberOfFreePages, which AllocatePagesFromDescriptor compares the request
\* with after the block has left its list, is what the lists hold.
CapacityIsUsable ==
    LET free == FreePages
    IN /\ mem.NumberOfFreePages = Cardinality(free)
       /\ \A o \in 0 .. BuddyMaxOrder, start \in Pages :
            /\ start % PagesForOrder(o) = 0
            /\ start .. start + PagesForOrder(o) - 1 \subseteq free
            => Candidates(mem, o) # {}

\* What a process has registered is what its page table maps: mappings never
\* overlap and stay accessible as a whole, whatever is mapped and unmapped around
\* them.
MappingsAreMapped ==
    \A p \in Processes : \A s \in InUse(MemoryMappings[p]) :
        LET m == MemoryMappings[p][s]
        IN /\ VirtualPages(m) \subseteq PageTable[p]
           /\ \A t \in InUse(MemoryMappings[p]) \ {s} :
                VirtualPages(m) \cap VirtualPages(MemoryMappings[p][t]) = {}
=============================================================================
