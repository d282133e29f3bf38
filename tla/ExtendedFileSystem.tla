-------------------------- MODULE ExtendedFileSystem --------------------------
(***************************************************************************)
(* ExtendedFileSystemManager.cpp: how an ext2 image is read and changed.   *)
(*                                                                         *)
(* An operation takes and returns outcomes: a disk d, ok (what the C++     *)
(* function returns), the transfers that have failed so far and a value.   *)
(* It returns a set of outcomes because every transfer may fail while the  *)
(* budget MaxFaults lasts.  The functions return at the first failure and  *)
(* undo nothing but what is written here.  A transfer is a whole bitmap,   *)
(* group descriptor, inode or directory block.  A failing read has the     *)
(* outcome of failing at the write that follows it.                        *)
(*                                                                         *)
(* A record of a directory block takes one unit, plus its slack.           *)
(***************************************************************************)
EXTENDS Integers, SequencesExt, FiniteSetsExt

CONSTANTS InodesCount, InodesPerGroup,
          FirstDataBlock, BlocksCount, BlocksPerGroup,
          BlockUnits,        \* records that fit into a directory block
          DirectPointers,    \* 12 in an inode
          MaxFaults          \* transfers that may fail

ASSUME GeometryAssumption ==
    /\ InodesCount \in Nat /\ InodesPerGroup \in Nat \ {0}
    /\ FirstDataBlock \in Nat /\ BlocksCount \in Nat /\ BlocksPerGroup \in Nat \ {0}
    /\ BlockUnits \in Nat /\ BlockUnits >= 2 /\ DirectPointers \in Nat \ {0}
    /\ MaxFaults \in Nat

EXT2_ROOT_INODE_NUMBER == 2
Inodes == 1 .. InodesCount
Blocks == FirstDataBlock .. BlocksCount - 1

\* The block groups counted include one past the end when FirstDataBlock is 1
\* and the last group is full; its descriptor reads as zeros.
InodeGroupCount == (InodesCount + InodesPerGroup - 1) \div InodesPerGroup
BlockGroupCount == (BlocksCount + BlocksPerGroup - 1) \div BlocksPerGroup
InodeGroup(i) == (i - 1) \div InodesPerGroup
BlockGroup(b) == (b - FirstDataBlock) \div BlocksPerGroup

Dot == "."
DotDot == ".."
Entry(i, name, type, len) == [ino |-> i, name |-> name, type |-> type, len |-> len]
NoEntry == Entry(0, "none", "none", 0)
NoPointers == [k \in 1 .. DirectPointers |-> 0]
ClearedInode == [type |-> "none", links |-> 0, ptr |-> NoPointers, single |-> 0, large |-> FALSE]
-----------------------------------------------------------------------------
(* Outcomes                                                                *)

Failed(o) == {[o EXCEPT !.ok = FALSE]}
Then(S, Op(_)) == UNION {IF o.ok THEN Op(o) ELSE {o} : o \in S}
Otherwise(S, Op(_)) == UNION {IF o.ok THEN {o} ELSE Op([o EXCEPT !.ok = TRUE]) : o \in S}

\* A transfer that makes the disk d, or fails and leaves the disk e.
TransferOr(o, d, e) ==
    {[o EXCEPT !.d = d]} \cup
    IF o.faults < MaxFaults THEN {[o EXCEPT !.d = e, !.ok = FALSE, !.faults = @ + 1]} ELSE {}

WriteBytesToDisk(o, d) == TransferOr(o, d, o.d)

\* The counters in memory, d's, reach the superblock.
WriteUpdatedSuperblockCounters(o, d, e) ==
    TransferOr(o, [d EXCEPT !.super = <<d.FreeInodesCount, d.FreeBlocksCount>>], e)

WriteInodeData(o, i, inode) == WriteBytesToDisk(o, [o.d EXCEPT !.inode[i] = inode])
-----------------------------------------------------------------------------
(* Directories                                                             *)

\* The records in use of a directory, from its direct blocks.
EntriesOf(d, i) ==
    {e \in UNION {Range(d.dir[b]) : b \in Range(d.inode[i].ptr) \ {0}} : e.ino # 0}

FindEntryInDirectory(d, i, name) ==
    LET found == {e \in EntriesOf(d, i) : e.name = name}
    IN IF d.inode[i].type # "dir" \/ found = {} THEN NoEntry ELSE CHOOSE e \in found : TRUE

\* Where a path's last name is looked up; 0 when a directory on the way is missing.
ResolveParentInode(d, segments) ==
    FoldLeft(LAMBDA i, name : IF i = 0 THEN 0
                              ELSE LET e == FindEntryInDirectory(d, i, name)
                                   IN IF e.type = "dir" THEN e.ino ELSE 0,
             EXT2_ROOT_INODE_NUMBER, Front(segments))

ParsePath(segments) == segments # <<>> /\ Last(segments) \notin {Dot, DotDot}

\* Places <<k, r>> of the records r of an inode's k-th block with P, the first of them.
Places(d, i, P(_)) ==
    {x \in (1 .. DirectPointers) \X (1 .. BlockUnits) :
        /\ d.inode[i].ptr[x[1]] # 0
        /\ x[2] <= Len(d.dir[d.inode[i].ptr[x[1]]])
        /\ P(d.dir[d.inode[i].ptr[x[1]]][x[2]])}
FirstPlace(places) ==
    CHOOSE x \in places : \A y \in places : x[1] < y[1] \/ (x[1] = y[1] /\ x[2] <= y[2])

\* The first record with slack, in use or not, is split.
HasSlack(d, i) == Places(d, i, LAMBDA e : e.len >= 2) # {}
SplitRecord(d, i, e) ==
    LET x == FirstPlace(Places(d, i, LAMBDA r : r.len >= 2))
        b == d.inode[i].ptr[x[1]]
        old == d.dir[b][x[2]]
    IN [d EXCEPT !.dir[b] = SubSeq(@, 1, x[2] - 1) \o <<[old EXCEPT !.len = 1]>>
                            \o <<[e EXCEPT !.len = old.len - 1]>> \o SubSeq(@, x[2] + 1, Len(@))]

\* rename's: a directory without slack is not extended.
AddDirectoryEntry(o, i, e) ==
    IF HasSlack(o.d, i) THEN WriteBytesToDisk(o, SplitRecord(o.d, i, e)) ELSE Failed(o)

\* Mutant: the record before the removed one does not take its space.
RemoveRecordNoMerge(d, i, n, name) ==
    LET x == FirstPlace(Places(d, i, LAMBDA e : e.ino = n /\ e.name = name))
    IN [d EXCEPT !.dir[d.inode[i].ptr[x[1]]] = RemoveAt(@, x[2])]

\* The record before takes the space of the one removed; the first is marked unused.
RemoveRecord(d, i, n, name) ==
    LET x == FirstPlace(Places(d, i, LAMBDA e : e.ino = n /\ e.name = name))
        r == x[2]
    IN [d EXCEPT !.dir[d.inode[i].ptr[x[1]]] =
            IF r = 1 THEN [@ EXCEPT ![1].ino = 0]
            ELSE RemoveAt([@ EXCEPT ![r - 1].len = @ + d.dir[d.inode[i].ptr[x[1]]][r].len], r)]

RemoveDirectoryEntry(o, i, n, name) ==
    IF Places(o.d, i, LAMBDA e : e.ino = n /\ e.name = name) = {} THEN Failed(o)
    ELSE WriteBytesToDisk(o, RemoveRecord(o.d, i, n, name))

UpdateDotDotEntry(o, i, parent) ==
    LET places == Places(o.d, i, LAMBDA e : e.name = DotDot)
        x == FirstPlace(places)
    IN IF places = {} THEN Failed(o)
       ELSE WriteBytesToDisk(o, [o.d EXCEPT !.dir[o.d.inode[i].ptr[x[1]]][x[2]].ino = parent])
-----------------------------------------------------------------------------
(* Allocation                                                              *)

\* A failure after the bitmap is written leaves the bit set: the inode is lost.
AllocateInodeInGroup(o, g, dir) ==
    LET free == {i \in Inodes : InodeGroup(i) = g /\ i \notin o.d.InodeBitmap}
        i == Min(free)
        Descriptor(a) == WriteBytesToDisk(a,
            [a.d EXCEPT !.GroupFreeInodes[g] = @ - 1,
                        !.UsedDirectories[g] = IF dir THEN @ + 1 ELSE @])
        Superblock(a) ==
            IF a.d.FreeInodesCount = 0 THEN Failed(a)
            ELSE WriteUpdatedSuperblockCounters(a, [a.d EXCEPT !.FreeInodesCount = @ - 1], a.d)
    IN IF o.d.GroupFreeInodes[g] = 0 \/ free = {} THEN Failed(o)
       ELSE Then(Then(Then(WriteBytesToDisk(o, [o.d EXCEPT !.InodeBitmap = @ \cup {i}]),
                           Descriptor), Superblock),
                 LAMBDA a : {[a EXCEPT !.val = i]})

AllocateBlockInGroup(o, g) ==
    LET free == {b \in Blocks : BlockGroup(b) = g /\ b \notin o.d.BlockBitmap}
        b == Min(free)
        Descriptor(a) == WriteBytesToDisk(a, [a.d EXCEPT !.GroupFreeBlocks[g] = @ - 1])
        Superblock(a) ==
            IF a.d.FreeBlocksCount = 0 THEN Failed(a)
            ELSE WriteUpdatedSuperblockCounters(a, [a.d EXCEPT !.FreeBlocksCount = @ - 1], a.d)
    IN IF o.d.GroupFreeBlocks[g] = 0 \/ free = {} THEN Failed(o)
       ELSE Then(Then(Then(WriteBytesToDisk(o, [o.d EXCEPT !.BlockBitmap = @ \cup {b}]),
                           Descriptor), Superblock),
                 LAMBDA a : {[a EXCEPT !.val = b]})

\* Every group is tried, from the preferred one; any failure moves on to the next.
AllocateInodeNearGroup(o, preferred, dir) ==
    FoldLeft(LAMBDA S, k :
                 Otherwise(S, LAMBDA a :
                     AllocateInodeInGroup(a, (preferred + k - 1) % InodeGroupCount, dir)),
             Failed(o), [k \in 1 .. InodeGroupCount |-> k])

AllocateBlockNearGroup(o, preferred) ==
    FoldLeft(LAMBDA S, k :
                 Otherwise(S, LAMBDA a :
                     AllocateBlockInGroup(a, (preferred + k - 1) % BlockGroupCount)),
             Failed(o), [k \in 1 .. BlockGroupCount |-> k])

\* Freeing what is not marked fails.
FreeBlock(o, b) ==
    LET g == BlockGroup(b)
        Descriptor(a) == WriteBytesToDisk(a, [a.d EXCEPT !.GroupFreeBlocks[g] = @ + 1])
        Superblock(a) ==
            LET counted == [a.d EXCEPT !.FreeBlocksCount = @ + 1]
            IN WriteUpdatedSuperblockCounters(a, counted, counted)
    IN IF b \notin Blocks \/ b \notin o.d.BlockBitmap THEN Failed(o)
       ELSE Then(Then(WriteBytesToDisk(o, [o.d EXCEPT !.BlockBitmap = @ \ {b}]),
                      Descriptor), Superblock)

\* Mutant: the count of the group is not written.
FreeInodeUncounted(o, i, dir) ==
    {[o EXCEPT !.d.InodeBitmap = @ \ {i}, !.d.FreeInodesCount = @ + 1,
               !.d.super = <<o.d.FreeInodesCount + 1, o.d.FreeBlocksCount>>]}

FreeInode(o, i, dir) ==
    LET g == InodeGroup(i)
        Descriptor(a) ==
            IF dir /\ a.d.UsedDirectories[g] = 0 THEN Failed(a)
            ELSE WriteBytesToDisk(a, [a.d EXCEPT !.GroupFreeInodes[g] = @ + 1,
                                      !.UsedDirectories[g] = IF dir THEN @ - 1 ELSE @])
        Superblock(a) ==
            LET counted == [a.d EXCEPT !.FreeInodesCount = @ + 1]
            IN WriteUpdatedSuperblockCounters(a, counted, counted)
    IN IF i \notin Inodes \/ i \notin o.d.InodeBitmap THEN Failed(o)
       ELSE Then(Then(WriteBytesToDisk(o, [o.d EXCEPT !.InodeBitmap = @ \ {i}]),
                      Descriptor), Superblock)
-----------------------------------------------------------------------------
(* CreateFile.  Nothing is given back when a later stage fails.            *)

WriteNewDirectoryBlock(o, b, i, parent) ==
    WriteBytesToDisk(o, [o.d EXCEPT !.dir[b] =
        <<Entry(i, Dot, "dir", 1), Entry(parent, DotDot, "dir", BlockUnits - 1)>>])

NewInode(type, b) ==
    [ClearedInode EXCEPT !.type = type, !.links = IF type = "dir" THEN 2 ELSE 1, !.ptr[1] = b]

\* The parent's new block, if there is one, and its new link are written at once.
WriteParent(o, parent, type, k, b) ==
    LET linked == [o.d.inode[parent] EXCEPT !.links = IF type = "dir" THEN @ + 1 ELSE @]
    IN WriteInodeData(o, parent, IF k = 0 THEN linked ELSE [linked EXCEPT !.ptr[k] = b])

\* The entry goes into the slack of the parent's blocks, or into a new block.
AddToParent(o, parent, i, name, type) ==
    LET e == Entry(i, name, type, BlockUnits)
        unused == {k \in 1 .. DirectPointers : o.d.inode[parent].ptr[k] = 0}
        Grow(a) == Then(WriteBytesToDisk(a, [a.d EXCEPT !.dir[a.val] = <<e>>]),
                        LAMBDA c : WriteParent(c, parent, type, Min(unused), c.val))
    IN IF HasSlack(o.d, parent)
       THEN Then(WriteBytesToDisk(o, SplitRecord(o.d, parent, e)),
                 LAMBDA a : WriteParent(a, parent, type, 0, 0))
       ELSE IF unused = {} THEN Failed(o)
       ELSE Then(AllocateBlockNearGroup(o, InodeGroup(parent)), Grow)

CreateInode(o, parent, name, type) ==
    LET Directory(a) ==
            LET i == a.val
            IN Then(Then(AllocateBlockNearGroup(a, InodeGroup(i)),
                         LAMBDA c : WriteNewDirectoryBlock(c, c.val, i, parent)),
                    LAMBDA c : Then(WriteInodeData(c, i, NewInode(type, c.val)),
                                    LAMBDA e : AddToParent(e, parent, i, name, type)))
        Other(a) == Then(WriteInodeData(a, a.val, NewInode(type, 0)),
                         LAMBDA c : AddToParent(c, parent, c.val, name, type))
    IN Then(AllocateInodeNearGroup(o, InodeGroup(parent), type = "dir"),
            LAMBDA a : IF type = "dir" THEN Directory(a) ELSE Other(a))

ExtCreateFile(o, segments, type) ==
    LET parent == ResolveParentInode(o.d, segments)
    IN IF \/ ~ParsePath(segments) \/ parent = 0
          \/ FindEntryInDirectory(o.d, parent, Last(segments)) # NoEntry
       THEN Failed(o)
       ELSE CreateInode(o, parent, Last(segments), type)
-----------------------------------------------------------------------------
(* DeleteFile.  The entry goes first, then the blocks, then the inode.     *)

MayDelete(d, e, type) ==
    /\ e # NoEntry /\ e.type = type /\ d.inode[e.ino].type = type
    /\ type = "dir" => \A x \in EntriesOf(d, e.ino) : x.name \in {Dot, DotDot}

RemoveFromParent(o, parent, e) ==
    LET Unlinked(a) ==
            IF a.d.inode[parent].links = 0 THEN Failed(a)
            ELSE WriteInodeData(a, parent, [a.d.inode[parent] EXCEPT !.links = @ - 1])
    IN Then(RemoveDirectoryEntry(o, parent, e.ino, e.name),
            LAMBDA a : IF e.type = "dir" THEN Unlinked(a) ELSE {a})

\* The direct blocks, then those of the single indirect block and the block itself.
FreeFileBlocks(o, inode) ==
    LET direct == SelectSeq(inode.ptr, LAMBDA b : b # 0)
        indirect == IF inode.single = 0 THEN <<>> ELSE Append(o.d.pointers[inode.single], inode.single)
    IN FoldLeft(LAMBDA S, b : Then(S, LAMBDA a : FreeBlock(a, b)), {o}, direct \o indirect)

\* A double or triple indirect pointer ends the deletion here: the inode stays.
DeleteInode(o, e, inode) ==
    Then(FreeFileBlocks(o, inode),
         LAMBDA a : IF inode.large THEN Failed(a)
                    ELSE Then(WriteInodeData(a, e.ino, ClearedInode),
                              LAMBDA c : FreeInode(c, e.ino, e.type = "dir")))

ExtDeleteFile(o, segments, type) ==
    LET parent == ResolveParentInode(o.d, segments)
        e == FindEntryInDirectory(o.d, parent, Last(segments))
    IN IF ~ParsePath(segments) \/ parent = 0 THEN Failed(o)
       ELSE IF ~MayDelete(o.d, e, type) THEN Failed(o)
       ELSE Then(RemoveFromParent(o, parent, e),
                 LAMBDA a : DeleteInode(a, e, o.d.inode[e.ino]))
-----------------------------------------------------------------------------
(* RenameFile.  The new entry is made before the old one is removed.       *)

\* The inodes met from i up to the root; GetParentDirectoryInode is the ".." entry.
AncestorsOf(d, i) ==
    LET up[k \in 0 .. InodesCount] ==
            IF k = 0 THEN {i}
            ELSE up[k - 1] \cup {FindEntryInDirectory(d, j, DotDot).ino :
                                    j \in up[k - 1] \ {EXT2_ROOT_INODE_NUMBER, 0}}
    IN up[InodesCount]

\* Mutant: the moved directory keeps its ".." entry.
MoveDirectoryKeepDotDot(o, i, from, to) ==
    Then(WriteInodeData(o, from, [o.d.inode[from] EXCEPT !.links = @ - 1]),
         LAMBDA a : WriteInodeData(a, to, [a.d.inode[to] EXCEPT !.links = @ + 1]))

MoveDirectory(o, i, from, to) ==
    Then(UpdateDotDotEntry(o, i, to),
         LAMBDA a : IF a.d.inode[from].links = 0 THEN Failed(a)
                    ELSE Then(WriteInodeData(a, from, [a.d.inode[from] EXCEPT !.links = @ - 1]),
                              LAMBDA c : WriteInodeData(c, to, [c.d.inode[to] EXCEPT !.links = @ + 1])))

\* When the old entry cannot be removed the new one is, if that succeeds.
MoveEntry(o, from, to, e, name) ==
    LET i == e.ino
        Undo(a) == {[c EXCEPT !.ok = FALSE] : c \in RemoveDirectoryEntry(a, to, i, name)}
    IN Then(Then(AddDirectoryEntry(o, to, [e EXCEPT !.name = name]),
                 LAMBDA a : Otherwise(RemoveDirectoryEntry(a, from, i, e.name), Undo)),
            LAMBDA a : IF e.type = "dir" /\ from # to THEN MoveDirectory(a, i, from, to) ELSE {a})

ExtRenameFile(o, old, new, type) ==
    LET from == ResolveParentInode(o.d, old)
        to == ResolveParentInode(o.d, new)
        e == FindEntryInDirectory(o.d, from, Last(old))
        above == AncestorsOf(o.d, to)
    IN IF ~ParsePath(old) \/ ~ParsePath(new) THEN Failed(o)
       ELSE IF old = new THEN {o}
       ELSE IF from = 0 \/ to = 0 THEN Failed(o)
       ELSE IF \/ e = NoEntry \/ (e.type = "dir") # (type = "dir")
               \/ FindEntryInDirectory(o.d, to, Last(new)) # NoEntry
               \/ type = "dir" /\ (e.ino \in above \/ EXT2_ROOT_INODE_NUMBER \notin above)
       THEN Failed(o)
       ELSE MoveEntry(o, from, to, [e EXCEPT !.type = type], Last(new))
=============================================================================
