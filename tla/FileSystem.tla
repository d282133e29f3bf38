------------------------------ MODULE FileSystem ------------------------------
(***************************************************************************)
(* The file system calls of TranslationLayer.cpp that change names, over   *)
(* the tree of VirtualFileSystem and the disk of ExtendedFileSystem, from  *)
(* the boot of the initial RAM file system on.                             *)
(*                                                                         *)
(* A call runs with interrupts disabled: one action.  Its set of outcomes  *)
(* has one for every transfer to the disk that may fail.  One process      *)
(* makes the calls.  What happens to data is not here, nor what becomes of *)
(* files that are deleted while they are open.                             *)
(***************************************************************************)
EXTENDS VirtualFileSystem

CONSTANTS InitTree,       \* what MountInitRamFileSystem and the devices make
          InitDisks,      \* the ext2 images
          LinkTarget,     \* where the symbolic links of the images lead
          Paths,          \* the paths programs name existing files with
          CreatePaths,    \* the paths they make new files at
          MountPaths,     \* where they mount
          ProcTree, SysTree,  \* the files of proc and sysfs: sequences of [segs, type]
          MaxCalls        \* calls that change something

ASSUME FileSystemAssumption == MaxCalls \in Nat /\ InitDisks # {}

VARIABLES Tree,       \* the VirtualFileSystem
          Disk,       \* the image, and the counters of its manager
          Cwd,        \* CurrentFileSystemLocation; 0 when it dangles, its dentry freed
          Faults,     \* transfers that failed
          Departures, \* why the tree may no longer be the disk's
          Renamed,    \* what the last call renamed: [x, new, ok]
          Calls

vars == <<Tree, Disk, Cwd, Faults, Departures, Renamed, Calls>>

NoRename == [x |-> 0, new |-> <<>>, ok |-> FALSE]

\* The disk is mounted and made the root, as by MountExt and Chroot.
SwitchedRoot(path) ==
    LET mounted == MountEXTFileSystem([v |-> InitTree, d |-> Disk], path, LinkTarget).v
    IN SetRoot(mounted, mounted.Mounted)

\* The boot ends with the RAM file system, the first program's start with the disk's root.
Init ==
    /\ Disk \in InitDisks
    /\ Tree \in {InitTree} \cup {SwitchedRoot(path) : path \in MountPaths}
    /\ Cwd = Tree.Root
    /\ Faults = 0 /\ Departures = {} /\ Renamed = NoRename /\ Calls = 0

Current == [v |-> Tree, d |-> Disk, ok |-> TRUE, faults |-> Faults, val |-> 0]

\* One of the outcomes of a call; why is the reason, if any, to part from the disk.
PerformRename(S, why, x, new) ==
    Calls < MaxCalls /\ \E o \in S :
        /\ <<o.v, o.d>> # <<Tree, Disk>> \/ o.faults # Faults
        /\ Calls' = Calls + 1
        /\ Tree' = o.v /\ Disk' = o.d /\ Faults' = o.faults
        /\ Cwd' = IF Cwd \in DOMAIN o.v.Dentries THEN Cwd ELSE 0
        /\ Renamed' = [x |-> x, new |-> new, ok |-> x # 0 /\ o.ok]
        /\ Departures' = Departures \cup why
               \cup (IF o.d # Disk /\ Tree.Root # Tree.Mounted THEN {"root"} ELSE {})
               \cup (IF o.faults # Faults THEN {"fault"} ELSE {})

Perform(S, why) == PerformRename(S, why, 0, <<>>)
-----------------------------------------------------------------------------
(* Paths                                                                   *)

BuildAbsolutePathFromDentry(v, x) ==
    LET names[y \in Nat] ==
            IF v.Dentries[y].parent = 0 THEN <<>>
            ELSE Append(names[v.Dentries[y].parent], v.Dentries[y].name)
    IN names[x]

\* A relative path needs the directory it starts at.
Usable(p) == p.abs \/ Cwd # 0
EffectivePathFrom(base, p) == IF p.abs THEN p.segs ELSE BuildAbsolutePathFromDentry(Tree, base) \o p.segs
EffectivePath(p) == EffectivePathFrom(Cwd, p)

Directories == {x \in DOMAIN Tree.Dentries : TypeOf(Tree, x) = "dir"}
-----------------------------------------------------------------------------
(* The calls                                                               *)

\* open and openat, with O_CREAT.
HandleOpenSystemCall(o, path) ==
    IF Lookup(o.v, path) # 0 THEN {o}
    ELSE Then(CreateFile(o, path, "file"),
              LAMBDA a : {[a EXCEPT !.ok = Lookup(a.v, path) # 0]})

HandleMkdirSystemCall(o, path) ==
    IF Lookup(o.v, path) # 0 THEN Failed(o) ELSE CreateFile(o, path, "dir")

HandleRmdirSystemCall(o, path) ==
    LET x == Lookup(o.v, path)
    IN IF x = 0 THEN Failed(o)
       ELSE IF TypeOf(o.v, x) # "dir" \/ o.v.Dentries[x].children # <<>> THEN Failed(o)
       ELSE DeleteFile(o, path, "dir")

HandleUnlinkSystemCall(o, path) ==
    LET x == Lookup(o.v, path)
    IN IF x = 0 THEN Failed(o)
       ELSE IF TypeOf(o.v, x) = "dir" THEN Failed(o)
       ELSE DeleteFile(o, path, "file")

HandleLinkSystemCall(o, old, new) ==
    LET x == Lookup(o.v, old)
        parent == Lookup(o.v, Front(new))
    IN IF x = 0 THEN Failed(o)
       ELSE IF TypeOf(o.v, x) = "dir" \/ LookupNoFollowFinal(o.v, new) # 0 THEN Failed(o)
       ELSE IF parent = 0 THEN Failed(o)
       ELSE IF TypeOf(o.v, parent) # "dir" THEN Failed(o)
       ELSE LinkFile(o, old, new)

\* Mutant: the destination is deleted without a look at the source.
RenameDeletesFirst(o, old, new) ==
    Then(DeleteFile(o, new, "file"), LAMBDA a : RenameFile(a, old, new, "file"))

\* An existing destination is deleted before the rename is tried.
HandleRenameSystemCall(o, old, new) ==
    LET x == Lookup(o.v, old)
        y == Lookup(o.v, new)
        type == TypeOf(o.v, x)
        Moved(a) == RenameFile(a, old, new, type)
    IN IF old = new THEN {o}
       ELSE IF x = 0 THEN Failed(o)
       ELSE IF type \notin {"file", "dir"} THEN Failed(o)
       ELSE IF y \in {0, x} THEN Moved(o)
       ELSE IF TypeOf(o.v, y) # type \/ (type = "dir" /\ o.v.Dentries[y].children # <<>>)
            THEN Failed(o)
       ELSE Then(DeleteFile(o, new, type), Moved)

\* Deleting a file with a double indirect block stops half way.
StopsHalfWay(path) ==
    LET parent == ResolveParentInode(Disk, path)
    IN path # <<>> /\ parent # 0 /\
       LET e == FindEntryInDirectory(Disk, parent, Last(path))
       IN e # NoEntry /\ Disk.inode[e.ino].large
LargeFile(path) == IF Tree.isEXT /\ StopsHalfWay(path) THEN {"large file"} ELSE {}

Open(p) == Usable(p) /\ Perform(HandleOpenSystemCall(Current, EffectivePath(p)), {})
OpenAt(base, p) ==
    ~p.abs /\ Perform(HandleOpenSystemCall(Current, EffectivePathFrom(base, p)), {})
Mkdir(p) == Usable(p) /\ Perform(HandleMkdirSystemCall(Current, EffectivePath(p)), {})
Rmdir(p) == Usable(p) /\ Perform(HandleRmdirSystemCall(Current, EffectivePath(p)), {})
Unlink(p) ==
    Usable(p) /\
    Perform(HandleUnlinkSystemCall(Current, EffectivePath(p)), LargeFile(EffectivePath(p)))
Link(p, q) ==
    Usable(p) /\ Usable(q) /\ EffectivePath(q) # <<>> /\
    Perform(HandleLinkSystemCall(Current, EffectivePath(p), EffectivePath(q)), {"link"})
Rename(p, q) ==
    Usable(p) /\ Usable(q) /\
    PerformRename(HandleRenameSystemCall(Current, EffectivePath(p), EffectivePath(q)),
                  LargeFile(EffectivePath(q)),
                  LookupNoFollowFinal(Tree, EffectivePath(p)), EffectivePath(q))

Chdir(p) ==
    /\ Usable(p) /\ Calls < MaxCalls
    /\ LET x == Lookup(Tree, EffectivePath(p))
       IN /\ x \notin {0, Cwd}
          /\ TypeOf(Tree, x) = "dir"
          /\ Cwd' = x
    /\ Calls' = Calls + 1
    /\ Renamed' = NoRename
    /\ UNCHANGED <<Tree, Disk, Faults, Departures>>

\* The path is looked up from Root even when it is relative; every process gets the new root.
Chroot(p) ==
    /\ Calls < MaxCalls
    /\ LET x == Lookup(Tree, p.segs)
       IN /\ x # 0
          /\ TypeOf(Tree, x) = "dir"
          /\ Tree' = SetRoot(Tree, x) /\ Cwd' = x
    /\ Calls' = Calls + 1
    /\ Renamed' = NoRename
    /\ UNCHANGED <<Disk, Faults, Departures>>

\* mount -t ext2, of the only partition, once.
MountExt(path) ==
    /\ Tree.Mounted = 0 /\ Calls < MaxCalls
    /\ Tree' = MountEXTFileSystem(Current, path, LinkTarget).v
    /\ LET x == Lookup(Tree, path)
           covers == x # 0 /\ Tree.Dentries[x].children # <<>>
       IN Departures' = Departures \cup (IF covers THEN {"covers files"} ELSE {})
    /\ Calls' = Calls + 1
    /\ Renamed' = NoRename
    /\ UNCHANGED <<Disk, Cwd, Faults>>
-----------------------------------------------------------------------------
(* proc and sysfs are ordinary files, made when they are mounted.          *)

EnsureDirectory(o, path) ==
    LET x == Lookup(o.v, path)
    IN IF x # 0 THEN {[o EXCEPT !.ok = TypeOf(o.v, x) = "dir"]} ELSE CreateFile(o, path, "dir")

EnsureTextFile(o, path) ==
    LET Check(a) == LET x == Lookup(a.v, path)
                    IN {[a EXCEPT !.ok = IF x = 0 THEN FALSE ELSE TypeOf(a.v, x) = "file"]}
    IN IF Lookup(o.v, path) # 0 THEN Check(o) ELSE Then(CreateFile(o, path, "file"), Check)

EnsureSymlink(o, path, target) ==
    LET SetTarget(a) ==
            LET x == LookupNoFollowFinal(a.v, path)
            IN IF x = 0 THEN Failed(a)
               ELSE IF TypeOf(a.v, x) # "symlink" THEN Failed(a)
               ELSE {[a EXCEPT !.v.INodes[a.v.Dentries[x].inode].target = target]}
    IN IF LookupNoFollowFinal(o.v, path) # 0 THEN SetTarget(o)
       ELSE Then(CreateFile(o, path, "symlink"), SetTarget)

\* One file of proc or sysfs; its symbolic link leads to a directory of sysfs.
EnsureFile(o, path, e) ==
    CASE e.type = "dir" -> EnsureDirectory(o, path \o e.segs)
      [] e.type = "file" -> EnsureTextFile(o, path \o e.segs)
      [] OTHER -> EnsureSymlink(o, path \o e.segs, [abs |-> TRUE, segs |-> path \o SysTree[1].segs])

\* proc gives up at the first file it cannot make.
InitializeProcFileSystem(o, path) ==
    FoldLeft(LAMBDA S, e : Then(S, LAMBDA a : EnsureFile(a, path, e)),
             EnsureDirectory(o, path), ProcTree)

\* sysfs goes on without it.
InitializeSysFileSystem(o, path) ==
    FoldLeft(LAMBDA S, e : UNION {{[c EXCEPT !.ok = TRUE] : c \in EnsureFile(a, path, e)} : a \in S},
             {a \in EnsureDirectory(o, path) : a.ok}, SysTree)
    \cup {a \in EnsureDirectory(o, path) : ~a.ok}

MountProc(path) == Perform(InitializeProcFileSystem(Current, path), {})
MountSys(path) == Perform(InitializeSysFileSystem(Current, path), {})
-----------------------------------------------------------------------------
Next ==
    \/ \E p \in CreatePaths : Open(p) \/ Mkdir(p)
    \/ \E p \in CreatePaths, x \in Directories : OpenAt(x, p)
    \/ \E p \in Paths : Rmdir(p) \/ Unlink(p) \/ Chdir(p) \/ Chroot(p)
    \/ \E p \in Paths, q \in CreatePaths : Link(p, q) \/ Rename(p, q)
    \/ \E p \in MountPaths : MountExt(p) \/ MountProc(p) \/ MountSys(p)

Spec == Init /\ [][Next]_vars
-----------------------------------------------------------------------------
(* Looking up.  Calls that change nothing: the dentry each of them finds.  *)

HandleStatSystemCall(p) == Lookup(Tree, EffectivePath(p))
HandleAccessSystemCall(p) == Lookup(Tree, EffectivePath(p))
HandleLstatSystemCall(p) == LookupNoFollowFinal(Tree, EffectivePath(p))
HandleGetcwdSystemCall == BuildAbsolutePathFromDentry(Tree, Cwd)

\* Mutant: a symbolic link is returned where it should be followed.
SimpleChildNotFollowed(base, segs, follow) ==
    IF Len(segs) # 1 THEN 0 ELSE FindChildBySegment(Tree, base, segs[1])

\* A single name is looked for in the directory itself; 0: take the whole path.
ResolveSimpleRelativeChildDentry(base, segs, follow) ==
    IF Len(segs) # 1 THEN 0
    ELSE IF segs[1] = Dot THEN base
    ELSE IF segs[1] = DotDot
         THEN IF Tree.Dentries[base].parent # 0 THEN Tree.Dentries[base].parent ELSE base
    ELSE LET child == FindChildBySegment(Tree, base, segs[1])
         IN IF child = 0 THEN 0
            ELSE IF follow /\ TypeOf(Tree, child) = "symlink" THEN 0 ELSE child

LookupFrom(base, p, follow) == ResolvePathInternal(Tree, Tree.Root, EffectivePathFrom(base, p), follow)

HandleNewFstatatSystemCall(base, p, follow) ==
    LET child == IF p.abs THEN 0 ELSE ResolveSimpleRelativeChildDentry(base, p.segs, follow)
    IN IF child # 0 THEN child ELSE LookupFrom(base, p, follow)
HandleUtimensatSystemCall(base, p, follow) ==
    LET child == IF p.abs THEN 0 ELSE ResolveSimpleRelativeChildDentry(base, p.segs, follow)
    IN IF child # 0 THEN child ELSE LookupFrom(base, p, follow)
HandleFutimesatSystemCall(base, p) ==
    LET child == IF p.abs THEN 0 ELSE ResolveSimpleRelativeChildDentry(base, p.segs, TRUE)
    IN IF child # 0 THEN child ELSE LookupFrom(base, p, TRUE)
-----------------------------------------------------------------------------
(* Properties                                                              *)

\* The directories that can be reached on the disk, and what they list.
ReachableDirectories ==
    LET reached[k \in 0 .. InodesCount] ==
            IF k = 0 THEN {EXT2_ROOT_INODE_NUMBER}
            ELSE reached[k - 1] \cup
                 {e.ino : e \in {x \in UNION {EntriesOf(Disk, i) : i \in reached[k - 1]} :
                                    x.type = "dir" /\ x.name # DotDot}}
    IN reached[InodesCount]
Listed(i) == {e \in EntriesOf(Disk, i) : e.name \notin {Dot, DotDot}}
BlocksOf(i) ==
    LET single == Disk.inode[i].single
    IN (Range(Disk.inode[i].ptr) \cup {single} \cup (IF single = 0 THEN {} ELSE Range(Disk.pointers[single]))) \ {0}

\* Whichever one transfer fails, in the middle of whatever call: a name on the disk leads to
\* an inode in use, of the type the entry says, that no other name leads to; the blocks of
\* the files and directories that can be reached are in use, and belong to one of them; the
\* records of a directory fill its blocks; and the directories are counted in their groups.
\* Calls that stop half way only lose space.  (A second failure, of rename's undoing, leaves
\* two names.)
DiskIsSound ==
    LET dirs == ReachableDirectories
        listed == UNION {{<<i, e>> : e \in Listed(i)} : i \in dirs}
        inodes == {x[2].ino : x \in listed} \cup {EXT2_ROOT_INODE_NUMBER}
    IN /\ \A x \in listed : x[2].ino \in Disk.InodeBitmap /\ Disk.inode[x[2].ino].type = x[2].type
       /\ Cardinality(inodes) = Cardinality(listed) + 1
       /\ Cardinality({<<x[1], x[2].name>> : x \in listed}) = Cardinality(listed)
       /\ UNION {BlocksOf(i) : i \in inodes} \subseteq Disk.BlockBitmap
       /\ MapThenSumSet(LAMBDA i : Cardinality(BlocksOf(i)), inodes)
              = Cardinality(UNION {BlocksOf(i) : i \in inodes})
       /\ \A i \in dirs : \A b \in BlocksOf(i) :
             FoldLeft(LAMBDA units, e : units + e.len, 0, Disk.dir[b]) = BlockUnits
       /\ \A g \in 0 .. InodeGroupCount - 1 :
             Cardinality({i \in dirs : InodeGroup(i) = g}) <= Disk.UsedDirectories[g]

\* As long as no transfer fails, the free counts of the groups are those of their bitmaps,
\* and the manager's and the superblock's are their sums.
CountersAreExact ==
    Faults = 0 =>
        /\ \A g \in 0 .. InodeGroupCount - 1 : Disk.GroupFreeInodes[g] =
              Cardinality({i \in Inodes \ Disk.InodeBitmap : InodeGroup(i) = g})
        /\ \A g \in 0 .. BlockGroupCount - 1 : Disk.GroupFreeBlocks[g] =
              Cardinality({b \in Blocks \ Disk.BlockBitmap : BlockGroup(b) = g})
        /\ Disk.super = <<Cardinality(Inodes \ Disk.InodeBitmap), Cardinality(Blocks \ Disk.BlockBitmap)>>
        /\ Disk.super = <<Disk.FreeInodesCount, Disk.FreeBlocksCount>>

\* As long as no transfer fails, a directory on the disk has a link for itself, its entry and
\* each directory in it, and "." and ".." lead where they should, wherever it is moved.
DirectoriesAreLinked ==
    Faults = 0 =>
        \A i \in ReachableDirectories :
            LET inside == {e \in Listed(i) : e.type = "dir"}
            IN /\ Disk.inode[i].links = 2 + Cardinality(inside)
               /\ FindEntryInDirectory(Disk, i, Dot).ino = i
               /\ \A e \in inside : FindEntryInDirectory(Disk, e.ino, DotDot).ino = i

Below(x) == Subtree(Tree, x)

\* The tree in memory is one: a child's parent has it as a child, once; siblings have
\* different names; nothing is its own ancestor; an inode lives as long as it has names,
\* and counts them.
TreeIsSound ==
    /\ \A x \in DOMAIN Tree.Dentries :
          /\ Tree.Dentries[x].inode \in DOMAIN Tree.INodes
          /\ ChildrenOf(Tree, x) \subseteq DOMAIN Tree.Dentries
          /\ \A y \in ChildrenOf(Tree, x) : Tree.Dentries[y].parent = x \/ Tree.Dentries[y].name = RootName
          /\ Cardinality({Tree.Dentries[y].name : y \in ChildrenOf(Tree, x)}) = Len(Tree.Dentries[x].children)
          /\ LET up == Tree.Dentries[x].parent
             IN IF up = 0 THEN x = Tree.Root \/ x = InitTree.Root \/ Tree.Dentries[x].name = RootName
                ELSE up \in DOMAIN Tree.Dentries /\ x \in ChildrenOf(Tree, up)
    /\ DOMAIN Tree.Dentries = UNION {Below(x) : x \in {y \in DOMAIN Tree.Dentries : Tree.Dentries[y].parent = 0}}
    /\ \A n \in DOMAIN Tree.INodes :
          /\ Tree.INodes[n].links = Cardinality({x \in DOMAIN Tree.Dentries : Tree.Dentries[x].inode = n})
          /\ Tree.INodes[n].links > 0

\* What the VFS shows is what the disk has, from the mounted root down, the device files
\* apart: after any calls, unless a transfer failed, a second name was made, a file with
\* double indirect blocks was deleted, or the disk was changed while Root was elsewhere.
TreeIsTheDisks ==
    Departures = {} /\ Tree.Root = Tree.Mounted =>
        LET shown == Below(Tree.Root)
            at[x \in shown] ==
                IF x = Tree.Root THEN EXT2_ROOT_INODE_NUMBER
                ELSE FindEntryInDirectory(Disk, at[Tree.Dentries[x].parent], Tree.Dentries[x].name).ino
            devices == LET dev == FindChildBySegment(Tree, Tree.Root, DEV_DIRECTORY_NAME)
                       IN IF dev = 0 THEN {} ELSE Below(dev)
        IN \A x \in shown \ devices :
              TypeOf(Tree, x) = "dir" =>
                  {<<Tree.Dentries[y].name, TypeOf(Tree, y)>> : y \in ChildrenOf(Tree, x) \ devices}
                      = {<<e.name, e.type>> : e \in Listed(at[x])}

\* A rename that fails leaves the file where it was, one that succeeds moves it, whatever
\* transfer fails on the way and although an existing destination is deleted first.  Not so
\* for a destination above the file: on the RAM file system a plain file can have children,
\* and is deleted with them.
RenameMovesOrKeeps ==
    [][LET x == Renamed'.x
           new == Renamed'.new
           y == Lookup(Tree, new)
           found == LookupNoFollowFinal(Tree, new)
       IN x # 0 /\ ~(y # 0 /\ y # x /\ y \in SelfAndAbove(Tree, x)) =>
              IF Renamed'.ok
              THEN /\ LookupNoFollowFinal(Tree', new) = x
                   /\ found # x => <<Tree'.Dentries[x].parent, Tree'.Dentries[x].name>>
                                    # <<Tree.Dentries[x].parent, Tree.Dentries[x].name>>
              ELSE /\ x \in DOMAIN Tree'.Dentries
                   /\ Tree'.Dentries[x].name = Tree.Dentries[x].name
                   /\ Tree'.Dentries[x].parent = Tree.Dentries[x].parent]_vars

\* The directories a path from Root can lead to: in the RAM file system a file can have
\* children too.
BaseDirectories ==
    {x \in Below(Tree.Root) : \A y \in SelfAndAbove(Tree, x) : TypeOf(Tree, y) = "dir"}

\* The calls that look a name up in its directory first and those that compose a whole path
\* find the same file; and the path of a directory, as getcwd gives it, leads back to it.
LookupsAgree ==
    LET Relative(name) == [abs |-> FALSE, segs |-> <<name>>]
        NamesIn(base) == {DotDot} \cup {Tree.Dentries[y].name : y \in ChildrenOf(Tree, base)}
    IN /\ \A base \in BaseDirectories : \A name \in NamesIn(base), follow \in BOOLEAN :
             LET found == LookupFrom(base, Relative(name), follow)
             IN /\ HandleNewFstatatSystemCall(base, Relative(name), follow) = found
                /\ HandleUtimensatSystemCall(base, Relative(name), follow) = found
                /\ follow => HandleFutimesatSystemCall(base, Relative(name)) = found
       /\ Cwd \in BaseDirectories =>
             /\ Lookup(Tree, HandleGetcwdSystemCall) = Cwd
             /\ \A name \in NamesIn(Cwd) :
                   /\ {HandleStatSystemCall(Relative(name)), HandleAccessSystemCall(Relative(name))}
                         = {HandleNewFstatatSystemCall(Cwd, Relative(name), TRUE)}
                   /\ HandleLstatSystemCall(Relative(name))
                         = HandleNewFstatatSystemCall(Cwd, Relative(name), FALSE)

=============================================================================
