--------------------------- MODULE VirtualFileSystem ---------------------------
(***************************************************************************)
(* VirtualFileSystem.cpp: the tree of dentries in memory and the calls     *)
(* that change it together with the mounted ext2 disk.                     *)
(*                                                                         *)
(* A tree v has a Root, the dentries and the inodes in use.  A dentry or   *)
(* an inode is a number, its address; 0 is a null pointer.  Paths are      *)
(* sequences of names from Root; an outcome o has a tree v as well.        *)
(***************************************************************************)
EXTENDS ExtendedFileSystem

CONSTANTS MAX_SYMLINK_FOLLOW_DEPTH

ASSUME DepthAssumption == MAX_SYMLINK_FOLLOW_DEPTH \in Nat

DEV_DIRECTORY_NAME == "dev"
RootName == "/"
NoTarget == [abs |-> FALSE, segs |-> <<"none">>]

\* An address that nothing lives at.
Unused(f) == CHOOSE x \in 1 .. Cardinality(DOMAIN f) + 1 : x \notin DOMAIN f
Without(f, S) == [x \in DOMAIN f \ S |-> f[x]]
With(f, x, y) == [z \in DOMAIN f \cup {x} |-> IF z = x THEN y ELSE f[z]]

CreateINode(type, ext) ==
    [type |-> type, links |-> 1, virtual |-> FALSE, ext |-> ext, target |-> NoTarget]
CreateDentry(name, parent, inode) ==
    [name |-> name, parent |-> parent, inode |-> inode, children |-> <<>>]

INodeOf(v, x) == v.INodes[v.Dentries[x].inode]
TypeOf(v, x) == INodeOf(v, x).type
ChildrenOf(v, x) == Range(v.Dentries[x].children)
-----------------------------------------------------------------------------
(* The tree                                                                *)

FindChildBySegment(v, x, name) ==
    LET matching == SelectSeq(v.Dentries[x].children, LAMBDA c : v.Dentries[c].name = name)
    IN IF matching = <<>> THEN 0 ELSE Head(matching)

\* A symbolic link's target replaces it in the path, from Root or from the link's parent.
ResolvePathInternal(v, start, segments, follow) ==
    LET walk[depth \in Nat, x \in Nat, segs \in Seq(STRING)] ==
            IF segs = <<>> THEN x
            ELSE LET name == Head(segs)
                     rest == Tail(segs)
                     up == v.Dentries[x].parent
                     next == FindChildBySegment(v, x, name)
                 IN IF name = Dot THEN walk[depth, x, rest]
                    ELSE IF name = DotDot THEN walk[depth, IF up # 0 THEN up ELSE x, rest]
                    ELSE IF next = 0 THEN 0
                    ELSE IF TypeOf(v, next) # "symlink" \/ (rest = <<>> /\ ~follow)
                         THEN walk[depth, next, rest]
                    ELSE LET target == INodeOf(v, next).target
                         IN IF depth = 0 \/ target = NoTarget THEN 0
                            ELSE walk[depth - 1, IF target.abs THEN v.Root ELSE v.Dentries[next].parent,
                                      target.segs \o rest]
    IN walk[MAX_SYMLINK_FOLLOW_DEPTH, start, segments]

Lookup(v, segments) == ResolvePathInternal(v, v.Root, segments, TRUE)
LookupNoFollowFinal(v, segments) == ResolvePathInternal(v, v.Root, segments, FALSE)

\* x and the dentries above it.
SelfAndAbove(v, x) ==
    LET up[y \in Nat] == IF y = 0 THEN {} ELSE {y} \cup up[v.Dentries[y].parent] IN up[x]

\* x and the dentries below it.
Subtree(v, x) ==
    LET down[y \in Nat] == {y} \cup UNION {down[c] : c \in ChildrenOf(v, y)} IN down[x]

IsDescendantDentry(v, x, above) == above \in SelfAndAbove(v, x)

AppendChild(v, parent, x) ==
    [v EXCEPT !.Dentries[parent].children = Append(@, x), !.Dentries[x].parent = parent]

RemoveChild(v, parent, x) ==
    [v EXCEPT !.Dentries[parent].children = SelectSeq(@, LAMBDA c : c # x)]

\* x and all below it go; an inode goes with the last of its names.
FreeDentryTree(v, x) ==
    LET gone == Subtree(v, x)
        Names(n) == Cardinality({y \in gone : v.Dentries[y].inode = n})
        left == [n \in DOMAIN v.INodes |-> [v.INodes[n] EXCEPT !.links = @ - Names(n)]]
    IN [v EXCEPT !.Dentries = Without(@, gone),
                 !.INodes = Without(left, {n \in DOMAIN left : left[n].links <= 0})]

AddDentry(v, parent, name, inode) ==
    LET x == Unused(v.Dentries)
    IN AppendChild([v EXCEPT !.Dentries = With(@, x, CreateDentry(name, parent, inode))], parent, x)

AddNew(v, parent, name, inode) ==
    LET n == Unused(v.INodes)
    IN AddDentry([v EXCEPT !.INodes = With(@, n, inode)], parent, name, n)

\* Missing directories on the way are made; the names "." and ".." are names like
\* any other here.  The last dentry is overwritten when there is one.
EnsurePathDentry(v, segments, type, ext) ==
    LET Step(a, k) ==
            LET child == FindChildBySegment(a.v, a.at, segments[k])
                final == k = Len(segments)
                made == AddNew(a.v, a.at, segments[k],
                               IF final THEN CreateINode(type, ext) ELSE CreateINode("dir", FALSE))
            IN IF child = 0 THEN [v |-> made, at |-> Last(made.Dentries[a.at].children)]
               ELSE IF final
                    THEN [v |-> [a.v EXCEPT !.INodes[a.v.Dentries[child].inode] =
                                    [@ EXCEPT !.type = type, !.ext = ext, !.target = NoTarget]],
                          at |-> child]
                    ELSE [v |-> a.v, at |-> child]
    IN IF segments = <<>>
       THEN [v EXCEPT !.INodes[v.Dentries[v.Root].inode] = [@ EXCEPT !.type = "dir", !.ext = FALSE]]
       ELSE FoldLeft(Step, [v |-> v, at |-> v.Root], [k \in DOMAIN segments |-> k]).v
-----------------------------------------------------------------------------
(* Mounting                                                                *)

\* The paths of a disk's directories and files, parents first, as
\* EnumerateDirectoryEntries calls back: a symbolic link has its target.
EnumerateEntries(d) ==
    LET EntriesInOrder(i) ==
            SelectSeq(FlattenSeq([k \in 1 .. DirectPointers |->
                          IF d.inode[i].ptr[k] = 0 THEN <<>> ELSE d.dir[d.inode[i].ptr[k]]]),
                      LAMBDA e : e.ino # 0 /\ e.name \notin {Dot, DotDot})
        below[i \in Inodes, k \in 0 .. InodesCount] ==
            IF k = 0 THEN <<>>
            ELSE FlattenSeq([j \in DOMAIN EntriesInOrder(i) |->
                     LET e == EntriesInOrder(i)[j]
                         inner == IF e.type = "dir" THEN below[e.ino, k - 1] ELSE <<>>
                     IN <<[segs |-> <<e.name>>, type |-> e.type]>>
                        \o [m \in DOMAIN inner |-> [inner[m] EXCEPT !.segs = <<e.name>> \o @]]])
    IN <<[segs |-> <<>>, type |-> "dir"]>> \o below[EXT2_ROOT_INODE_NUMBER, InodesCount]

MountEXTEntryCallback(v, path, e, targets) ==
    LET added == EnsurePathDentry(v, path \o e.segs, e.type, e.type = "dir")
        x == LookupNoFollowFinal(added, path \o e.segs)
    IN IF e.type # "symlink" THEN added
       ELSE [added EXCEPT !.INodes[added.Dentries[x].inode].target = targets[e.segs]]

\* The disk is in use from here on, though Root is not its root directory.
MountEXTFileSystem(o, path, targets) ==
    LET v == FoldLeft(LAMBDA a, e : MountEXTEntryCallback(a, path, e, targets),
                      EnsurePathDentry(o.v, path, "dir", TRUE), EnumerateEntries(o.d))
    IN [o EXCEPT !.v = [v EXCEPT !.isEXT = TRUE, !.Mounted = Lookup(v, path)]]

RegisterDevice(v, segments) == EnsurePathDentry(v, segments, "device", FALSE)

\* The device files follow the root, into its own /dev when it has one.
TransferDevDirectoryIfMissing(v, from, to) ==
    LET dev == FindChildBySegment(v, from, DEV_DIRECTORY_NAME)
        existing == FindChildBySegment(v, to, DEV_DIRECTORY_NAME)
        Move(a, x) ==
            IF FindChildBySegment(a, existing, v.Dentries[x].name) # 0 THEN a
            ELSE AppendChild(RemoveChild(a, dev, x), existing, x)
    IN IF from = to \/ dev = 0 THEN v
       ELSE IF IsDescendantDentry(v, to, dev) THEN v
       ELSE IF existing = 0 THEN AppendChild(RemoveChild(v, from, dev), to, dev)
       ELSE IF TypeOf(v, existing) # "dir" THEN v
       ELSE FoldLeft(Move, v, v.Dentries[dev].children)

\* The new root stays a child of its old parent, under the name "/".
SetRoot(v, x) ==
    LET moved == TransferDevDirectoryIfMissing([v EXCEPT !.Dentries[x].name = RootName], v.Root, x)
    IN [moved EXCEPT !.Dentries[x].parent = 0, !.Root = x, !.isEXT = INodeOf(v, x).ext]
-----------------------------------------------------------------------------
(* Creating, linking, deleting, renaming.  The disk is changed first.      *)

\* Mutant: the tree is changed even when the disk is not.
CreateFileAnyway(o, segments, type) ==
    IF Lookup(o.v, segments) # 0 THEN Failed(o)
    ELSE {[a EXCEPT !.v = EnsurePathDentry(@, segments, type, type = "dir")] :
             a \in ExtCreateFile(o, segments, type)}

CreateFile(o, segments, type) ==
    LET Ensure(a, ext) == {[a EXCEPT !.v = EnsurePathDentry(@, segments, type, ext)]}
    IN IF Lookup(o.v, segments) # 0 THEN Failed(o)
       ELSE IF o.v.isEXT
            THEN Then(ExtCreateFile(o, segments, type), LAMBDA a : Ensure(a, type = "dir"))
            ELSE Ensure(o, FALSE)

\* The directory that the last name of a path goes into, walked by plain names; 0 if none.
TargetParent(v, segments) ==
    FoldLeft(LAMBDA x, name :
                 IF x = 0 \/ name \in {Dot, DotDot} THEN 0
                 ELSE LET next == FindChildBySegment(v, x, name)
                      IN IF next = 0 THEN 0 ELSE IF TypeOf(v, next) = "dir" THEN next ELSE 0,
             v.Root, Front(segments))

FreshName(v, segments) ==
    /\ segments # <<>> /\ LookupNoFollowFinal(v, segments) = 0
    /\ Last(segments) \notin {Dot, DotDot}
    /\ TargetParent(v, segments) # 0
    /\ FindChildBySegment(v, TargetParent(v, segments), Last(segments)) = 0

\* A second name lives in memory only.
LinkFile(o, old, new) ==
    LET x == LookupNoFollowFinal(o.v, old)
        n == o.v.Dentries[x].inode
        counted == [o.v EXCEPT !.INodes[n] = [@ EXCEPT !.links = @ + 1,
                                                       !.virtual = @ \/ o.v.isEXT]]
    IN IF x \in {0, o.v.Root} THEN Failed(o)
       ELSE IF TypeOf(o.v, x) # "file" \/ ~FreshName(o.v, new) THEN Failed(o)
       ELSE {[o EXCEPT !.v = AddDentry(counted, TargetParent(o.v, new), Last(new), n)]}

\* A file that ever had a second name stays on the disk.
DeleteFile(o, segments, type) ==
    LET x == LookupNoFollowFinal(o.v, segments)
        Drop(a) == {[a EXCEPT !.v = FreeDentryTree(RemoveChild(@, @.Dentries[x].parent, x), x)]}
    IN IF x \in {0, o.v.Root} THEN Failed(o)
       ELSE IF \/ o.v.Dentries[x].parent = 0 \/ TypeOf(o.v, x) # type
               \/ type = "dir" /\ o.v.Dentries[x].children # <<>>
       THEN Failed(o)
       ELSE IF o.v.isEXT /\ ~(type = "file" /\ INodeOf(o.v, x).virtual)
            THEN Then(ExtDeleteFile(o, segments, type), Drop)
            ELSE Drop(o)

\* Mutant: a directory may move into itself.
MayRenameAnywhere(v, x, new) == FreshName(v, new)

MayRename(v, x, new) ==
    FreshName(v, new) /\ ~(TypeOf(v, x) = "dir" /\ IsDescendantDentry(v, TargetParent(v, new), x))

RenameFile(o, old, new, type) ==
    LET x == LookupNoFollowFinal(o.v, old)
        existing == LookupNoFollowFinal(o.v, new)
        Move(a) == {[a EXCEPT !.v =
            [AppendChild(RemoveChild(@, @.Dentries[x].parent, x), TargetParent(@, new), x)
                EXCEPT !.Dentries[x].name = Last(new)]]}
    IN IF x \in {0, o.v.Root} THEN Failed(o)
       ELSE IF o.v.Dentries[x].parent = 0 \/ TypeOf(o.v, x) # type THEN Failed(o)
       ELSE IF existing # 0 THEN {[o EXCEPT !.ok = existing = x]}
       ELSE IF ~MayRename(o.v, x, new) THEN Failed(o)
       ELSE IF o.v.isEXT THEN Then(ExtRenameFile(o, old, new, type), Move) ELSE Move(o)
=============================================================================
