---------------------------- MODULE MCFileSystem ----------------------------
(***************************************************************************)
(* The initial RAM file system has /dev with one device, /mnt and a file   *)
(* /a.  The image has a file /a, with a direct and an indirect block, a    *)
(* file /d with double indirect ones, and a link /l to /b.  Six records    *)
(* fit in a directory block: the root directory's has room for one more.   *)
(***************************************************************************)
EXTENDS FileSystem

MCDentry(name, parent, inode, children) ==
    [CreateDentry(name, parent, inode) EXCEPT !.children = children]

MCTree ==
    [Root |-> 1, Mounted |-> 0, isEXT |-> FALSE,
     Dentries |-> <<MCDentry("/", 0, 1, <<2, 4, 5>>), MCDentry("dev", 1, 2, <<3>>),
                    MCDentry("tty", 2, 3, <<>>), MCDentry("mnt", 1, 4, <<>>),
                    MCDentry("a", 1, 5, <<>>)>>,
     INodes |-> [n \in 1 .. 5 |-> CreateINode(IF n = 3 THEN "device" ELSE IF n = 5 THEN "file" ELSE "dir", FALSE)]]

MCDisk ==
    [InodeBitmap |-> 1 .. 5, BlockBitmap |-> 1 .. 5,
     FreeInodesCount |-> InodesCount - 5, FreeBlocksCount |-> BlocksCount - 1 - 5,
     super |-> <<InodesCount - 5, BlocksCount - 1 - 5>>,
     GroupFreeInodes |-> [g \in 0 .. InodeGroupCount - 1 |->
         Cardinality({i \in 6 .. InodesCount : InodeGroup(i) = g})],
     GroupFreeBlocks |-> [g \in 0 .. BlockGroupCount - 1 |->
         Cardinality({b \in 6 .. BlocksCount - 1 : BlockGroup(b) = g})],
     UsedDirectories |-> [g \in 0 .. InodeGroupCount - 1 |-> IF g = 0 THEN 1 ELSE 0],
     inode |-> [i \in Inodes |->
         CASE i = 2 -> [ClearedInode EXCEPT !.type = "dir", !.links = 2, !.ptr[1] = 1]
           [] i = 3 -> [ClearedInode EXCEPT !.type = "file", !.links = 1, !.ptr[1] = 2, !.single = 3]
           [] i = 4 -> [ClearedInode EXCEPT !.type = "symlink", !.links = 1]
           [] i = 5 -> [ClearedInode EXCEPT !.type = "file", !.links = 1, !.ptr[1] = 5, !.large = TRUE]
           [] OTHER -> ClearedInode],
     dir |-> [b \in Blocks |->
         IF b = 1 THEN <<Entry(2, Dot, "dir", 1), Entry(2, DotDot, "dir", 1), Entry(3, "a", "file", 1),
                         Entry(4, "l", "symlink", 1), Entry(5, "d", "file", BlockUnits - 4)>>
         ELSE <<>>],
     pointers |-> [b \in Blocks |-> IF b = 3 THEN <<4>> ELSE <<>>]]

MCDisks == {MCDisk}

Path(abs, segs) == [abs |-> abs, segs |-> segs]
MCLinkTarget == [segs \in {<<"l">>} |-> Path(TRUE, <<"b">>)]
MCPaths == {Path(TRUE, s) : s \in {<<"a">>, <<"b">>, <<"d">>, <<"l">>, <<"b", "a">>, <<"b", "b">>, <<"mnt">>,
                                   <<"b", "..", "a">>}}
           \cup {Path(FALSE, <<"a">>), Path(FALSE, <<"..">>)}
MCCreatePaths == {Path(TRUE, s) : s \in {<<"a">>, <<"b">>, <<"c">>, <<"b", "a">>, <<"l", "b">>}}
                 \cup {Path(FALSE, <<"b">>)}
MCMountPaths == {<<"mnt">>}
MCProcTree == <<[segs |-> <<"a">>, type |-> "dir"], [segs |-> <<"b">>, type |-> "file"]>>
MCSysTree == <<[segs |-> <<"b">>, type |-> "dir"], [segs |-> <<"l">>, type |-> "symlink"]>>
=============================================================================
