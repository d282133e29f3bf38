-------------------------------- MODULE Pipes --------------------------------
(***************************************************************************)
(* The pipes of InterProcessComunicationManager.cpp and the calls that     *)
(* reach them: pipe, dup2 and fcntl, close, read and write, and what fork, *)
(* execve and exit do to descriptors.                                      *)
(*                                                                         *)
(* A pipe object counts its readers and writers; the manager tracks one    *)
(* entry (owner, descriptor, node) per descriptor.  A node is an end of a  *)
(* pipe.  A call runs with interrupts disabled until it returns or sleeps  *)
(* for a tick, to look again: one action each.                             *)
(***************************************************************************)
EXTENDS PipeBuffer, FiniteSetsExt, BagsExt, Bags

CONSTANTS Processes,          \* process table entries
          InitProcess,        \* the one that never exits
          MaxFiles,           \* MAX_OPEN_FILES_PER_PROCESS
          MAX_TRACKED_PIPES,  \* entries of PipeEndpointList
          PipeIds,            \* addresses of pipe objects
          ChunkSize,          \* SYSCALL_COPY_CHUNK_SIZE
          ReadCounts,         \* how many bytes programs read at once
          Writes              \* what they write at once

ASSUME PipesAssumption ==
    /\ InitProcess \in Processes
    /\ MaxFiles \in Nat /\ MAX_TRACKED_PIPES \in Nat
    /\ ChunkSize \in Nat \ {0}
    /\ ReadCounts \subseteq Nat \ {0}
    /\ Bytes # {}
    /\ Writes \subseteq Seq(Bytes) \ {<<>>}

VARIABLES Pipes,             \* the pipe objects
          PipeEndpointList,  \* the tracked entries, a bag: their order does not matter
          FileTable,         \* the pipe end behind every descriptor
          Live,              \* the processes that exist
          Call,              \* the read or write a process sleeps in
          Moved              \* the bytes the last step took from a writer or gave to a reader

vars == <<Pipes, PipeEndpointList, FileTable, Live, Call, Moved>>

FileDescriptors == 0 .. MaxFiles - 1
Ends == {"read", "write"}
Nodes == [pipe : PipeIds, end : Ends]
Node(x, end) == [pipe |-> x, end |-> end]
NoFile == [pipe |-> "none", end |-> "none"]
\* An address without a pipe object: nothing refers to it.
NoPipe == [ring |-> EmptyRing(CHOOSE b \in Bytes : TRUE), References |-> [e \in Ends |-> 0]]
NoCall == [op |-> "none", fd |-> 0, left |-> 0, data |-> <<>>]

FreePipes == {x \in PipeIds : Pipes[x] = NoPipe}
OpenFiles(p) == {fd \in FileDescriptors : FileTable[p][fd] # NoFile}
EmptyTable == [fd \in FileDescriptors |-> NoFile]

\* The process is in user mode and may call.
MayCall(p) == p \in Live /\ Call[p] = NoCall

Init ==
    /\ Pipes = [x \in PipeIds |-> NoPipe]
    /\ PipeEndpointList = EmptyBag
    /\ FileTable = [p \in Processes |-> EmptyTable]
    /\ Live = {InitProcess}
    /\ Call = [p \in Processes |-> NoCall]
    /\ Moved = <<>>
-----------------------------------------------------------------------------
(* The manager.  h holds the objects, the entries and one process's table, *)
(* as the functions change them.                                           *)

Entry(p, fd, node) == [Owner |-> p, FileDescriptor |-> fd, Node |-> node]

AddReference(pipe, end) == [pipe EXCEPT !.References[end] = @ + 1]

\* Mutant: only readers are counted.
DuplicatePipeDescriptorReaders(h, p, fd, node) ==
    IF \A e \in BagToSet(h.list) : e.Node # node THEN h
    ELSE IF BagCardinality(h.list) >= MAX_TRACKED_PIPES THEN [h EXCEPT !.failed = TRUE]
         ELSE [h EXCEPT !.pipes[node.pipe] = AddReference(@, "read"),
                        !.list = BagAdd(@, Entry(p, fd, node))]

DuplicatePipeDescriptor(h, p, fd, node) ==
    IF \A e \in BagToSet(h.list) : e.Node # node THEN h
    ELSE IF BagCardinality(h.list) >= MAX_TRACKED_PIPES THEN [h EXCEPT !.failed = TRUE]
         ELSE [h EXCEPT !.pipes[node.pipe] = AddReference(@, node.end),
                        !.list = BagAdd(@, Entry(p, fd, node))]

\* One reference less; without any the pipe and its nodes are deleted.
DropReference(pipe, end) ==
    LET left == [pipe EXCEPT !.References[end] = IF @ > 0 THEN @ - 1 ELSE @]
    IN IF \A e \in Ends : left.References[e] = 0 THEN NoPipe ELSE left

\* Mutant: the descriptor is not compared.
ClosePipeAnyDescriptor(h, p, fd, node) ==
    LET matching == {e \in BagToSet(h.list) : e.Owner = p /\ e.Node = node}
    IN IF matching = {} THEN h
       ELSE [h EXCEPT !.pipes[node.pipe] = DropReference(@, node.end),
                      !.list = BagRemove(@, CHOOSE e \in matching : TRUE)]

ClosePipe(h, p, fd, node) ==
    IF ~BagIn(Entry(p, fd, node), h.list) THEN h
    ELSE [h EXCEPT !.pipes[node.pipe] = DropReference(@, node.end),
                   !.list = BagRemove(@, Entry(p, fd, node))]

\* HandleCloseSystemCall, for a descriptor that is open.
CloseDescriptor(h, p, fd) ==
    [ClosePipe(h, p, fd, h.table[fd]) EXCEPT !.table[fd] = NoFile]

\* The file is copied, then its pipe told; an error takes the copy back.
CopyDescriptor(h, p, fd, node) ==
    LET copied == DuplicatePipeDescriptor([h EXCEPT !.table[fd] = node], p, fd, node)
    IN IF copied.failed THEN [copied EXCEPT !.table[fd] = NoFile] ELSE copied

Current(p) == [pipes |-> Pipes, list |-> PipeEndpointList, table |-> FileTable[p],
               failed |-> FALSE]

Becomes(p, h) ==
    /\ Pipes' = h.pipes
    /\ PipeEndpointList' = h.list
    /\ FileTable' = [FileTable EXCEPT ![p] = h.table]
    /\ Moved' = <<>>
-----------------------------------------------------------------------------
(* Descriptors                                                             *)

\* pipe: the two lowest free descriptors.
CreatePipe(p, x) ==
    LET free == FileDescriptors \ OpenFiles(p)
        r == Min(free)
        w == Min(free \ {r})
        pipe == [NoPipe EXCEPT !.References = [e \in Ends |-> 1]]
    IN /\ MayCall(p)
       /\ Cardinality(free) >= 2
       /\ BagCardinality(PipeEndpointList) + 2 <= MAX_TRACKED_PIPES
       /\ x \in FreePipes
       /\ Becomes(p, [pipes |-> [Pipes EXCEPT ![x] = pipe],
                      list |-> BagAdd(BagAdd(PipeEndpointList, Entry(p, r, Node(x, "read"))),
                                      Entry(p, w, Node(x, "write"))),
                      table |-> [FileTable[p] EXCEPT ![r] = Node(x, "read"),
                                                     ![w] = Node(x, "write")]])
       /\ UNCHANGED <<Live, Call>>

Close(p, fd) ==
    /\ MayCall(p)
    /\ fd \in OpenFiles(p)
    /\ Becomes(p, CloseDescriptor(Current(p), p, fd))
    /\ UNCHANGED <<Live, Call>>

\* What is open at the new descriptor is closed first, and stays closed on error.
Dup2(p, old, new) ==
    LET h == IF new \in OpenFiles(p) THEN CloseDescriptor(Current(p), p, new) ELSE Current(p)
    IN /\ MayCall(p)
       /\ old \in OpenFiles(p) /\ old # new
       /\ Becomes(p, CopyDescriptor(h, p, new, FileTable[p][old]))
       /\ UNCHANGED <<Live, Call>>

\* fcntl(F_DUPFD): the lowest free descriptor from the given one on.
DupFd(p, old, minimum) ==
    LET free == {fd \in FileDescriptors \ OpenFiles(p) : fd >= minimum}
    IN /\ MayCall(p)
       /\ old \in OpenFiles(p)
       /\ free # {}
       /\ Becomes(p, CopyDescriptor(Current(p), p, Min(free), FileTable[p][old]))
       /\ UNCHANGED <<Live, Call>>

\* One iteration of CopyProcess over the parent's files.
CopyFile(h, p, child, fd) ==
    IF h.failed \/ FileTable[p][fd] = NoFile THEN h
    ELSE CopyDescriptor(h, child, fd, FileTable[p][fd])

\* CopyProcess: every file in turn.
CopyFiles(p, child) ==
    LET copied[n \in 0 .. MaxFiles] ==
            IF n = 0 THEN [Current(p) EXCEPT !.table = EmptyTable]
            ELSE CopyFile(copied[n - 1], p, child, n - 1)
    IN copied[MaxFiles]

\* When a file cannot be tracked the child is killed, and the entries made for
\* it stay.
Fork(p, child) ==
    LET h == CopyFiles(p, child)
    IN /\ MayCall(p)
       /\ child \notin Live
       /\ Becomes(child, IF h.failed THEN [h EXCEPT !.table = EmptyTable] ELSE h)
       /\ Live' = IF h.failed THEN Live ELSE Live \cup {child}
       /\ UNCHANGED Call

\* ReleaseProcessFileTable deletes the files and tells no pipe.
Exit(p) ==
    /\ p \in Live \ {InitProcess}
    /\ Becomes(p, [Current(p) EXCEPT !.table = EmptyTable])
    /\ Live' = Live \ {p}
    /\ Call' = [Call EXCEPT ![p] = NoCall]

\* Neither does execve for the descriptors marked FD_CLOEXEC.
Execve(p) ==
    /\ MayCall(p)
    /\ \E marked \in SUBSET OpenFiles(p) :
         Becomes(p, [Current(p) EXCEPT !.table =
                        [fd \in FileDescriptors |-> IF fd \in marked THEN NoFile ELSE @[fd]]])
    /\ UNCHANGED <<Live, Call>>
-----------------------------------------------------------------------------
(* read and write.  HandleReadSystemCall and HandleWriteSystemCall go      *)
(* chunk by chunk until one comes out short.                               *)

\* The loop goes on after n of all bytes: every chunk so far was full.
AnotherChunk(n, all) == n < all /\ n % ChunkSize = 0

\* Mutant: an empty pipe is always waited for.
ReadBlocksWithoutWriters(pipe, n, left) == AnotherChunk(n, left)

\* PipeRead sleeps when the pipe is empty and somebody may still write.
ReadBlocks(pipe, n, left) == AnotherChunk(n, left) /\ pipe.References["write"] # 0

\* The rest of a read, O_NONBLOCK or not.
ReadOn(p, fd, left, nonblock) ==
    LET x == FileTable[p][fd].pipe
        ring == Pipes[x].ring
        n == Min({left, ring.BufferedBytes})
    IN /\ Pipes' = [Pipes EXCEPT ![x].ring = TakeBytes(ring, n)]
       /\ Moved' = FirstBytes(ring, n)
       /\ Call' = [Call EXCEPT ![p] =
                     IF ReadBlocks(Pipes[x], n, left) /\ ~nonblock
                     THEN [NoCall EXCEPT !.op = "read", !.fd = fd, !.left = left - n]
                     ELSE NoCall]
       /\ UNCHANGED <<PipeEndpointList, FileTable, Live>>

Read(p, fd) ==
    /\ MayCall(p)
    /\ fd \in OpenFiles(p)
    /\ FileTable[p][fd].end = "read"
    /\ \E count \in ReadCounts, nonblock \in BOOLEAN : ReadOn(p, fd, count, nonblock)

ResumeRead(p) == Call[p].op = "read" /\ ReadOn(p, Call[p].fd, Call[p].left, FALSE)

\* The bytes PipeWrite takes.  Without readers it fails, but not for the chunk it
\* has been sleeping with when there is room now.
Accepted(pipe, data, woken) ==
    CASE pipe.References["read"] # 0 -> Min({Len(data), AvailableSpace(pipe.ring)})
      [] pipe.References["read"] = 0 /\ woken ->
           Min({Len(data), ChunkSize, AvailableSpace(pipe.ring)})
      [] OTHER -> 0

WriteBlocks(pipe, n, all) == AnotherChunk(n, all) /\ pipe.References["read"] # 0

WriteOn(p, fd, data, nonblock, woken) ==
    LET x == FileTable[p][fd].pipe
        n == Accepted(Pipes[x], data, woken)
    IN /\ Pipes' = [Pipes EXCEPT ![x].ring = PutBytes(@, SubSeq(data, 1, n))]
       /\ Call' = [Call EXCEPT ![p] =
                     IF WriteBlocks(Pipes[x], n, Len(data)) /\ ~nonblock
                     THEN [NoCall EXCEPT !.op = "write", !.fd = fd,
                                         !.data = SubSeq(data, n + 1, Len(data))]
                     ELSE NoCall]
       /\ Moved' = SubSeq(data, 1, n)
       /\ UNCHANGED <<PipeEndpointList, FileTable, Live>>

Write(p, fd) ==
    /\ MayCall(p)
    /\ fd \in OpenFiles(p)
    /\ FileTable[p][fd].end = "write"
    /\ \E data \in Writes, nonblock \in BOOLEAN : WriteOn(p, fd, data, nonblock, FALSE)

ResumeWrite(p) == Call[p].op = "write" /\ WriteOn(p, Call[p].fd, Call[p].data, FALSE, TRUE)

\* A signal woke the process: EINTR, or the number of bytes so far.
Interrupted(p) ==
    /\ Call[p] # NoCall
    /\ Call' = [Call EXCEPT ![p] = NoCall]
    /\ Moved' = <<>>
    /\ UNCHANGED <<Pipes, PipeEndpointList, FileTable, Live>>
-----------------------------------------------------------------------------
Resume(p) == ResumeRead(p) \/ ResumeWrite(p)

Next ==
    \E p \in Processes :
        \/ \E x \in PipeIds : CreatePipe(p, x)
        \/ \E fd \in FileDescriptors : Close(p, fd) \/ Read(p, fd) \/ Write(p, fd)
        \/ \E fd, other \in FileDescriptors : Dup2(p, fd, other) \/ DupFd(p, fd, other)
        \/ \E child \in Processes : Fork(p, child)
        \/ Exit(p) \/ Execve(p)
        \/ Resume(p) \/ Interrupted(p)

\* A sleeping call is woken by the next ticks and scheduled in its turn.
Spec == Init /\ [][Next]_vars /\ \A p \in Processes : WF_vars(Resume(p))
-----------------------------------------------------------------------------
(* Properties                                                              *)

\* Every component keeps its shape: in particular a ring never holds more than
\* its capacity.
TypeOK ==
    /\ Pipes \in [PipeIds -> [ring : Rings, References : [Ends -> 0 .. MAX_TRACKED_PIPES]]]
    /\ IsABag(PipeEndpointList)
    /\ BagToSet(PipeEndpointList) \subseteq
         [Owner : Processes, FileDescriptor : FileDescriptors, Node : Nodes]
    /\ BagCardinality(PipeEndpointList) <= MAX_TRACKED_PIPES
    /\ FileTable \in [Processes -> [FileDescriptors -> Nodes \cup {NoFile}]]
    /\ Live \subseteq Processes
    /\ \A p \in Processes :
         /\ Call[p].op \in {"none", "read", "write"}
         /\ Call[p].fd \in FileDescriptors
         /\ Call[p].left \in Nat
         /\ Call[p].data \in Seq(Bytes)

\* The entries for an end of a pipe, the copies of equal ones numbered.
Entries(list, node) ==
    UNION {{e} \X (1 .. list[e]) : e \in {e \in BagToSet(list) : e.Node = node}}

Tracked(node) == Cardinality(Entries(PipeEndpointList, node))

\* The counts of a pipe are those of the tracked entries for its ends, and it
\* exists exactly as long as there is one: no sequence of dup2, fork, close and
\* exit frees a pipe twice or keeps one that nobody tracks.
CountsAreTracked ==
    \A x \in PipeIds :
        /\ \A e \in Ends : Pipes[x].References[e] = Tracked(Node(x, e))
        /\ x \notin FreePipes => \E e \in Ends : Tracked(Node(x, e)) # 0

\* Every open descriptor has an entry of its own, so the pipe behind it exists:
\* read and write never use a deleted pipe, the calls that sleep and hold a
\* pointer to it included.
OpenFilesAreTracked ==
    \A p \in Processes : \A fd \in OpenFiles(p) :
        BagIn(Entry(p, fd, FileTable[p][fd]), PipeEndpointList)

\* Every pipe is a first-in first-out queue of bytes, whatever its offsets and
\* however reads and writes are cut into chunks and sleeps: what PipeRead hands
\* out is what PipeWrite took, in order and once.
Channel ==
    INSTANCE PipeChannel WITH
        open <- PipeIds \ FreePipes,
        queue <- [x \in PipeIds |-> Contents(Pipes[x].ring)]

ImplementsChannel == Channel!Spec

Sleeping(op, x) == \E p \in Processes : Call[p].op = op /\ FileTable[p][Call[p].fd].pipe = x

\* When the last writer is gone every sleeping reader returns, and when the last
\* reader is gone every sleeping writer.
HangUpReachesSleepers ==
    \A x \in PipeIds :
        /\ x \notin FreePipes /\ Pipes[x].References["write"] = 0 ~> ~Sleeping("read", x)
        /\ x \notin FreePipes /\ Pipes[x].References["read"] = 0 ~> ~Sleeping("write", x)
=============================================================================
