------------------------------- MODULE Sockets -------------------------------
(***************************************************************************)
(* The sockets of InterProcessComunicationManager.cpp, the event queues of *)
(* SynchronizationManager.cpp, and the calls that reach them: socket,      *)
(* bind, listen, connect, accept, shutdown, read and write, poll and       *)
(* epoll, close, dup2 and fcntl, and what fork, execve and exit do to      *)
(* them.  socketpair is not among the numbers the kernel dispatches.       *)
(*                                                                         *)
(* The manager keeps one list of all sockets and finds a socket by the     *)
(* process and the descriptor that own it; read, write and poll reach it   *)
(* through the node behind the open file.  Closing a socket deletes both,  *)
(* whoever else refers to them.  A call runs with interrupts disabled      *)
(* until it returns or sleeps for a tick, to look again: one action each.  *)
(***************************************************************************)
EXTENDS Integers, Sequences, SequencesExt, FiniteSetsExt, SequenceOps

CONSTANTS Processes,             \* process table entries
          InitProcess,           \* the one that never exits
          MaxFiles,              \* MAX_OPEN_FILES_PER_PROCESS
          MAX_TRACKED_SOCKETS,   \* entries of SocketList
          ReceiveBufferCapacity, \* LINUX_UNIX_SOCKET_BUFFER_CAPACITY
          EphemeralPorts,        \* LINUX_INET_EPHEMERAL_START to _END
          Kinds,                 \* domains and types of the sockets programs make
          Addresses,             \* addresses programs bind and connect to
          Backlogs,              \* backlogs they listen with
          Timeouts,              \* how many ticks they poll for
          PollSize,              \* how many descriptors they poll at once
          MaxEvents,             \* how many events they ask epoll_wait for
          MaxCalls               \* bound on the calls made

ASSUME SocketsAssumption ==
    /\ InitProcess \in Processes /\ Processes # {InitProcess}
    /\ MaxFiles \in Nat /\ MAX_TRACKED_SOCKETS \in Nat /\ MaxCalls \in Nat
    /\ ReceiveBufferCapacity \in Nat \ {0} /\ MaxEvents \in Nat \ {0}
    /\ EphemeralPorts \subseteq Nat /\ Backlogs \subseteq Nat
    /\ Timeouts \subseteq Nat \cup {-1}
    /\ MaxFiles >= 3 /\ MAX_TRACKED_SOCKETS >= 3
    /\ Kinds \subseteq [Domain : {"unix", "inet", "netlink"}, Type : {"stream", "dgram"}]
    /\ Addresses \subseteq [Family : {"unix", "inet", "netlink"}, Ip : Nat, Port : Nat]
    /\ \A a \in Addresses : a.Family = "netlink" => a.Ip = 0   \* has none

VARIABLES Sockets,          \* the socket objects
          SocketList,       \* the tracked ones, in order of creation
          FileTable,        \* the file behind every descriptor
          EventQueueStore,  \* the event queues, in order of creation
          Live,             \* the processes that exist
          Call,             \* the poll or epoll_wait a process sleeps in
          Lost,             \* history: clients taken off a queue and not connected
          Departures,       \* history: what the descriptors' owners were not told of
          Calls             \* how many calls were made

vars == <<Sockets, SocketList, FileTable, EventQueueStore, Live, Call, Lost, Departures, Calls>>

FileDescriptors == 0 .. MaxFiles - 1
SocketIds == 1 .. MAX_TRACKED_SOCKETS
NoSocket == 0
Events == {"in", "out"}
Forever == -1

Address(family, ip, port) == [Family |-> family, Ip |-> ip, Port |-> port]
Unbound == Address("none", 0, 0)

\* CreateSocket's object.  ReceiveBuffer is a ring like a pipe's: its fill counts.
NewSocket(domain, type, p, fd) ==
    [Domain |-> domain, Type |-> type, Owner |-> p, FileDescriptor |-> fd,
     Address |-> Unbound, IsListening |-> FALSE,
     PendingConnectionCapacity |-> 0, PendingConnections |-> <<>>,
     ConnectedPeer |-> NoSocket, RemotePid |-> 0, ReceiveBufferedBytes |-> 0,
     IsShutdownRead |-> FALSE, IsShutdownWrite |-> FALSE]
FreeSocket == NewSocket("none", "none", InitProcess, 0)

\* The node behind a file.  A dangling one has been deleted.
File(kind, socket, queue) == [kind |-> kind, socket |-> socket, queue |-> queue]
SocketFile(s) == File("socket", s, <<>>)
EpollFile(p, fd) == File("epoll", NoSocket, <<p, fd>>)
Terminal == File("tty", NoSocket, <<>>)
NoFile == File("none", NoSocket, <<>>)
Dangling == File("dangling", NoSocket, <<>>)

NoCall == [op |-> "none", fds |-> {}, events |-> {}, left |-> 0, tty |-> FALSE]

OpenFiles(p) == {fd \in FileDescriptors : FileTable[p][fd] # NoFile}
FreeFiles(p) == FileDescriptors \ OpenFiles(p)
EmptyTable == [fd \in FileDescriptors |-> NoFile]

\* The process is in user mode and may call.  What it does with a node that was
\* deleted is undefined: a process that holds one takes no step but to exit.
Defined(p) == \A fd \in FileDescriptors : FileTable[p][fd] # Dangling
MayCall(p) == p \in Live /\ Call[p] = NoCall /\ Defined(p) /\ Calls < MaxCalls

-----------------------------------------------------------------------------
(* The manager.                                                            *)

Tracked == Range(SocketList)

\* The first tracked socket of a process and descriptor.
SocketAt(p, fd) ==
    LET found == {i \in DOMAIN SocketList : /\ Sockets[SocketList[i]].Owner = p
                                            /\ Sockets[SocketList[i]].FileDescriptor = fd}
    IN IF found = {} THEN NoSocket ELSE SocketList[Min(found)]

\* A handler's work, in the order it is done.
Current == [sockets |-> Sockets, list |-> SocketList, files |-> FileTable,
            queues |-> EventQueueStore, lost |-> Lost]

Becomes(h) ==
    /\ Sockets' = h.sockets
    /\ SocketList' = h.list
    /\ FileTable' = h.files
    /\ EventQueueStore' = h.queues
    /\ Lost' = h.lost
    /\ Calls' = Calls + 1

Succeeds(h) == Becomes(h) /\ UNCHANGED <<Live, Call, Departures>>

\* The addresses of free sockets are interchangeable: the lowest is taken.
CreateSocket(h, domain, type, p, fd) ==
    LET s == Min(SocketIds \ Range(h.list))
    IN [h EXCEPT !.sockets[s] = NewSocket(domain, type, p, fd),
                 !.list = Append(@, s),
                 !.files[p][fd] = SocketFile(s)]

HasRoom(n) == Len(SocketList) + n <= MAX_TRACKED_SOCKETS

\* Netlink sockets carry datagrams only.
HandleSocketSystemCall(p) ==
    /\ MayCall(p)
    /\ FreeFiles(p) # {} /\ HasRoom(1)
    /\ \E k \in Kinds :
         /\ k.Domain = "netlink" => k.Type # "stream"
         /\ Succeeds(CreateSocket(Current, k.Domain, k.Type, p, Min(FreeFiles(p))))

\* Mutant: the address of every interface is one like another.
InUseSameInterface(a, s) ==
    \E o \in Tracked \ {s} : Sockets[o].Address = a /\ ~(a.Family = "netlink" /\ a.Port = 0)

\* BindSocket refuses an address another socket of the domain is bound to.  The
\* address 0 stands for every interface, the netlink port 0 for none.
InUse(a, s) ==
    \E o \in Tracked \ {s} :
        LET b == Sockets[o].Address
        IN /\ b.Family = a.Family
           /\ CASE a.Family = "unix"    -> b = a
                [] a.Family = "inet"    -> b.Port = a.Port /\ (b.Ip = 0 \/ a.Ip = 0 \/ b.Ip = a.Ip)
                [] a.Family = "netlink" -> a.Port # 0 /\ b.Port = a.Port

\* bind, again and again if the program wants to.
HandleBindSystemCall(p, fd, a) ==
    LET s == SocketAt(p, fd)
    IN /\ MayCall(p)
       /\ fd \in OpenFiles(p) /\ s # NoSocket
       /\ a.Family = Sockets[s].Domain
       /\ ~InUse(a, s)
       /\ Succeeds([Current EXCEPT !.sockets[s].Address = a])

\* An unbound internet socket gets the first port nobody is bound to.
FreePorts(s) ==
    {port \in EphemeralPorts : \A o \in Tracked \ {s} :
        ~(Sockets[o].Address.Family = "inet" /\ Sockets[o].Address.Port = port)}

\* A new backlog makes a new queue, of what fits into it.
ListenUnix(s, backlog) ==
    LET kept == Min({Len(Sockets[s].PendingConnections), backlog})
        queue == Sockets[s].PendingConnections
    IN /\ Sockets[s].Address # Unbound
       /\ Succeeds([Current EXCEPT
                      !.sockets[s].PendingConnectionCapacity = backlog,
                      !.sockets[s].PendingConnections = SubSeq(@, 1, kept),
                      !.sockets[s].IsListening = TRUE,
                      !.lost = @ \cup {queue[i] : i \in kept + 1 .. Len(queue)}])

ListenInet(s) ==
    /\ Sockets[s].Address = Unbound => FreePorts(s) # {}
    /\ Succeeds([Current EXCEPT
                   !.sockets[s].IsListening = TRUE,
                   !.sockets[s].Address =
                      IF @ = Unbound THEN Address("inet", 0, Min(FreePorts(s))) ELSE @])

HandleListenSystemCall(p, fd, backlog) ==
    LET s == SocketAt(p, fd)
    IN /\ MayCall(p)
       /\ fd \in OpenFiles(p) /\ s # NoSocket
       /\ Sockets[s].Type = "stream"
       /\ \/ Sockets[s].Domain = "unix" /\ ListenUnix(s, backlog)
          \/ Sockets[s].Domain = "inet" /\ ListenInet(s)

\* The first socket that listens on a path.
ListenerAt(a) ==
    LET found == {i \in DOMAIN SocketList : /\ Sockets[SocketList[i]].Address = a
                                            /\ Sockets[SocketList[i]].IsListening}
    IN IF found = {} THEN NoSocket ELSE SocketList[Min(found)]

MayConnect(s) == Sockets[s].Type = "stream" /\ Sockets[s].ConnectedPeer = NoSocket

\* ConnectSocket: the client waits in the listener's queue, its peer for now.
ConnectUnix(s, a) ==
    LET listener == ListenerAt(a)
    IN /\ MayConnect(s)
       /\ listener # NoSocket
       /\ Len(Sockets[listener].PendingConnections) < Sockets[listener].PendingConnectionCapacity
       /\ Succeeds([Current EXCEPT
                      !.sockets[listener].PendingConnections = Append(@, s),
                      !.sockets[s].ConnectedPeer = listener])

HandleConnectSystemCall(p, fd, a) ==
    LET s == SocketAt(p, fd)
    IN /\ MayCall(p)
       /\ fd \in OpenFiles(p) /\ s # NoSocket
       /\ a.Family = Sockets[s].Domain
       /\ \/ a.Family = "netlink" /\ Succeeds([Current EXCEPT !.sockets[s].RemotePid = a.Port])
          \/ a.Family = "unix" /\ ConnectUnix(s, a)

\* AcceptSocket takes the first tracked socket of the queue, which is its head
\* (PeersAreConsistent), and loses it when there is no room for another socket.
AcceptSocket(s, p, fd) ==
    LET client == Head(Sockets[s].PendingConnections)
        popped == [Current EXCEPT !.sockets[s].PendingConnections = Tail(@)]
        h == CreateSocket(popped, "unix", Sockets[s].Type, p, fd)
        accepted == Last(h.list)
    IN /\ Sockets[s].Domain = "unix" /\ Sockets[s].IsListening
       /\ Sockets[s].PendingConnections # <<>>
       /\ Succeeds(IF HasRoom(1)
                   THEN [h EXCEPT !.sockets[accepted].ConnectedPeer = client,
                                  !.sockets[client].ConnectedPeer = accepted]
                   ELSE [popped EXCEPT !.lost = @ \cup {client}])

HandleAcceptSystemCall(p, fd) ==
    LET s == SocketAt(p, fd)
    IN /\ MayCall(p)
       /\ fd \in OpenFiles(p) /\ s # NoSocket
       /\ FreeFiles(p) # {}
       /\ AcceptSocket(s, p, Min(FreeFiles(p)))

\* A stream must be connected; an internet one never is.
ShutdownSocket(s, how) ==
    /\ Sockets[s].Type = "stream" => Sockets[s].ConnectedPeer # NoSocket
    /\ Succeeds([Current EXCEPT !.sockets[s].IsShutdownRead = @ \/ "in" \in how,
                                !.sockets[s].IsShutdownWrite = @ \/ "out" \in how])

HandleShutdownSystemCall(p, fd, how) ==
    LET s == SocketAt(p, fd)
    IN /\ MayCall(p)
       /\ fd \in OpenFiles(p) /\ s # NoSocket
       /\ ShutdownSocket(s, how)
-----------------------------------------------------------------------------
(* Event queues.  One belongs to a process and the descriptor it was       *)
(* created at.  A watch remembers the file it was made for: history.       *)

Queue(p, fd, watches) == [ProcessId |-> p, FileDescriptor |-> fd, Watches |-> watches]

\* The index of the first queue with the key, or 0.
FindEventQueue(queues, p, fd) ==
    LET found == {i \in DOMAIN queues :
                    queues[i].ProcessId = p /\ queues[i].FileDescriptor = fd}
    IN IF found = {} THEN 0 ELSE Min(found)

\* Mutant: the watches for a closed descriptor stay.
RemoveWatchesForNothing(queues, p, fd) == queues

RemoveWatchesForFile(queues, p, fd) ==
    [i \in DOMAIN queues |->
       IF queues[i].ProcessId # p THEN queues[i]
       ELSE [queues[i] EXCEPT
               !.Watches = Compacted(@, {n \in DOMAIN @ : @[n].FileDescriptor # fd})]]

\* The queue goes, and its node with it.
RemoveEventQueue(h, p, fd) ==
    LET i == FindEventQueue(h.queues, p, fd)
    IN IF i = 0 THEN h
       ELSE [h EXCEPT !.queues = RemoveAt(@, i),
                      !.files = [q \in Processes |-> [g \in FileDescriptors |->
                         IF @[q][g] = EpollFile(p, fd) THEN Dangling ELSE @[q][g]]]]

\* epoll_create1 takes the lowest descriptor without a file and without a queue.
HandleEpollCreate1SystemCall(p) ==
    LET free == {fd \in FreeFiles(p) : FindEventQueue(EventQueueStore, p, fd) = 0}
    IN /\ MayCall(p)
       /\ free # {}
       /\ Succeeds([Current EXCEPT !.queues = Append(@, Queue(p, Min(free), <<>>)),
                                   !.files[p][Min(free)] = EpollFile(p, Min(free))])

\* ControlEventQueue on the queue with index i.
ControlEventQueue(i, p, target, events) ==
    LET watches == EventQueueStore[i].Watches
        old == {n \in DOMAIN watches : watches[n].FileDescriptor = target}
        watch == [FileDescriptor |-> target, Events |-> events, file |-> FileTable[p][target]]
    IN \/ /\ old = {}
          /\ Succeeds([Current EXCEPT !.queues[i].Watches = Append(@, watch)])
       \/ /\ old # {}
          /\ \/ Succeeds([Current EXCEPT !.queues[i].Watches = RemoveAt(@, Min(old))])
             \/ Succeeds([Current EXCEPT !.queues[i].Watches[Min(old)].Events = events])

HandleEpollCtlSystemCall(p, fd, target, events) ==
    LET i == FindEventQueue(EventQueueStore, p, fd)
    IN /\ MayCall(p)
       /\ {fd, target} \subseteq OpenFiles(p)
       /\ i # 0 /\ fd # target
       /\ ControlEventQueue(i, p, target, events)
-----------------------------------------------------------------------------
(* Descriptors                                                             *)

\* RemovePendingConnectionFromUnixQueue.
Without(queue, s) == Compacted(queue, {i \in DOMAIN queue : queue[i] # s})

\* Mutant: the peer keeps its pointer.
ForgetQueued(o, s) == [o EXCEPT !.PendingConnections = Without(@, s)]

\* What CloseSocket leaves in another socket of the one it deletes: nothing.
Forget(o, s) ==
    [o EXCEPT !.ConnectedPeer = IF @ = s THEN NoSocket ELSE @,
              !.PendingConnections = Without(@, s)]

\* CloseSocket once no descriptor of the owner is left: peers and queues forget
\* the socket, then it is deleted.
DestroySocket(h, s) ==
    [h EXCEPT !.sockets = [o \in SocketIds |-> IF o = s THEN FreeSocket ELSE Forget(@[o], s)],
              !.list = RemoveFirst(@, s),
              !.lost = {c \in @ \ {s} : h.sockets[c].ConnectedPeer # s}]

\* The other descriptors of a process for a socket.
Alternates(h, p, fd, s) == {g \in FileDescriptors \ {fd} : h.files[p][g] = SocketFile(s)}

\* Mutant: the owner's other descriptors are not looked for.
CloseSocketAtOnce(h, p, fd) ==
    LET s == SocketAt(p, fd)
        deleted == {SocketFile(s), h.files[p][fd]}
    IN IF s = NoSocket THEN h
       ELSE [DestroySocket(h, s) EXCEPT
               !.files = [q \in Processes |-> [g \in FileDescriptors |->
                            IF @[q][g] \in deleted THEN Dangling ELSE @[q][g]]]]

\* CloseSocket, and the node HandleCloseSystemCall deletes after it: the one of
\* the file that is closed.
CloseSocket(h, p, fd) ==
    LET s == SocketAt(p, fd)
        alternates == Alternates(h, p, fd, s)
        deleted == {SocketFile(s), h.files[p][fd]}
    IN IF s = NoSocket THEN h
       ELSE IF alternates # {} THEN [h EXCEPT !.sockets[s].FileDescriptor = Min(alternates)]
       ELSE [DestroySocket(h, s) EXCEPT
               !.files = [q \in Processes |-> [g \in FileDescriptors |->
                            IF @[q][g] \in deleted THEN Dangling ELSE @[q][g]]]]

CloseDescriptor(h, p, fd) ==
    LET unqueued == RemoveEventQueue(h, p, fd)
        unwatched == [unqueued EXCEPT !.queues = RemoveWatchesForFile(@, p, fd)]
    IN [CloseSocket(unwatched, p, fd) EXCEPT !.files[p][fd] = NoFile]

HandleCloseSystemCall(p, fd) ==
    /\ MayCall(p)
    /\ fd \in OpenFiles(p)
    /\ Succeeds(CloseDescriptor(Current, p, fd))

\* A copy of a file of an event queue: closing the original deletes its node.
CopyDeparture(f) == IF f.kind = "epoll" THEN {"copied queue"} ELSE {}

\* dup2 closes what is open at the new descriptor.
HandleDup2SystemCall(p, old, new) ==
    LET h == IF new \in OpenFiles(p) THEN CloseDescriptor(Current, p, new) ELSE Current
    IN /\ MayCall(p)
       /\ old \in OpenFiles(p) /\ old # new
       /\ Becomes([h EXCEPT !.files[p][new] = h.files[p][old]])
       /\ Departures' = Departures \cup CopyDeparture(FileTable[p][old])
       /\ UNCHANGED <<Live, Call>>

\* fcntl(F_DUPFD): the lowest free descriptor from the given one on.
HandleFcntlSystemCall(p, old, minimum) ==
    LET free == {fd \in FreeFiles(p) : fd >= minimum}
    IN /\ MayCall(p)
       /\ old \in OpenFiles(p)
       /\ free # {}
       /\ Becomes([Current EXCEPT !.files[p][Min(free)] = FileTable[p][old]])
       /\ Departures' = Departures \cup CopyDeparture(FileTable[p][old])
       /\ UNCHANGED <<Live, Call>>

\* Files that sockets and event queues would have to be told of.
Unannounced(files, reason) ==
    IF \E f \in files : f.kind \in {"socket", "epoll"} THEN {reason} ELSE {}

DuplicateEventQueuesForProcess(queues, p, child) ==
    LET own == Compacted(queues, {i \in DOMAIN queues : queues[i].ProcessId = p})
    IN queues \o [i \in DOMAIN own |-> [own[i] EXCEPT !.ProcessId = child]]

\* CopyProcess copies every file: no socket hears of it, the queues are copied.
Fork(p, child) ==
    /\ MayCall(p)
    /\ child \notin Live
    /\ Becomes([Current EXCEPT
                  !.files[child] = FileTable[p],
                  !.queues = DuplicateEventQueuesForProcess(@, p, child)])
    /\ Live' = Live \cup {child}
    /\ Departures' = Departures \cup Unannounced(Range(FileTable[p]), "fork")
    /\ UNCHANGED Call

\* ReleaseProcessFileTable deletes the files and tells neither.
Exit(p) ==
    /\ p \in Live \ {InitProcess}
    /\ Calls < MaxCalls
    /\ Becomes([Current EXCEPT !.files[p] = EmptyTable])
    /\ Live' = Live \ {p}
    /\ Call' = [Call EXCEPT ![p] = NoCall]
    /\ Departures' = Departures \cup Unannounced(Range(FileTable[p]), "exit")

\* Neither does execve for a descriptor marked FD_CLOEXEC; several that are
\* marked are several such steps.
Execve(p, fd) ==
    /\ MayCall(p)
    /\ fd \in OpenFiles(p)
    /\ Becomes([Current EXCEPT !.files[p][fd] = NoFile])
    /\ Departures' = Departures \cup {"execve"}
    /\ UNCHANGED <<Live, Call>>
-----------------------------------------------------------------------------
(* read and write, through the file's node.                                *)

\* SocketRead: what a read of one byte or more returns.
ReadResult(s) ==
    LET peer == Sockets[s].ConnectedPeer
    IN CASE Sockets[s].Domain = "netlink" -> "EAGAIN"
         [] Sockets[s].Domain = "inet" -> IF Sockets[s].IsShutdownRead THEN "eof" ELSE "EBADF"
         [] OTHER ->
              CASE Sockets[s].IsShutdownRead -> "eof"
                [] ~Sockets[s].IsShutdownRead /\ Sockets[s].IsListening -> "EAGAIN"
                [] OTHER ->
                     CASE Sockets[s].Type # "stream" -> "ENOTCONN"
                       [] Sockets[s].Type = "stream" /\ Sockets[s].ReceiveBufferedBytes > 0 -> "data"
                       [] OTHER -> IF peer = NoSocket THEN "eof"
                                   ELSE IF Sockets[peer].IsShutdownWrite THEN "eof" ELSE "EAGAIN"

\* SocketWrite and WriteToUnixPeerBuffer.
WriteResult(s) ==
    LET peer == Sockets[s].ConnectedPeer
    IN CASE Sockets[s].Domain # "netlink" /\ Sockets[s].IsShutdownWrite -> "EPIPE"
         [] \/ Sockets[s].Domain = "netlink"
            \/ /\ ~Sockets[s].IsShutdownWrite
               /\ \/ Sockets[s].Domain = "inet"
                  \/ Sockets[s].IsListening \/ Sockets[s].Type # "stream" -> "EBADF"
         [] OTHER ->
              IF peer = NoSocket THEN "ENOTCONN"
              ELSE CASE Sockets[peer].IsListening -> "EAGAIN"
                     [] ~Sockets[peer].IsListening /\ Sockets[peer].IsShutdownRead -> "EPIPE"
                     [] OTHER -> IF Sockets[peer].ReceiveBufferedBytes >= ReceiveBufferCapacity
                                 THEN "EAGAIN" ELSE "data"

ReadFromUnixReceiveBuffer(h, s, n) == [h EXCEPT !.sockets[s].ReceiveBufferedBytes = @ - n]
WriteToUnixPeerBuffer(h, peer, n) == [h EXCEPT !.sockets[peer].ReceiveBufferedBytes = @ + n]

\* read and recvfrom.
HandleReadSystemCall(p, fd) ==
    LET s == FileTable[p][fd].socket
    IN /\ MayCall(p)
       /\ FileTable[p][fd].kind = "socket"
       /\ ReadResult(s) = "data"
       /\ \E n \in 1 .. Sockets[s].ReceiveBufferedBytes :
            Succeeds(ReadFromUnixReceiveBuffer(Current, s, n))

\* write and sendto.
HandleWriteSystemCall(p, fd) ==
    LET s == FileTable[p][fd].socket
        peer == Sockets[s].ConnectedPeer
    IN /\ MayCall(p)
       /\ FileTable[p][fd].kind = "socket"
       /\ WriteResult(s) = "data"
       /\ \E n \in 1 .. ReceiveBufferCapacity - Sockets[peer].ReceiveBufferedBytes :
            Succeeds(WriteToUnixPeerBuffer(Current, peer, n))
-----------------------------------------------------------------------------
(* poll and epoll_wait                                                     *)

\* SocketPoll for POLLIN.
PollIn(s) ==
    LET peer == Sockets[s].ConnectedPeer
        hungUp == peer = NoSocket \/ Sockets[peer].IsShutdownWrite
    IN IF Sockets[s].IsListening
       THEN IF Sockets[s].PendingConnections # <<>> THEN {"in"} ELSE {}
       ELSE IF Sockets[s].ReceiveBufferedBytes > 0 THEN {"in"}
       ELSE IF Sockets[s].IsShutdownRead \/ hungUp THEN {"hup"} ELSE {}

\* Mutant: a client that waits to be accepted is hung up.
PollOutPending(s) ==
    LET peer == Sockets[s].ConnectedPeer
    IN CASE Sockets[s].IsShutdownWrite -> {"err"}
         [] ~Sockets[s].IsShutdownWrite /\ peer = NoSocket -> {"err", "hup"}
         [] OTHER -> IF Sockets[peer].IsShutdownRead THEN {"err", "hup"}
                     ELSE IF Sockets[peer].ReceiveBufferedBytes < ReceiveBufferCapacity
                          THEN {"out"} ELSE {}

\* SocketPoll for POLLOUT: a client that waits to be accepted cannot write.
PollOut(s) ==
    LET peer == Sockets[s].ConnectedPeer
    IN CASE Sockets[s].IsShutdownWrite -> {"err"}
         [] ~Sockets[s].IsShutdownWrite /\ peer = NoSocket -> {"err", "hup"}
         [] OTHER -> IF Sockets[peer].IsListening THEN {}
                     ELSE IF Sockets[peer].IsShutdownRead THEN {"err", "hup"}
                     ELSE IF Sockets[peer].ReceiveBufferedBytes < ReceiveBufferCapacity
                          THEN {"out"} ELSE {}

SocketPoll(s, events) ==
    CASE Sockets[s].Domain = "unix" -> (IF "in" \in events THEN PollIn(s) ELSE {})
                                         \cup (IF "out" \in events THEN PollOut(s) ELSE {})
      [] Sockets[s].Domain = "netlink" -> {}
      [] OTHER -> events

\* What poll returns for a file, as long as there is no terminal input.  No event
\* is ever put on an event queue.
Revents(f, events) ==
    CASE f.kind = "socket" -> SocketPoll(f.socket, events)
      [] f.kind \in {"epoll", "tty"} -> events \cap {"out"}
      [] OTHER             -> {"nval"}

WantsTerminal(f, events) == f = Terminal /\ "in" \in events

\* The loop of epoll_wait over the watches of a queue, in order: it removes those
\* without a file, and stops looking once MaxEvents are ready.
EvaluateReadyEvents(p, watches) ==
    LET file(i) == FileTable[p][watches[i].FileDescriptor]
        ready == {i \in DOMAIN watches :
                    file(i) # NoFile /\ Revents(file(i), watches[i].Events) # {}}
        reached == {i \in DOMAIN watches : Cardinality({j \in ready : j < i}) < MaxEvents}
    IN [kept |-> Compacted(watches, {i \in DOMAIN watches : i \in reached => file(i) # NoFile}),
        ready |-> Cardinality(ready \cap reached),
        tty |-> \E i \in reached : WantsTerminal(file(i), watches[i].Events)]

\* What a call looks at: the descriptors of poll, or the watches of epoll_wait.
EvaluatePollState(p, c) ==
    IF c.op = "poll"
    THEN [ready |-> Cardinality({fd \in c.fds : Revents(FileTable[p][fd], c.events) # {}}),
          tty |-> \E fd \in c.fds : WantsTerminal(FileTable[p][fd], c.events),
          queues |-> EventQueueStore]
    ELSE LET i == FindEventQueue(EventQueueStore, p, CHOOSE fd \in c.fds : TRUE)
             r == EvaluateReadyEvents(p, EventQueueStore[i].Watches)
         IN [ready |-> r.ready, tty |-> r.tty,
             queues |-> [EventQueueStore EXCEPT ![i].Watches = r.kept]]

\* A first look; then it sleeps unless something is ready or it must not.  Without
\* a timeout a call that wants terminal input waits for that alone.  A call that
\* returns at once and changes nothing is no step.
StartPoll(p, c) ==
    LET e == EvaluatePollState(p, c)
    IN /\ (e.ready = 0 /\ c.left # 0) \/ e.queues # EventQueueStore
       /\ Becomes([Current EXCEPT !.queues = e.queues])
       /\ Call' = [Call EXCEPT ![p] = IF e.ready > 0 \/ c.left = 0 THEN NoCall
                                      ELSE [c EXCEPT !.tty = e.tty /\ c.left = Forever]]
       /\ UNCHANGED <<Live, Departures>>

HandlePollSystemCall(p, fds, events, timeout) ==
    /\ MayCall(p)
    /\ StartPoll(p, [NoCall EXCEPT !.op = "poll", !.fds = fds, !.events = events,
                                   !.left = timeout])

HandleEpollWaitSystemCall(p, fd, timeout) ==
    /\ MayCall(p)
    /\ fd \in OpenFiles(p) /\ FindEventQueue(EventQueueStore, p, fd) # 0
    /\ StartPoll(p, [NoCall EXCEPT !.op = "epoll", !.fds = {fd}, !.left = timeout])

\* Mutant: only a call with a timeout looks again.
PollContinuesForever(c, ready) ==
    IF c.left = Forever THEN c
    ELSE IF ready \/ c.left = 1 THEN NoCall ELSE [c EXCEPT !.left = @ - 1]

\* The call after another look.
PollContinues(c, ready) ==
    IF ready \/ c.left = 1 THEN NoCall
    ELSE [c EXCEPT !.left = IF @ = Forever THEN @ ELSE @ - 1]

\* A tick has passed.
PollAgain(p) ==
    LET e == EvaluatePollState(p, Call[p])
    IN /\ Call[p] # NoCall /\ Defined(p)
       /\ ~Call[p].tty
       /\ Call' = [Call EXCEPT ![p] = PollContinues(@, e.ready > 0)]
       /\ EventQueueStore' = e.queues
       /\ UNCHANGED <<Sockets, SocketList, FileTable, Live, Lost, Departures, Calls>>

\* Input for the terminal, or a signal: EINTR.
Woken(p) ==
    /\ Call[p] # NoCall
    /\ Call' = [Call EXCEPT ![p] = NoCall]
    /\ UNCHANGED <<Sockets, SocketList, FileTable, EventQueueStore, Live, Lost,
                   Departures, Calls>>
-----------------------------------------------------------------------------
SocketCalls(p) ==
    \/ HandleSocketSystemCall(p)
    \/ \E fd \in FileDescriptors :
         \/ \E a \in Addresses : HandleBindSystemCall(p, fd, a) \/ HandleConnectSystemCall(p, fd, a)
         \/ \E backlog \in Backlogs : HandleListenSystemCall(p, fd, backlog)
         \/ \E how \in SUBSET Events \ {{}} : HandleShutdownSystemCall(p, fd, how)
         \/ HandleAcceptSystemCall(p, fd)
         \/ HandleReadSystemCall(p, fd) \/ HandleWriteSystemCall(p, fd)

DescriptorCalls(p) ==
    \/ \E fd \in FileDescriptors : HandleCloseSystemCall(p, fd) \/ Execve(p, fd)
    \/ \E fd, other \in FileDescriptors :
         HandleDup2SystemCall(p, fd, other) \/ HandleFcntlSystemCall(p, fd, other)
    \/ \E child \in Processes : Fork(p, child)
    \/ Exit(p)

PollCalls(p) ==
    \/ HandleEpollCreate1SystemCall(p)
    \/ \E fd, target \in FileDescriptors, events \in {{"in"}, {"out"}} :
         HandleEpollCtlSystemCall(p, fd, target, events)
    \/ \E timeout \in Timeouts :
         \/ \E fd \in FileDescriptors : HandleEpollWaitSystemCall(p, fd, timeout)
         \/ \E n \in 1 .. PollSize : \E fds \in kSubset(n, OpenFiles(p)), events \in {{"in"}, {"out"}} :
              HandlePollSystemCall(p, fds, events, timeout)

\* InitProcess runs, with a terminal.
Booted ==
    [sockets |-> [s \in SocketIds |-> FreeSocket], list |-> <<>>,
     files |-> [p \in Processes |-> [fd \in FileDescriptors |->
                  IF p = InitProcess /\ fd = 0 THEN Terminal ELSE NoFile]],
     queues |-> <<>>, lost |-> {}]

\* It listens at a path already, and a client of another process waits.
Served(a, other) ==
    [CreateSocket(CreateSocket(Booted, "unix", "stream", InitProcess, 1),
                  "unix", "stream", other, 0) EXCEPT
       !.sockets[1] = [@ EXCEPT !.Address = a, !.IsListening = TRUE,
                                !.PendingConnectionCapacity = 1, !.PendingConnections = <<2>>],
       !.sockets[2] = [@ EXCEPT !.ConnectedPeer = 1]]

\* It has accepted that client.
Connected(a, other) ==
    [CreateSocket(Served(a, other), "unix", "stream", InitProcess, 2) EXCEPT
       !.sockets[1].PendingConnections = <<>>,
       !.sockets[2].ConnectedPeer = 3,
       !.sockets[3].ConnectedPeer = 2]

StartsWith(h, live) ==
    /\ Sockets = h.sockets /\ SocketList = h.list
    /\ FileTable = h.files /\ EventQueueStore = h.queues
    /\ Lost = h.lost
    /\ Live = live

Init ==
    /\ \/ StartsWith(Booted, {InitProcess})
       \/ \E other \in Processes \ {InitProcess}, a \in {b \in Addresses : b.Family = "unix"} :
            \E h \in {Served(a, other), Connected(a, other)} :
              StartsWith(h, {InitProcess, other})
    /\ Call = [p \in Processes |-> NoCall]
    /\ Departures = {}
    /\ Calls = 0

Next ==
    \E p \in Processes :
        \/ SocketCalls(p) \/ DescriptorCalls(p) \/ PollCalls(p)
        \/ PollAgain(p) \/ Woken(p)

\* A sleeping call is woken by the next tick and scheduled in its turn.
Spec == Init /\ [][Next]_vars /\ \A p \in Processes : WF_vars(PollAgain(p))
-----------------------------------------------------------------------------
(* Properties                                                              *)

\* A pointer to a socket is never left behind: a peer is tracked, and either
\* points back, or listens and has the client in its queue, unless accept or a
\* second listen has lost it.  Nobody waits in two queues, or in one for another
\* listener.  ConnectSocket, AcceptSocket, ListenSocket and CloseSocket each
\* change one side of this, for sockets of any process.
PeersAreConsistent ==
    \A s \in Tracked :
        LET peer == Sockets[s].ConnectedPeer
            queue == Sockets[s].PendingConnections
        IN /\ peer # NoSocket =>
                /\ peer \in Tracked
                /\ \/ Sockets[peer].ConnectedPeer = s
                   \/ /\ Sockets[peer].IsListening
                      /\ s \in Range(Sockets[peer].PendingConnections) \cup Lost
           /\ \A c \in Range(queue) : c \in Tracked /\ Sockets[c].ConnectedPeer = s
           /\ IsInjective(queue)
           /\ Len(queue) <= Sockets[s].PendingConnectionCapacity

\* No two sockets answer to one address, however they came by it: BindSocket,
\* the port ListenSocket picks, or a second bind.
AddressesAreExclusive ==
    \A s, o \in Tracked :
        LET a == Sockets[s].Address
            b == Sockets[o].Address
        IN s # o /\ a.Family = b.Family /\ a # Unbound =>
             /\ a.Family # "inet" => a # b \/ a = Address("netlink", 0, 0)
             /\ a.Family = "inet" => a.Port # b.Port \/ (a.Ip # b.Ip /\ 0 \notin {a.Ip, b.Ip})

\* poll tells the truth about a stream: SocketPoll reports something exactly when
\* the call it announces (SocketRead, SocketWrite, AcceptSocket) would not answer
\* EAGAIN, so that a program that waits in between neither spins nor sleeps on.
PollMatchesCalls ==
    \A s \in Tracked :
        Sockets[s].Domain = "unix" /\ Sockets[s].Type = "stream" =>
            IF Sockets[s].IsListening
            THEN PollIn(s) # {} <=> \E c \in Range(Sockets[s].PendingConnections) : c \in Tracked
            ELSE /\ PollIn(s) # {} <=> ReadResult(s) # "EAGAIN"
                 /\ PollOut(s) # {} <=> WriteResult(s) # "EAGAIN"

\* As long as every owner is told: no open file refers to a deleted node, every
\* tracked socket is owned by a process that has it open at the descriptor it is
\* found by, and every open socket is tracked.  No sequence of dup2, fcntl and
\* close frees a socket that is open or keeps one that is not.
SocketsAreTracked ==
    Departures = {} =>
        /\ IsInjective(SocketList)
        /\ \A s \in Tracked :
             FileTable[Sockets[s].Owner][Sockets[s].FileDescriptor] = SocketFile(s)
        /\ \A p \in Processes : \A fd \in FileDescriptors :
             /\ FileTable[p][fd] # Dangling
             /\ FileTable[p][fd].kind = "socket" =>
                  /\ FileTable[p][fd].socket \in Tracked
                  /\ Sockets[FileTable[p][fd].socket].Owner = p

\* Likewise every event queue is open where it was created, and every watch is
\* for the file it was made for: a descriptor that is closed and used again, by
\* dup2 too, is not watched by accident.
WatchesAreCurrent ==
    Departures = {} =>
        \A i \in DOMAIN EventQueueStore :
            LET q == EventQueueStore[i]
            IN /\ FileTable[q.ProcessId][q.FileDescriptor] = EpollFile(q.ProcessId, q.FileDescriptor)
               /\ \A w \in Range(q.Watches) : FileTable[q.ProcessId][w.FileDescriptor] = w.file

\* The call sleeps although something it looks at is ready.
SleepsOnReady(p) == Call[p] # NoCall /\ Defined(p) /\ EvaluatePollState(p, Call[p]).ready > 0

\* poll and epoll_wait return: a call with a timeout when it is over at the latest,
\* a call without one once something it looks at stays ready, unless it waits for
\* the terminal.
PollReturns ==
    \A p \in Processes :
        /\ (Call[p].left > 0 /\ Defined(p)) ~> (Call[p] = NoCall \/ ~Defined(p))
        /\ []<>~(SleepsOnReady(p) /\ ~Call[p].tty)
=============================================================================
