-------------------------- MODULE SocketFilesProofs --------------------------
(***************************************************************************)
(* The files of the sockets and of the event queues: as long as every      *)
(* owner is told, closing, copying and opening descriptors in any order    *)
(* keeps sockets, queues, watches and files in step.                       *)
(***************************************************************************)
EXTENDS SocketsProofs

WatchSet == [FileDescriptor : FileDescriptors, Events : SUBSET Events, file : FileSet]
QueueSet == [ProcessId : Processes, FileDescriptor : FileDescriptors, Watches : Seq(WatchSet)]

\* Every tracked socket is open where its owner finds it, and every open socket
\* is tracked.
GoodSocketFiles(S, T, F) ==
    /\ \A s \in T : F[S[s].Owner][S[s].FileDescriptor] = SocketFile(s)
    /\ \A p \in Processes : \A fd \in FileDescriptors :
         /\ F[p][fd] # Dangling
         /\ F[p][fd].kind = "socket" =>
              F[p][fd].socket \in T /\ S[F[p][fd].socket].Owner = p

\* A file of an event queue is where the queue was created.
GoodEpollFiles(F) ==
    \A p, q \in Processes : \A fd, g \in FileDescriptors :
        F[q][g] = EpollFile(p, fd) => q = p /\ g = fd

\* Every queue is open, there is one for each key, and it watches open files, the
\* ones its watches were made for.
GoodQueues(F, Q) ==
    /\ \A i \in DOMAIN Q :
         F[Q[i].ProcessId][Q[i].FileDescriptor] = EpollFile(Q[i].ProcessId, Q[i].FileDescriptor)
    /\ \A i, j \in DOMAIN Q :
         Q[i].ProcessId = Q[j].ProcessId /\ Q[i].FileDescriptor = Q[j].FileDescriptor => i = j
    /\ \A i \in DOMAIN Q : \A w \in Range(Q[i].Watches) :
         F[Q[i].ProcessId][w.FileDescriptor] = w.file /\ w.file # NoFile

\* A process that does not exist holds no file.
DeadHoldNothing == \A p \in Processes \ Live : FileTable[p] = EmptyTable

GoodFiles(S, T, F, Q) ==
    GoodSocketFiles(S, T, F) /\ GoodEpollFiles(F) /\ GoodQueues(F, Q) /\ Q \in Seq(QueueSet)

FileInv ==
    Departures = {} =>
        GoodFiles(Sockets, Range(SocketList), FileTable, EventQueueStore) /\ DeadHoldNothing

\* Only the file at p's fd changes, to f.
OneFile(F, F2, p, fd, f) ==
    \A q \in Processes : \A g \in FileDescriptors :
        F2[q][g] = IF q = p /\ g = fd THEN f ELSE F[q][g]

\* The sockets T2 are left of T, and are found where they still are open.
Released(S, T, F2, S2, T2) ==
    /\ T2 \subseteq T
    /\ \A o \in T2 : /\ S2[o].Owner = S[o].Owner
                     /\ F2[S2[o].Owner][S2[o].FileDescriptor] = SocketFile(o)
    /\ \A o \in T \ T2 : \A q \in Processes : \A g \in FileDescriptors : F2[q][g] # SocketFile(o)

\* The queues Q2 are left of Q when p closes fd: not the one at fd, and no watch for
\* it.
Unwatched(Q, Q2, p, fd) ==
    \A i \in DOMAIN Q :
      /\ Q2[i].ProcessId = Q[i].ProcessId /\ Q2[i].FileDescriptor = Q[i].FileDescriptor
      /\ Range(Q2[i].Watches) \subseteq Range(Q[i].Watches)
      /\ Q[i].ProcessId = p => \A w \in Range(Q2[i].Watches) : w.FileDescriptor # fd

Remaining(Q, Q2, p, fd) ==
    /\ \A i \in DOMAIN Q2 : \E j \in DOMAIN Q :
         /\ Q2[i].ProcessId = Q[j].ProcessId /\ Q2[i].FileDescriptor = Q[j].FileDescriptor
         /\ Range(Q2[i].Watches) \subseteq Range(Q[j].Watches)
         /\ Q[j].ProcessId = p => /\ Q[j].FileDescriptor # fd
                                  /\ \A w \in Range(Q2[i].Watches) : w.FileDescriptor # fd
    /\ \A i, j \in DOMAIN Q2 :
         Q2[i].ProcessId = Q2[j].ProcessId /\ Q2[i].FileDescriptor = Q2[j].FileDescriptor => i = j

\* The kinds of files, and what they refer to.
LEMMA FileFacts ==
    /\ NoFile.kind = "none" /\ Terminal.kind = "tty" /\ Dangling.kind = "dangling"
    /\ \A s : SocketFile(s).kind = "socket" /\ SocketFile(s).socket = s
    /\ \A p, fd : EpollFile(p, fd).kind = "epoll" /\ EpollFile(p, fd).queue = <<p, fd>>
    /\ \A p, fd, q, g : EpollFile(p, fd) = EpollFile(q, g) => p = q /\ fd = g
    /\ \A f \in FileSet : f.kind = "dangling" => f = Dangling
    /\ \A f \in FileSet : f.kind = "none" => f = NoFile
  BY DEF FileSet, NoFile, Terminal, Dangling, SocketFile, EpollFile, File

-----------------------------------------------------------------------------
(* Files on their own                                                      *)

\* The types of an event queue and of its watches.
LEMMA QueueTypes ==
    ASSUME NEW Q \in Seq(QueueSet), NEW i \in DOMAIN Q
    PROVE  /\ Q[i] \in QueueSet /\ Q[i].Watches \in Seq(WatchSet)
           /\ Q[i].ProcessId \in Processes /\ Q[i].FileDescriptor \in FileDescriptors
           /\ \A w \in Range(Q[i].Watches) : w \in WatchSet /\ w.FileDescriptor \in FileDescriptors
<1>1. Q[i] \in QueueSet
  OBVIOUS
<1>2. /\ Q[i].Watches \in Seq(WatchSet)
      /\ Q[i].ProcessId \in Processes /\ Q[i].FileDescriptor \in FileDescriptors
  BY <1>1 DEF QueueSet
<1>3. \A w \in Range(Q[i].Watches) : w \in WatchSet
  <2> DEFINE W == Q[i].Watches
  <2>1. \A n \in DOMAIN W : W[n] \in WatchSet
    BY <1>2
  <2> QED
    BY <2>1 DEF Range
<1>4. \A w \in WatchSet : w.FileDescriptor \in FileDescriptors
  BY DEF WatchSet
<1> QED
  BY <1>1, <1>2, <1>3, <1>4

\* The queues do not notice a file where there was none.
LEMMA QueuesFrame ==
    ASSUME NEW F, NEW F2, NEW Q \in Seq(QueueSet), GoodQueues(F, Q),
           \A q \in Processes : \A g \in FileDescriptors :
             F[q][g] # NoFile => F2[q][g] = F[q][g]
    PROVE  GoodQueues(F2, Q)
<1>1. ASSUME NEW i \in DOMAIN Q
      PROVE  /\ F2[Q[i].ProcessId][Q[i].FileDescriptor] = EpollFile(Q[i].ProcessId, Q[i].FileDescriptor)
             /\ \A w \in Range(Q[i].Watches) :
                  F2[Q[i].ProcessId][w.FileDescriptor] = w.file /\ w.file # NoFile
  <2>1. /\ Q[i].ProcessId \in Processes /\ Q[i].FileDescriptor \in FileDescriptors
        /\ \A w \in Range(Q[i].Watches) : w.FileDescriptor \in FileDescriptors
    BY QueueTypes
  <2>2. /\ F[Q[i].ProcessId][Q[i].FileDescriptor] = EpollFile(Q[i].ProcessId, Q[i].FileDescriptor)
        /\ F[Q[i].ProcessId][Q[i].FileDescriptor] # NoFile
    BY FileFacts DEF GoodQueues
  <2>3. \A w \in Range(Q[i].Watches) :
          F[Q[i].ProcessId][w.FileDescriptor] = w.file /\ w.file # NoFile
    BY DEF GoodQueues
  <2> QED
    BY <2>1, <2>2, <2>3
<1> QED
  BY <1>1 DEF GoodQueues

\* A step of the sockets only, that keeps their owners and descriptors.
LEMMA OwnersFrame ==
    ASSUME NEW S, NEW S2, NEW T, NEW F, NEW Q, GoodFiles(S, T, F, Q),
           \A o \in T : S2[o].Owner = S[o].Owner /\ S2[o].FileDescriptor = S[o].FileDescriptor
    PROVE  GoodFiles(S2, T, F, Q)
<1>1. GoodSocketFiles(S2, T, F)
  BY DEF GoodFiles, GoodSocketFiles
<1> QED
  BY <1>1 DEF GoodFiles

\* A file is put where there was none: a socket's of the process, or one that
\* neither a socket nor a queue has to hear of.
LEMMA OpenFileGood ==
    ASSUME NEW S, S \in [SocketIds -> SocketSet], NEW T, T \subseteq SocketIds,
           NEW F, F \in FileTables, NEW F2, NEW Q, GoodFiles(S, T, F, Q),
           NEW p \in Processes, NEW fd \in FileDescriptors, F[p][fd] = NoFile,
           NEW f, f # Dangling, f.kind # "epoll",
           f.kind = "socket" => f.socket \in T /\ S[f.socket].Owner = p,
           OneFile(F, F2, p, fd, f)
    PROVE  GoodFiles(S, T, F2, Q)
<1>0. \A q \in Processes : \A g \in FileDescriptors :
        F2[q][g] = IF q = p /\ g = fd THEN f ELSE F[q][g]
  BY DEF OneFile
<1> USE <1>0
<1>1. \A s \in T : S[s].Owner \in Processes /\ S[s].FileDescriptor \in FileDescriptors
  BY DEF SocketSet
<1>2. GoodSocketFiles(S, T, F2)
  <2>1. \A s \in T : F[S[s].Owner][S[s].FileDescriptor] # NoFile
    BY FileFacts DEF GoodFiles, GoodSocketFiles
  <2>2. \A s \in T : F2[S[s].Owner][S[s].FileDescriptor] = SocketFile(s)
    BY <1>1, <2>1 DEF GoodFiles, GoodSocketFiles
  <2> QED
    BY <2>2 DEF GoodFiles, GoodSocketFiles
<1>3. GoodEpollFiles(F2)
  <2>1. \A q, g : f # EpollFile(q, g)
    BY FileFacts
  <2> QED
    BY <2>1 DEF GoodFiles, GoodEpollFiles
<1>4. GoodQueues(F2, Q)
  BY QueuesFrame DEF GoodFiles
<1> QED
  BY <1>2, <1>3, <1>4 DEF GoodFiles

\* A new socket, at a descriptor that was free.
LEMMA NewSocketFileGood ==
    ASSUME NEW S, S \in [SocketIds -> SocketSet], NEW T, T \subseteq SocketIds,
           NEW F, F \in FileTables, NEW F2, NEW Q, GoodFiles(S, T, F, Q),
           NEW p \in Processes, NEW fd \in FileDescriptors, F[p][fd] = NoFile,
           NEW s \in SocketIds \ T, NEW S2 \in [SocketIds -> SocketSet],
           S2[s].Owner = p, S2[s].FileDescriptor = fd,
           \A o \in T : S2[o].Owner = S[o].Owner /\ S2[o].FileDescriptor = S[o].FileDescriptor,
           OneFile(F, F2, p, fd, SocketFile(s))
    PROVE  GoodFiles(S2, T \cup {s}, F2, Q)
<1>0. \A q \in Processes : \A g \in FileDescriptors :
        F2[q][g] = IF q = p /\ g = fd THEN SocketFile(s) ELSE F[q][g]
  BY DEF OneFile
<1> USE <1>0
<1>1. GoodFiles(S2, T, F, Q)
  BY OwnersFrame
<1>3. \A o \in T : S2[o].Owner \in Processes /\ S2[o].FileDescriptor \in FileDescriptors
  BY DEF SocketSet
<1>4. GoodSocketFiles(S2, T \cup {s}, F2)
  <2>1. \A o \in T : F[S2[o].Owner][S2[o].FileDescriptor] = SocketFile(o) /\ SocketFile(o) # NoFile
    BY <1>1, FileFacts DEF GoodFiles, GoodSocketFiles
  <2>2. \A o \in T : F2[S2[o].Owner][S2[o].FileDescriptor] = SocketFile(o)
    BY <1>3, <2>1
  <2>3. F2[S2[s].Owner][S2[s].FileDescriptor] = SocketFile(s)
    OBVIOUS
  <2>4. \A q \in Processes : \A g \in FileDescriptors :
          /\ F[q][g] # Dangling
          /\ F[q][g].kind = "socket" => F[q][g].socket \in T /\ S2[F[q][g].socket].Owner = q
    BY <1>1 DEF GoodFiles, GoodSocketFiles
  <2>5. SocketFile(s) # Dangling /\ SocketFile(s).socket = s
    BY FileFacts
  <2>6. \A q \in Processes : \A g \in FileDescriptors :
          /\ F2[q][g] # Dangling
          /\ F2[q][g].kind = "socket" =>
               F2[q][g].socket \in T \cup {s} /\ S2[F2[q][g].socket].Owner = q
    BY <2>4, <2>5
  <2> QED
    BY <2>2, <2>3, <2>6 DEF GoodSocketFiles
<1>5. GoodEpollFiles(F2)
  <2>1. \A q, g : SocketFile(s) # EpollFile(q, g)
    BY FileFacts
  <2> QED
    BY <2>1 DEF GoodFiles, GoodEpollFiles
<1>6. GoodQueues(F2, Q)
  BY QueuesFrame DEF GoodFiles
<1> QED
  BY <1>1, <1>4, <1>5, <1>6 DEF GoodFiles

\* A file is closed: the sockets and the queues that are left do not need it.
LEMMA CloseFileGood ==
    ASSUME NEW S, NEW T, NEW F, NEW F2, NEW Q, GoodFiles(S, T, F, Q),
           NEW p \in Processes, NEW fd \in FileDescriptors,
           OneFile(F, F2, p, fd, NoFile),
           NEW S2, NEW T2, Released(S, T, F2, S2, T2),
           F \in FileTables,
           NEW Q2 \in Seq(QueueSet), Remaining(Q, Q2, p, fd)
    PROVE  GoodFiles(S2, T2, F2, Q2)
<1>0. \A q \in Processes : \A g \in FileDescriptors :
        F2[q][g] = IF q = p /\ g = fd THEN NoFile ELSE F[q][g]
  BY DEF OneFile
<1>00. /\ T2 \subseteq T
       /\ \A o \in T2 : /\ S2[o].Owner = S[o].Owner
                        /\ F2[S2[o].Owner][S2[o].FileDescriptor] = SocketFile(o)
       /\ \A o \in T \ T2 : \A q \in Processes : \A g \in FileDescriptors : F2[q][g] # SocketFile(o)
  BY DEF Released
<1> USE <1>0, <1>00
<1>1. GoodSocketFiles(S2, T2, F2)
  <2> SUFFICES ASSUME NEW q \in Processes, NEW g \in FileDescriptors
               PROVE  /\ F2[q][g] # Dangling
                      /\ F2[q][g].kind = "socket" =>
                           F2[q][g].socket \in T2 /\ S2[F2[q][g].socket].Owner = q
    BY DEF GoodSocketFiles
  <2>1. CASE q = p /\ g = fd
    BY <2>1, FileFacts
  <2>2. CASE ~(q = p /\ g = fd)
    <3>1. F2[q][g] = F[q][g] /\ F2[q][g] # Dangling
      BY <2>2 DEF GoodFiles, GoodSocketFiles
    <3>2. ASSUME F2[q][g].kind = "socket"
          PROVE  F2[q][g].socket \in T2 /\ S2[F2[q][g].socket].Owner = q
      <4> DEFINE o == F[q][g].socket
      <4>1. o \in T /\ S[o].Owner = q
        BY <3>1, <3>2 DEF GoodFiles, GoodSocketFiles
      <4>2. F2[q][g] = SocketFile(o)
        <5>1. F[q][g] \in FileSet
          BY DEF FileTables
        <5> QED
          BY <3>1, <3>2, <5>1, SocketFileIds
      <4>3. o \in T2
        BY <4>1, <4>2
      <4> QED
        BY <3>1, <4>1, <4>3
    <3> QED
      BY <3>1, <3>2
  <2> QED
    BY <2>1, <2>2
<1>2. GoodEpollFiles(F2)
  <2>1. \A q, g : NoFile # EpollFile(q, g)
    BY FileFacts
  <2> QED
    BY <2>1 DEF GoodFiles, GoodEpollFiles
<1>3. ASSUME NEW i \in DOMAIN Q2
      PROVE  /\ F2[Q2[i].ProcessId][Q2[i].FileDescriptor] = EpollFile(Q2[i].ProcessId, Q2[i].FileDescriptor)
             /\ \A w \in Range(Q2[i].Watches) :
                  F2[Q2[i].ProcessId][w.FileDescriptor] = w.file /\ w.file # NoFile
  <2>1. PICK j \in DOMAIN Q :
             /\ Q2[i].ProcessId = Q[j].ProcessId /\ Q2[i].FileDescriptor = Q[j].FileDescriptor
             /\ Range(Q2[i].Watches) \subseteq Range(Q[j].Watches)
             /\ Q[j].ProcessId = p => /\ Q[j].FileDescriptor # fd
                                      /\ \A w \in Range(Q2[i].Watches) : w.FileDescriptor # fd
    BY DEF Remaining
  <2>2. /\ Q[j].ProcessId \in Processes /\ Q[j].FileDescriptor \in FileDescriptors
        /\ \A w \in Range(Q[j].Watches) : w.FileDescriptor \in FileDescriptors
    BY QueueTypes DEF GoodFiles
  <2>3. /\ F[Q[j].ProcessId][Q[j].FileDescriptor] = EpollFile(Q[j].ProcessId, Q[j].FileDescriptor)
        /\ \A w \in Range(Q[j].Watches) :
             F[Q[j].ProcessId][w.FileDescriptor] = w.file /\ w.file # NoFile
    BY DEF GoodFiles, GoodQueues
  <2> QED
    BY <2>1, <2>2, <2>3
<1>4. GoodQueues(F2, Q2)
  BY <1>3 DEF GoodQueues, Remaining
<1> QED
  BY <1>1, <1>2, <1>4 DEF GoodFiles

\* FindEventQueue finds the queue of a descriptor, or there is none.
LEMMA FindQueueFacts ==
    ASSUME NEW Q \in Seq(QueueSet), NEW p, NEW fd
    PROVE  /\ FindEventQueue(Q, p, fd) = 0 =>
                \A i \in DOMAIN Q : ~(Q[i].ProcessId = p /\ Q[i].FileDescriptor = fd)
           /\ FindEventQueue(Q, p, fd) # 0 =>
                /\ FindEventQueue(Q, p, fd) \in DOMAIN Q
                /\ Q[FindEventQueue(Q, p, fd)].ProcessId = p
                /\ Q[FindEventQueue(Q, p, fd)].FileDescriptor = fd
<1> DEFINE found == {i \in DOMAIN Q : Q[i].ProcessId = p /\ Q[i].FileDescriptor = fd}
<1>1. FindEventQueue(Q, p, fd) = IF found = {} THEN 0 ELSE Min(found)
  BY DEF FindEventQueue
<1>2. DOMAIN Q \subseteq Nat /\ 0 \notin DOMAIN Q
  OBVIOUS
<1>3. found # {} => Min(found) \in found
  <2>1. found \subseteq Nat
    BY <1>2
  <2> HIDE DEF found
  <2> QED
    BY <2>1, MinIsSmallest
<1> QED
  BY <1>1, <1>2, <1>3

\* RemoveWatchesForFile removes the watches for that descriptor and nothing
\* else.
LEMMA UnwatchedElements ==
    ASSUME NEW Q \in Seq(QueueSet), NEW p, NEW fd, NEW Q2, Q2 = RemoveWatchesForFile(Q, p, fd)
    PROVE  Q2 \in Seq(QueueSet) /\ DOMAIN Q2 = DOMAIN Q /\ Unwatched(Q, Q2, p, fd)
<1> DEFINE W(i) == Q[i].Watches
           K(i) == {n \in DOMAIN W(i) : W(i)[n].FileDescriptor # fd}
           r(i) == [Q[i] EXCEPT !.Watches = Compacted(W(i), K(i))]
<1>1. Q2 = [i \in DOMAIN Q |-> IF Q[i].ProcessId # p THEN Q[i] ELSE r(i)]
  BY DEF RemoveWatchesForFile
<1>2. ASSUME NEW i \in DOMAIN Q
      PROVE  /\ r(i) \in QueueSet
             /\ r(i).ProcessId = Q[i].ProcessId /\ r(i).FileDescriptor = Q[i].FileDescriptor
             /\ r(i).Watches = Compacted(W(i), K(i))
             /\ Range(Compacted(W(i), K(i))) \subseteq Range(W(i))
             /\ \A w \in Range(Compacted(W(i), K(i))) : w.FileDescriptor # fd
  <2>1. Q[i] \in QueueSet /\ W(i) \in Seq(WatchSet)
    BY QueueTypes
  <2>2. K(i) \subseteq DOMAIN W(i)
    OBVIOUS
  <2>3. /\ Compacted(W(i), K(i)) \in Seq(WatchSet)
        /\ Range(Compacted(W(i), K(i))) = {W(i)[n] : n \in K(i)}
    <3> HIDE DEF W, K
    <3> QED
      BY <2>1, <2>2, CompactedElements
  <2>4. Range(Compacted(W(i), K(i))) \subseteq Range(W(i))
    BY <2>2, <2>3 DEF Range
  <2>5. \A w \in Range(Compacted(W(i), K(i))) : w.FileDescriptor # fd
    BY <2>3
  <2> DEFINE c == Compacted(W(i), K(i))
  <2> HIDE DEF c
  <2>6. [Q[i] EXCEPT !.Watches = c] \in QueueSet
    BY <2>1, <2>3 DEF QueueSet, c
  <2> QED
    BY <2>1, <2>4, <2>5, <2>6 DEF QueueSet, c
<1> HIDE DEF r, K
<1>3. Q2 \in [DOMAIN Q -> QueueSet] /\ DOMAIN Q = 1 .. Len(Q) /\ Len(Q) \in Nat
  BY <1>1, <1>2
<1>4. Q2 \in Seq(QueueSet)
  BY <1>3
<1>5. \A i \in DOMAIN Q : Q2[i] = IF Q[i].ProcessId # p THEN Q[i] ELSE r(i)
  BY <1>1
<1> QED
  BY <1>2, <1>3, <1>4, <1>5 DEF Unwatched

\* What closing leaves of the queues: neither the one at the descriptor nor a watch
\* for it.
LEMMA ClosedQueuesElements ==
    ASSUME NEW F, EventQueueStore \in Seq(QueueSet), GoodQueues(F, EventQueueStore),
           NEW p \in Processes, NEW fd \in FileDescriptors, NEW Q2, Q2 = ClosedQueues(p, fd)
    PROVE  Q2 \in Seq(QueueSet) /\ Remaining(EventQueueStore, Q2, p, fd)
<1> DEFINE Q == EventQueueStore
<1> DEFINE k == FindEventQueue(Q, p, fd)
           R == UnqueuedQueues(p, fd)
<1>1. /\ R \in Seq(QueueSet)
      /\ \A i \in DOMAIN R : \E j \in DOMAIN Q :
           R[i] = Q[j] /\ (Q[j].ProcessId = p => Q[j].FileDescriptor # fd)
      /\ \A i, j \in DOMAIN R :
           R[i].ProcessId = R[j].ProcessId /\ R[i].FileDescriptor = R[j].FileDescriptor => i = j
  <2>1. CASE k = 0
    <3>1. R = Q
      BY <2>1 DEF UnqueuedQueues
    <3>2. \A j \in DOMAIN Q : ~(Q[j].ProcessId = p /\ Q[j].FileDescriptor = fd)
      BY <2>1, FindQueueFacts
    <3>3. \A i, j \in DOMAIN Q :
            Q[i].ProcessId = Q[j].ProcessId /\ Q[i].FileDescriptor = Q[j].FileDescriptor => i = j
      BY DEF GoodQueues
    <3> HIDE DEF R, k
    <3> QED
      BY <3>1, <3>2, <3>3
  <2>2. CASE k # 0
    <3>1. k \in 1 .. Len(Q) /\ Q[k].ProcessId = p /\ Q[k].FileDescriptor = fd
      BY <2>2, FindQueueFacts
    <3>2. R = RemoveAt(Q, k)
      BY <2>2 DEF UnqueuedQueues
    <3> HIDE DEF R, k
    <3>3. /\ R \in Seq(QueueSet) /\ Len(R) = Len(Q) - 1
          /\ \A n \in 1 .. Len(Q) - 1 : R[n] = IF n < k THEN Q[n] ELSE Q[n + 1]
      BY <3>1, <3>2, RemoveAtElements
    <3>4. \A i, j \in DOMAIN Q :
            Q[i].ProcessId = Q[j].ProcessId /\ Q[i].FileDescriptor = Q[j].FileDescriptor => i = j
      BY DEF GoodQueues
    <3> DEFINE at(i) == IF i < k THEN i ELSE i + 1
    <3>5. /\ DOMAIN R = 1 .. Len(Q) - 1 /\ DOMAIN Q = 1 .. Len(Q)
          /\ \A i \in DOMAIN R : at(i) \in DOMAIN Q /\ at(i) # k /\ R[i] = Q[at(i)]
          /\ \A i, j \in DOMAIN R : at(i) = at(j) => i = j
      BY <3>1, <3>3
    <3>6. \A i \in DOMAIN R : Q[at(i)].ProcessId = p => Q[at(i)].FileDescriptor # fd
      BY <3>1, <3>4, <3>5
    <3>7. \A i, j \in DOMAIN R :
            R[i].ProcessId = R[j].ProcessId /\ R[i].FileDescriptor = R[j].FileDescriptor => i = j
      BY <3>4, <3>5
    <3> HIDE DEF at
    <3> QED
      BY <3>3, <3>5, <3>6, <3>7
  <2> QED
    BY <2>1, <2>2
<1>2. PICK V \in Seq(QueueSet) : V = R
  BY <1>1
<1>3. Q2 = RemoveWatchesForFile(V, p, fd)
  BY <1>2 DEF ClosedQueues
<1> HIDE DEF R
<1>4. Q2 \in Seq(QueueSet) /\ DOMAIN Q2 = DOMAIN V /\ Unwatched(V, Q2, p, fd)
  BY <1>3, UnwatchedElements
<1>5. /\ \A i \in DOMAIN V : \E j \in DOMAIN Q :
           V[i] = Q[j] /\ (Q[j].ProcessId = p => Q[j].FileDescriptor # fd)
      /\ \A i, j \in DOMAIN V :
           V[i].ProcessId = V[j].ProcessId /\ V[i].FileDescriptor = V[j].FileDescriptor => i = j
  BY <1>1, <1>2
<1>6. ASSUME NEW i \in DOMAIN Q2
      PROVE  \E j \in DOMAIN Q :
                /\ Q2[i].ProcessId = Q[j].ProcessId /\ Q2[i].FileDescriptor = Q[j].FileDescriptor
                /\ Range(Q2[i].Watches) \subseteq Range(Q[j].Watches)
                /\ Q[j].ProcessId = p => /\ Q[j].FileDescriptor # fd
                                         /\ \A w \in Range(Q2[i].Watches) : w.FileDescriptor # fd
  <2>1. PICK j \in DOMAIN Q :
          V[i] = Q[j] /\ (Q[j].ProcessId = p => Q[j].FileDescriptor # fd)
    BY <1>4, <1>5
  <2> WITNESS j \in DOMAIN Q
  <2> QED
    BY <1>4, <2>1 DEF Unwatched
<1>7. \A i, j \in DOMAIN Q2 :
        Q2[i].ProcessId = Q2[j].ProcessId /\ Q2[i].FileDescriptor = Q2[j].FileDescriptor => i = j
  BY <1>4, <1>5 DEF Unwatched
<1> QED
  BY <1>4, <1>6, <1>7 DEF Remaining

\* What closing leaves of the files and the sockets.
LEMMA CloseFiles ==
    ASSUME SocketInv, NEW p \in Processes, NEW fd \in FileDescriptors, FileTable[p][fd] # NoFile,
           GoodFiles(Sockets, Range(SocketList), FileTable, EventQueueStore),
           NEW h, h = CloseDescriptor(Current, p, fd)
    PROVE  /\ GoodFiles(h.sockets, Range(h.list), h.files, h.queues)
           /\ OneFile(FileTable, h.files, p, fd, NoFile)
<1> DEFINE s == SocketAt(p, fd)
           T == Range(SocketList)
           U == UnqueuedFiles(p, fd)
           C == ClosedFiles(p, fd)
           Q == EventQueueStore
<1>1. /\ h.sockets = ClosedSockets(p, fd) /\ h.list = ClosedList(p, fd)
      /\ h.files = C /\ h.queues = ClosedQueues(p, fd)
  BY CloseEffect
<1>2. /\ GoodSockets(Sockets, SocketList, Lost) /\ FileTable \in FileTables
      /\ Sockets \in [SocketIds -> SocketSet] /\ SocketList \in Seq(SocketIds)
      /\ IsInjective(SocketList) /\ T \subseteq SocketIds
  BY TrackedAreIds DEF SocketInv, GoodSockets
<1>3. /\ GoodSocketFiles(Sockets, T, FileTable) /\ GoodEpollFiles(FileTable)
      /\ GoodQueues(FileTable, Q) /\ Q \in Seq(QueueSet)
  BY DEF GoodFiles
<1>4. s # NoSocket => /\ s \in T /\ Sockets[s].Owner = p /\ Sockets[s].FileDescriptor = fd
                      /\ FileTable[p][fd] = SocketFile(s)
  BY <1>3, SocketAtFound DEF Tracked, GoodSocketFiles
<1>5. s = NoSocket => \A o \in T : ~(Sockets[o].Owner = p /\ Sockets[o].FileDescriptor = fd)
  BY SocketAtNone DEF Tracked
<1>6. /\ U \in FileTables
      /\ \A q \in Processes : \A g \in FileDescriptors :
           q # p \/ g # fd => U[q][g] = FileTable[q][g]
      /\ s # NoSocket => U[p][fd] = FileTable[p][fd]
  <2>1. CASE FindEventQueue(Q, p, fd) = 0
    BY <1>2, <2>1 DEF UnqueuedFiles
  <2>2. CASE FindEventQueue(Q, p, fd) # 0
    <3>1. /\ U = [q \in Processes |-> [g \in FileDescriptors |->
                    IF FileTable[q][g] = EpollFile(p, fd) THEN Dangling ELSE FileTable[q][g]]]
      BY <2>2 DEF UnqueuedFiles
    <3>2. \A q \in Processes : \A g \in FileDescriptors :
            FileTable[q][g] = EpollFile(p, fd) => q = p /\ g = fd
      BY <1>3 DEF GoodEpollFiles
    <3>3. s # NoSocket => FileTable[p][fd] # EpollFile(p, fd)
      BY <1>4, FileFacts
    <3>4. \A q \in Processes : \A g \in FileDescriptors :
            U[q][g] = IF FileTable[q][g] = EpollFile(p, fd) THEN Dangling ELSE FileTable[q][g]
      BY <3>1
    <3>5. U \in FileTables
      BY <1>2, <3>1, FilesAreFiles DEF FileTables
    <3> HIDE DEF U, s
    <3> QED
      BY <3>2, <3>3, <3>4, <3>5
  <2> QED
    BY <2>1, <2>2
<1> DEFINE others == OtherDescriptors(p, fd)
<1>7. others = {g \in FileDescriptors \ {fd} : FileTable[p][g] = SocketFile(s)}
  BY <1>6 DEF OtherDescriptors
<1>8. Destroys(p, fd) => \A q \in Processes : \A g \in FileDescriptors :
                           FileTable[q][g] = SocketFile(s) => q = p /\ g = fd
  <2> SUFFICES ASSUME Destroys(p, fd), NEW q \in Processes, NEW g \in FileDescriptors,
                      FileTable[q][g] = SocketFile(s)
               PROVE  q = p /\ g = fd
    OBVIOUS
  <2>1. q = p
    BY <1>3, <1>4, FileFacts DEF Destroys, GoodSocketFiles
  <2> QED
    BY <1>7, <2>1 DEF Destroys
<1>9. /\ C \in FileTables
      /\ \A q \in Processes : \A g \in FileDescriptors :
           C[q][g] = IF q = p /\ g = fd THEN NoFile ELSE FileTable[q][g]
  <2> DEFINE D == IF Destroys(p, fd) THEN DestroyedFiles(p, fd, s) ELSE U
  <2>1. C = [D EXCEPT ![p][fd] = NoFile]
    BY DEF ClosedFiles
  <2>2. D \in FileTables /\ \A q \in Processes : \A g \in FileDescriptors :
          q # p \/ g # fd => D[q][g] = FileTable[q][g]
    <3>1. CASE ~Destroys(p, fd)
      BY <1>6, <3>1
    <3>2. CASE Destroys(p, fd)
      <4>1. s # NoSocket /\ U[p][fd] = SocketFile(s)
        BY <1>4, <1>6, <3>2 DEF Destroys
      <4>2. D = [q \in Processes |-> [g \in FileDescriptors |->
                   IF U[q][g] \in {SocketFile(s), U[p][fd]} THEN Dangling ELSE U[q][g]]]
        BY <3>2 DEF DestroyedFiles
      <4> HIDE DEF D, U, s
      <4>3. D \in FileTables
        <5>1. \A q \in Processes : \A g \in FileDescriptors : U[q][g] \in FileSet
          BY <1>6 DEF FileTables
        <5> QED
          BY <4>2, <5>1, FilesAreFiles DEF FileTables
      <4>4. \A q \in Processes : \A g \in FileDescriptors :
              D[q][g] = IF U[q][g] = SocketFile(s) THEN Dangling ELSE U[q][g]
        BY <4>1, <4>2
      <4> QED
        BY <1>6, <1>8, <3>2, <4>3, <4>4
    <3> QED
      BY <3>1, <3>2
  <2> HIDE DEF D, C
  <2>3. C \in FileTables
    BY <2>1, <2>2, FileTableChange, FilesAreFiles
  <2>4. \A q \in Processes : \A g \in FileDescriptors :
          C[q][g] = IF q = p /\ g = fd THEN NoFile ELSE D[q][g]
    BY <2>1, <2>2 DEF FileTables
  <2> QED
    BY <2>2, <2>3, <2>4
<1> DEFINE S2 == ClosedSockets(p, fd)
           T2 == Range(ClosedList(p, fd))
<1>10. /\ T2 \subseteq T
       /\ \A o \in T2 : /\ S2[o].Owner = Sockets[o].Owner
                        /\ C[S2[o].Owner][S2[o].FileDescriptor] = SocketFile(o)
       /\ \A o \in T \ T2 : \A q \in Processes : \A g \in FileDescriptors : C[q][g] # SocketFile(o)
  <2>0. /\ \A o \in T : Sockets[o].Owner \in Processes /\ Sockets[o].FileDescriptor \in FileDescriptors
        /\ \A o \in T : FileTable[Sockets[o].Owner][Sockets[o].FileDescriptor] = SocketFile(o)
    BY <1>2, <1>3 DEF SocketSet, GoodSocketFiles
  <2>1. CASE s = NoSocket
    <3>1. S2 = Sockets /\ T2 = T
      BY <2>1 DEF ClosedSockets, ClosedList, Destroys
    <3> HIDE DEF S2, T2, C, T
    <3> QED
      BY <1>5, <1>9, <2>0, <2>1, <3>1
  <2>2. CASE s # NoSocket /\ others # {}
    <3> DEFINE m == Min(others)
    <3>1. S2 = [Sockets EXCEPT ![s].FileDescriptor = m] /\ T2 = T
      BY <2>2 DEF ClosedSockets, ClosedList, Destroys
    <3>2. m \in FileDescriptors \ {fd} /\ FileTable[p][m] = SocketFile(s)
      <4>1. m \in others
        BY <1>7, <2>2, FreeFilesMin
      <4> QED
        BY <1>7, <4>1
    <3> HIDE DEF m, S2, T2, C, T, s
    <3>3. /\ s \in T /\ s \in SocketIds /\ Sockets[s].Owner = p
          /\ \A o \in T \ {s} : S2[o] = Sockets[o]
          /\ S2[s].FileDescriptor = m /\ S2[s].Owner = Sockets[s].Owner
      BY <1>2, <1>4, <2>2, <3>1 DEF SocketSet
    <3>4. C[p][m] = SocketFile(s)
      BY <1>9, <3>2
    <3>5. \A o \in T \ {s} : ~(Sockets[o].Owner = p /\ Sockets[o].FileDescriptor = fd)
      BY <1>4, <2>0, <2>2, FileFacts
    <3>6. \A o \in T \ {s} : C[Sockets[o].Owner][Sockets[o].FileDescriptor] = SocketFile(o)
      BY <1>9, <2>0, <3>5
    <3> QED
      BY <3>1, <3>3, <3>4, <3>6
  <2>3. CASE s # NoSocket /\ others = {}
    <3>1. Destroys(p, fd)
      BY <2>3 DEF Destroys
    <3>2. T2 = T \ {s} /\ s \in SocketIds /\ s \in T
      <4>1. s \in T /\ ClosedList(p, fd) = RemoveFirst(SocketList, s)
        BY <1>4, <2>3, <3>1 DEF ClosedList
      <4> HIDE DEF s
      <4> QED
        BY <1>2, <4>1, RemoveFirstRange
    <3>3. S2 = [o \in SocketIds |-> IF o = s THEN FreeSocket ELSE Forget(Sockets[o], s)]
      BY <3>1 DEF ClosedSockets
    <3> HIDE DEF S2, T2, C, T, s
    <3>4. \A o \in SocketIds \ {s} :
            S2[o].Owner = Sockets[o].Owner /\ S2[o].FileDescriptor = Sockets[o].FileDescriptor
      BY <1>2, <3>2, <3>3, DestroyFields
    <3>5. \A o \in T \ {s} : ~(Sockets[o].Owner = p /\ Sockets[o].FileDescriptor = fd)
      BY <1>4, <2>0, <2>3, FileFacts
    <3>6. \A o \in T2 : C[Sockets[o].Owner][Sockets[o].FileDescriptor] = SocketFile(o)
      BY <1>9, <2>0, <3>2, <3>5
    <3>7. \A q \in Processes : \A g \in FileDescriptors : C[q][g] # SocketFile(s)
      BY <1>8, <1>9, <3>1, FileFacts
    <3> QED
      BY <1>2, <3>2, <3>4, <3>6, <3>7
  <2> QED
    BY <2>1, <2>2, <2>3
<1>11. PICK Q2 : Q2 = ClosedQueues(p, fd)
  OBVIOUS
<1>12. Q2 \in Seq(QueueSet) /\ Remaining(Q, Q2, p, fd)
  BY <1>3, <1>11, ClosedQueuesElements
<1> HIDE DEF S2, T2, C, T, U, s, others, Q
<1>13. GoodFiles(Sockets, T, FileTable, Q)
  BY DEF T, Q
<1>14. Released(Sockets, T, C, S2, T2) /\ OneFile(FileTable, C, p, fd, NoFile)
  BY <1>9, <1>10 DEF Released, OneFile
<1>15. GoodFiles(S2, T2, C, Q2)
  BY <1>2, <1>12, <1>13, <1>14, CloseFileGood
<1> QED
  BY <1>1, <1>11, <1>14, <1>15 DEF S2, T2

-----------------------------------------------------------------------------
(* The calls on descriptors                                                *)

\* Only p's files change.
OtherRows(F, F2, p) == \A q \in Processes \ {p} : \A g \in FileDescriptors : F2[q][g] = F[q][g]

\* A change of one descriptor leaves the other processes' alone.
LEMMA OneFileIsOneRow ==
    ASSUME NEW F, NEW F2, NEW p, NEW fd, NEW f, OneFile(F, F2, p, fd, f)
    PROVE  OtherRows(F, F2, p)
  BY DEF OneFile, OtherRows

\* A call of a living process leaves the dead without files.
LEMMA DeadFrame ==
    ASSUME SocketInv, SocketInv', DeadHoldNothing, NEW p \in Live, Live' = Live,
           OtherRows(FileTable, FileTable', p)
    PROVE  DeadHoldNothing'
<1>1. FileTable \in FileTables /\ FileTable' \in FileTables
  BY DEF SocketInv
<1>2. \A q \in Processes \ {p} : FileTable'[q] = FileTable[q]
  BY <1>1 DEF FileTables, OtherRows
<1> QED
  BY <1>2 DEF DeadHoldNothing, EmptyTable, FileDescriptors

\* close keeps files, queues and watches in agreement.
LEMMA CloseCallFiles ==
    ASSUME SocketInv, SocketInv', FileInv, NEW p \in Processes, NEW fd \in FileDescriptors,
           HandleCloseSystemCall(p, fd)
    PROVE  FileInv'
<1> SUFFICES ASSUME Departures' = {}
             PROVE  /\ GoodFiles(Sockets', Range(SocketList'), FileTable', EventQueueStore')
                    /\ DeadHoldNothing'
  BY DEF FileInv
<1>1. PICK h : h = CloseDescriptor(Current, p, fd)
  OBVIOUS
<1>2. /\ Sockets' = h.sockets /\ SocketList' = h.list /\ FileTable' = h.files
      /\ EventQueueStore' = h.queues
  BY <1>1 DEF HandleCloseSystemCall, Succeeds, Becomes
<1>3. /\ Departures' = Departures /\ Live' = Live /\ p \in Live /\ FileTable[p][fd] # NoFile
      /\ GoodFiles(Sockets, Range(SocketList), FileTable, EventQueueStore) /\ DeadHoldNothing
  BY DEF HandleCloseSystemCall, Succeeds, FileInv, MayCall, OpenFiles
<1>4. /\ GoodFiles(h.sockets, Range(h.list), h.files, h.queues)
      /\ OneFile(FileTable, h.files, p, fd, NoFile)
  BY <1>1, <1>3, CloseFiles
<1>5. DeadHoldNothing'
  <2>1. OtherRows(FileTable, FileTable', p)
    BY <1>2, <1>4, OneFileIsOneRow
  <2> QED
    BY <1>3, <2>1, DeadFrame
<1> QED
  BY <1>2, <1>4, <1>5

\* A copy of a file that is no queue's: dup2 and fcntl.
LEMMA CopyFiles ==
    ASSUME NEW S, S \in [SocketIds -> SocketSet], NEW T, T \subseteq SocketIds,
           NEW F, F \in FileTables, NEW Q, GoodFiles(S, T, F, Q),
           NEW p \in Processes, NEW old \in FileDescriptors, NEW new \in FileDescriptors,
           F[p][new] = NoFile, F[p][old].kind # "epoll",
           NEW F2, F2 = [F EXCEPT ![p][new] = F[p][old]]
    PROVE  GoodFiles(S, T, F2, Q) /\ OtherRows(F, F2, p)
<1> DEFINE f == F[p][old]
<1>1. /\ f # Dangling
      /\ f.kind = "socket" => f.socket \in T /\ S[f.socket].Owner = p
  BY DEF GoodFiles, GoodSocketFiles
<1>2. OneFile(F, F2, p, new, f)
  BY DEF OneFile, FileTables
<1>3. f.kind # "epoll"
  OBVIOUS
<1> HIDE DEF f
<1>4. GoodFiles(S, T, F2, Q)
  BY <1>1, <1>2, <1>3, OpenFileGood
<1> QED
  BY <1>2, <1>4, OneFileIsOneRow

\* fcntl keeps files, queues and watches in agreement.
LEMMA FcntlFiles ==
    ASSUME SocketInv, SocketInv', FileInv, NEW p \in Processes, NEW old \in FileDescriptors,
           NEW minimum \in FileDescriptors, HandleFcntlSystemCall(p, old, minimum)
    PROVE  FileInv'
<1> SUFFICES ASSUME Departures' = {}
             PROVE  /\ GoodFiles(Sockets', Range(SocketList'), FileTable', EventQueueStore')
                    /\ DeadHoldNothing'
  BY DEF FileInv
<1> DEFINE free == {fd \in FreeFiles(p) : fd >= minimum}
           new == Min(free)
<1>1. new \in FileDescriptors /\ FileTable[p][new] = NoFile
  <2>1. free # {} /\ free \subseteq FileDescriptors
    BY DEF HandleFcntlSystemCall, FreeFiles
  <2>2. new \in free
    BY <2>1, FreeFilesMin
  <2> QED
    BY <2>2 DEF FreeFiles, OpenFiles
<1>2. /\ Sockets' = Sockets /\ SocketList' = SocketList /\ EventQueueStore' = EventQueueStore
      /\ FileTable' = [FileTable EXCEPT ![p][new] = FileTable[p][old]]
  BY DEF HandleFcntlSystemCall, Becomes, Current
<1>3. /\ Departures = {} /\ Live' = Live /\ p \in Live
      /\ CopyDeparture(FileTable[p][old]) = {}
      /\ GoodFiles(Sockets, Range(SocketList), FileTable, EventQueueStore) /\ DeadHoldNothing
  BY DEF HandleFcntlSystemCall, FileInv, MayCall
<1>4. FileTable[p][old].kind # "epoll"
  BY <1>3 DEF CopyDeparture
<1>5. /\ Sockets \in [SocketIds -> SocketSet] /\ Range(SocketList) \subseteq SocketIds
      /\ FileTable \in FileTables
  BY TrackedAreIds DEF SocketInv, GoodSockets
<1> HIDE DEF new
<1>6. /\ GoodFiles(Sockets, Range(SocketList), FileTable', EventQueueStore)
      /\ OtherRows(FileTable, FileTable', p)
  BY <1>1, <1>2, <1>3, <1>4, <1>5, CopyFiles
<1>7. DeadHoldNothing'
  BY <1>3, <1>6, DeadFrame
<1> QED
  BY <1>2, <1>6, <1>7

\* dup2 keeps files, queues and watches in agreement, the descriptor it closes
\* included.
LEMMA Dup2Files ==
    ASSUME SocketInv, SocketInv', FileInv, NEW p \in Processes, NEW old \in FileDescriptors,
           NEW new \in FileDescriptors, HandleDup2SystemCall(p, old, new)
    PROVE  FileInv'
<1> SUFFICES ASSUME Departures' = {}
             PROVE  /\ GoodFiles(Sockets', Range(SocketList'), FileTable', EventQueueStore')
                    /\ DeadHoldNothing'
  BY DEF FileInv
<1>1. PICK h : h = IF new \in OpenFiles(p) THEN CloseDescriptor(Current, p, new) ELSE Current
  OBVIOUS
<1>2. /\ Departures = {} /\ Live' = Live /\ p \in Live /\ old # new
      /\ CopyDeparture(FileTable[p][old]) = {}
      /\ GoodFiles(Sockets, Range(SocketList), FileTable, EventQueueStore) /\ DeadHoldNothing
  BY DEF HandleDup2SystemCall, FileInv, MayCall
<1>3. /\ DOMAIN h = HandlerFields /\ GoodSockets(h.sockets, h.list, h.lost) /\ h.files \in FileTables
      /\ GoodFiles(h.sockets, Range(h.list), h.files, h.queues)
      /\ OneFile(FileTable, h.files, p, new, NoFile)
  <2>1. CASE new \in OpenFiles(p)
    <3>1. h = CloseDescriptor(Current, p, new) /\ FileTable[p][new] # NoFile
      BY <1>1, <2>1 DEF OpenFiles
    <3>2. DOMAIN h = HandlerFields /\ GoodSockets(h.sockets, h.list, h.lost) /\ h.files \in FileTables
      BY <3>1, CloseEffect, CloseGood
    <3> QED
      BY <1>2, <3>1, <3>2, CloseFiles
  <2>2. CASE new \notin OpenFiles(p)
    <3>1. h = Current /\ FileTable[p][new] = NoFile
      BY <1>1, <2>2 DEF OpenFiles
    <3>2. /\ DOMAIN h = HandlerFields /\ h.sockets = Sockets /\ h.list = SocketList
          /\ h.files = FileTable /\ h.queues = EventQueueStore /\ h.lost = Lost
      BY <3>1 DEF Current, HandlerFields
    <3> QED
      BY <1>2, <3>1, <3>2 DEF SocketInv, OneFile
  <2> QED
    BY <2>1, <2>2
<1>4. Becomes([h EXCEPT !.files[p][new] = h.files[p][old]])
  BY <1>1 DEF HandleDup2SystemCall
<1>5. /\ Sockets' = h.sockets /\ SocketList' = h.list /\ EventQueueStore' = h.queues
      /\ FileTable' = [h.files EXCEPT ![p][new] = h.files[p][old]]
  BY <1>3, <1>4 DEF Becomes, HandlerFields
<1>6. /\ h.files[p][new] = NoFile /\ h.files[p][old] = FileTable[p][old]
      /\ h.files[p][old].kind # "epoll"
  BY <1>2, <1>3 DEF OneFile, CopyDeparture
<1>7. h.sockets \in [SocketIds -> SocketSet] /\ Range(h.list) \subseteq SocketIds
  BY <1>3, TrackedAreIds DEF GoodSockets
<1>8. /\ GoodFiles(h.sockets, Range(h.list), FileTable', h.queues)
      /\ OtherRows(h.files, FileTable', p)
  BY <1>3, <1>5, <1>6, <1>7, CopyFiles
<1>9. OtherRows(FileTable, FileTable', p)
  BY <1>3, <1>8, OneFileIsOneRow DEF OtherRows
<1>10. DeadHoldNothing'
  BY <1>2, <1>9, DeadFrame
<1> QED
  BY <1>5, <1>8, <1>10

\* A file neither a socket nor a queue has to hear of.
Plain(f) == f # Dangling /\ f.kind \notin {"socket", "epoll"}

\* A process without sockets and event queues may get any files without them.
LEMMA PlainRowGood ==
    ASSUME NEW S, S \in [SocketIds -> SocketSet], NEW T, T \subseteq SocketIds,
           NEW F, NEW F2, NEW Q, GoodFiles(S, T, F, Q), NEW p \in Processes,
           \A g \in FileDescriptors : Plain(F[p][g]), \A g \in FileDescriptors : Plain(F2[p][g]),
           OtherRows(F, F2, p)
    PROVE  GoodFiles(S, T, F2, Q) /\ \A i \in DOMAIN Q : Q[i].ProcessId # p
<1>0. \A q \in Processes \ {p} : \A g \in FileDescriptors : F2[q][g] = F[q][g]
  BY DEF OtherRows
<1>1. /\ \A s \in T : S[s].Owner \in Processes /\ S[s].FileDescriptor \in FileDescriptors
      /\ Q \in Seq(QueueSet)
  BY DEF SocketSet, GoodFiles
<1>2. /\ \A s \in T : S[s].Owner # p
      /\ \A s \in T : F[S[s].Owner][S[s].FileDescriptor] = SocketFile(s)
  BY <1>1, FileFacts DEF GoodFiles, GoodSocketFiles, Plain
<1>3. \A q \in Processes : \A g \in FileDescriptors :
        /\ F2[q][g] # Dangling
        /\ F2[q][g].kind = "socket" => F2[q][g].socket \in T /\ S[F2[q][g].socket].Owner = q
  <2>1. ASSUME NEW g \in FileDescriptors
        PROVE  F2[p][g] # Dangling /\ F2[p][g].kind # "socket"
    BY DEF Plain
  <2> QED
    BY <1>0, <2>1 DEF GoodFiles, GoodSocketFiles
<1>4. GoodSocketFiles(S, T, F2)
  BY <1>0, <1>1, <1>2, <1>3 DEF GoodSocketFiles
<1>5. GoodEpollFiles(F2)
  <2>1. \A g \in FileDescriptors : \A q, fd : F2[p][g] # EpollFile(q, fd)
    BY FileFacts DEF Plain
  <2> QED
    BY <1>0, <2>1 DEF GoodFiles, GoodEpollFiles
<1>6. \A i \in DOMAIN Q : Q[i].ProcessId # p
  <2> SUFFICES ASSUME NEW i \in DOMAIN Q, Q[i].ProcessId = p PROVE FALSE
    OBVIOUS
  <2>1. F[p][Q[i].FileDescriptor] = EpollFile(p, Q[i].FileDescriptor)
    BY DEF GoodFiles, GoodQueues
  <2>2. Q[i].FileDescriptor \in FileDescriptors
    BY <1>1, QueueTypes
  <2> QED
    BY <2>1, <2>2, FileFacts DEF Plain
<1>7. GoodQueues(F2, Q)
  <2>1. ASSUME NEW i \in DOMAIN Q
        PROVE  /\ F2[Q[i].ProcessId][Q[i].FileDescriptor] = EpollFile(Q[i].ProcessId, Q[i].FileDescriptor)
               /\ \A w \in Range(Q[i].Watches) :
                    F2[Q[i].ProcessId][w.FileDescriptor] = w.file /\ w.file # NoFile
    <3>1. /\ Q[i].ProcessId \in Processes \ {p} /\ Q[i].FileDescriptor \in FileDescriptors
          /\ \A w \in Range(Q[i].Watches) : w.FileDescriptor \in FileDescriptors
      BY <1>1, <1>6, QueueTypes
    <3>2. /\ F[Q[i].ProcessId][Q[i].FileDescriptor] = EpollFile(Q[i].ProcessId, Q[i].FileDescriptor)
          /\ \A w \in Range(Q[i].Watches) :
               F[Q[i].ProcessId][w.FileDescriptor] = w.file /\ w.file # NoFile
      BY DEF GoodFiles, GoodQueues
    <3> QED
      BY <1>0, <3>1, <3>2
  <2> QED
    BY <2>1 DEF GoodFiles, GoodQueues
<1> QED
  BY <1>1, <1>4, <1>5, <1>6, <1>7 DEF GoodFiles

\* A process whose files need no announcement has neither sockets nor event
\* queues.
LEMMA PlainWhenAnnounced ==
    ASSUME SocketInv, GoodFiles(Sockets, Range(SocketList), FileTable, EventQueueStore),
           NEW p \in Processes, NEW reason, Unannounced(Range(FileTable[p]), reason) = {}
    PROVE  \A g \in FileDescriptors : Plain(FileTable[p][g])
<1>1. \A g \in FileDescriptors : FileTable[p][g] \in Range(FileTable[p])
  BY DEF SocketInv, FileTables, Range
<1>2. \A f \in Range(FileTable[p]) : f.kind \notin {"socket", "epoll"}
  BY DEF Unannounced
<1>3. \A g \in FileDescriptors : FileTable[p][g] # Dangling
  BY DEF GoodFiles, GoodSocketFiles
<1> QED
  BY <1>1, <1>2, <1>3 DEF Plain

\* fork keeps files, queues and watches in agreement while it copies none that
\* would need an announcement.
LEMMA ForkFiles ==
    ASSUME SocketInv, SocketInv', FileInv, NEW p \in Processes, NEW child \in Processes,
           Fork(p, child)
    PROVE  FileInv'
<1> SUFFICES ASSUME Departures' = {}
             PROVE  /\ GoodFiles(Sockets', Range(SocketList'), FileTable', EventQueueStore')
                    /\ DeadHoldNothing'
  BY DEF FileInv
<1> DEFINE Q == EventQueueStore
<1>1. /\ Departures = {} /\ Live' = Live \cup {child} /\ p \in Live /\ child \notin Live
      /\ Unannounced(Range(FileTable[p]), "fork") = {}
      /\ GoodFiles(Sockets, Range(SocketList), FileTable, Q) /\ DeadHoldNothing
  BY DEF Fork, FileInv, MayCall
<1>2. /\ Sockets' = Sockets /\ SocketList' = SocketList
      /\ FileTable' = [FileTable EXCEPT ![child] = FileTable[p]]
      /\ EventQueueStore' = DuplicateEventQueuesForProcess(Q, p, child)
  BY DEF Fork, Becomes, Current
<1>3. /\ Sockets \in [SocketIds -> SocketSet] /\ Range(SocketList) \subseteq SocketIds
      /\ FileTable \in FileTables
  BY TrackedAreIds DEF SocketInv, GoodSockets
<1>4. \A g \in FileDescriptors : Plain(FileTable[p][g])
  BY <1>1, PlainWhenAnnounced
<1>5. \A g \in FileDescriptors : Plain(FileTable[child][g])
  <2>1. FileTable[child] = EmptyTable
    BY <1>1 DEF DeadHoldNothing
  <2> QED
    BY <2>1, FileFacts DEF EmptyTable, Plain
<1>6. /\ OtherRows(FileTable, FileTable', child) /\ FileTable'[child] = FileTable[p]
      /\ OtherRows(FileTable, FileTable, p)
  BY <1>2, <1>3 DEF OtherRows, FileTables
<1>7. \A g \in FileDescriptors : Plain(FileTable'[child][g])
  BY <1>4, <1>6
<1>8. GoodFiles(Sockets, Range(SocketList), FileTable', Q)
  BY <1>1, <1>3, <1>5, <1>6, <1>7, PlainRowGood
<1>9. \A i \in DOMAIN Q : Q[i].ProcessId # p
  BY <1>1, <1>3, <1>4, <1>6, PlainRowGood
<1>10. EventQueueStore' = Q
  <2> DEFINE kept == {i \in DOMAIN Q : Q[i].ProcessId = p}
             own == Compacted(Q, kept)
             copies == [i \in DOMAIN own |-> [own[i] EXCEPT !.ProcessId = child]]
  <2>1. Q \in Seq(QueueSet)
    BY <1>1 DEF GoodFiles
  <2>2. kept = {}
    BY <1>9
  <2>3. own = <<>>
    <3> HIDE DEF kept
    <3> QED
      BY <2>1, <2>2, CompactedElements
  <2> HIDE DEF own
  <2>4. copies = <<>>
    BY <2>3
  <2>5. DuplicateEventQueuesForProcess(Q, p, child) = Q \o copies
    BY DEF DuplicateEventQueuesForProcess, own
  <2> HIDE DEF copies
  <2> QED
    BY <1>2, <2>1, <2>4, <2>5
<1>11. DeadHoldNothing'
  <2>1. \A q \in Processes \ {child} : FileTable'[q] = FileTable[q]
    BY <1>2, <1>3 DEF FileTables
  <2> QED
    BY <1>1, <2>1 DEF DeadHoldNothing, EmptyTable, FileDescriptors
<1> QED
  BY <1>2, <1>8, <1>10, <1>11

\* exit keeps them in agreement under the same condition.
LEMMA ExitFiles ==
    ASSUME SocketInv, SocketInv', FileInv, NEW p \in Processes, Exit(p)
    PROVE  FileInv'
<1> SUFFICES ASSUME Departures' = {}
             PROVE  /\ GoodFiles(Sockets', Range(SocketList'), FileTable', EventQueueStore')
                    /\ DeadHoldNothing'
  BY DEF FileInv
<1>1. /\ Departures = {} /\ Live' = Live \ {p}
      /\ Unannounced(Range(FileTable[p]), "exit") = {}
      /\ GoodFiles(Sockets, Range(SocketList), FileTable, EventQueueStore) /\ DeadHoldNothing
  BY DEF Exit, FileInv
<1>2. /\ Sockets' = Sockets /\ SocketList' = SocketList
      /\ FileTable' = [FileTable EXCEPT ![p] = EmptyTable]
      /\ EventQueueStore' = EventQueueStore
  BY DEF Exit, Becomes, Current
<1>3. /\ Sockets \in [SocketIds -> SocketSet] /\ Range(SocketList) \subseteq SocketIds
      /\ FileTable \in FileTables
  BY TrackedAreIds DEF SocketInv, GoodSockets
<1>4. \A g \in FileDescriptors : Plain(FileTable[p][g])
  BY <1>1, PlainWhenAnnounced
<1>5. FileTable'[p] = EmptyTable /\ \A q \in Processes \ {p} : FileTable'[q] = FileTable[q]
  BY <1>2, <1>3 DEF FileTables
<1>6. \A g \in FileDescriptors : Plain(FileTable'[p][g])
  BY <1>5, FileFacts DEF EmptyTable, Plain
<1>7. OtherRows(FileTable, FileTable', p)
  BY <1>5 DEF OtherRows
<1>8. GoodFiles(Sockets, Range(SocketList), FileTable', EventQueueStore)
  BY <1>1, <1>3, <1>4, <1>6, <1>7, PlainRowGood
<1>9. DeadHoldNothing'
  BY <1>1, <1>5 DEF DeadHoldNothing, EmptyTable, FileDescriptors
<1> QED
  BY <1>2, <1>8, <1>9

\* Once execve has closed a descriptor the invariant asks nothing any more.
LEMMA ExecveFiles ==
    ASSUME NEW p, NEW fd, Execve(p, fd)
    PROVE  FileInv'
  BY DEF Execve, FileInv
-----------------------------------------------------------------------------
(* The calls on sockets                                                    *)

\* The step changes neither files nor queues, and no socket's place.
LEMMA PlacesKept ==
    ASSUME FileInv, UNCHANGED <<SocketList, FileTable, EventQueueStore, Live, Departures>>,
           \A o \in Range(SocketList) : /\ Sockets'[o].Owner = Sockets[o].Owner
                                        /\ Sockets'[o].FileDescriptor = Sockets[o].FileDescriptor
    PROVE  FileInv'
<1> SUFFICES ASSUME Departures' = {}
             PROVE  /\ GoodFiles(Sockets', Range(SocketList'), FileTable', EventQueueStore')
                    /\ DeadHoldNothing'
  BY DEF FileInv
<1>1. /\ GoodFiles(Sockets, Range(SocketList), FileTable, EventQueueStore) /\ DeadHoldNothing
  BY DEF FileInv
<1>2. GoodFiles(Sockets', Range(SocketList), FileTable, EventQueueStore)
  BY <1>1, OwnersFrame
<1> QED
  BY <1>1, <1>2 DEF DeadHoldNothing

\* The calls that change a socket in place leave files, queues and watches
\* alone.
LEMMA SocketFrameFiles ==
    ASSUME SocketInv, FileInv, NEW p \in Processes, NEW fd \in FileDescriptors,
           \/ \E a \in Addresses : HandleBindSystemCall(p, fd, a) \/ HandleConnectSystemCall(p, fd, a)
           \/ \E backlog \in Backlogs : HandleListenSystemCall(p, fd, backlog)
           \/ \E how \in SUBSET Events \ {{}} : HandleShutdownSystemCall(p, fd, how)
           \/ HandleReadSystemCall(p, fd) \/ HandleWriteSystemCall(p, fd)
    PROVE  FileInv'
<1>1. /\ Sockets \in [SocketIds -> SocketSet] /\ Range(SocketList) \subseteq SocketIds
      /\ \A o \in SocketIds : Sockets[o] \in SocketSet
  BY TrackedAreIds DEF SocketInv, GoodSockets
<1> DEFINE Kept == \A o \in Range(SocketList) : /\ Sockets'[o].Owner = Sockets[o].Owner
                                                /\ Sockets'[o].FileDescriptor = Sockets[o].FileDescriptor
           Frame == UNCHANGED <<SocketList, FileTable, EventQueueStore, Live, Departures>>
           s == SocketAt(p, fd)
<1>2. ASSUME NEW a, HandleBindSystemCall(p, fd, a)
      PROVE  Frame /\ Kept
  <2>1. Frame /\ Sockets' = [Sockets EXCEPT ![s].Address = a]
    BY <1>2 DEF HandleBindSystemCall, Succeeds, Becomes, Current
  <2> QED
    BY <1>1, <2>1 DEF SocketSet
<1>3. ASSUME NEW a, HandleConnectSystemCall(p, fd, a)
      PROVE  Frame /\ Kept
  <2>1. CASE ConnectUnix(s, a)
    <3> DEFINE l == ListenerAt(a)
               q == Append(Sockets[l].PendingConnections, s)
    <3>1. Frame /\ Sockets' = [Sockets EXCEPT ![l].PendingConnections = q, ![s].ConnectedPeer = l]
      BY <2>1 DEF ConnectUnix, Succeeds, Becomes, Current
    <3> HIDE DEF l, q, s
    <3> QED
      BY SMTT(30), <1>1, <3>1 DEF SocketSet
  <2>2. CASE Succeeds([Current EXCEPT !.sockets[s].RemotePid = a.Port])
    <3>1. Frame /\ Sockets' = [Sockets EXCEPT ![s].RemotePid = a.Port]
      BY <2>2 DEF Succeeds, Becomes, Current
    <3> HIDE DEF s
    <3> QED
      BY <1>1, <3>1 DEF SocketSet
  <2> QED
    BY <1>3, <2>1, <2>2 DEF HandleConnectSystemCall
<1>4. ASSUME NEW backlog, HandleListenSystemCall(p, fd, backlog)
      PROVE  Frame /\ Kept
  <2>1. CASE ListenUnix(s, backlog)
    <3> DEFINE q == SubSeq(Sockets[s].PendingConnections, 1,
                           Min({Len(Sockets[s].PendingConnections), backlog}))
    <3>1. Frame /\ Sockets' = [Sockets EXCEPT ![s].PendingConnectionCapacity = backlog,
                                              ![s].PendingConnections = q,
                                              ![s].IsListening = TRUE]
      BY <1>1, <2>1 DEF ListenUnix, Succeeds, Becomes, Current, SocketSet
    <3> HIDE DEF q, s
    <3> QED
      BY <1>1, <3>1 DEF SocketSet
  <2>2. CASE ListenInet(s)
    <3>1. PICK a : Frame /\ Sockets' = [Sockets EXCEPT ![s].IsListening = TRUE, ![s].Address = a]
      BY <2>2 DEF ListenInet, Succeeds, Becomes, Current
    <3> HIDE DEF s
    <3> QED
      BY <1>1, <3>1 DEF SocketSet
  <2> QED
    BY <1>4, <2>1, <2>2 DEF HandleListenSystemCall
<1>5. ASSUME NEW how, HandleShutdownSystemCall(p, fd, how)
      PROVE  Frame /\ Kept
  <2>1. PICK b, c : Frame /\ Sockets' = [Sockets EXCEPT ![s].IsShutdownRead = b, ![s].IsShutdownWrite = c]
    BY <1>5 DEF HandleShutdownSystemCall, ShutdownSocket, Succeeds, Becomes, Current
  <2> HIDE DEF s
  <2> QED
    BY <1>1, <2>1 DEF SocketSet
<1>6. ASSUME HandleReadSystemCall(p, fd) \/ HandleWriteSystemCall(p, fd)
      PROVE  Frame /\ Kept
  <2> DEFINE o == FileTable[p][fd].socket
             peer == Sockets[o].ConnectedPeer
  <2>1. \E i, n : Frame /\ Sockets' = [Sockets EXCEPT ![i].ReceiveBufferedBytes = n]
    <3>1. CASE HandleReadSystemCall(p, fd)
      <4>1. PICK n : Succeeds([Current EXCEPT !.sockets[o].ReceiveBufferedBytes = @ - n])
        BY <3>1 DEF HandleReadSystemCall, ReadFromUnixReceiveBuffer
      <4>2. Frame /\ Sockets' = [Sockets EXCEPT ![o].ReceiveBufferedBytes = @ - n]
        BY <4>1 DEF Succeeds, Becomes, Current
      <4> QED
        BY <4>2
    <3>2. CASE HandleWriteSystemCall(p, fd)
      <4>1. PICK n : Succeeds([Current EXCEPT !.sockets[peer].ReceiveBufferedBytes = @ + n])
        BY <3>2 DEF HandleWriteSystemCall, WriteToUnixPeerBuffer
      <4>2. Frame /\ Sockets' = [Sockets EXCEPT ![peer].ReceiveBufferedBytes = @ + n]
        BY <4>1 DEF Succeeds, Becomes, Current
      <4> QED
        BY <4>2
    <3> QED
      BY <1>6, <3>1, <3>2
  <2> QED
    BY <1>1, <2>1 DEF SocketSet
<1> QED
  BY <1>2, <1>3, <1>4, <1>5, <1>6, PlacesKept

\* What socket and accept do to the files and the queues, once the sockets are known.
LEMMA NewSocketCall ==
    ASSUME SocketInv, SocketInv', FileInv, NEW p \in Live, p \in Processes,
           NEW fd \in FileDescriptors, FileTable[p][fd] = NoFile,
           NEW s \in SocketIds \ Range(SocketList), SocketList' = Append(SocketList, s),
           Sockets'[s].Owner = p, Sockets'[s].FileDescriptor = fd,
           \A o \in Range(SocketList) : /\ Sockets'[o].Owner = Sockets[o].Owner
                                        /\ Sockets'[o].FileDescriptor = Sockets[o].FileDescriptor,
           FileTable' = [FileTable EXCEPT ![p][fd] = SocketFile(s)],
           UNCHANGED <<EventQueueStore, Live, Departures>>
    PROVE  FileInv'
<1> SUFFICES ASSUME Departures' = {}
             PROVE  /\ GoodFiles(Sockets', Range(SocketList'), FileTable', EventQueueStore')
                    /\ DeadHoldNothing'
  BY DEF FileInv
<1>1. /\ GoodFiles(Sockets, Range(SocketList), FileTable, EventQueueStore) /\ DeadHoldNothing
  BY DEF FileInv
<1>2. /\ Sockets \in [SocketIds -> SocketSet] /\ Range(SocketList) \subseteq SocketIds
      /\ Sockets' \in [SocketIds -> SocketSet] /\ FileTable \in FileTables
      /\ SocketList \in Seq(SocketIds)
  BY TrackedAreIds DEF SocketInv, GoodSockets
<1>3. OneFile(FileTable, FileTable', p, fd, SocketFile(s))
  BY <1>2 DEF OneFile, FileTables
<1>4. Range(SocketList') = Range(SocketList) \cup {s}
  BY <1>2, AppendRange
<1>5. GoodFiles(Sockets', Range(SocketList) \cup {s}, FileTable', EventQueueStore)
  BY <1>1, <1>2, <1>3, NewSocketFileGood
<1>6. DeadHoldNothing'
  BY <1>1, <1>3, OneFileIsOneRow, DeadFrame
<1> QED
  BY <1>4, <1>5, <1>6

\* socket opens a socket at a free descriptor.
LEMMA SocketCallFiles ==
    ASSUME SocketInv, SocketInv', FileInv, NEW p \in Processes, HandleSocketSystemCall(p)
    PROVE  FileInv'
<1>1. PICK k \in Kinds :
        Succeeds(CreateSocket(Current, k.Domain, k.Type, p, Min(FreeFiles(p))))
  BY DEF HandleSocketSystemCall
<1> DEFINE s == Min(SocketIds \ Range(SocketList))
           fd == Min(FreeFiles(p))
           new == NewSocket(k.Domain, k.Type, p, fd)
<1>2. /\ Sockets' = [Sockets EXCEPT ![s] = new]
      /\ SocketList' = Append(SocketList, s)
      /\ FileTable' = [FileTable EXCEPT ![p][fd] = SocketFile(s)]
      /\ UNCHANGED <<EventQueueStore, Live, Departures>>
  BY <1>1 DEF Succeeds, Becomes, CreateSocket, Current
<1>3. fd \in FileDescriptors /\ FileTable[p][fd] = NoFile /\ p \in Live
  <2>1. FreeFiles(p) # {} /\ FreeFiles(p) \subseteq FileDescriptors
    BY DEF HandleSocketSystemCall, FreeFiles
  <2>2. fd \in FreeFiles(p)
    BY <2>1, FreeFilesMin
  <2> QED
    BY <2>2 DEF FreeFiles, OpenFiles, HandleSocketSystemCall, MayCall
<1>4. s \in SocketIds \ Range(SocketList)
  <2>1. SocketList \in Seq(SocketIds) /\ Len(SocketList) < MAX_TRACKED_SOCKETS
    BY SocketsAssumption DEF HandleSocketSystemCall, HasRoom, SocketInv, GoodSockets
  <2> QED
    BY <2>1, FreeSocketExists
<1>5. new.Owner = p /\ new.FileDescriptor = fd
  BY DEF NewSocket
<1>6. Sockets \in [SocketIds -> SocketSet] /\ Range(SocketList) \subseteq SocketIds
  BY TrackedAreIds DEF SocketInv, GoodSockets
<1> HIDE DEF s, fd, new
<1>7. /\ Sockets'[s].Owner = p /\ Sockets'[s].FileDescriptor = fd
      /\ \A o \in Range(SocketList) : Sockets'[o] = Sockets[o]
  BY <1>2, <1>4, <1>5, <1>6
<1> QED
  BY <1>2, <1>3, <1>4, <1>7, NewSocketCall

\* accept opens the socket of a waiting client at a free descriptor.
LEMMA AcceptFiles ==
    ASSUME SocketInv, SocketInv', FileInv, NEW p \in Processes, NEW lfd \in FileDescriptors,
           HandleAcceptSystemCall(p, lfd)
    PROVE  FileInv'
<1> DEFINE l == SocketAt(p, lfd)
           fd == Min(FreeFiles(p))
           c == Head(Sockets[l].PendingConnections)
           r == [Sockets[l] EXCEPT !.PendingConnections = Tail(@)]
           S1 == [Sockets EXCEPT ![l] = r]
           a == Min(SocketIds \ Range(SocketList))
           new == NewSocket("unix", Sockets[l].Type, p, fd)
           popped == [Current EXCEPT !.sockets[l].PendingConnections = Tail(@)]
           h == CreateSocket(popped, "unix", Sockets[l].Type, p, fd)
<1>1. fd \in FileDescriptors /\ FileTable[p][fd] = NoFile /\ p \in Live
  <2>1. FreeFiles(p) # {} /\ FreeFiles(p) \subseteq FileDescriptors
    BY DEF HandleAcceptSystemCall, FreeFiles
  <2>2. fd \in FreeFiles(p)
    BY <2>1, FreeFilesMin
  <2> QED
    BY <2>2 DEF FreeFiles, OpenFiles, HandleAcceptSystemCall, MayCall
<1>2. /\ Sockets \in [SocketIds -> SocketSet] /\ Range(SocketList) \subseteq SocketIds
      /\ SocketList \in Seq(SocketIds) /\ \A o \in SocketIds : Sockets[o] \in SocketSet
  BY TrackedAreIds DEF SocketInv, GoodSockets
<1>3. \A o \in SocketIds : /\ S1[o].Owner = Sockets[o].Owner
                           /\ S1[o].FileDescriptor = Sockets[o].FileDescriptor
                           /\ DOMAIN S1[o] = DOMAIN Sockets[o]
  BY <1>2 DEF SocketSet
<1>4. DOMAIN S1 = SocketIds
  BY <1>2
<1>5. CASE ~HasRoom(1)
  <2>1. Sockets' = S1 /\ UNCHANGED <<SocketList, FileTable, EventQueueStore, Live, Departures>>
    BY <1>5 DEF HandleAcceptSystemCall, AcceptSocket, Succeeds, Becomes, Current
  <2> HIDE DEF S1
  <2> QED
    BY <1>2, <1>3, <2>1, PlacesKept
<1>6. CASE HasRoom(1)
  <2> DEFINE S2 == [S1 EXCEPT ![a] = new]
  <2>1. a \in SocketIds \ Range(SocketList)
    <3>1. Len(SocketList) < MAX_TRACKED_SOCKETS
      BY <1>2, <1>6, SocketsAssumption DEF HasRoom
    <3> QED
      BY <1>2, <3>1, FreeSocketExists
  <2>2. h.list = Append(SocketList, a) /\ Last(h.list) = a
    <3>1. h.list = Append(SocketList, a)
      BY DEF Current, CreateSocket
    <3> HIDE DEF a, h
    <3> QED
      BY <1>2, <2>1, <3>1, AppendRange
  <2>3. Succeeds([h EXCEPT !.sockets[a].ConnectedPeer = c, !.sockets[c].ConnectedPeer = a])
    <3>1. Succeeds([h EXCEPT !.sockets[Last(h.list)].ConnectedPeer = c,
                             !.sockets[c].ConnectedPeer = Last(h.list)])
      BY <1>6 DEF HandleAcceptSystemCall, AcceptSocket
    <3> QED
      BY <2>2, <3>1
  <2>4. /\ h.sockets = S2 /\ h.files = [FileTable EXCEPT ![p][fd] = SocketFile(a)]
        /\ h.queues = EventQueueStore /\ DOMAIN h = HandlerFields
    <3>1. /\ popped.sockets = S1 /\ popped.list = SocketList /\ popped.files = FileTable
          /\ popped.queues = EventQueueStore /\ DOMAIN popped = HandlerFields
          /\ popped = [x \in DOMAIN popped |-> popped[x]]
      BY DEF Current, HandlerFields
    <3> HIDE DEF popped, S1
    <3> QED
      BY <3>1 DEF CreateSocket, HandlerFields
  <2> HIDE DEF h
  <2>5. /\ Sockets' = [S2 EXCEPT ![a].ConnectedPeer = c, ![c].ConnectedPeer = a]
        /\ SocketList' = Append(SocketList, a)
        /\ FileTable' = [FileTable EXCEPT ![p][fd] = SocketFile(a)]
        /\ UNCHANGED <<EventQueueStore, Live, Departures>>
    BY <2>2, <2>3, <2>4 DEF Succeeds, Becomes, HandlerFields
  <2>6. new.Owner = p /\ new.FileDescriptor = fd /\ {"Owner", "FileDescriptor"} \subseteq DOMAIN new
    BY DEF NewSocket
  <2>7. \A o \in SocketIds : {"Owner", "FileDescriptor"} \subseteq DOMAIN S1[o]
    BY <1>2, <1>3 DEF SocketSet
  <2> HIDE DEF S1, a, c, new, fd
  <2>8. /\ S2[a].Owner = p /\ S2[a].FileDescriptor = fd
        /\ \A o \in Range(SocketList) : S2[o] = S1[o]
        /\ \A o \in SocketIds : {"Owner", "FileDescriptor"} \subseteq DOMAIN S2[o]
        /\ DOMAIN S2 = SocketIds
    BY <1>2, <1>4, <2>1, <2>6, <2>7
  <2> HIDE DEF S2
  <2>9. \A o \in SocketIds : /\ Sockets'[o].Owner = S2[o].Owner
                             /\ Sockets'[o].FileDescriptor = S2[o].FileDescriptor
    BY <2>5, <2>8
  <2>10. /\ Sockets'[a].Owner = p /\ Sockets'[a].FileDescriptor = fd
         /\ \A o \in Range(SocketList) : /\ Sockets'[o].Owner = Sockets[o].Owner
                                         /\ Sockets'[o].FileDescriptor = Sockets[o].FileDescriptor
    BY <1>2, <1>3, <2>1, <2>8, <2>9
  <2>11. FileInv'
    <3>1. SocketList' = Append(SocketList, a) /\ UNCHANGED <<EventQueueStore, Live, Departures>>
          /\ FileTable' = [FileTable EXCEPT ![p][fd] = SocketFile(a)]
      BY <2>5
    <3> QED
      BY <1>1, <2>1, <2>10, <3>1, NewSocketCall
  <2> QED
    BY <2>11
<1> QED
  BY <1>5, <1>6

-----------------------------------------------------------------------------
(* The calls on event queues                                               *)

\* epoll_create1 opens a queue at a free descriptor.
LEMMA EpollCreateFiles ==
    ASSUME SocketInv, SocketInv', FileInv, NEW p \in Processes, HandleEpollCreate1SystemCall(p)
    PROVE  FileInv'
<1> SUFFICES ASSUME Departures' = {}
             PROVE  /\ GoodFiles(Sockets', Range(SocketList'), FileTable', EventQueueStore')
                    /\ DeadHoldNothing'
  BY DEF FileInv
<1> DEFINE Q == EventQueueStore
           T == Range(SocketList)
           free == {fd \in FreeFiles(p) : FindEventQueue(Q, p, fd) = 0}
           fd == Min(free)
           new == Queue(p, fd, <<>>)
           f == EpollFile(p, fd)
<1>1. /\ UNCHANGED <<Sockets, SocketList, Live, Departures>> /\ p \in Live
      /\ FileTable' = [FileTable EXCEPT ![p][fd] = f]
      /\ EventQueueStore' = Append(Q, new)
      /\ GoodFiles(Sockets, T, FileTable, Q) /\ DeadHoldNothing
  BY DEF HandleEpollCreate1SystemCall, Succeeds, Becomes, Current, FileInv, MayCall
<1>2. /\ fd \in FileDescriptors /\ FileTable[p][fd] = NoFile
      /\ FindEventQueue(Q, p, fd) = 0
  <2>1. free # {} /\ free \subseteq FileDescriptors
    BY DEF HandleEpollCreate1SystemCall, FreeFiles
  <2>2. fd \in free
    BY <2>1, FreeFilesMin
  <2> QED
    BY <2>2 DEF FreeFiles, OpenFiles
<1>3. /\ Sockets \in [SocketIds -> SocketSet] /\ T \subseteq SocketIds
      /\ FileTable \in FileTables /\ Q \in Seq(QueueSet)
  BY <1>1, TrackedAreIds DEF SocketInv, GoodSockets, GoodFiles
<1>4. \A i \in DOMAIN Q : ~(Q[i].ProcessId = p /\ Q[i].FileDescriptor = fd)
  <2> HIDE DEF fd
  <2> QED
    BY <1>2, <1>3, FindQueueFacts
<1> HIDE DEF fd, T, Q
<1>5. /\ new \in QueueSet /\ new.ProcessId = p /\ new.FileDescriptor = fd /\ new.Watches = <<>>
  BY <1>2 DEF Queue, QueueSet
<1>6. f # NoFile /\ f # Dangling /\ f.kind # "socket"
  BY FileFacts
<1> HIDE DEF new, f
<1>7. OneFile(FileTable, FileTable', p, fd, f)
  BY <1>1, <1>2, <1>3 DEF OneFile, FileTables
<1>8. GoodSocketFiles(Sockets, T, FileTable')
  <2>1. \A s \in T : Sockets[s].Owner \in Processes /\ Sockets[s].FileDescriptor \in FileDescriptors
    BY <1>3 DEF SocketSet
  <2>2. \A s \in T : /\ FileTable[Sockets[s].Owner][Sockets[s].FileDescriptor] = SocketFile(s)
                     /\ SocketFile(s) # NoFile
    BY <1>1, FileFacts DEF GoodFiles, GoodSocketFiles
  <2>3. \A s \in T : FileTable'[Sockets[s].Owner][Sockets[s].FileDescriptor] = SocketFile(s)
    BY <1>2, <1>7, <2>1, <2>2 DEF OneFile
  <2>4. ASSUME NEW q \in Processes, NEW g \in FileDescriptors
        PROVE  /\ FileTable'[q][g] # Dangling
               /\ FileTable'[q][g].kind = "socket" =>
                    FileTable'[q][g].socket \in T /\ Sockets[FileTable'[q][g].socket].Owner = q
    BY <1>1, <1>6, <1>7 DEF OneFile, GoodFiles, GoodSocketFiles
  <2> QED
    BY <2>3, <2>4 DEF GoodSocketFiles
<1>9. GoodEpollFiles(FileTable')
  <2>1. \A q, g : f = EpollFile(q, g) => q = p /\ g = fd
    BY FileFacts DEF f
  <2> QED
    BY <1>1, <1>7, <2>1 DEF OneFile, GoodFiles, GoodEpollFiles
<1>10. GoodQueues(FileTable', Q)
  <2>1. GoodQueues(FileTable, Q)
    BY <1>1 DEF GoodFiles
  <2>2. \A q \in Processes : \A g \in FileDescriptors :
          FileTable[q][g] # NoFile => FileTable'[q][g] = FileTable[q][g]
    BY <1>2, <1>7 DEF OneFile
  <2> QED
    BY <1>3, <2>1, <2>2, QueuesFrame
<1>11. GoodQueues(FileTable', EventQueueStore') /\ EventQueueStore' \in Seq(QueueSet)
  <2> DEFINE R == EventQueueStore'
  <2>1. /\ R \in Seq(QueueSet) /\ DOMAIN R = 1 .. Len(Q) + 1 /\ DOMAIN Q = 1 .. Len(Q)
        /\ \A i \in 1 .. Len(Q) : R[i] = Q[i]
        /\ R[Len(Q) + 1] = new /\ Len(Q) \in Nat
    BY <1>1, <1>3, <1>5
  <2> HIDE DEF R
  <2>2. \A i \in DOMAIN R : (i \in DOMAIN Q /\ R[i] = Q[i]) \/ (i = Len(Q) + 1 /\ R[i] = new)
    BY <2>1
  <2>3. FileTable'[p][fd] = EpollFile(p, fd)
    BY <1>2, <1>7 DEF OneFile, f
  <2>4. Range(new.Watches) = {}
    BY <1>5 DEF Range
  <2>5. \A i \in DOMAIN R :
          /\ FileTable'[R[i].ProcessId][R[i].FileDescriptor] = EpollFile(R[i].ProcessId, R[i].FileDescriptor)
          /\ \A w \in Range(R[i].Watches) :
               FileTable'[R[i].ProcessId][w.FileDescriptor] = w.file /\ w.file # NoFile
    BY <1>5, <1>10, <2>2, <2>3, <2>4 DEF GoodQueues
  <2>6. \A i, j \in DOMAIN R :
          R[i].ProcessId = R[j].ProcessId /\ R[i].FileDescriptor = R[j].FileDescriptor => i = j
    BY <1>4, <1>5, <1>10, <2>2 DEF GoodQueues
  <2>7. GoodQueues(FileTable', R)
    BY <2>5, <2>6 DEF GoodQueues
  <2> QED
    BY <2>1, <2>7 DEF R
<1>12. DeadHoldNothing'
  BY <1>1, <1>7, OneFileIsOneRow, DeadFrame
<1> QED
  BY <1>1, <1>8, <1>9, <1>11, <1>12 DEF GoodFiles, T

\* One queue gets watches for files that its process has open.
LEMMA RewatchedGood ==
    ASSUME NEW S, NEW T, NEW F, NEW Q, GoodFiles(S, T, F, Q), NEW i \in DOMAIN Q,
           NEW W \in Seq(WatchSet),
           \A w \in Range(W) : F[Q[i].ProcessId][w.FileDescriptor] = w.file /\ w.file # NoFile,
           NEW Q2, Q2 = [Q EXCEPT ![i].Watches = W]
    PROVE  GoodFiles(S, T, F, Q2)
<1>1. Q \in Seq(QueueSet) /\ GoodQueues(F, Q)
  BY DEF GoodFiles
<1> DEFINE r == [Q[i] EXCEPT !.Watches = W]
<1>2. /\ r \in QueueSet /\ r.ProcessId = Q[i].ProcessId /\ r.FileDescriptor = Q[i].FileDescriptor
      /\ r.Watches = W
  BY <1>1, QueueTypes DEF QueueSet
<1>3. Q2 = [Q EXCEPT ![i] = r]
  OBVIOUS
<1> HIDE DEF r
<1>4. /\ Q2 \in Seq(QueueSet) /\ DOMAIN Q2 = DOMAIN Q /\ Q2[i] = r
      /\ \A j \in DOMAIN Q \ {i} : Q2[j] = Q[j]
  BY <1>1, <1>2, <1>3
<1>5. /\ \A j \in DOMAIN Q : /\ Q2[j].ProcessId = Q[j].ProcessId
                             /\ Q2[j].FileDescriptor = Q[j].FileDescriptor
                             /\ j # i => Q2[j].Watches = Q[j].Watches
      /\ Q2[i].Watches = W
  BY <1>2, <1>4
<1>6. GoodQueues(F, Q2)
  BY <1>1, <1>4, <1>5 DEF GoodQueues
<1> QED
  BY <1>4, <1>6 DEF GoodFiles

\* epoll_ctl adds, changes or removes a watch for an open file.
LEMMA EpollCtlFiles ==
    ASSUME SocketInv, FileInv, NEW p \in Processes, NEW fd \in FileDescriptors,
           NEW target \in FileDescriptors, NEW events \in {{"in"}, {"out"}},
           HandleEpollCtlSystemCall(p, fd, target, events)
    PROVE  FileInv'
<1> SUFFICES ASSUME Departures' = {}
             PROVE  /\ GoodFiles(Sockets', Range(SocketList'), FileTable', EventQueueStore')
                    /\ DeadHoldNothing'
  BY DEF FileInv
<1> DEFINE Q == EventQueueStore
           i == FindEventQueue(Q, p, fd)
           W == Q[i].Watches
           old == {n \in DOMAIN W : W[n].FileDescriptor = target}
           watch == [FileDescriptor |-> target, Events |-> events, file |-> FileTable[p][target]]
<1>1. UNCHANGED <<Sockets, SocketList, FileTable, Live, Departures>>
  BY PollStepsGood
<1>2. GoodFiles(Sockets, Range(SocketList), FileTable, Q) /\ DeadHoldNothing /\ Q \in Seq(QueueSet)
  BY <1>1 DEF FileInv, GoodFiles
<1>3. /\ i \in DOMAIN Q /\ Q[i].ProcessId = p /\ target \in OpenFiles(p)
      /\ ControlEventQueue(i, p, target, events)
  BY <1>2, FindQueueFacts DEF HandleEpollCtlSystemCall
<1>4. W \in Seq(WatchSet)
  <2> HIDE DEF i
  <2> QED
    BY <1>2, <1>3, QueueTypes
<1>5. \A w \in Range(W) : FileTable[p][w.FileDescriptor] = w.file /\ w.file # NoFile
  BY <1>2, <1>3 DEF GoodFiles, GoodQueues
<1>6. watch \in WatchSet /\ watch.FileDescriptor = target /\ watch.file = FileTable[p][target]
      /\ watch.file # NoFile
  BY <1>3 DEF WatchSet, OpenFiles, Events, SocketInv, FileTables
<1>7. \E W2 \in Seq(WatchSet) :
        /\ \A w \in Range(W2) : FileTable[p][w.FileDescriptor] = w.file /\ w.file # NoFile
        /\ EventQueueStore' = [Q EXCEPT ![i].Watches = W2]
  <2>1. CASE old = {} /\ Succeeds([Current EXCEPT !.queues[i].Watches = Append(@, watch)])
    <3>1. EventQueueStore' = [Q EXCEPT ![i].Watches = Append(W, watch)]
      BY <2>1 DEF Succeeds, Becomes, Current
    <3> HIDE DEF watch, W
    <3>2. Append(W, watch) \in Seq(WatchSet) /\ Range(Append(W, watch)) = Range(W) \cup {watch}
      BY <1>4, <1>6, AppendRange
    <3> QED
      BY <1>5, <1>6, <3>1, <3>2
  <2>2. CASE old # {} /\ Succeeds([Current EXCEPT !.queues[i].Watches = RemoveAt(@, Min(old))])
    <3> DEFINE m == Min(old)
               R == RemoveAt(W, m)
    <3>1. EventQueueStore' = [Q EXCEPT ![i].Watches = R]
      BY <2>2 DEF Succeeds, Becomes, Current
    <3>2. m \in 1 .. Len(W)
      <4>1. old \subseteq Nat /\ old \subseteq 1 .. Len(W)
        BY <1>4
      <4> HIDE DEF old
      <4> QED
        BY <2>2, <4>1, MinIsSmallest
    <3> HIDE DEF m, W
    <3>0. /\ R \in Seq(WatchSet) /\ Len(R) = Len(W) - 1
          /\ \A n \in 1 .. Len(W) - 1 : R[n] = IF n < m THEN W[n] ELSE W[n + 1]
      BY <1>4, <3>2, RemoveAtElements
    <3> HIDE DEF R
    <3>3. /\ R \in Seq(WatchSet) /\ DOMAIN R = 1 .. Len(W) - 1 /\ DOMAIN W = 1 .. Len(W)
          /\ \A n \in 1 .. Len(W) - 1 : R[n] = IF n < m THEN W[n] ELSE W[n + 1]
      BY <1>4, <3>0
    <3>4. Range(R) \subseteq Range(W)
      BY <3>2, <3>3 DEF Range
    <3> HIDE DEF R
    <3> QED
      BY <1>5, <3>1, <3>3, <3>4
  <2>3. CASE old # {} /\ Succeeds([Current EXCEPT !.queues[i].Watches[Min(old)].Events = events])
    <3> DEFINE m == Min(old)
               r == [W[m] EXCEPT !.Events = events]
               R == [W EXCEPT ![m] = r]
    <3>1. EventQueueStore' = [Q EXCEPT ![i].Watches = R]
      BY <2>3 DEF Succeeds, Becomes, Current
    <3>2. m \in 1 .. Len(W)
      <4>1. old \subseteq Nat /\ old \subseteq 1 .. Len(W)
        BY <1>4
      <4> HIDE DEF old
      <4> QED
        BY <2>3, <4>1, MinIsSmallest
    <3> HIDE DEF m, W
    <3>3. W[m] \in WatchSet /\ W[m] \in Range(W)
      BY <1>4, <3>2 DEF Range
    <3>4. r \in WatchSet /\ r.FileDescriptor = W[m].FileDescriptor /\ r.file = W[m].file
      BY <3>3 DEF WatchSet, Events
    <3> HIDE DEF r
    <3>5. R \in Seq(WatchSet) /\ \A n \in DOMAIN R : R[n] = r \/ R[n] \in Range(W)
      BY <1>4, <3>2, <3>4 DEF Range
    <3>6. \A w \in Range(R) : w = r \/ w \in Range(W)
      BY <3>5 DEF Range
    <3> HIDE DEF R
    <3> QED
      BY <1>5, <3>1, <3>3, <3>4, <3>5, <3>6
  <2> QED
    BY <1>3, <2>1, <2>2, <2>3 DEF ControlEventQueue
<1> HIDE DEF i, Q
<1>8. GoodFiles(Sockets, Range(SocketList), FileTable, EventQueueStore')
  <2>1. PICK W2 \in Seq(WatchSet) :
        /\ \A w \in Range(W2) : FileTable[Q[i].ProcessId][w.FileDescriptor] = w.file /\ w.file # NoFile
        /\ EventQueueStore' = [Q EXCEPT ![i].Watches = W2]
    BY <1>3, <1>7
  <2> QED
    BY <1>2, <1>3, <2>1, RewatchedGood
<1> QED
  BY <1>1, <1>2, <1>8 DEF DeadHoldNothing

\* A look at the watches of a queue takes some of them off.
LEMMA LookFiles ==
    ASSUME NEW S, NEW T, GoodFiles(S, T, FileTable, EventQueueStore),
           NEW p \in Processes, NEW c, NEW Q2, Q2 = EvaluatePollState(p, c).queues
    PROVE  GoodFiles(S, T, FileTable, Q2)
<1> DEFINE Q == EventQueueStore
           i == FindEventQueue(Q, p, CHOOSE fd \in c.fds : TRUE)
           kept == EvaluateReadyEvents(p, Q[i].Watches).kept
<1>1. Q \in Seq(QueueSet) /\ GoodQueues(FileTable, Q)
  BY DEF GoodFiles
<1>2. CASE c.op = "poll"
  <2>1. Q2 = Q
    BY <1>2 DEF EvaluatePollState
  <2> QED
    BY <2>1
<1>3. CASE c.op # "poll"
  <2>1. Q2 = [Q EXCEPT ![i].Watches = kept]
    BY <1>3 DEF EvaluatePollState
  <2>2. CASE i = 0
    <3>1. Q2 = Q
      BY <1>1, <2>1, <2>2
    <3> QED
      BY <3>1
  <2>3. CASE i # 0
    <3>1. i \in DOMAIN Q
      BY <1>1, <2>3, FindQueueFacts
    <3> DEFINE W == Q[i].Watches
               file(n) == FileTable[p][W[n].FileDescriptor]
               ready == {n \in DOMAIN W : file(n) # NoFile /\ Revents(file(n), W[n].Events) # {}}
               reached == {n \in DOMAIN W : Cardinality({j \in ready : j < n}) < MaxEvents}
               K == {n \in DOMAIN W : n \in reached => file(n) # NoFile}
    <3>2. kept = Compacted(W, K) /\ K \subseteq DOMAIN W
      BY DEF EvaluateReadyEvents
    <3>3. W \in Seq(WatchSet)
      <4> HIDE DEF i
      <4> QED
        BY <1>1, <3>1, QueueTypes
    <3> HIDE DEF K, kept
    <3>4. kept \in Seq(WatchSet) /\ Range(kept) = {W[n] : n \in K}
      <4> HIDE DEF W
      <4> QED
        BY <3>2, <3>3, CompactedElements
    <3>5. Range(kept) \subseteq Range(W)
      BY <3>2, <3>4 DEF Range
    <3>6. \A w \in Range(kept) : FileTable[Q[i].ProcessId][w.FileDescriptor] = w.file /\ w.file # NoFile
      BY <1>1, <3>1, <3>5 DEF GoodQueues
    <3> HIDE DEF i, W, Q
    <3>7. GoodFiles(S, T, FileTable, Q)
      BY DEF Q
    <3> QED
      BY <2>1, <3>1, <3>4, <3>6, <3>7, RewatchedGood
  <2> QED
    BY <2>2, <2>3
<1> QED
  BY <1>2, <1>3

\* Waiting for events leaves files, queues and watches alone.
LEMMA PollFiles ==
    ASSUME FileInv, NEW p \in Processes,
           \/ \E fd, timeout : HandleEpollWaitSystemCall(p, fd, timeout)
           \/ \E fds, events, timeout : HandlePollSystemCall(p, fds, events, timeout)
           \/ PollAgain(p)
           \/ Woken(p)
    PROVE  FileInv'
<1> SUFFICES ASSUME Departures' = {}
             PROVE  /\ GoodFiles(Sockets', Range(SocketList'), FileTable', EventQueueStore')
                    /\ DeadHoldNothing'
  BY DEF FileInv
<1>1. UNCHANGED <<Sockets, SocketList, FileTable, Live, Departures>>
  BY PollStepsGood
<1>2. GoodFiles(Sockets, Range(SocketList), FileTable, EventQueueStore) /\ DeadHoldNothing
  BY <1>1 DEF FileInv
<1>3. EventQueueStore' = EventQueueStore \/ \E c : EventQueueStore' = EvaluatePollState(p, c).queues
  <2>1. ASSUME NEW c, StartPoll(p, c)
        PROVE  EventQueueStore' = EvaluatePollState(p, c).queues
    BY <2>1 DEF StartPoll, Becomes, Current
  <2>2. CASE \/ \E fd, timeout : HandleEpollWaitSystemCall(p, fd, timeout)
             \/ \E fds, events, timeout : HandlePollSystemCall(p, fds, events, timeout)
    BY <2>1, <2>2 DEF HandleEpollWaitSystemCall, HandlePollSystemCall
  <2>3. CASE PollAgain(p) \/ Woken(p)
    BY <2>3 DEF PollAgain, Woken
  <2> QED
    BY <2>2, <2>3
<1>4. GoodFiles(Sockets, Range(SocketList), FileTable, EventQueueStore')
  BY <1>2, <1>3, LookFiles
<1> QED
  BY <1>1, <1>2, <1>4 DEF DeadHoldNothing
-----------------------------------------------------------------------------
\* The descriptors of the initial state with a waiting client.
LEMMA ServedTable ==
    ASSUME NEW other \in Processes, other # InitProcess, NEW p \in Processes, NEW fd \in FileDescriptors
    PROVE  ServedFiles(other)[p][fd] =
             IF p = InitProcess /\ fd = 0 THEN Terminal
             ELSE IF p = InitProcess /\ fd = 1 THEN SocketFile(1)
             ELSE IF p = other /\ fd = 0 THEN SocketFile(2) ELSE NoFile
<1> DEFINE B == Booted.files
           F1 == [B EXCEPT ![InitProcess][1] = SocketFile(1)]
<1>1. /\ B \in FileTables /\ InitProcess \in Processes /\ {0, 1} \subseteq FileDescriptors
      /\ 1 \in SocketIds
  BY BootedEffect, SocketsAssumption, FirstFree DEF FileDescriptors
<1>2. B[p][fd] = IF p = InitProcess /\ fd = 0 THEN Terminal ELSE NoFile
  BY BootedEffect
<1>3. ServedFiles(other) = [F1 EXCEPT ![other][0] = SocketFile(2)]
  BY DEF ServedFiles
<1> HIDE DEF B
<1>4. F1 \in FileTables
  BY <1>1, FilesAreFiles, FileTableChange
<1>5. F1[p][fd] = IF p = InitProcess /\ fd = 1 THEN SocketFile(1) ELSE B[p][fd]
  BY <1>1 DEF FileTables
<1> HIDE DEF F1
<1>6. ServedFiles(other)[p][fd] = IF p = other /\ fd = 0 THEN SocketFile(2) ELSE F1[p][fd]
  BY <1>1, <1>3, <1>4 DEF FileTables
<1> QED
  BY <1>2, <1>5, <1>6

\* Every initial state satisfies the invariant.
LEMMA InitFileInv ==
    Init => FileInv
<1> SUFFICES ASSUME Init
             PROVE  /\ GoodFiles(Sockets, Range(SocketList), FileTable, EventQueueStore)
                    /\ DeadHoldNothing
  BY DEF FileInv
<1>1. EventQueueStore = <<>> => GoodQueues(FileTable, EventQueueStore) /\ EventQueueStore \in Seq(QueueSet)
  BY DEF GoodQueues
<1>2. InitProcess \in Processes /\ {0, 1, 2} \subseteq FileDescriptors
  BY SocketsAssumption DEF FileDescriptors
<1>3. CASE StartsWith(Booted, {InitProcess})
  <2>1. /\ Range(SocketList) = {} /\ EventQueueStore = <<>> /\ Live = {InitProcess}
        /\ FileTable \in FileTables
        /\ \A p \in Processes : \A fd \in FileDescriptors :
             FileTable[p][fd] = IF p = InitProcess /\ fd = 0 THEN Terminal ELSE NoFile
    BY <1>3, BootedEffect DEF StartsWith
  <2>2. GoodSocketFiles(Sockets, Range(SocketList), FileTable) /\ GoodEpollFiles(FileTable)
    BY <2>1, FileFacts DEF GoodSocketFiles, GoodEpollFiles
  <2>3. DeadHoldNothing
    BY <2>1 DEF DeadHoldNothing, EmptyTable, FileTables
  <2> QED
    BY <1>1, <2>1, <2>2, <2>3 DEF GoodFiles
<1>4. ASSUME NEW other \in Processes \ {InitProcess}, NEW a \in Addresses, a.Family = "unix",
             StartsWith(Served(a, other), {InitProcess, other})
      PROVE  /\ GoodFiles(Sockets, Range(SocketList), FileTable, EventQueueStore)
             /\ DeadHoldNothing
  <2>1. PICK h : h = Served(a, other)
    OBVIOUS
  <2>2. /\ Sockets = ServedSockets(a, other) /\ SocketList = <<1, 2>> /\ EventQueueStore = <<>>
        /\ FileTable = ServedFiles(other) /\ Live = {InitProcess, other}
    BY <1>4, <2>1, ServedEffect DEF StartsWith
  <2>4. /\ 1 \in SocketIds /\ 2 \in SocketIds /\ <<2>> \in Seq(SocketIds)
        /\ Range(SocketList) = {1, 2}
    BY <2>2, FirstFree DEF Range
  <2>5. /\ Listening(a, <<2>>).Owner = InitProcess /\ Listening(a, <<2>>).FileDescriptor = 1
        /\ Client(other, 1).Owner = other /\ Client(other, 1).FileDescriptor = 0
    BY DEF Listening, Client, Accepted, NewSocket
  <2>6. Sockets[1] = Listening(a, <<2>>) /\ Sockets[2] = Client(other, 1)
    BY <2>2, <2>4, BootedEffect DEF ServedSockets
  <2>7. \A p \in Processes : \A fd \in FileDescriptors :
          FileTable[p][fd] = IF p = InitProcess /\ fd = 0 THEN Terminal
                             ELSE IF p = InitProcess /\ fd = 1 THEN SocketFile(1)
                             ELSE IF p = other /\ fd = 0 THEN SocketFile(2) ELSE NoFile
    <3>1. other # InitProcess /\ FileTable = ServedFiles(other)
      BY <2>2
    <3> QED
      BY <3>1, ServedTable
  <2>8. GoodSocketFiles(Sockets, Range(SocketList), FileTable) /\ GoodEpollFiles(FileTable)
    <3>1. /\ Sockets[1].Owner = InitProcess /\ Sockets[1].FileDescriptor = 1
          /\ Sockets[2].Owner = other /\ Sockets[2].FileDescriptor = 0
      BY <2>5, <2>6
    <3> QED
      BY <1>2, <2>4, <2>7, <3>1, FileFacts DEF GoodSocketFiles, GoodEpollFiles
  <2>9. DeadHoldNothing
    <3>1. FileTable \in FileTables
      BY InitSocketInv DEF SocketInv
    <3> QED
      BY <2>2, <2>7, <3>1 DEF DeadHoldNothing, EmptyTable, FileTables
  <2> QED
    BY <1>1, <2>2, <2>8, <2>9 DEF GoodFiles
<1>5. ASSUME NEW other \in Processes \ {InitProcess}, NEW a \in Addresses, a.Family = "unix",
             StartsWith(Connected(a, other), {InitProcess, other})
      PROVE  /\ GoodFiles(Sockets, Range(SocketList), FileTable, EventQueueStore)
             /\ DeadHoldNothing
  <2>1. PICK h : h = Connected(a, other)
    OBVIOUS
  <2>2. /\ Sockets = ConnectedSockets(a, other) /\ SocketList = <<1, 2, 3>>
        /\ EventQueueStore = <<>>
        /\ FileTable = ConnectedFiles(other) /\ Live = {InitProcess, other}
    BY <1>5, <2>1, ConnectedEffect DEF StartsWith
  <2>4. /\ 1 \in SocketIds /\ 2 \in SocketIds /\ 3 \in SocketIds /\ <<>> \in Seq(SocketIds)
        /\ Range(SocketList) = {1, 2, 3}
    BY <2>2, FirstFree DEF Range
  <2>5. /\ Listening(a, <<>>).Owner = InitProcess /\ Listening(a, <<>>).FileDescriptor = 1
        /\ Client(other, 3).Owner = other /\ Client(other, 3).FileDescriptor = 0
        /\ Accepted.Owner = InitProcess /\ Accepted.FileDescriptor = 2
    BY DEF Listening, Client, Accepted, NewSocket
  <2>6. /\ Sockets[1] = Listening(a, <<>>) /\ Sockets[2] = Client(other, 3)
        /\ Sockets[3] = Accepted
    BY <2>2, <2>4, BootedEffect DEF ConnectedSockets
  <2>7. \A p \in Processes : \A fd \in FileDescriptors :
          ServedFiles(other)[p][fd] = IF p = InitProcess /\ fd = 0 THEN Terminal
                             ELSE IF p = InitProcess /\ fd = 1 THEN SocketFile(1)
                             ELSE IF p = other /\ fd = 0 THEN SocketFile(2) ELSE NoFile
    <3>1. other # InitProcess
      OBVIOUS
    <3> QED
      BY <3>1, ServedTable
  <2>8. ServedFiles(other) \in FileTables
    BY <1>2, <2>4, BootedEffect, FilesAreFiles, FileTableChange DEF ServedFiles
  <2>9. \A p \in Processes : \A fd \in FileDescriptors :
          FileTable[p][fd] = IF p = InitProcess /\ fd = 0 THEN Terminal
                             ELSE IF p = InitProcess /\ fd = 1 THEN SocketFile(1)
                             ELSE IF p = InitProcess /\ fd = 2 THEN SocketFile(3)
                             ELSE IF p = other /\ fd = 0 THEN SocketFile(2) ELSE NoFile
    BY <1>2, <2>2, <2>7, <2>8 DEF ConnectedFiles, FileTables
  <2>10. GoodSocketFiles(Sockets, Range(SocketList), FileTable) /\ GoodEpollFiles(FileTable)
    <3>1. /\ Sockets[1].Owner = InitProcess /\ Sockets[1].FileDescriptor = 1
          /\ Sockets[2].Owner = other /\ Sockets[2].FileDescriptor = 0
          /\ Sockets[3].Owner = InitProcess /\ Sockets[3].FileDescriptor = 2
      BY <2>5, <2>6
    <3> QED
      BY <1>2, <2>4, <2>9, <3>1, FileFacts DEF GoodSocketFiles, GoodEpollFiles
  <2>11. DeadHoldNothing
    <3>1. FileTable \in FileTables
      BY InitSocketInv DEF SocketInv
    <3> QED
      BY <2>2, <2>9, <3>1 DEF DeadHoldNothing, EmptyTable, FileTables
  <2> QED
    BY <1>1, <2>2, <2>10, <2>11 DEF GoodFiles
<1> QED
  BY <1>3, <1>4, <1>5 DEF Init

\* Every call of every process preserves the invariant.
LEMMA NextFileInv ==
    SocketInv /\ SocketInv' /\ FileInv /\ [Next]_vars => FileInv'
<1> SUFFICES ASSUME SocketInv, SocketInv', FileInv, [Next]_vars PROVE FileInv'
  OBVIOUS
<1>1. CASE UNCHANGED vars
  BY <1>1 DEF vars, FileInv, DeadHoldNothing
<1>2. ASSUME NEW p \in Processes, SocketCalls(p) PROVE FileInv'
  BY <1>2, SocketCallFiles, SocketFrameFiles, AcceptFiles DEF SocketCalls
<1>3. ASSUME NEW p \in Processes, DescriptorCalls(p) PROVE FileInv'
  BY <1>3, CloseCallFiles, ExecveFiles, Dup2Files, FcntlFiles, ForkFiles, ExitFiles
     DEF DescriptorCalls
<1>4. ASSUME NEW p \in Processes, PollCalls(p) PROVE FileInv'
  BY <1>4, EpollCreateFiles, EpollCtlFiles, PollFiles DEF PollCalls
<1>5. ASSUME NEW p \in Processes, PollAgain(p) \/ Woken(p) PROVE FileInv'
  BY <1>5, PollFiles
<1> QED
  BY <1>1, <1>2, <1>3, <1>4, <1>5 DEF Next

\* As long as no process forks, exits or calls execve with a socket or an event queue
\* open, and no queue's descriptor is copied: sockets, queues, watches and open files
\* agree, whatever else is called.
THEOREM FilesStayGood == Spec => []FileInv
<1>1. Spec => []SocketInv
  BY SocketsStayGood
<1>2. Init => FileInv
  BY InitFileInv
<1>3. SocketInv /\ SocketInv' /\ FileInv /\ [Next]_vars => FileInv'
  BY NextFileInv
<1> QED
  BY <1>1, <1>2, <1>3, PTL DEF Spec

\* CloseSocket, dup2 and fcntl neither free a socket that is open nor keep one that is
\* not, for every number of processes, descriptors and sockets.
THEOREM SocketsTracked == Spec => []SocketsAreTracked
<1>1. SocketInv /\ FileInv => SocketsAreTracked
  BY DEF SocketInv, GoodSockets, FileInv, GoodFiles, GoodSocketFiles, SocketsAreTracked, Tracked
<1> QED
  BY <1>1, SocketsStayGood, FilesStayGood, PTL

\* RemoveEventQueue and RemoveWatchesForFile leave no queue without its file and no
\* watch for a descriptor that has been used again.
THEOREM WatchesCurrent == Spec => []WatchesAreCurrent
<1>1. FileInv => WatchesAreCurrent
  BY DEF FileInv, GoodFiles, GoodQueues, WatchesAreCurrent
<1> QED
  BY <1>1, FilesStayGood, PTL
=============================================================================
