---------------------------- MODULE SocketsProofs ----------------------------
(***************************************************************************)
(* The properties of the sockets, for every number of processes, sockets,  *)
(* descriptors and calls.                                                  *)
(***************************************************************************)
EXTENDS Sockets, SequenceLemmas

AddressSet == [Family : {"unix", "inet", "netlink"}, Ip : Nat, Port : Nat] \cup {Unbound}

SocketSet ==
    [Domain : {"unix", "inet", "netlink", "none"}, Type : {"stream", "dgram", "none"},
     Owner : Processes, FileDescriptor : FileDescriptors, Address : AddressSet,
     IsListening : BOOLEAN, PendingConnectionCapacity : Nat,
     PendingConnections : Seq(SocketIds), ConnectedPeer : SocketIds \cup {NoSocket},
     RemotePid : Nat, ReceiveBufferedBytes : Nat,
     IsShutdownRead : BOOLEAN, IsShutdownWrite : BOOLEAN]

FileSet ==
    {NoFile, Terminal, Dangling} \cup {SocketFile(s) : s \in SocketIds}
        \cup {EpollFile(p, fd) : p \in Processes, fd \in FileDescriptors}

-----------------------------------------------------------------------------
(* The sockets, their list and the lost clients on their own               *)

\* PeersAreConsistent, for the sockets S, the tracked ones T and the lost ones X.
Peers(S, T, X) ==
    \A s \in T :
        /\ S[s].ConnectedPeer # NoSocket =>
             /\ S[s].ConnectedPeer \in T
             /\ \/ S[S[s].ConnectedPeer].ConnectedPeer = s
                \/ /\ S[S[s].ConnectedPeer].IsListening
                   /\ s \in Range(S[S[s].ConnectedPeer].PendingConnections) \cup X
        /\ \A c \in Range(S[s].PendingConnections) : c \in T /\ S[c].ConnectedPeer = s
        /\ IsInjective(S[s].PendingConnections)
        /\ Len(S[s].PendingConnections) <= S[s].PendingConnectionCapacity

\* A listener that is itself connected to a client in its queue waits in that
\* client's queue: accepting the client leaves it a peer that expects it.
Mutual(S, T, X) ==
    \A s \in T : \A c \in Range(S[s].PendingConnections) :
        S[s].ConnectedPeer = c =>
            S[c].IsListening /\ s \in Range(S[c].PendingConnections) \cup X

\* AddressesAreExclusive.
Exclusive(S, T) ==
    \A s, o \in T :
        s # o /\ S[s].Address.Family = S[o].Address.Family /\ S[s].Address # Unbound =>
            /\ S[s].Address.Family # "inet" =>
                 S[s].Address # S[o].Address \/ S[s].Address = Address("netlink", 0, 0)
            /\ S[s].Address.Family = "inet" =>
                 \/ S[s].Address.Port # S[o].Address.Port
                 \/ S[s].Address.Ip # S[o].Address.Ip /\ 0 \notin {S[s].Address.Ip, S[o].Address.Ip}

GoodSockets(S, L, X) ==
    /\ S \in [SocketIds -> SocketSet] /\ L \in Seq(SocketIds) /\ X \subseteq SocketIds
    /\ IsInjective(L)
    /\ Peers(S, Range(L), X) /\ Mutual(S, Range(L), X) /\ Exclusive(S, Range(L))

\* The null pointer is no socket.
LEMMA ZeroIsNoSocket == NoSocket \notin SocketIds
  BY DEF NoSocket, SocketIds

\* The sockets of the list are sockets.
LEMMA TrackedAreIds ==
    ASSUME NEW L \in Seq(SocketIds)
    PROVE  Range(L) \subseteq SocketIds
  BY DEF Range

\* The types of a new and of a deleted socket.
LEMMA NewSocketType ==
    ASSUME NEW domain \in {"unix", "inet", "netlink", "none"}, NEW type \in {"stream", "dgram", "none"},
           NEW p \in Processes, NEW fd \in FileDescriptors
    PROVE  /\ NewSocket(domain, type, p, fd) \in SocketSet
           /\ FreeSocket \in SocketSet
<1>1. Unbound \in AddressSet
  BY DEF AddressSet
<1>2. <<>> \in Seq(SocketIds)
  OBVIOUS
<1>3. 0 \in FileDescriptors /\ InitProcess \in Processes
  BY SocketsAssumption DEF FileDescriptors
<1> QED
  BY <1>1, <1>2, <1>3 DEF NewSocket, FreeSocket, SocketSet

\* A step that keeps peers and queues, and lets sockets begin to listen.
LEMMA PeersFrame ==
    ASSUME NEW S \in [SocketIds -> SocketSet], NEW S2 \in [SocketIds -> SocketSet],
           NEW T, T \subseteq SocketIds, NEW X,
           Peers(S, T, X), Mutual(S, T, X),
           \A o \in SocketIds :
               /\ S2[o].ConnectedPeer = S[o].ConnectedPeer
               /\ S2[o].PendingConnections = S[o].PendingConnections
               /\ S2[o].PendingConnectionCapacity = S[o].PendingConnectionCapacity
               /\ S[o].IsListening => S2[o].IsListening
    PROVE  Peers(S2, T, X) /\ Mutual(S2, T, X)
<1>1. \A s \in T : S[s].ConnectedPeer # NoSocket => S[s].ConnectedPeer \in SocketIds
  BY DEF Peers
<1>2. Peers(S2, T, X)
  BY <1>1 DEF Peers
<1>3. \A s \in T : \A c \in Range(S[s].PendingConnections) : c \in SocketIds
  BY DEF Peers
<1>4. Mutual(S2, T, X)
  BY <1>3 DEF Mutual
<1> QED
  BY <1>2, <1>4

\* Exclusive addresses stay so while no address changes.
LEMMA ExclusiveFrame ==
    ASSUME NEW S, NEW S2, NEW T, T \subseteq SocketIds, Exclusive(S, T),
           \A o \in SocketIds : S2[o].Address = S[o].Address
    PROVE  Exclusive(S2, T)
<1>1. \A o \in T : S2[o].Address = S[o].Address
  OBVIOUS
<1> QED
  BY <1>1 DEF Exclusive

\* Giving one socket an address that is free for it.
LEMMA ExclusiveBind ==
    ASSUME NEW S \in [SocketIds -> SocketSet], NEW S2, NEW T, T \subseteq SocketIds,
           Exclusive(S, T), NEW s \in T,
           \A o \in T \ {s} : S2[o].Address = S[o].Address,
           NEW a \in AddressSet, S2[s].Address = a,
           a.Family = "netlink" => a.Ip = 0,
           \A o \in T \ {s} :
               S[o].Address.Family = a.Family =>
                   CASE a.Family = "unix" -> S[o].Address # a
                     [] a.Family = "inet" ->
                          ~(S[o].Address.Port = a.Port
                              /\ (S[o].Address.Ip = 0 \/ a.Ip = 0 \/ S[o].Address.Ip = a.Ip))
                     [] a.Family = "netlink" -> ~(a.Port # 0 /\ S[o].Address.Port = a.Port)
                     [] OTHER -> TRUE
    PROVE  Exclusive(S2, T)
<1> DEFINE Apart(b, c) ==
             b.Family = c.Family /\ b # Unbound =>
               /\ b.Family # "inet" => b # c \/ b = Address("netlink", 0, 0)
               /\ b.Family = "inet" => b.Port # c.Port \/ (b.Ip # c.Ip /\ 0 \notin {b.Ip, c.Ip})
<1>1. ASSUME NEW o \in T \ {s}
      PROVE  Apart(a, S[o].Address) /\ Apart(S[o].Address, a)
  <2> DEFINE b == S[o].Address
  <2>1. b \in AddressSet
    BY DEF SocketSet
  <2>2. CASE a.Family = "unix"
    BY <1>1, <2>1, <2>2 DEF AddressSet, Address, Unbound
  <2>3. CASE a.Family = "inet"
    BY <1>1, <2>1, <2>3 DEF AddressSet, Address, Unbound
  <2>4. CASE a.Family = "netlink"
    <3>1. b.Family = "netlink" => a.Port = 0 \/ b.Port # a.Port
      BY <1>1, <2>4
    <3>2. CASE a.Port = 0
      <4>1. a = Address("netlink", 0, 0)
        BY <2>4, <3>2 DEF AddressSet, Address, Unbound
      <4> QED
        BY <2>1, <2>4, <4>1 DEF AddressSet, Address, Unbound
    <3>3. CASE a.Port # 0
      BY <2>1, <2>4, <3>1, <3>3 DEF AddressSet, Address, Unbound
    <3> QED
      BY <3>2, <3>3
  <2>5. CASE a.Family = "none"
    <3>1. a = Unbound
      BY <2>5 DEF AddressSet, Address, Unbound
    <3>2. b.Family = "none" => b = Unbound
      BY <2>1 DEF AddressSet, Address, Unbound
    <3> QED
      BY <2>5, <3>1, <3>2
  <2> QED
    BY <2>2, <2>3, <2>4, <2>5 DEF AddressSet, Unbound, Address
<1>2. \A x, y \in T \ {s} : x # y => Apart(S[x].Address, S[y].Address)
  BY DEF Exclusive
<1>3. \A x, y \in T : x # y => Apart(S2[x].Address, S2[y].Address)
  BY <1>1, <1>2
<1> QED
  BY <1>3 DEF Exclusive

\* There is a free address as long as the list has room.
LEMMA FreeSocketExists ==
    ASSUME NEW L \in Seq(SocketIds), Len(L) < MAX_TRACKED_SOCKETS
    PROVE  Min(SocketIds \ Range(L)) \in SocketIds \ Range(L)
<1>1. Len(L) \in Nat /\ DOMAIN L = 1 .. Len(L) /\ MAX_TRACKED_SOCKETS \in Nat
  BY SocketsAssumption
<1>2. IsFiniteSet(1 .. Len(L)) /\ Cardinality(1 .. Len(L)) = Len(L)
  <2>1. \A n \in Nat : IsFiniteSet(1 .. n) /\ Cardinality(1 .. n) = n
    BY FS_Interval
  <2> QED
    BY <1>1, <2>1
<1>3. IsFiniteSet(SocketIds) /\ Cardinality(SocketIds) = MAX_TRACKED_SOCKETS
  BY <1>1, FS_Interval DEF SocketIds
<1>4. SocketIds \ Range(L) # {}
  <2> SUFFICES ASSUME SocketIds \subseteq Range(L) PROVE FALSE
    OBVIOUS
  <2>1. L \in Surjection(1 .. Len(L), Range(L))
    BY <1>1 DEF Surjection, Range
  <2>2. IsFiniteSet(Range(L)) /\ Cardinality(Range(L)) <= Len(L)
    BY <1>2, <2>1, FS_Surjection
  <2>3. Cardinality(SocketIds) <= Cardinality(Range(L))
    BY <2>2, FS_Subset
  <2>4. Cardinality(Range(L)) \in Nat
    BY <2>2, FS_CardinalityType
  <2> QED
    BY <1>1, <1>3, <2>2, <2>3, <2>4
<1>5. SocketIds \ Range(L) \subseteq Nat
  BY <1>1 DEF SocketIds
<1> DEFINE free == SocketIds \ Range(L)
<1> HIDE DEF free
<1>6. Min(free) \in free
  BY <1>4, <1>5, MinIsSmallest DEF free
<1> QED
  BY <1>6 DEF free

\* What appending an element to a list changes.
LEMMA AppendRange ==
    ASSUME NEW S, NEW L \in Seq(S), NEW x \in S
    PROVE  /\ Append(L, x) \in Seq(S)
           /\ Len(Append(L, x)) = Len(L) + 1
           /\ Range(Append(L, x)) = Range(L) \cup {x}
           /\ IsInjective(L) /\ x \notin Range(L) => IsInjective(Append(L, x))
           /\ Last(Append(L, x)) = x
<1> DEFINE n == Len(L)
           A == Append(L, x)
<1>1. /\ A \in Seq(S) /\ Len(A) = n + 1 /\ n \in Nat /\ DOMAIN A = 1 .. n + 1
      /\ DOMAIN L = 1 .. n
      /\ A[n + 1] = x /\ \A i \in 1 .. n : A[i] = L[i]
  OBVIOUS
<1> HIDE DEF A, n
<1>2. Range(A) = Range(L) \cup {x}
  <2>1. 1 .. n + 1 = (1 .. n) \cup {n + 1}
    BY <1>1
  <2> QED
    BY <1>1, <2>1 DEF Range
<1>3. IsInjective(L) /\ x \notin Range(L) => IsInjective(A)
  BY <1>1 DEF IsInjective, Range
<1>4. Last(A) = x
  BY <1>1 DEF Last
<1> QED
  BY <1>1, <1>2, <1>3, <1>4 DEF A, n

\* A new socket is nobody's peer and has no address.
LEMMA CreateGood ==
    ASSUME NEW S, NEW L, NEW X, GoodSockets(S, L, X),
           NEW s \in SocketIds \ Range(L), NEW new \in SocketSet,
           new.ConnectedPeer = NoSocket, new.PendingConnections = <<>>,
           new.Address = Unbound
    PROVE  GoodSockets([S EXCEPT ![s] = new], Append(L, s), X)
<1> DEFINE S2 == [S EXCEPT ![s] = new]
           T == Range(L)
           T2 == Range(Append(L, s))
<1>1. S \in [SocketIds -> SocketSet] /\ L \in Seq(SocketIds) /\ T \subseteq SocketIds
      /\ Peers(S, T, X) /\ Mutual(S, T, X) /\ Exclusive(S, T) /\ X \subseteq SocketIds
  BY TrackedAreIds DEF GoodSockets
<1>2. /\ S2 \in [SocketIds -> SocketSet] /\ S2[s] = new
      /\ \A o \in T : S2[o] = S[o] /\ o # s
  BY <1>1
<1>3. Append(L, s) \in Seq(SocketIds) /\ T2 = T \cup {s} /\ IsInjective(Append(L, s))
  BY <1>1, AppendRange DEF GoodSockets
<1>4. Range(new.PendingConnections) = {} /\ Len(new.PendingConnections) = 0
      /\ IsInjective(new.PendingConnections) /\ new.PendingConnectionCapacity \in Nat
  BY DEF Range, IsInjective, SocketSet
<1> HIDE DEF S2, T, T2
<1>5. Peers(S2, T2, X)
  <2> SUFFICES ASSUME NEW x \in T2
               PROVE  /\ S2[x].ConnectedPeer # NoSocket =>
                           /\ S2[x].ConnectedPeer \in T2
                           /\ \/ S2[S2[x].ConnectedPeer].ConnectedPeer = x
                              \/ /\ S2[S2[x].ConnectedPeer].IsListening
                                 /\ x \in Range(S2[S2[x].ConnectedPeer].PendingConnections) \cup X
                      /\ \A c \in Range(S2[x].PendingConnections) :
                           c \in T2 /\ S2[c].ConnectedPeer = x
                      /\ IsInjective(S2[x].PendingConnections)
                      /\ Len(S2[x].PendingConnections) <= S2[x].PendingConnectionCapacity
    BY DEF Peers
  <2>1. CASE x = s
    BY <1>2, <1>4, <2>1
  <2>2. CASE x \in T
    BY <1>1, <1>2, <1>3, <2>2 DEF Peers
  <2> QED
    BY <1>3, <2>1, <2>2
<1>6. Mutual(S2, T2, X)
  <2> SUFFICES ASSUME NEW x \in T2, NEW c \in Range(S2[x].PendingConnections),
                      S2[x].ConnectedPeer = c
               PROVE  S2[c].IsListening /\ x \in Range(S2[c].PendingConnections) \cup X
    BY DEF Mutual
  <2>1. x \in T /\ S2[x] = S[x]
    BY <1>2, <1>3, <1>4
  <2>2. c \in T /\ S2[c] = S[c]
    BY <1>1, <1>2, <2>1 DEF Peers
  <2> QED
    BY <1>1, <2>1, <2>2 DEF Mutual
<1>7. Exclusive(S2, T2)
  <2> SUFFICES ASSUME NEW x \in T2, NEW y \in T2, x # y,
                      S2[x].Address.Family = S2[y].Address.Family, S2[x].Address # Unbound
               PROVE  x \in T /\ y \in T
    BY <1>1, <1>2 DEF Exclusive
  <2>1. x # s
    BY <1>2
  <2>2. S2[x].Address \in AddressSet
    BY <1>2, <1>1, <1>3 DEF SocketSet
  <2>3. S2[x].Address.Family # Unbound.Family
    BY <2>2 DEF AddressSet, Unbound, Address
  <2> QED
    BY <1>2, <1>3, <2>1, <2>3
<1> QED
  BY <1>1, <1>2, <1>3, <1>5, <1>6, <1>7 DEF GoodSockets, S2, T2

\* What removing an element from a queue changes.
LEMMA WithoutElements ==
    ASSUME NEW S, NEW q \in Seq(S), NEW s
    PROVE  /\ Without(q, s) \in Seq(S)
           /\ Len(Without(q, s)) <= Len(q)
           /\ Range(Without(q, s)) = Range(q) \ {s}
           /\ IsInjective(q) => IsInjective(Without(q, s))
<1> DEFINE K == {i \in DOMAIN q : q[i] # s}
<1>1. K \subseteq DOMAIN q /\ {q[i] : i \in K} = Range(q) \ {s}
  BY DEF Range
<1>2. Without(q, s) = Compacted(q, K)
  BY DEF Without
<1> HIDE DEF K
<1> QED
  BY <1>1, <1>2, CompactedElements

\* The fields of the sockets that CloseSocket changes, and keeps.
LEMMA DestroyFields ==
    ASSUME NEW S \in [SocketIds -> SocketSet], NEW s \in SocketIds
    PROVE  LET S2 == [o \in SocketIds |-> IF o = s THEN FreeSocket ELSE Forget(S[o], s)]
           IN /\ S2 \in [SocketIds -> SocketSet]
              /\ \A o \in SocketIds \ {s} :
                   /\ S2[o].ConnectedPeer =
                        IF S[o].ConnectedPeer = s THEN NoSocket ELSE S[o].ConnectedPeer
                   /\ S2[o].PendingConnections = Without(S[o].PendingConnections, s)
                   /\ S2[o].PendingConnectionCapacity = S[o].PendingConnectionCapacity
                   /\ S2[o].IsListening = S[o].IsListening
                   /\ S2[o].Address = S[o].Address
                   /\ S2[o].Owner = S[o].Owner
                   /\ S2[o].FileDescriptor = S[o].FileDescriptor
<1> DEFINE D(o) == Forget(S[o], s)
<1>1. FreeSocket \in SocketSet
  <2>1. InitProcess \in Processes /\ 0 \in FileDescriptors
    BY SocketsAssumption DEF FileDescriptors
  <2> QED
    BY <2>1, NewSocketType
<1>2. ASSUME NEW o \in SocketIds
      PROVE  /\ D(o) \in SocketSet
             /\ D(o).ConnectedPeer = IF S[o].ConnectedPeer = s THEN NoSocket ELSE S[o].ConnectedPeer
             /\ D(o).PendingConnections = Without(S[o].PendingConnections, s)
             /\ D(o).PendingConnectionCapacity = S[o].PendingConnectionCapacity
             /\ D(o).IsListening = S[o].IsListening
             /\ D(o).Address = S[o].Address
             /\ D(o).Owner = S[o].Owner
             /\ D(o).FileDescriptor = S[o].FileDescriptor
  <2>1. S[o] \in SocketSet /\ S[o].PendingConnections \in Seq(SocketIds)
    BY DEF SocketSet
  <2>2. Without(S[o].PendingConnections, s) \in Seq(SocketIds)
    BY <2>1, WithoutElements
  <2> QED
    BY <2>1, <2>2 DEF SocketSet, Forget
<1> HIDE DEF D
<1> DEFINE S2 == [o \in SocketIds |-> IF o = s THEN FreeSocket ELSE D(o)]
<1>3. S2 \in [SocketIds -> SocketSet] /\ \A o \in SocketIds \ {s} : S2[o] = D(o)
  BY <1>1, <1>2
<1> HIDE DEF S2
<1>4. /\ S2 \in [SocketIds -> SocketSet]
      /\ \A o \in SocketIds \ {s} :
           /\ S2[o].ConnectedPeer =
                IF S[o].ConnectedPeer = s THEN NoSocket ELSE S[o].ConnectedPeer
           /\ S2[o].PendingConnections = Without(S[o].PendingConnections, s)
           /\ S2[o].PendingConnectionCapacity = S[o].PendingConnectionCapacity
           /\ S2[o].IsListening = S[o].IsListening
           /\ S2[o].Address = S[o].Address
           /\ S2[o].Owner = S[o].Owner
           /\ S2[o].FileDescriptor = S[o].FileDescriptor
  BY <1>2, <1>3
<1> QED
  BY <1>4 DEF S2, D

\* CloseSocket leaves nothing that leads to the socket it deletes.
LEMMA DestroyGood ==
    ASSUME NEW S, NEW L, NEW X, GoodSockets(S, L, X), NEW s \in Range(L),
           NEW S2 \in [SocketIds -> SocketSet],
           \A o \in SocketIds \ {s} :
             /\ S2[o].ConnectedPeer =
                  IF S[o].ConnectedPeer = s THEN NoSocket ELSE S[o].ConnectedPeer
             /\ S2[o].PendingConnections = Without(S[o].PendingConnections, s)
             /\ S2[o].PendingConnectionCapacity = S[o].PendingConnectionCapacity
             /\ S2[o].IsListening = S[o].IsListening
             /\ S2[o].Address = S[o].Address,
           NEW L2, L2 = RemoveFirst(L, s),
           NEW X2, X2 = {c \in X \ {s} : S[c].ConnectedPeer # s}
    PROVE  GoodSockets(S2, L2, X2) /\ Range(L2) = Range(L) \ {s}
<1> DEFINE T == Range(L)
           T2 == Range(L2)
<1>1. S \in [SocketIds -> SocketSet] /\ L \in Seq(SocketIds) /\ T \subseteq SocketIds
      /\ Peers(S, T, X) /\ Mutual(S, T, X) /\ Exclusive(S, T) /\ X \subseteq SocketIds
  BY TrackedAreIds DEF GoodSockets
<1>2. L2 \in Seq(SocketIds) /\ T2 = T \ {s} /\ IsInjective(L2)
  BY <1>1, RemoveFirstRange DEF GoodSockets
<1>3. ASSUME NEW o \in SocketIds
      PROVE  /\ Without(S[o].PendingConnections, s) \in Seq(SocketIds)
             /\ Len(Without(S[o].PendingConnections, s)) <= Len(S[o].PendingConnections)
             /\ Range(Without(S[o].PendingConnections, s)) = Range(S[o].PendingConnections) \ {s}
             /\ IsInjective(S[o].PendingConnections) =>
                  IsInjective(Without(S[o].PendingConnections, s))
  <2>1. S[o].PendingConnections \in Seq(SocketIds)
    BY <1>1 DEF SocketSet
  <2> QED
    BY <2>1, WithoutElements
<1>4. ASSUME NEW o \in SocketIds, o # s
      PROVE  /\ S2[o].ConnectedPeer = IF S[o].ConnectedPeer = s THEN NoSocket ELSE S[o].ConnectedPeer
             /\ S2[o].PendingConnections = Without(S[o].PendingConnections, s)
             /\ S2[o].PendingConnectionCapacity = S[o].PendingConnectionCapacity
             /\ S2[o].IsListening = S[o].IsListening
             /\ S2[o].Address = S[o].Address
  BY <1>4
<1>5. S2 \in [SocketIds -> SocketSet]
  OBVIOUS
<1>6. X2 \subseteq X \ {s} /\ \A c \in X \ {s} : S[c].ConnectedPeer # s => c \in X2
  OBVIOUS
<1> HIDE DEF T, T2
<1>7. Peers(S2, T2, X2)
  <2> SUFFICES ASSUME NEW x \in T2
               PROVE  /\ S2[x].ConnectedPeer # NoSocket =>
                           /\ S2[x].ConnectedPeer \in T2
                           /\ \/ S2[S2[x].ConnectedPeer].ConnectedPeer = x
                              \/ /\ S2[S2[x].ConnectedPeer].IsListening
                                 /\ x \in Range(S2[S2[x].ConnectedPeer].PendingConnections) \cup X2
                      /\ \A c \in Range(S2[x].PendingConnections) :
                           c \in T2 /\ S2[c].ConnectedPeer = x
                      /\ IsInjective(S2[x].PendingConnections)
                      /\ Len(S2[x].PendingConnections) <= S2[x].PendingConnectionCapacity
    BY DEF Peers
  <2>1. x \in T /\ x # s /\ x \in SocketIds
    BY <1>1, <1>2
  <2>2. ASSUME S2[x].ConnectedPeer # NoSocket
        PROVE  /\ S2[x].ConnectedPeer \in T2
               /\ \/ S2[S2[x].ConnectedPeer].ConnectedPeer = x
                  \/ /\ S2[S2[x].ConnectedPeer].IsListening
                     /\ x \in Range(S2[S2[x].ConnectedPeer].PendingConnections) \cup X2
    <3> DEFINE y == S[x].ConnectedPeer
    <3>1. S2[x].ConnectedPeer = y /\ y # s /\ y # NoSocket
      BY <1>4, <2>1, <2>2
    <3>2. y \in T /\ (S[y].ConnectedPeer = x \/ (S[y].IsListening /\ x \in Range(S[y].PendingConnections) \cup X))
      BY <1>1, <2>1, <3>1 DEF Peers
    <3>3. y \in T2 /\ y \in SocketIds
      BY <1>1, <1>2, <3>1, <3>2
    <3>4. CASE S[y].ConnectedPeer = x
      <4>1. S2[y].ConnectedPeer = x
        BY <1>4, <2>1, <3>1, <3>3, <3>4
      <4> QED
        BY <3>1, <3>3, <4>1
    <3>5. CASE S[y].IsListening /\ x \in Range(S[y].PendingConnections) \cup X
      <4>1. S2[y].IsListening /\ Range(S2[y].PendingConnections) = Range(S[y].PendingConnections) \ {s}
        BY <1>3, <1>4, <3>1, <3>3, <3>5
      <4>2. x \in X => x \in X2
        BY <1>6, <2>1, <3>1
      <4> QED
        BY <2>1, <3>1, <3>3, <3>5, <4>1, <4>2
    <3> QED
      BY <3>2, <3>4, <3>5
  <2>3. Range(S2[x].PendingConnections) = Range(S[x].PendingConnections) \ {s}
    BY <1>3, <1>4, <2>1
  <2>4. ASSUME NEW c \in Range(S2[x].PendingConnections)
        PROVE  c \in T2 /\ S2[c].ConnectedPeer = x
    <3>1. c \in T /\ c # s /\ S[c].ConnectedPeer = x
      BY <1>1, <2>1, <2>3 DEF Peers
    <3> QED
      BY <1>1, <1>2, <1>4, <2>1, <3>1
  <2>5. IsInjective(S2[x].PendingConnections)
    BY <1>1, <1>3, <1>4, <2>1 DEF Peers
  <2>6. Len(S2[x].PendingConnections) <= S2[x].PendingConnectionCapacity
    <3>1. S[x].PendingConnections \in Seq(SocketIds) /\ S[x].PendingConnectionCapacity \in Nat
          /\ Len(S[x].PendingConnections) <= S[x].PendingConnectionCapacity
      BY <1>1, <2>1 DEF Peers, SocketSet
    <3>2. S2[x].PendingConnections \in Seq(SocketIds)
          /\ Len(S2[x].PendingConnections) <= Len(S[x].PendingConnections)
          /\ S2[x].PendingConnectionCapacity = S[x].PendingConnectionCapacity
      BY <1>3, <1>4, <2>1
    <3> QED
      BY <3>1, <3>2
  <2> QED
    BY <2>2, <2>4, <2>5, <2>6
<1>8. Mutual(S2, T2, X2)
  <2> SUFFICES ASSUME NEW x \in T2, NEW c \in Range(S2[x].PendingConnections),
                      S2[x].ConnectedPeer = c
               PROVE  S2[c].IsListening /\ x \in Range(S2[c].PendingConnections) \cup X2
    BY DEF Mutual
  <2>1. x \in T /\ x # s /\ x \in SocketIds
    BY <1>1, <1>2
  <2>2. c \in Range(S[x].PendingConnections) /\ c # s
    BY <1>3, <1>4, <2>1
  <2>3. c \in T /\ c \in SocketIds /\ c # NoSocket
    BY <1>1, <2>1, <2>2, ZeroIsNoSocket DEF Peers
  <2>4. S[x].ConnectedPeer = c
    BY <1>4, <2>1, <2>3
  <2>5. S[c].IsListening /\ x \in Range(S[c].PendingConnections) \cup X
    BY <1>1, <2>1, <2>2, <2>4 DEF Mutual
  <2>6. S2[c].IsListening /\ Range(S2[c].PendingConnections) = Range(S[c].PendingConnections) \ {s}
    BY <1>3, <1>4, <2>2, <2>3, <2>5
  <2> QED
    BY <1>6, <2>1, <2>2, <2>4, <2>5, <2>6
<1>9. Exclusive(S2, T2)
  <2>1. \A o \in T2 : o \in T /\ S2[o].Address = S[o].Address
    BY <1>1, <1>2, <1>4
  <2> QED
    BY <1>1, <2>1 DEF Exclusive
<1> QED
  BY <1>1, <1>2, <1>5, <1>6, <1>7, <1>8, <1>9 DEF GoodSockets, T, T2

\* ConnectSocket: s gets the listener as its peer and waits in its queue.
LEMMA ConnectGood ==
    ASSUME NEW S, NEW L, NEW X, GoodSockets(S, L, X),
           NEW s \in Range(L), S[s].ConnectedPeer = NoSocket,
           NEW l \in Range(L), S[l].IsListening,
           Len(S[l].PendingConnections) < S[l].PendingConnectionCapacity,
           NEW S2, S2 \in [SocketIds -> SocketSet],
           \A o \in SocketIds :
             /\ S2[o].ConnectedPeer = IF o = s THEN l ELSE S[o].ConnectedPeer
             /\ S2[o].PendingConnections =
                  IF o = l THEN Append(S[o].PendingConnections, s) ELSE S[o].PendingConnections
             /\ S2[o].PendingConnectionCapacity = S[o].PendingConnectionCapacity
             /\ S2[o].IsListening = S[o].IsListening
             /\ S2[o].Address = S[o].Address
    PROVE  GoodSockets(S2, L, X)
<1> DEFINE T == Range(L)
<1>1. S \in [SocketIds -> SocketSet] /\ L \in Seq(SocketIds) /\ T \subseteq SocketIds
      /\ Peers(S, T, X) /\ Mutual(S, T, X) /\ Exclusive(S, T) /\ X \subseteq SocketIds
  BY TrackedAreIds DEF GoodSockets
<1>2. s \in T /\ l \in T /\ s \in SocketIds /\ l \in SocketIds /\ s # NoSocket /\ l # NoSocket
  BY <1>1, ZeroIsNoSocket
<1>3. \A o \in SocketIds : S[o].PendingConnections \in Seq(SocketIds)
                           /\ S[o].PendingConnectionCapacity \in Nat
  BY <1>1 DEF SocketSet
<1>4. s \notin Range(S[l].PendingConnections)
  BY <1>1, <1>2 DEF Peers
<1>5. /\ Range(S2[l].PendingConnections) = Range(S[l].PendingConnections) \cup {s}
      /\ IsInjective(S2[l].PendingConnections)
      /\ Len(S2[l].PendingConnections) = Len(S[l].PendingConnections) + 1
  <2>1. IsInjective(S[l].PendingConnections)
    BY <1>1, <1>2 DEF Peers
  <2>2. S2[l].PendingConnections = Append(S[l].PendingConnections, s)
    BY <1>2
  <2> QED
    BY <1>2, <1>3, <1>4, <2>1, <2>2, AppendRange
<1>6. \A o \in SocketIds \ {l} : S2[o].PendingConnections = S[o].PendingConnections
  OBVIOUS
<1>7. \A o \in SocketIds : Range(S[o].PendingConnections) \subseteq Range(S2[o].PendingConnections)
  BY <1>5, <1>6
<1> HIDE DEF T
<1>8. Peers(S2, T, X)
  <2> SUFFICES ASSUME NEW x \in T
               PROVE  /\ S2[x].ConnectedPeer # NoSocket =>
                           /\ S2[x].ConnectedPeer \in T
                           /\ \/ S2[S2[x].ConnectedPeer].ConnectedPeer = x
                              \/ /\ S2[S2[x].ConnectedPeer].IsListening
                                 /\ x \in Range(S2[S2[x].ConnectedPeer].PendingConnections) \cup X
                      /\ \A c \in Range(S2[x].PendingConnections) :
                           c \in T /\ S2[c].ConnectedPeer = x
                      /\ IsInjective(S2[x].PendingConnections)
                      /\ Len(S2[x].PendingConnections) <= S2[x].PendingConnectionCapacity
    BY DEF Peers
  <2>1. x \in SocketIds
    BY <1>1
  <2>2. ASSUME S2[x].ConnectedPeer # NoSocket
        PROVE  /\ S2[x].ConnectedPeer \in T
               /\ \/ S2[S2[x].ConnectedPeer].ConnectedPeer = x
                  \/ /\ S2[S2[x].ConnectedPeer].IsListening
                     /\ x \in Range(S2[S2[x].ConnectedPeer].PendingConnections) \cup X
    <3>1. CASE x = s
      <4>1. S2[x].ConnectedPeer = l /\ S2[l].IsListening /\ x \in Range(S2[l].PendingConnections)
        BY <1>2, <1>5, <3>1
      <4> QED
        BY <1>2, <4>1
    <3>2. CASE x # s
      <4> DEFINE y == S[x].ConnectedPeer
      <4>1. S2[x].ConnectedPeer = y /\ y # NoSocket
        BY <2>1, <2>2, <3>2
      <4>2. y \in T /\ (S[y].ConnectedPeer = x \/ (S[y].IsListening /\ x \in Range(S[y].PendingConnections) \cup X))
        BY <1>1, <4>1 DEF Peers
      <4>3. y \in SocketIds
        BY <1>1, <4>2
      <4>4. CASE S[y].ConnectedPeer = x
        <5>1. y # s
          BY <1>1, <2>1, <4>4, ZeroIsNoSocket
        <5> QED
          BY <4>1, <4>2, <4>3, <4>4, <5>1
      <4>5. CASE S[y].IsListening /\ x \in Range(S[y].PendingConnections) \cup X
        BY <1>7, <4>1, <4>2, <4>3, <4>5
      <4> QED
        BY <4>2, <4>4, <4>5
    <3> QED
      BY <3>1, <3>2
  <2>3. ASSUME NEW c \in Range(S2[x].PendingConnections)
        PROVE  c \in T /\ S2[c].ConnectedPeer = x
    <3>1. CASE x = l /\ c = s
      BY <1>2, <3>1
    <3>2. CASE ~(x = l /\ c = s)
      <4>1. c \in Range(S[x].PendingConnections)
        BY <1>5, <1>6, <2>1, <3>2
      <4>2. c \in T /\ S[c].ConnectedPeer = x
        BY <1>1, <4>1 DEF Peers
      <4>3. c # s
        BY <2>1, <4>2, ZeroIsNoSocket
      <4> QED
        BY <1>1, <4>2, <4>3
    <3> QED
      BY <3>1, <3>2
  <2>4. IsInjective(S2[x].PendingConnections)
        /\ Len(S2[x].PendingConnections) <= S2[x].PendingConnectionCapacity
    <3>1. CASE x = l
      <4>1. Len(S[l].PendingConnections) \in Nat /\ S2[l].PendingConnectionCapacity = S[l].PendingConnectionCapacity
        BY <1>2, <1>3
      <4> QED
        BY <1>2, <1>3, <1>5, <3>1, <4>1
    <3>2. CASE x # l
      BY <1>1, <1>6, <2>1, <3>2 DEF Peers
    <3> QED
      BY <3>1, <3>2
  <2> QED
    BY <2>2, <2>3, <2>4
<1>9. Mutual(S2, T, X)
  <2> SUFFICES ASSUME NEW x \in T, NEW c \in Range(S2[x].PendingConnections),
                      S2[x].ConnectedPeer = c
               PROVE  S2[c].IsListening /\ x \in Range(S2[c].PendingConnections) \cup X
    BY DEF Mutual
  <2>1. x \in SocketIds
    BY <1>1
  <2>2. CASE x = s
    <3>1. c = l
      BY <2>1, <2>2
    <3> QED
      BY <1>2, <1>5, <2>2, <3>1
  <2>3. CASE x # s
    <3>1. S[x].ConnectedPeer = c
      BY <2>1, <2>3
    <3>2. CASE c \in Range(S[x].PendingConnections)
      <4>1. S[c].IsListening /\ x \in Range(S[c].PendingConnections) \cup X
        BY <1>1, <3>1, <3>2 DEF Mutual
      <4>2. c \in SocketIds
        BY <1>1, <3>2 DEF Peers
      <4> QED
        BY <1>7, <4>1, <4>2
    <3>3. CASE c \notin Range(S[x].PendingConnections)
      <4>1. c = s
        BY <1>5, <1>6, <2>1, <3>3
      <4>2. S[s].IsListening /\ x \in Range(S[s].PendingConnections) \cup X
        BY <1>1, <1>2, <2>1, <3>1, <4>1, ZeroIsNoSocket DEF Peers
      <4> QED
        BY <1>2, <1>7, <4>1, <4>2
    <3> QED
      BY <3>2, <3>3
  <2> QED
    BY <2>2, <2>3
<1>10. Exclusive(S2, T)
  BY <1>1, ExclusiveFrame
<1> QED
  BY <1>1, <1>8, <1>9, <1>10 DEF GoodSockets, T

\* A listener's queue becomes shorter, and the clients it drops are lost.
LEMMA CutGood ==
    ASSUME NEW S, NEW L, NEW X, GoodSockets(S, L, X), NEW s \in Range(L),
           NEW S2 \in [SocketIds -> SocketSet], S2[s].IsListening,
           \A o \in SocketIds :
             /\ S2[o].ConnectedPeer = S[o].ConnectedPeer
             /\ S[o].IsListening => S2[o].IsListening
             /\ S2[o].Address = S[o].Address
             /\ o # s => /\ S2[o].PendingConnections = S[o].PendingConnections
                         /\ S2[o].PendingConnectionCapacity = S[o].PendingConnectionCapacity,
           Range(S2[s].PendingConnections) \subseteq Range(S[s].PendingConnections),
           IsInjective(S2[s].PendingConnections),
           Len(S2[s].PendingConnections) <= S2[s].PendingConnectionCapacity,
           NEW X2, X \subseteq X2, X2 \subseteq SocketIds,
           Range(S[s].PendingConnections) \subseteq Range(S2[s].PendingConnections) \cup X2
    PROVE  GoodSockets(S2, L, X2)
<1> DEFINE T == Range(L)
<1>1. S \in [SocketIds -> SocketSet] /\ L \in Seq(SocketIds) /\ T \subseteq SocketIds
      /\ Peers(S, T, X) /\ Mutual(S, T, X) /\ Exclusive(S, T) /\ s \in SocketIds
  BY TrackedAreIds DEF GoodSockets
<1>2. \A o \in SocketIds :
        /\ Range(S2[o].PendingConnections) \subseteq Range(S[o].PendingConnections)
        /\ Range(S[o].PendingConnections) \cup X \subseteq Range(S2[o].PendingConnections) \cup X2
  OBVIOUS
<1> HIDE DEF T
<1>3. Peers(S2, T, X2)
  <2> SUFFICES ASSUME NEW x \in T
               PROVE  /\ S2[x].ConnectedPeer # NoSocket =>
                           /\ S2[x].ConnectedPeer \in T
                           /\ \/ S2[S2[x].ConnectedPeer].ConnectedPeer = x
                              \/ /\ S2[S2[x].ConnectedPeer].IsListening
                                 /\ x \in Range(S2[S2[x].ConnectedPeer].PendingConnections) \cup X2
                      /\ \A c \in Range(S2[x].PendingConnections) :
                           c \in T /\ S2[c].ConnectedPeer = x
                      /\ IsInjective(S2[x].PendingConnections)
                      /\ Len(S2[x].PendingConnections) <= S2[x].PendingConnectionCapacity
    BY DEF Peers
  <2>1. x \in SocketIds
    BY <1>1
  <2>2. ASSUME S2[x].ConnectedPeer # NoSocket
        PROVE  /\ S2[x].ConnectedPeer \in T
               /\ \/ S2[S2[x].ConnectedPeer].ConnectedPeer = x
                  \/ /\ S2[S2[x].ConnectedPeer].IsListening
                     /\ x \in Range(S2[S2[x].ConnectedPeer].PendingConnections) \cup X2
    <3> DEFINE y == S[x].ConnectedPeer
    <3>1. S2[x].ConnectedPeer = y
      BY <2>1
    <3>2. y \in T /\ (S[y].ConnectedPeer = x \/ (S[y].IsListening /\ x \in Range(S[y].PendingConnections) \cup X))
      BY <1>1, <2>2, <3>1 DEF Peers
    <3>3. y \in SocketIds
      BY <1>1, <3>2
    <3> QED
      BY <1>2, <3>1, <3>2, <3>3
  <2>3. ASSUME NEW c \in Range(S2[x].PendingConnections)
        PROVE  c \in T /\ S2[c].ConnectedPeer = x
    <3>1. c \in T /\ S[c].ConnectedPeer = x
      BY <1>1, <1>2, <2>1 DEF Peers
    <3> QED
      BY <1>1, <3>1
  <2>4. IsInjective(S2[x].PendingConnections)
        /\ Len(S2[x].PendingConnections) <= S2[x].PendingConnectionCapacity
    BY <1>1, <2>1 DEF Peers
  <2> QED
    BY <2>2, <2>3, <2>4
<1>4. Mutual(S2, T, X2)
  <2> SUFFICES ASSUME NEW x \in T, NEW c \in Range(S2[x].PendingConnections),
                      S2[x].ConnectedPeer = c
               PROVE  S2[c].IsListening /\ x \in Range(S2[c].PendingConnections) \cup X2
    BY DEF Mutual
  <2>1. x \in SocketIds /\ c \in Range(S[x].PendingConnections) /\ S[x].ConnectedPeer = c
    BY <1>1, <1>2
  <2>2. S[c].IsListening /\ x \in Range(S[c].PendingConnections) \cup X
    BY <1>1, <2>1 DEF Mutual
  <2>3. c \in SocketIds
    BY <1>1, <2>1 DEF Peers
  <2> QED
    BY <1>2, <2>2, <2>3
<1>5. Exclusive(S2, T)
  BY <1>1, ExclusiveFrame
<1> QED
  BY <1>1, <1>3, <1>4, <1>5 DEF GoodSockets, T

\* AcceptSocket: the client s had in its queue and a new socket become peers.
LEMMA PairGood ==
    ASSUME NEW S, NEW L, NEW X, NEW c \in Range(L), GoodSockets(S, L, X \cup {c}),
           NEW a \in Range(L), c # a, X \subseteq SocketIds,
           S[a].ConnectedPeer = NoSocket, S[a].PendingConnections = <<>>,
           \A o \in Range(L) : S[o].ConnectedPeer # a,
           \A o \in Range(L) : c \notin Range(S[o].PendingConnections),
           \A o \in Range(L) \ {c} : S[o].ConnectedPeer = c =>
               S[c].IsListening /\ o \in Range(S[c].PendingConnections) \cup X,
           NEW S2 \in [SocketIds -> SocketSet],
           \A o \in SocketIds :
             /\ S2[o].ConnectedPeer = IF o = a THEN c ELSE IF o = c THEN a ELSE S[o].ConnectedPeer
             /\ S2[o].PendingConnections = S[o].PendingConnections
             /\ S2[o].PendingConnectionCapacity = S[o].PendingConnectionCapacity
             /\ S2[o].IsListening = S[o].IsListening
             /\ S2[o].Address = S[o].Address
    PROVE  GoodSockets(S2, L, X)
<1> DEFINE T == Range(L)
<1>1. S \in [SocketIds -> SocketSet] /\ L \in Seq(SocketIds) /\ T \subseteq SocketIds
      /\ Peers(S, T, X \cup {c}) /\ Mutual(S, T, X \cup {c}) /\ Exclusive(S, T)
      /\ a \in SocketIds /\ c \in SocketIds
  BY TrackedAreIds DEF GoodSockets
<1>2. Range(S[a].PendingConnections) = {}
  BY DEF Range
<1> HIDE DEF T
<1>3. Peers(S2, T, X)
  <2> SUFFICES ASSUME NEW x \in T
               PROVE  /\ S2[x].ConnectedPeer # NoSocket =>
                           /\ S2[x].ConnectedPeer \in T
                           /\ \/ S2[S2[x].ConnectedPeer].ConnectedPeer = x
                              \/ /\ S2[S2[x].ConnectedPeer].IsListening
                                 /\ x \in Range(S2[S2[x].ConnectedPeer].PendingConnections) \cup X
                      /\ \A d \in Range(S2[x].PendingConnections) :
                           d \in T /\ S2[d].ConnectedPeer = x
                      /\ IsInjective(S2[x].PendingConnections)
                      /\ Len(S2[x].PendingConnections) <= S2[x].PendingConnectionCapacity
    BY DEF Peers
  <2>1. x \in SocketIds
    BY <1>1
  <2>2. ASSUME S2[x].ConnectedPeer # NoSocket
        PROVE  /\ S2[x].ConnectedPeer \in T
               /\ \/ S2[S2[x].ConnectedPeer].ConnectedPeer = x
                  \/ /\ S2[S2[x].ConnectedPeer].IsListening
                     /\ x \in Range(S2[S2[x].ConnectedPeer].PendingConnections) \cup X
    <3>1. CASE x \in {a, c}
      BY <1>1, <3>1 DEF T
    <3>2. CASE x \notin {a, c}
      <4> DEFINE y == S[x].ConnectedPeer
      <4>1. S2[x].ConnectedPeer = y /\ y # a
        BY <2>1, <3>2 DEF T
      <4>2. y \in T /\ (S[y].ConnectedPeer = x \/ (S[y].IsListening /\ x \in Range(S[y].PendingConnections) \cup X))
        BY <1>1, <2>2, <3>2, <4>1 DEF Peers
      <4>3. y \in SocketIds /\ S2[y].IsListening = S[y].IsListening
            /\ S2[y].PendingConnections = S[y].PendingConnections
        BY <1>1, <4>2
      <4>4. CASE y = c
        BY <4>1, <4>2, <4>3, <4>4 DEF T
      <4>5. CASE y # c
        BY <4>1, <4>2, <4>3, <4>5
      <4> QED
        BY <4>4, <4>5
    <3> QED
      BY <3>1, <3>2
  <2>3. ASSUME NEW d \in Range(S2[x].PendingConnections)
        PROVE  d \in T /\ S2[d].ConnectedPeer = x
    <3>1. d \in Range(S[x].PendingConnections) /\ d \in T /\ S[d].ConnectedPeer = x
      BY <1>1, <2>1 DEF Peers
    <3>2. d # c /\ d # a
      BY <2>1, <3>1, ZeroIsNoSocket DEF T
    <3> QED
      BY <1>1, <3>1, <3>2
  <2>4. IsInjective(S2[x].PendingConnections)
        /\ Len(S2[x].PendingConnections) <= S2[x].PendingConnectionCapacity
    BY <1>1, <2>1 DEF Peers
  <2> QED
    BY <2>2, <2>3, <2>4
<1>4. Mutual(S2, T, X)
  <2> SUFFICES ASSUME NEW x \in T, NEW d \in Range(S2[x].PendingConnections),
                      S2[x].ConnectedPeer = d
               PROVE  S2[d].IsListening /\ x \in Range(S2[d].PendingConnections) \cup X
    BY DEF Mutual
  <2>1. x \in SocketIds /\ d \in Range(S[x].PendingConnections)
    BY <1>1
  <2>2. d \in T /\ d \in SocketIds /\ S[d].ConnectedPeer = x /\ d # c /\ x # a
    BY <1>1, <1>2, <2>1 DEF Peers, T
  <2>3. d # a
    BY <1>1, <2>1, <2>2, ZeroIsNoSocket
  <2>4. S[x].ConnectedPeer = d /\ x # c
    BY <2>1, <2>2, <2>3
  <2>5. S[d].IsListening /\ x \in Range(S[d].PendingConnections) \cup X
    BY <1>1, <2>1, <2>4 DEF Mutual
  <2> QED
    BY <2>2, <2>5
<1>5. Exclusive(S2, T)
  BY <1>1, ExclusiveFrame
<1> QED
  BY <1>1, <1>3, <1>4, <1>5 DEF GoodSockets, T
-----------------------------------------------------------------------------
(* The calls keep the sockets good                                         *)

FileTables == [Processes -> [FileDescriptors -> FileSet]]

SocketInv == GoodSockets(Sockets, SocketList, Lost) /\ FileTable \in FileTables

\* A socket that is found by process and descriptor is tracked and has them.
LEMMA SocketAtFound ==
    ASSUME SocketInv, NEW p, NEW fd, SocketAt(p, fd) # NoSocket
    PROVE  /\ SocketAt(p, fd) \in Tracked
           /\ Sockets[SocketAt(p, fd)].Owner = p
           /\ Sockets[SocketAt(p, fd)].FileDescriptor = fd
<1> DEFINE found == {i \in DOMAIN SocketList : /\ Sockets[SocketList[i]].Owner = p
                                               /\ Sockets[SocketList[i]].FileDescriptor = fd}
<1>1. found # {} /\ SocketAt(p, fd) = SocketList[Min(found)]
  BY DEF SocketAt
<1>2. DOMAIN SocketList \subseteq Nat
  BY DEF SocketInv, GoodSockets
<1>3. found \subseteq Nat
  BY <1>2
<1>4. Min(found) \in found
  <2> HIDE DEF found
  <2> QED
    BY <1>1, <1>3, MinIsSmallest
<1>5. Min(found) \in DOMAIN SocketList /\ Sockets[SocketList[Min(found)]].Owner = p
      /\ Sockets[SocketList[Min(found)]].FileDescriptor = fd
  BY <1>4
<1> HIDE DEF found
<1> QED
  BY <1>1, <1>5 DEF Tracked, Range

\* When none is found, no tracked socket has them.
LEMMA SocketAtNone ==
    ASSUME SocketInv, NEW p, NEW fd, SocketAt(p, fd) = NoSocket
    PROVE  \A s \in Tracked : ~(Sockets[s].Owner = p /\ Sockets[s].FileDescriptor = fd)
<1> DEFINE found == {i \in DOMAIN SocketList : /\ Sockets[SocketList[i]].Owner = p
                                               /\ Sockets[SocketList[i]].FileDescriptor = fd}
<1>1. ASSUME found # {} PROVE FALSE
  <2>1. SocketAt(p, fd) = SocketList[Min(found)]
    BY <1>1 DEF SocketAt
  <2>2. DOMAIN SocketList \subseteq Nat /\ \A i \in DOMAIN SocketList : SocketList[i] \in SocketIds
    BY DEF SocketInv, GoodSockets
  <2>3. found \subseteq Nat /\ found \subseteq DOMAIN SocketList
    BY <2>2
  <2>4. Min(found) \in found
    <3> HIDE DEF found
    <3> QED
      BY <1>1, <2>3, MinIsSmallest
  <2> HIDE DEF found
  <2> QED
    BY <2>1, <2>2, <2>3, <2>4, ZeroIsNoSocket
<1> QED
  BY <1>1 DEF Tracked, Range

\* A listener that is found by its address is tracked and listens.
LEMMA ListenerAtFound ==
    ASSUME SocketInv, NEW a, ListenerAt(a) # NoSocket
    PROVE  ListenerAt(a) \in Tracked /\ Sockets[ListenerAt(a)].IsListening
<1> DEFINE found == {i \in DOMAIN SocketList : /\ Sockets[SocketList[i]].Address = a
                                               /\ Sockets[SocketList[i]].IsListening}
<1>1. found # {} /\ ListenerAt(a) = SocketList[Min(found)]
  BY DEF ListenerAt
<1>2. DOMAIN SocketList \subseteq Nat
  BY DEF SocketInv, GoodSockets
<1>3. found \subseteq Nat
  BY <1>2
<1>4. Min(found) \in found
  <2> HIDE DEF found
  <2> QED
    BY <1>1, <1>3, MinIsSmallest
<1>5. Min(found) \in DOMAIN SocketList /\ Sockets[SocketList[Min(found)]].IsListening
  BY <1>4
<1> HIDE DEF found
<1> QED
  BY <1>1, <1>5 DEF Tracked, Range

\* The first free descriptor is free.
LEMMA FreeFilesMin ==
    ASSUME NEW T, T \subseteq FileDescriptors, T # {}
    PROVE  Min(T) \in T
<1>1. T \subseteq Nat
  BY SocketsAssumption DEF FileDescriptors
<1> QED
  BY <1>1, MinIsSmallest

\* The kinds of files are files.
LEMMA FilesAreFiles ==
    /\ NoFile \in FileSet /\ Terminal \in FileSet /\ Dangling \in FileSet
    /\ \A s \in SocketIds : SocketFile(s) \in FileSet
    /\ \A p \in Processes, fd \in FileDescriptors : EpollFile(p, fd) \in FileSet
  BY DEF FileSet

\* Opening or closing one descriptor keeps the type of the tables.
LEMMA FileTableChange ==
    ASSUME NEW F \in FileTables, NEW p \in Processes, NEW fd \in FileDescriptors, NEW f \in FileSet
    PROVE  [F EXCEPT ![p][fd] = f] \in FileTables
  BY DEF FileTables

\* socket preserves the invariant.
LEMMA SocketCallGood ==
    ASSUME SocketInv, NEW p \in Processes, HandleSocketSystemCall(p)
    PROVE  SocketInv'
<1>1. PICK k \in Kinds :
        Succeeds(CreateSocket(Current, k.Domain, k.Type, p, Min(FreeFiles(p))))
  BY DEF HandleSocketSystemCall
<1> DEFINE s == Min(SocketIds \ Range(SocketList))
           fd == Min(FreeFiles(p))
           new == NewSocket(k.Domain, k.Type, p, fd)
<1>2. /\ Sockets' = [Sockets EXCEPT ![s] = new]
      /\ SocketList' = Append(SocketList, s)
      /\ FileTable' = [FileTable EXCEPT ![p][fd] = SocketFile(s)]
      /\ Lost' = Lost
  BY <1>1 DEF Succeeds, Becomes, CreateSocket, Current
<1>3. fd \in FileDescriptors
  BY FreeFilesMin DEF HandleSocketSystemCall, FreeFiles
<1>4. s \in SocketIds \ Range(SocketList)
  <2>1. SocketList \in Seq(SocketIds) /\ Len(SocketList) < MAX_TRACKED_SOCKETS
    BY SocketsAssumption DEF HandleSocketSystemCall, HasRoom, SocketInv, GoodSockets
  <2> QED
    BY <2>1, FreeSocketExists
<1>5. new \in SocketSet /\ new.ConnectedPeer = NoSocket /\ new.PendingConnections = <<>>
      /\ new.Address = Unbound
  <2>1. k \in [Domain : {"unix", "inet", "netlink"}, Type : {"stream", "dgram"}]
    BY SocketsAssumption
  <2>2. k.Domain \in {"unix", "inet", "netlink", "none"} /\ k.Type \in {"stream", "dgram", "none"}
    BY <2>1
  <2>3. new \in SocketSet
    BY <1>3, <2>2, NewSocketType
  <2> QED
    BY <2>3 DEF NewSocket
<1> HIDE DEF s, fd, new
<1>6. GoodSockets(Sockets', SocketList', Lost')
  BY <1>2, <1>4, <1>5, CreateGood DEF SocketInv
<1>7. FileTable' \in FileTables
  BY <1>2, <1>3, <1>4, FileTableChange, FilesAreFiles DEF SocketInv
<1> QED
  BY <1>6, <1>7 DEF SocketInv

\* bind preserves the invariant: it takes no address that another socket has.
LEMMA BindGood ==
    ASSUME SocketInv, NEW p \in Processes, NEW fd \in FileDescriptors, NEW a \in Addresses,
           HandleBindSystemCall(p, fd, a)
    PROVE  SocketInv'
<1> DEFINE s == SocketAt(p, fd)
           T == Range(SocketList)
<1>1. /\ s # NoSocket /\ ~InUse(a, s)
      /\ Sockets' = [Sockets EXCEPT ![s].Address = a]
      /\ SocketList' = SocketList /\ FileTable' = FileTable /\ Lost' = Lost
  BY DEF HandleBindSystemCall, Succeeds, Becomes, Current
<1>2. s \in T
  BY <1>1, SocketAtFound DEF Tracked
<1>3. a \in AddressSet /\ a.Family \in {"unix", "inet", "netlink"}
      /\ (a.Family = "netlink" => a.Ip = 0)
  BY SocketsAssumption DEF AddressSet
<1> HIDE DEF s
<1>4. /\ Sockets \in [SocketIds -> SocketSet] /\ SocketList \in Seq(SocketIds) /\ T \subseteq SocketIds
      /\ Peers(Sockets, T, Lost) /\ Mutual(Sockets, T, Lost) /\ Exclusive(Sockets, T)
      /\ IsInjective(SocketList) /\ Lost \subseteq SocketIds
  BY TrackedAreIds DEF SocketInv, GoodSockets
<1> DEFINE r == [Sockets[s] EXCEPT !.Address = a]
<1>5. /\ r \in SocketSet /\ r.Address = a
      /\ r.ConnectedPeer = Sockets[s].ConnectedPeer
      /\ r.PendingConnections = Sockets[s].PendingConnections
      /\ r.PendingConnectionCapacity = Sockets[s].PendingConnectionCapacity
      /\ r.IsListening = Sockets[s].IsListening
  <2>1. Sockets[s] \in SocketSet
    BY <1>2, <1>4
  <2> QED
    BY <1>3, <2>1 DEF SocketSet
<1>6. Sockets' = [Sockets EXCEPT ![s] = r]
  BY <1>1
<1> HIDE DEF r, T
<1>7. /\ Sockets' \in [SocketIds -> SocketSet] /\ Sockets'[s].Address = a
      /\ \A o \in T \ {s} : Sockets'[o].Address = Sockets[o].Address
      /\ \A o \in SocketIds :
           /\ Sockets'[o].ConnectedPeer = Sockets[o].ConnectedPeer
           /\ Sockets'[o].PendingConnections = Sockets[o].PendingConnections
           /\ Sockets'[o].PendingConnectionCapacity = Sockets[o].PendingConnectionCapacity
           /\ Sockets'[o].IsListening = Sockets[o].IsListening
  BY <1>2, <1>4, <1>5, <1>6
<1>8. Peers(Sockets', T, Lost) /\ Mutual(Sockets', T, Lost)
  BY <1>4, <1>7, PeersFrame
<1>9. \A o \in T \ {s} :
        Sockets[o].Address.Family = a.Family =>
            CASE a.Family = "unix" -> Sockets[o].Address # a
              [] a.Family = "inet" ->
                   ~(Sockets[o].Address.Port = a.Port
                       /\ (Sockets[o].Address.Ip = 0 \/ a.Ip = 0 \/ Sockets[o].Address.Ip = a.Ip))
              [] a.Family = "netlink" -> ~(a.Port # 0 /\ Sockets[o].Address.Port = a.Port)
              [] OTHER -> TRUE
  BY <1>1, <1>3 DEF InUse, Tracked, T
<1>10. Exclusive(Sockets', T)
  BY <1>2, <1>3, <1>4, <1>7, <1>9, ExclusiveBind
<1> QED
  BY <1>1, <1>4, <1>7, <1>8, <1>10 DEF SocketInv, GoodSockets, T

\* A step that changes neither peers, queues, listeners nor addresses.
LEMMA FrameGood ==
    ASSUME NEW S, NEW L, NEW X, GoodSockets(S, L, X), NEW S2 \in [SocketIds -> SocketSet],
           \A o \in SocketIds :
             /\ S2[o].ConnectedPeer = S[o].ConnectedPeer
             /\ S2[o].PendingConnections = S[o].PendingConnections
             /\ S2[o].PendingConnectionCapacity = S[o].PendingConnectionCapacity
             /\ S2[o].IsListening = S[o].IsListening
             /\ S2[o].Address = S[o].Address
    PROVE  GoodSockets(S2, L, X)
<1> DEFINE T == Range(L)
<1>1. /\ S \in [SocketIds -> SocketSet] /\ L \in Seq(SocketIds) /\ T \subseteq SocketIds
      /\ Peers(S, T, X) /\ Mutual(S, T, X) /\ Exclusive(S, T)
      /\ IsInjective(L) /\ X \subseteq SocketIds
  BY TrackedAreIds DEF GoodSockets
<1> HIDE DEF T
<1>2. Peers(S2, T, X) /\ Mutual(S2, T, X)
  BY <1>1, PeersFrame
<1>3. Exclusive(S2, T)
  BY <1>1, ExclusiveFrame
<1> QED
  BY <1>1, <1>2, <1>3 DEF GoodSockets, T

\* The same for a step that writes one socket.
LEMMA OneFrameGood ==
    ASSUME NEW S, NEW L, NEW X, GoodSockets(S, L, X), NEW s \in SocketIds, NEW r \in SocketSet,
           r.ConnectedPeer = S[s].ConnectedPeer,
           r.PendingConnections = S[s].PendingConnections,
           r.PendingConnectionCapacity = S[s].PendingConnectionCapacity,
           r.IsListening = S[s].IsListening,
           r.Address = S[s].Address
    PROVE  GoodSockets([S EXCEPT ![s] = r], L, X)
<1> DEFINE S2 == [S EXCEPT ![s] = r]
<1>1. S \in [SocketIds -> SocketSet]
  BY DEF GoodSockets
<1>2. S2 \in [SocketIds -> SocketSet] /\ S2[s] = r /\ \A o \in SocketIds \ {s} : S2[o] = S[o]
  BY <1>1
<1> HIDE DEF S2
<1>3. GoodSockets(S2, L, X)
  BY <1>2, FrameGood
<1> QED
  BY <1>3 DEF S2

\* The smaller of two numbers.
LEMMA MinOfTwo ==
    ASSUME NEW m \in Nat, NEW n \in Nat
    PROVE  Min({m, n}) \in Nat /\ Min({m, n}) <= m /\ Min({m, n}) <= n
<1>1. {m, n} \subseteq Nat /\ {m, n} # {}
  OBVIOUS
<1>2. Min({m, n}) \in {m, n} /\ \A y \in {m, n} : Min({m, n}) <= y
  BY <1>1, MinIsSmallest
<1> QED
  BY <1>2

\* The elements of a queue are those it keeps when it is cut, and those cut
\* off.
LEMMA PrefixElements ==
    ASSUME NEW S, NEW q \in Seq(S), NEW k \in Nat, k <= Len(q)
    PROVE  /\ SubSeq(q, 1, k) \in Seq(S) /\ Len(SubSeq(q, 1, k)) = k
           /\ Range(SubSeq(q, 1, k)) \subseteq Range(q)
           /\ Range(q) = Range(SubSeq(q, 1, k)) \cup {q[i] : i \in k + 1 .. Len(q)}
           /\ IsInjective(q) => IsInjective(SubSeq(q, 1, k))
<1> DEFINE r == SubSeq(q, 1, k)
<1>1. /\ r \in Seq(S) /\ Len(r) = k /\ DOMAIN r = 1 .. k /\ DOMAIN q = 1 .. Len(q) /\ Len(q) \in Nat
      /\ \A i \in 1 .. k : r[i] = q[i]
  OBVIOUS
<1> HIDE DEF r
<1>2. 1 .. Len(q) = (1 .. k) \cup (k + 1 .. Len(q))
  BY <1>1
<1>3. Range(r) \subseteq Range(q) /\ Range(q) = Range(r) \cup {q[i] : i \in k + 1 .. Len(q)}
  BY <1>1, <1>2 DEF Range
<1>4. IsInjective(q) => IsInjective(r)
  BY <1>1 DEF IsInjective
<1> QED
  BY <1>1, <1>3, <1>4 DEF r

\* listen on a local socket preserves the invariant; it may cut the queue of
\* waiting clients.
LEMMA ListenUnixGood ==
    ASSUME SocketInv, NEW s \in Tracked, NEW backlog \in Backlogs, ListenUnix(s, backlog)
    PROVE  SocketInv'
<1> DEFINE q == Sockets[s].PendingConnections
           kept == Min({Len(q), backlog})
           cut == {q[i] : i \in kept + 1 .. Len(q)}
           r == [Sockets[s] EXCEPT !.PendingConnectionCapacity = backlog,
                                   !.PendingConnections = SubSeq(q, 1, kept),
                                   !.IsListening = TRUE]
<1>1. /\ Sockets' = [Sockets EXCEPT ![s] = r]
      /\ SocketList' = SocketList /\ FileTable' = FileTable /\ Lost' = Lost \cup cut
  BY DEF ListenUnix, Succeeds, Becomes, Current
<1>2. /\ GoodSockets(Sockets, SocketList, Lost) /\ Sockets \in [SocketIds -> SocketSet]
      /\ s \in Range(SocketList) /\ s \in SocketIds /\ Sockets[s] \in SocketSet
      /\ Lost \subseteq SocketIds /\ FileTable \in FileTables
  BY TrackedAreIds DEF SocketInv, GoodSockets, Tracked
<1>3. q \in Seq(SocketIds) /\ IsInjective(q)
  BY <1>2 DEF SocketSet, GoodSockets, Peers
<1>4. backlog \in Nat /\ Len(q) \in Nat
  BY <1>3, SocketsAssumption
<1>5. kept \in Nat /\ kept <= Len(q) /\ kept <= backlog
  BY <1>4, MinOfTwo
<1> HIDE DEF kept
<1>6. /\ SubSeq(q, 1, kept) \in Seq(SocketIds) /\ Len(SubSeq(q, 1, kept)) = kept
      /\ Range(SubSeq(q, 1, kept)) \subseteq Range(q)
      /\ Range(q) = Range(SubSeq(q, 1, kept)) \cup cut
      /\ IsInjective(SubSeq(q, 1, kept))
  BY <1>3, <1>5, PrefixElements
<1>7. Range(q) \subseteq SocketIds
  BY <1>3, TrackedAreIds
<1>8. /\ r \in SocketSet /\ r.IsListening /\ r.ConnectedPeer = Sockets[s].ConnectedPeer
      /\ r.Address = Sockets[s].Address
      /\ r.PendingConnections = SubSeq(q, 1, kept) /\ r.PendingConnectionCapacity = backlog
  BY <1>2, <1>4, <1>6 DEF SocketSet
<1> HIDE DEF r, cut
<1>9. /\ Sockets' \in [SocketIds -> SocketSet] /\ Sockets'[s] = r
      /\ \A o \in SocketIds \ {s} : Sockets'[o] = Sockets[o]
  BY <1>1, <1>2, <1>8
<1>10. GoodSockets(Sockets', SocketList, Lost')
  <2>1. /\ Range(Sockets'[s].PendingConnections) \subseteq Range(q)
        /\ IsInjective(Sockets'[s].PendingConnections) /\ Sockets'[s].IsListening
        /\ Len(Sockets'[s].PendingConnections) <= Sockets'[s].PendingConnectionCapacity
        /\ Range(q) \subseteq Range(Sockets'[s].PendingConnections) \cup Lost'
    BY <1>1, <1>5, <1>6, <1>8, <1>9
  <2>2. Lost \subseteq Lost' /\ Lost' \subseteq SocketIds
    BY <1>1, <1>2, <1>6, <1>7
  <2>3. \A o \in SocketIds :
          /\ Sockets'[o].ConnectedPeer = Sockets[o].ConnectedPeer
          /\ Sockets[o].IsListening => Sockets'[o].IsListening
          /\ Sockets'[o].Address = Sockets[o].Address
          /\ o # s => /\ Sockets'[o].PendingConnections = Sockets[o].PendingConnections
                      /\ Sockets'[o].PendingConnectionCapacity = Sockets[o].PendingConnectionCapacity
    BY <1>8, <1>9
  <2> QED
    BY <1>2, <1>9, <2>1, <2>2, <2>3, CutGood
<1> QED
  BY <1>1, <1>2, <1>10 DEF SocketInv

\* listen on an internet socket preserves the invariant: the port it may get is
\* free.
LEMMA ListenInetGood ==
    ASSUME SocketInv, NEW s \in Tracked, ListenInet(s)
    PROVE  SocketInv'
<1> DEFINE T == Range(SocketList)
           free == FreePorts(s)
           a == IF Sockets[s].Address = Unbound THEN Address("inet", 0, Min(free))
                ELSE Sockets[s].Address
           r == [Sockets[s] EXCEPT !.IsListening = TRUE, !.Address = a]
<1>1. /\ Sockets' = [Sockets EXCEPT ![s] = r]
      /\ SocketList' = SocketList /\ FileTable' = FileTable /\ Lost' = Lost
      /\ Sockets[s].Address = Unbound => free # {}
  BY DEF ListenInet, Succeeds, Becomes, Current
<1>2. /\ Sockets \in [SocketIds -> SocketSet] /\ SocketList \in Seq(SocketIds) /\ T \subseteq SocketIds
      /\ Peers(Sockets, T, Lost) /\ Mutual(Sockets, T, Lost) /\ Exclusive(Sockets, T)
      /\ IsInjective(SocketList) /\ Lost \subseteq SocketIds
      /\ s \in T /\ s \in SocketIds /\ Sockets[s] \in SocketSet /\ FileTable \in FileTables
  BY TrackedAreIds DEF SocketInv, GoodSockets, Tracked
<1>3. Sockets[s].Address = Unbound =>
        /\ Min(free) \in Nat
        /\ \A o \in T \ {s} : ~(Sockets[o].Address.Family = "inet" /\ Sockets[o].Address.Port = Min(free))
  <2>1. free \subseteq Nat
    BY SocketsAssumption DEF FreePorts
  <2>2. free # {} => Min(free) \in free
    BY <2>1, MinIsSmallest
  <2> QED
    BY <1>1, <2>1, <2>2 DEF FreePorts, Tracked
<1> HIDE DEF free
<1>4. a \in AddressSet
  <2>1. Sockets[s].Address \in AddressSet
    BY <1>2 DEF SocketSet
  <2> QED
    BY <1>3, <2>1 DEF AddressSet, Address
<1> HIDE DEF a
<1>5. /\ r \in SocketSet /\ r.Address = a /\ r.IsListening
      /\ r.ConnectedPeer = Sockets[s].ConnectedPeer
      /\ r.PendingConnections = Sockets[s].PendingConnections
      /\ r.PendingConnectionCapacity = Sockets[s].PendingConnectionCapacity
  BY <1>2, <1>4 DEF SocketSet
<1> HIDE DEF r, T
<1>6. /\ Sockets' \in [SocketIds -> SocketSet] /\ Sockets'[s] = r
      /\ \A o \in SocketIds \ {s} : Sockets'[o] = Sockets[o]
  BY <1>1, <1>2, <1>5
<1>7. Peers(Sockets', T, Lost) /\ Mutual(Sockets', T, Lost)
  <2>1. \A o \in SocketIds :
          /\ Sockets'[o].ConnectedPeer = Sockets[o].ConnectedPeer
          /\ Sockets'[o].PendingConnections = Sockets[o].PendingConnections
          /\ Sockets'[o].PendingConnectionCapacity = Sockets[o].PendingConnectionCapacity
          /\ Sockets[o].IsListening => Sockets'[o].IsListening
    BY <1>5, <1>6
  <2> QED
    BY <1>2, <1>6, <2>1, PeersFrame
<1>8. Exclusive(Sockets', T)
  <2>1. CASE Sockets[s].Address # Unbound
    <3>1. \A o \in SocketIds : Sockets'[o].Address = Sockets[o].Address
      BY <1>5, <1>6, <2>1 DEF a
    <3> QED
      BY <1>2, <3>1, ExclusiveFrame
  <2>2. CASE Sockets[s].Address = Unbound
    <3>1. a = Address("inet", 0, Min(free))
      BY <2>2 DEF a
    <3>2. a.Family = "inet" /\ a.Port = Min(free)
      BY <3>1 DEF Address
    <3>3. \A o \in T \ {s} : ~(Sockets[o].Address.Family = "inet" /\ Sockets[o].Address.Port = a.Port)
      BY <1>3, <2>2, <3>2
    <3>4. \A o \in T \ {s} : Sockets'[o].Address = Sockets[o].Address
      BY <1>2, <1>6
    <3>5. Sockets'[s].Address = a
      BY <1>5, <1>6
    <3>6. \A o \in T \ {s} :
            Sockets[o].Address.Family = a.Family =>
                CASE a.Family = "unix" -> Sockets[o].Address # a
                  [] a.Family = "inet" ->
                       ~(Sockets[o].Address.Port = a.Port
                           /\ (Sockets[o].Address.Ip = 0 \/ a.Ip = 0 \/ Sockets[o].Address.Ip = a.Ip))
                  [] a.Family = "netlink" -> ~(a.Port # 0 /\ Sockets[o].Address.Port = a.Port)
                  [] OTHER -> TRUE
      BY <3>2, <3>3
    <3>7. a.Family = "netlink" => a.Ip = 0
      BY <3>2
    <3> QED
      BY <1>2, <1>4, <3>4, <3>5, <3>6, <3>7, ExclusiveBind
  <2> QED
    BY <2>1, <2>2
<1> QED
  BY <1>1, <1>2, <1>6, <1>7, <1>8 DEF SocketInv, GoodSockets, T

\* connect to a local listener preserves the invariant: the client waits in
\* its queue.
LEMMA ConnectUnixGood ==
    ASSUME SocketInv, NEW s \in Tracked, NEW a, ConnectUnix(s, a)
    PROVE  SocketInv'
<1> DEFINE l == ListenerAt(a)
           q == Append(Sockets[l].PendingConnections, s)
<1>1. /\ Sockets[s].ConnectedPeer = NoSocket /\ l # NoSocket
      /\ Len(Sockets[l].PendingConnections) < Sockets[l].PendingConnectionCapacity
      /\ Sockets' = [Sockets EXCEPT ![l].PendingConnections = q, ![s].ConnectedPeer = l]
      /\ SocketList' = SocketList /\ FileTable' = FileTable /\ Lost' = Lost
  BY DEF ConnectUnix, MayConnect, Succeeds, Becomes, Current
<1>2. l \in Tracked /\ Sockets[l].IsListening
  BY <1>1, ListenerAtFound
<1>3. /\ GoodSockets(Sockets, SocketList, Lost) /\ Sockets \in [SocketIds -> SocketSet]
      /\ s \in Range(SocketList) /\ s \in SocketIds /\ Sockets[s] \in SocketSet
      /\ l \in Range(SocketList) /\ l \in SocketIds /\ Sockets[l] \in SocketSet
      /\ FileTable \in FileTables
  BY <1>2, TrackedAreIds DEF SocketInv, GoodSockets, Tracked
<1>4. q \in Seq(SocketIds)
  BY <1>3 DEF SocketSet
<1> HIDE DEF l
<1> DEFINE S1 == [Sockets EXCEPT ![l] = [Sockets[l] EXCEPT !.PendingConnections = q]]
<1>5. [Sockets[l] EXCEPT !.PendingConnections = q] \in SocketSet
  <2> HIDE DEF q
  <2> QED
    BY <1>3, <1>4 DEF SocketSet
<1>6. S1 \in [SocketIds -> SocketSet]
  BY <1>3, <1>5
<1>7. \A o \in SocketIds :
             /\ S1[o].ConnectedPeer = Sockets[o].ConnectedPeer
             /\ S1[o].PendingConnections = IF o = l THEN q ELSE Sockets[o].PendingConnections
             /\ S1[o].PendingConnectionCapacity = Sockets[o].PendingConnectionCapacity
             /\ S1[o].IsListening = Sockets[o].IsListening
             /\ S1[o].Address = Sockets[o].Address
  <2> HIDE DEF q
  <2>1. \A o \in SocketIds : Sockets[o] \in SocketSet
    BY <1>3
  <2> QED
    BY <1>3, <2>1 DEF SocketSet
<1>8. Sockets' = [S1 EXCEPT ![s] = [S1[s] EXCEPT !.ConnectedPeer = l]]
  BY <1>1, <1>3
<1> HIDE DEF S1
<1>9. [S1[s] EXCEPT !.ConnectedPeer = l] \in SocketSet
  BY <1>3, <1>6 DEF SocketSet
<1>10. Sockets' \in [SocketIds -> SocketSet]
  BY <1>6, <1>8, <1>9
<1>11. \A o \in SocketIds :
             /\ Sockets'[o].ConnectedPeer = IF o = s THEN l ELSE S1[o].ConnectedPeer
             /\ Sockets'[o].PendingConnections = S1[o].PendingConnections
             /\ Sockets'[o].PendingConnectionCapacity = S1[o].PendingConnectionCapacity
             /\ Sockets'[o].IsListening = S1[o].IsListening
             /\ Sockets'[o].Address = S1[o].Address
  <2>1. \A o \in SocketIds : S1[o] \in SocketSet
    BY <1>6
  <2> QED
    BY <1>3, <1>6, <1>8, <2>1 DEF SocketSet
<1>12. \A o \in SocketIds :
             /\ Sockets'[o].ConnectedPeer = IF o = s THEN l ELSE Sockets[o].ConnectedPeer
             /\ Sockets'[o].PendingConnections =
                  IF o = l THEN Append(Sockets[o].PendingConnections, s) ELSE Sockets[o].PendingConnections
             /\ Sockets'[o].PendingConnectionCapacity = Sockets[o].PendingConnectionCapacity
             /\ Sockets'[o].IsListening = Sockets[o].IsListening
             /\ Sockets'[o].Address = Sockets[o].Address
  BY <1>7, <1>11
<1>13. GoodSockets(Sockets', SocketList, Lost)
  <2>1. /\ Sockets[s].ConnectedPeer = NoSocket
        /\ Len(Sockets[l].PendingConnections) < Sockets[l].PendingConnectionCapacity
    BY <1>1
  <2> HIDE DEF q
  <2> QED
    BY <1>2, <1>3, <1>10, <1>12, <2>1, ConnectGood
<1> QED
  BY <1>1, <1>3, <1>13 DEF SocketInv

\* accept preserves the invariant: the client and the new socket become peers.
LEMMA AcceptGood ==
    ASSUME SocketInv, NEW s \in Tracked, NEW p \in Processes, NEW fd \in FileDescriptors,
           AcceptSocket(s, p, fd)
    PROVE  SocketInv'
<1> DEFINE q == Sockets[s].PendingConnections
           c == Head(q)
           r == [Sockets[s] EXCEPT !.PendingConnections = Tail(q)]
           S1 == [Sockets EXCEPT ![s] = r]
<1>1. q # <<>> /\ Sockets[s].IsListening
  BY DEF AcceptSocket
<1>2. /\ GoodSockets(Sockets, SocketList, Lost) /\ Sockets \in [SocketIds -> SocketSet]
      /\ s \in Range(SocketList) /\ s \in SocketIds /\ Sockets[s] \in SocketSet
      /\ Lost \subseteq SocketIds /\ FileTable \in FileTables /\ SocketList \in Seq(SocketIds)
  BY TrackedAreIds DEF SocketInv, GoodSockets, Tracked
<1>3. q \in Seq(SocketIds) /\ IsInjective(q) /\ Len(q) <= Sockets[s].PendingConnectionCapacity
      /\ Sockets[s].PendingConnectionCapacity \in Nat
  BY <1>2 DEF SocketSet, GoodSockets, Peers
<1>4. /\ Tail(q) \in Seq(SocketIds) /\ Len(Tail(q)) = Len(q) - 1
      /\ Range(Tail(q)) = Range(q) \ {c} /\ c \in Range(q) /\ IsInjective(Tail(q))
  BY <1>1, <1>3, PopElements
<1>5. c \in Range(SocketList) /\ c \in SocketIds /\ Sockets[c].ConnectedPeer = s
  <2>1. c \in Range(SocketList) /\ Sockets[c].ConnectedPeer = s
    BY <1>2, <1>4 DEF GoodSockets, Peers
  <2> QED
    BY <1>2, <2>1, TrackedAreIds
<1>6. /\ r \in SocketSet /\ r.IsListening = Sockets[s].IsListening
      /\ r.ConnectedPeer = Sockets[s].ConnectedPeer
      /\ r.Address = Sockets[s].Address
      /\ r.PendingConnections = Tail(q)
      /\ r.PendingConnectionCapacity = Sockets[s].PendingConnectionCapacity
      /\ r.Type = Sockets[s].Type
  BY <1>2, <1>4 DEF SocketSet
<1>7. /\ S1 \in [SocketIds -> SocketSet] /\ S1[s] = r
      /\ \A o \in SocketIds \ {s} : S1[o] = Sockets[o]
  <2> HIDE DEF r
  <2> QED
    BY <1>2, <1>6
<1> HIDE DEF S1, r, c
<1>8. GoodSockets(S1, SocketList, Lost \cup {c})
  <2>1. /\ Range(S1[s].PendingConnections) \subseteq Range(q)
        /\ IsInjective(S1[s].PendingConnections) /\ S1[s].IsListening
        /\ Range(q) \subseteq Range(S1[s].PendingConnections) \cup (Lost \cup {c})
    BY <1>1, <1>4, <1>6, <1>7
  <2>2. Len(S1[s].PendingConnections) <= S1[s].PendingConnectionCapacity
    <3>1. Len(q) \in Nat /\ Len(Tail(q)) \in Nat /\ Len(Tail(q)) <= Len(q)
      BY <1>3, <1>4
    <3>2. S1[s].PendingConnections = Tail(q)
          /\ S1[s].PendingConnectionCapacity = Sockets[s].PendingConnectionCapacity
      BY <1>6, <1>7
    <3> HIDE DEF q
    <3> QED
      BY <1>3, <3>1, <3>2
  <2>3. \A o \in SocketIds :
          /\ S1[o].ConnectedPeer = Sockets[o].ConnectedPeer
          /\ Sockets[o].IsListening => S1[o].IsListening
          /\ S1[o].Address = Sockets[o].Address
          /\ o # s => /\ S1[o].PendingConnections = Sockets[o].PendingConnections
                      /\ S1[o].PendingConnectionCapacity = Sockets[o].PendingConnectionCapacity
    BY <1>6, <1>7
  <2>4. Lost \subseteq Lost \cup {c} /\ Lost \cup {c} \subseteq SocketIds
    BY <1>2, <1>5
  <2> QED
    BY <1>2, <1>7, <2>1, <2>2, <2>3, <2>4, CutGood
<1>9. CASE ~HasRoom(1)
  <2>1. Sockets' = S1 /\ SocketList' = SocketList /\ FileTable' = FileTable /\ Lost' = Lost \cup {c}
    BY <1>9 DEF AcceptSocket, Succeeds, Becomes, Current, S1, r, c
  <2> QED
    BY <1>2, <1>8, <2>1 DEF SocketInv
<1>10. CASE HasRoom(1)
  <2> DEFINE a == Min(SocketIds \ Range(SocketList))
             new == NewSocket("unix", Sockets[s].Type, p, fd)
             L2 == Append(SocketList, a)
             S2 == [S1 EXCEPT ![a] = new]
             S3 == [S2 EXCEPT ![a] = [S2[a] EXCEPT !.ConnectedPeer = c]]
  <2>1. a \in SocketIds \ Range(SocketList)
    <3>1. Len(SocketList) < MAX_TRACKED_SOCKETS
      BY <1>2, <1>10, SocketsAssumption DEF HasRoom
    <3> QED
      BY <1>2, <3>1, FreeSocketExists
  <2>2. L2 \in Seq(SocketIds) /\ Last(L2) = a /\ Range(L2) = Range(SocketList) \cup {a}
    <3> HIDE DEF a
    <3> QED
      BY <1>2, <2>1, AppendRange
  <2>3. /\ Sockets' = [S3 EXCEPT ![c] = [S3[c] EXCEPT !.ConnectedPeer = a]]
        /\ SocketList' = L2 /\ FileTable' = [FileTable EXCEPT ![p][fd] = SocketFile(a)] /\ Lost' = Lost
    <3> DEFINE popped == [Current EXCEPT !.sockets[s].PendingConnections = Tail(@)]
               h == CreateSocket(popped, "unix", Sockets[s].Type, p, fd)
               F2 == [FileTable EXCEPT ![p][fd] = SocketFile(a)]
    <3>1. Succeeds([h EXCEPT !.sockets[Last(h.list)].ConnectedPeer = c,
                             !.sockets[c].ConnectedPeer = Last(h.list)])
      BY <1>10 DEF AcceptSocket, c
    <3>2. h.list = L2
      BY DEF Current, CreateSocket
    <3>3. Last(h.list) = a
      BY <2>2, <3>2
    <3>4. Succeeds([h EXCEPT !.sockets[a].ConnectedPeer = c, !.sockets[c].ConnectedPeer = a])
      BY <3>1, <3>3
    <3> DEFINE e == [h EXCEPT !.sockets[a].ConnectedPeer = c, !.sockets[c].ConnectedPeer = a]
    <3>5. e.list = L2 /\ e.files = F2 /\ e.lost = Lost
      BY DEF Current, CreateSocket
    <3>6. e.sockets = [S3 EXCEPT ![c] = [S3[c] EXCEPT !.ConnectedPeer = a]]
      BY DEF Current, CreateSocket, S1, r
    <3> HIDE DEF e, S3, L2
    <3> QED
      BY <3>4, <3>5, <3>6 DEF Succeeds, Becomes, e
  <2>4. new \in SocketSet /\ new.ConnectedPeer = NoSocket /\ new.PendingConnections = <<>>
        /\ new.Address = Unbound
    <3>1. Sockets[s].Type \in {"stream", "dgram", "none"}
      BY <1>2 DEF SocketSet
    <3>2. new \in SocketSet
      BY <3>1, NewSocketType
    <3> QED
      BY <3>2 DEF NewSocket
  <2> HIDE DEF a, new
  <2>5. GoodSockets(S2, L2, Lost \cup {c})
    BY <1>8, <2>1, <2>4, CreateGood
  <2>6. S2 \in [SocketIds -> SocketSet] /\ S2[a] = new /\ \A o \in SocketIds \ {a} : S2[o] = S1[o]
    BY <1>7, <2>1, <2>4
  <2> HIDE DEF S2, L2
  <2>7. a # c /\ a # s /\ a # NoSocket /\ a \in SocketIds
    BY <1>2, <1>5, <2>1, ZeroIsNoSocket
  <2>8. [S2[a] EXCEPT !.ConnectedPeer = c] \in SocketSet
    <3>1. S2[a] \in SocketSet
      BY <2>6, <2>7
    <3> QED
      BY <1>5, <3>1 DEF SocketSet
  <2>9. S3 \in [SocketIds -> SocketSet] /\ S3[c] = S2[c] /\ S3[a] = [S2[a] EXCEPT !.ConnectedPeer = c]
        /\ \A o \in SocketIds \ {a} : S3[o] = S2[o]
    BY <1>5, <2>6, <2>7, <2>8
  <2> HIDE DEF S3
  <2>10. [S3[c] EXCEPT !.ConnectedPeer = a] \in SocketSet
    <3>1. S3[c] \in SocketSet
      BY <1>5, <2>9
    <3> QED
      BY <2>7, <3>1 DEF SocketSet
  <2>11. /\ Sockets' \in [SocketIds -> SocketSet] /\ Sockets'[a] = [S2[a] EXCEPT !.ConnectedPeer = c]
         /\ Sockets'[c] = [S2[c] EXCEPT !.ConnectedPeer = a]
         /\ \A o \in SocketIds \ {a, c} : Sockets'[o] = S2[o]
    BY <1>5, <2>3, <2>7, <2>9, <2>10
  <2>12. ASSUME NEW o \in SocketIds
         PROVE  /\ Sockets'[o].ConnectedPeer = IF o = a THEN c ELSE IF o = c THEN a ELSE S2[o].ConnectedPeer
                /\ Sockets'[o].PendingConnections = S2[o].PendingConnections
                /\ Sockets'[o].PendingConnectionCapacity = S2[o].PendingConnectionCapacity
                /\ Sockets'[o].IsListening = S2[o].IsListening
                /\ Sockets'[o].Address = S2[o].Address
    <3>1. S2[o] \in SocketSet
      BY <2>6
    <3>3. CASE o = a
      <4>1. Sockets'[o] = [S2[o] EXCEPT !.ConnectedPeer = c]
        BY <2>11, <3>3
      <4> QED
        BY <3>1, <3>3, <4>1 DEF SocketSet
    <3>4. CASE o = c
      <4>1. Sockets'[o] = [S2[o] EXCEPT !.ConnectedPeer = a]
        BY <2>11, <3>4
      <4> QED
        BY <2>7, <3>1, <3>4, <4>1 DEF SocketSet
    <3>5. CASE o \notin {a, c}
      BY <2>11, <3>5
    <3> QED
      BY <3>3, <3>4, <3>5
  <2>13. \A o \in SocketIds \ {a} : /\ S2[o].ConnectedPeer = Sockets[o].ConnectedPeer
                                    /\ S2[o].IsListening = Sockets[o].IsListening
                                    /\ o # s => S2[o].PendingConnections = Sockets[o].PendingConnections
    BY <1>6, <1>7, <2>6
  <2>14. S2[s].PendingConnections = Tail(q)
    BY <1>2, <1>6, <1>7, <2>6, <2>7
  <2>15. \A o \in Range(SocketList) : o \in SocketIds \ {a} /\ Sockets[o].ConnectedPeer # a
    <3>1. \A o \in Range(SocketList) : o \in SocketIds \ {a}
      BY <1>2, <2>1, TrackedAreIds
    <3>2. \A o \in Range(SocketList) : Sockets[o].ConnectedPeer \in Range(SocketList) \cup {NoSocket}
      BY <1>2 DEF GoodSockets, Peers
    <3> QED
      BY <2>1, <2>7, <3>1, <3>2
  <2>16. /\ S2[a].ConnectedPeer = NoSocket /\ S2[a].PendingConnections = <<>>
         /\ Range(S2[a].PendingConnections) = {}
    BY <2>4, <2>6 DEF Range
  <2>17. \A o \in Range(L2) : S2[o].ConnectedPeer # a
    BY <2>2, <2>7, <2>13, <2>15, <2>16
  <2>18. ASSUME NEW o \in Range(L2) PROVE c \notin Range(S2[o].PendingConnections)
    <3>1. CASE o = a
      BY <2>16, <3>1
    <3>2. CASE o = s
      BY <1>4, <2>14, <3>2
    <3>3. CASE o # a /\ o # s
      <4>1. o \in Range(SocketList) /\ S2[o].PendingConnections = Sockets[o].PendingConnections
        BY <2>2, <2>13, <2>15, <3>3
      <4>2. \A d \in Range(Sockets[o].PendingConnections) : Sockets[d].ConnectedPeer = o
        BY <1>2, <4>1 DEF GoodSockets, Peers
      <4> QED
        BY <1>5, <3>3, <4>1, <4>2
    <3> QED
      BY <3>1, <3>2, <3>3
  <2>19. ASSUME NEW o \in Range(L2) \ {c}, S2[o].ConnectedPeer = c
         PROVE  S2[c].IsListening /\ o \in Range(S2[c].PendingConnections) \cup Lost
    <3>1. c # NoSocket
      BY <1>5, ZeroIsNoSocket
    <3>2. o \in Range(SocketList) /\ o \in SocketIds \ {a} /\ Sockets[o].ConnectedPeer = c
      BY <2>2, <2>13, <2>15, <2>16, <2>19, <3>1
    <3>3. S2[c].IsListening = Sockets[c].IsListening
      BY <1>5, <2>7, <2>13
    <3>4. CASE o = s
      <4>1. Sockets[c].IsListening /\ s \in Range(Sockets[c].PendingConnections) \cup Lost
        BY <1>2, <1>4, <3>2, <3>4 DEF GoodSockets, Mutual
      <4>2. s \in Range(S2[c].PendingConnections) \cup Lost
        BY <1>5, <2>7, <2>13, <3>4, <4>1
      <4> QED
        BY <3>3, <3>4, <4>1, <4>2
    <3>5. CASE o # s
      <4>1. Sockets[c].IsListening /\ o \in Range(Sockets[c].PendingConnections) \cup Lost
        BY <1>2, <1>5, <3>1, <3>2, <3>5 DEF GoodSockets, Peers
      <4>2. o \in Range(S2[c].PendingConnections) \cup Lost
        BY <1>4, <1>5, <2>7, <2>13, <2>14, <3>2, <3>5, <4>1
      <4> QED
        BY <3>3, <4>1, <4>2
    <3> QED
      BY <3>4, <3>5
  <2>20. GoodSockets(Sockets', L2, Lost)
    <3>1. c \in Range(L2) /\ a \in Range(L2)
      BY <1>5, <2>2
    <3> QED
      BY <1>2, <2>5, <2>7, <2>11, <2>12, <2>16, <2>17, <2>18, <2>19, <3>1, PairGood
  <2>21. FileTable' \in FileTables
    BY <1>2, <2>3, <2>7, FileTableChange, FilesAreFiles
  <2> QED
    BY <2>3, <2>20, <2>21 DEF SocketInv
<1> QED
  BY <1>9, <1>10

\* The call listen preserves the invariant.
LEMMA ListenGood ==
    ASSUME SocketInv, NEW p \in Processes, NEW fd \in FileDescriptors, NEW backlog \in Backlogs,
           HandleListenSystemCall(p, fd, backlog)
    PROVE  SocketInv'
<1>1. SocketAt(p, fd) \in Tracked
  BY SocketAtFound DEF HandleListenSystemCall
<1> QED
  BY <1>1, ListenUnixGood, ListenInetGood DEF HandleListenSystemCall

\* The call connect preserves the invariant.
LEMMA ConnectCallGood ==
    ASSUME SocketInv, NEW p \in Processes, NEW fd \in FileDescriptors, NEW a \in Addresses,
           HandleConnectSystemCall(p, fd, a)
    PROVE  SocketInv'
<1> DEFINE s == SocketAt(p, fd)
<1>1. s \in Tracked
  BY SocketAtFound DEF HandleConnectSystemCall
<1>2. CASE ConnectUnix(s, a)
  BY <1>1, <1>2, ConnectUnixGood
<1>3. CASE Succeeds([Current EXCEPT !.sockets[s].RemotePid = a.Port])
  <2> DEFINE r == [Sockets[s] EXCEPT !.RemotePid = a.Port]
  <2>1. /\ Sockets' = [Sockets EXCEPT ![s] = r]
        /\ SocketList' = SocketList /\ FileTable' = FileTable /\ Lost' = Lost
    BY <1>3 DEF Succeeds, Becomes, Current
  <2>2. /\ GoodSockets(Sockets, SocketList, Lost) /\ FileTable \in FileTables
        /\ s \in SocketIds /\ Sockets[s] \in SocketSet
    BY <1>1, TrackedAreIds DEF SocketInv, GoodSockets, Tracked
  <2>3. a.Port \in Nat
    BY SocketsAssumption
  <2>4. /\ r \in SocketSet
        /\ r.ConnectedPeer = Sockets[s].ConnectedPeer
        /\ r.PendingConnections = Sockets[s].PendingConnections
        /\ r.PendingConnectionCapacity = Sockets[s].PendingConnectionCapacity
        /\ r.IsListening = Sockets[s].IsListening
        /\ r.Address = Sockets[s].Address
    BY <2>2, <2>3 DEF SocketSet
  <2> HIDE DEF r, s
  <2>5. GoodSockets(Sockets', SocketList', Lost')
    BY <2>1, <2>2, <2>4, OneFrameGood
  <2> QED
    BY <2>1, <2>2, <2>5 DEF SocketInv
<1> QED
  BY <1>2, <1>3 DEF HandleConnectSystemCall

\* The call accept preserves the invariant.
LEMMA AcceptCallGood ==
    ASSUME SocketInv, NEW p \in Processes, NEW fd \in FileDescriptors,
           HandleAcceptSystemCall(p, fd)
    PROVE  SocketInv'
<1>1. SocketAt(p, fd) \in Tracked /\ AcceptSocket(SocketAt(p, fd), p, Min(FreeFiles(p)))
  BY SocketAtFound DEF HandleAcceptSystemCall
<1>2. Min(FreeFiles(p)) \in FileDescriptors
  BY FreeFilesMin DEF HandleAcceptSystemCall, FreeFiles
<1> QED
  BY <1>1, <1>2, AcceptGood

\* shutdown preserves the invariant.
LEMMA ShutdownGood ==
    ASSUME SocketInv, NEW p \in Processes, NEW fd \in FileDescriptors, NEW how,
           HandleShutdownSystemCall(p, fd, how)
    PROVE  SocketInv'
<1> DEFINE s == SocketAt(p, fd)
           r == [Sockets[s] EXCEPT !.IsShutdownRead = @ \/ "in" \in how,
                                   !.IsShutdownWrite = @ \/ "out" \in how]
<1>1. s \in Tracked
  BY SocketAtFound DEF HandleShutdownSystemCall
<1>2. /\ Sockets' = [Sockets EXCEPT ![s] = r]
      /\ SocketList' = SocketList /\ FileTable' = FileTable /\ Lost' = Lost
  BY DEF HandleShutdownSystemCall, ShutdownSocket, Succeeds, Becomes, Current
<1>3. /\ GoodSockets(Sockets, SocketList, Lost) /\ FileTable \in FileTables
      /\ s \in SocketIds /\ Sockets[s] \in SocketSet
  BY <1>1, TrackedAreIds DEF SocketInv, GoodSockets, Tracked
<1>4. (Sockets[s].IsShutdownRead \/ "in" \in how) \in BOOLEAN
      /\ (Sockets[s].IsShutdownWrite \/ "out" \in how) \in BOOLEAN
  OBVIOUS
<1>5. /\ r \in SocketSet
      /\ r.ConnectedPeer = Sockets[s].ConnectedPeer
      /\ r.PendingConnections = Sockets[s].PendingConnections
      /\ r.PendingConnectionCapacity = Sockets[s].PendingConnectionCapacity
      /\ r.IsListening = Sockets[s].IsListening
      /\ r.Address = Sockets[s].Address
  BY <1>3, <1>4 DEF SocketSet
<1> HIDE DEF r, s
<1>6. GoodSockets(Sockets', SocketList', Lost')
  BY <1>2, <1>3, <1>5, OneFrameGood
<1> QED
  BY <1>2, <1>3, <1>6 DEF SocketInv

\* A descriptor of a socket names one.
LEMMA SocketFileIds ==
    ASSUME NEW f \in FileSet, f.kind = "socket"
    PROVE  f.socket \in SocketIds /\ f = SocketFile(f.socket)
  BY DEF FileSet, NoFile, Terminal, Dangling, SocketFile, EpollFile, File

\* read preserves the invariant.
LEMMA ReadGood ==
    ASSUME SocketInv, NEW p \in Processes, NEW fd \in FileDescriptors,
           HandleReadSystemCall(p, fd)
    PROVE  SocketInv'
<1> DEFINE s == FileTable[p][fd].socket
<1>1. FileTable[p][fd] \in FileSet
  BY DEF SocketInv, FileTables
<1>2. s \in SocketIds
  BY <1>1, SocketFileIds DEF HandleReadSystemCall
<1>3. /\ GoodSockets(Sockets, SocketList, Lost) /\ FileTable \in FileTables
      /\ Sockets[s] \in SocketSet
  BY <1>2 DEF SocketInv, GoodSockets
<1> HIDE DEF s
<1>4. PICK n \in 1 .. Sockets[s].ReceiveBufferedBytes :
        Succeeds(ReadFromUnixReceiveBuffer(Current, s, n))
  BY DEF HandleReadSystemCall, s
<1> DEFINE r == [Sockets[s] EXCEPT !.ReceiveBufferedBytes = @ - n]
<1>5. /\ Sockets' = [Sockets EXCEPT ![s] = r]
      /\ SocketList' = SocketList /\ FileTable' = FileTable /\ Lost' = Lost
  BY <1>4 DEF ReadFromUnixReceiveBuffer, Succeeds, Becomes, Current
<1>6. Sockets[s].ReceiveBufferedBytes - n \in Nat
  <2>1. Sockets[s].ReceiveBufferedBytes \in Nat
    BY <1>3 DEF SocketSet
  <2> QED
    BY <2>1
<1>7. /\ r \in SocketSet
      /\ r.ConnectedPeer = Sockets[s].ConnectedPeer
      /\ r.PendingConnections = Sockets[s].PendingConnections
      /\ r.PendingConnectionCapacity = Sockets[s].PendingConnectionCapacity
      /\ r.IsListening = Sockets[s].IsListening
      /\ r.Address = Sockets[s].Address
  BY <1>3, <1>6 DEF SocketSet
<1> HIDE DEF r
<1>8. GoodSockets(Sockets', SocketList', Lost')
  BY <1>2, <1>3, <1>5, <1>7, OneFrameGood
<1> QED
  BY <1>3, <1>5, <1>8 DEF SocketInv

\* write preserves the invariant.
LEMMA WriteGood ==
    ASSUME SocketInv, NEW p \in Processes, NEW fd \in FileDescriptors,
           HandleWriteSystemCall(p, fd)
    PROVE  SocketInv'
<1> DEFINE s == FileTable[p][fd].socket
           peer == Sockets[s].ConnectedPeer
<1>1. FileTable[p][fd] \in FileSet
  BY DEF SocketInv, FileTables
<1>2. s \in SocketIds
  BY <1>1, SocketFileIds DEF HandleWriteSystemCall
<1>3. /\ GoodSockets(Sockets, SocketList, Lost) /\ FileTable \in FileTables
      /\ Sockets[s] \in SocketSet /\ Sockets \in [SocketIds -> SocketSet]
  BY <1>2 DEF SocketInv, GoodSockets
<1>4. WriteResult(s) = "data"
  BY DEF HandleWriteSystemCall
<1>5. peer \in SocketIds /\ Sockets[peer] \in SocketSet
  <2>1. peer \in SocketIds \cup {NoSocket}
    BY <1>3 DEF SocketSet
  <2>2. peer # NoSocket
    BY <1>4 DEF WriteResult
  <2> QED
    BY <1>3, <2>1, <2>2
<1>6. PICK n \in 1 .. ReceiveBufferCapacity - Sockets[peer].ReceiveBufferedBytes :
        Succeeds(WriteToUnixPeerBuffer(Current, peer, n))
  BY DEF HandleWriteSystemCall
<1> HIDE DEF s, peer
<1> DEFINE r == [Sockets[peer] EXCEPT !.ReceiveBufferedBytes = @ + n]
<1>7. /\ Sockets' = [Sockets EXCEPT ![peer] = r]
      /\ SocketList' = SocketList /\ FileTable' = FileTable /\ Lost' = Lost
  BY <1>6 DEF WriteToUnixPeerBuffer, Succeeds, Becomes, Current
<1>8. Sockets[peer].ReceiveBufferedBytes + n \in Nat
  <2>1. Sockets[peer].ReceiveBufferedBytes \in Nat
    BY <1>5 DEF SocketSet
  <2>2. ReceiveBufferCapacity \in Nat
    BY SocketsAssumption
  <2> QED
    BY <2>1, <2>2
<1>9. /\ r \in SocketSet
      /\ r.ConnectedPeer = Sockets[peer].ConnectedPeer
      /\ r.PendingConnections = Sockets[peer].PendingConnections
      /\ r.PendingConnectionCapacity = Sockets[peer].PendingConnectionCapacity
      /\ r.IsListening = Sockets[peer].IsListening
      /\ r.Address = Sockets[peer].Address
  BY <1>5, <1>8 DEF SocketSet
<1> HIDE DEF r
<1>10. GoodSockets(Sockets', SocketList', Lost')
  BY <1>3, <1>5, <1>7, <1>9, OneFrameGood
<1> QED
  BY <1>3, <1>7, <1>10 DEF SocketInv

(* close: the event queue and the watches go first, then the socket.       *)

\* The files once the queue at p's descriptor fd is gone.
UnqueuedFiles(p, fd) ==
    IF FindEventQueue(EventQueueStore, p, fd) = 0 THEN FileTable
    ELSE [q \in Processes |-> [g \in FileDescriptors |->
            IF FileTable[q][g] = EpollFile(p, fd) THEN Dangling ELSE FileTable[q][g]]]

UnqueuedQueues(p, fd) ==
    IF FindEventQueue(EventQueueStore, p, fd) = 0 THEN EventQueueStore
    ELSE RemoveAt(EventQueueStore, FindEventQueue(EventQueueStore, p, fd))

\* The other descriptors p has for the socket at fd.
OtherDescriptors(p, fd) ==
    {g \in FileDescriptors \ {fd} : UnqueuedFiles(p, fd)[p][g] = SocketFile(SocketAt(p, fd))}

HandlerFields == {"sockets", "list", "files", "queues", "lost"}

\* Removing an event queue and watches concerns no socket.
LEMMA UnqueuedEffect ==
    ASSUME NEW p, NEW fd
    PROVE  LET u == [RemoveEventQueue(Current, p, fd) EXCEPT
                       !.queues = RemoveWatchesForFile(@, p, fd)]
           IN /\ DOMAIN u = HandlerFields
              /\ u.sockets = Sockets /\ u.list = SocketList /\ u.lost = Lost
              /\ u.files = UnqueuedFiles(p, fd)
              /\ u.queues = RemoveWatchesForFile(UnqueuedQueues(p, fd), p, fd)
<1> DEFINE i == FindEventQueue(EventQueueStore, p, fd)
           h == RemoveEventQueue(Current, p, fd)
           u == [h EXCEPT !.queues = RemoveWatchesForFile(@, p, fd)]
<1>1. /\ DOMAIN Current = HandlerFields /\ Current.queues = EventQueueStore
      /\ Current.sockets = Sockets /\ Current.list = SocketList /\ Current.lost = Lost
      /\ Current.files = FileTable
  BY DEF Current, HandlerFields
<1>2. /\ DOMAIN h = HandlerFields /\ h.sockets = Sockets /\ h.list = SocketList /\ h.lost = Lost
      /\ h.files = UnqueuedFiles(p, fd) /\ h.queues = UnqueuedQueues(p, fd)
  <2>1. CASE i = 0
    BY <1>1, <2>1 DEF RemoveEventQueue, UnqueuedFiles, UnqueuedQueues
  <2>2. CASE i # 0
    BY <1>1, <2>2 DEF RemoveEventQueue, UnqueuedFiles, UnqueuedQueues, HandlerFields, Current
  <2> QED
    BY <2>1, <2>2
<1>3. h = [x \in DOMAIN h |-> h[x]]
  <2>1. CASE i = 0
    BY <1>1, <2>1 DEF RemoveEventQueue, Current
  <2>2. CASE i # 0
    BY <1>1, <2>2 DEF RemoveEventQueue, Current
  <2> QED
    BY <2>1, <2>2
<1> HIDE DEF h
<1>4. /\ DOMAIN u = HandlerFields /\ u.sockets = Sockets /\ u.list = SocketList /\ u.lost = Lost
      /\ u.files = UnqueuedFiles(p, fd)
      /\ u.queues = RemoveWatchesForFile(UnqueuedQueues(p, fd), p, fd)
  BY <1>2, <1>3 DEF HandlerFields
<1> QED
  BY <1>4 DEF h

\* The files once the socket s behind p's descriptor fd is deleted.
DestroyedFiles(p, fd, s) ==
    [q \in Processes |-> [g \in FileDescriptors |->
       IF UnqueuedFiles(p, fd)[q][g] \in {SocketFile(s), UnqueuedFiles(p, fd)[p][fd]}
       THEN Dangling ELSE UnqueuedFiles(p, fd)[q][g]]]

\* The socket at fd is deleted.
Destroys(p, fd) == SocketAt(p, fd) # NoSocket /\ OtherDescriptors(p, fd) = {}

ClosedSockets(p, fd) ==
    IF Destroys(p, fd)
    THEN [o \in SocketIds |-> IF o = SocketAt(p, fd) THEN FreeSocket
                              ELSE Forget(Sockets[o], SocketAt(p, fd))]
    ELSE IF SocketAt(p, fd) = NoSocket THEN Sockets
    ELSE [Sockets EXCEPT ![SocketAt(p, fd)].FileDescriptor = Min(OtherDescriptors(p, fd))]

ClosedList(p, fd) ==
    IF Destroys(p, fd) THEN RemoveFirst(SocketList, SocketAt(p, fd)) ELSE SocketList

ClosedLost(p, fd) ==
    IF Destroys(p, fd) THEN {c \in Lost \ {SocketAt(p, fd)} : Sockets[c].ConnectedPeer # SocketAt(p, fd)}
    ELSE Lost

ClosedFiles(p, fd) ==
    [(IF Destroys(p, fd) THEN DestroyedFiles(p, fd, SocketAt(p, fd)) ELSE UnqueuedFiles(p, fd))
       EXCEPT ![p][fd] = NoFile]

ClosedQueues(p, fd) == RemoveWatchesForFile(UnqueuedQueues(p, fd), p, fd)

\* What closing a descriptor changes.
LEMMA CloseEffect ==
    ASSUME NEW p, NEW fd, NEW h, h = CloseDescriptor(Current, p, fd)
    PROVE  /\ DOMAIN h = HandlerFields
           /\ h.sockets = ClosedSockets(p, fd) /\ h.list = ClosedList(p, fd)
           /\ h.lost = ClosedLost(p, fd) /\ h.files = ClosedFiles(p, fd)
           /\ h.queues = ClosedQueues(p, fd)
<1> DEFINE u == [RemoveEventQueue(Current, p, fd) EXCEPT !.queues = RemoveWatchesForFile(@, p, fd)]
           s == SocketAt(p, fd)
           d == CloseSocket(u, p, fd)
<1>1. /\ DOMAIN u = HandlerFields
      /\ u.sockets = Sockets /\ u.list = SocketList /\ u.lost = Lost
      /\ u.files = UnqueuedFiles(p, fd)
      /\ u.queues = RemoveWatchesForFile(UnqueuedQueues(p, fd), p, fd)
  BY UnqueuedEffect
<1>2. u = [x \in DOMAIN u |-> u[x]]
  OBVIOUS
<1>3. h = [d EXCEPT !.files[p][fd] = NoFile]
  BY DEF CloseDescriptor
<1> HIDE DEF u
<1>4. Alternates(u, p, fd, s) = OtherDescriptors(p, fd)
  BY <1>1 DEF Alternates, OtherDescriptors
<1>5. CASE s = NoSocket
  <2>1. d = u
    BY <1>5 DEF CloseSocket
  <2> HIDE DEF d
  <2> QED
    BY <1>1, <1>2, <1>3, <1>5, <2>1 DEF HandlerFields, Destroys, ClosedSockets, ClosedList,
         ClosedLost, ClosedFiles, ClosedQueues
<1>6. CASE s # NoSocket /\ OtherDescriptors(p, fd) # {}
  <2>1. d = [u EXCEPT !.sockets[s].FileDescriptor = Min(OtherDescriptors(p, fd))]
    BY <1>4, <1>6 DEF CloseSocket
  <2> HIDE DEF d
  <2>2. /\ DOMAIN d = HandlerFields /\ d = [x \in DOMAIN d |-> d[x]]
        /\ d.list = SocketList /\ d.lost = Lost /\ d.files = UnqueuedFiles(p, fd)
        /\ d.queues = RemoveWatchesForFile(UnqueuedQueues(p, fd), p, fd)
        /\ d.sockets = [Sockets EXCEPT ![s].FileDescriptor = Min(OtherDescriptors(p, fd))]
    BY <1>1, <1>2, <2>1 DEF HandlerFields
  <2> QED
    BY <1>3, <1>6, <2>2 DEF HandlerFields, Destroys, ClosedSockets, ClosedList,
         ClosedLost, ClosedFiles, ClosedQueues
<1>7. CASE s # NoSocket /\ OtherDescriptors(p, fd) = {}
  <2> DEFINE e == DestroySocket(u, s)
             F2 == [q \in Processes |-> [g \in FileDescriptors |->
                      IF e.files[q][g] \in {SocketFile(s), u.files[p][fd]}
                      THEN Dangling ELSE e.files[q][g]]]
             S2 == [o \in SocketIds |-> IF o = s THEN FreeSocket ELSE Forget(Sockets[o], s)]
             X2 == {c \in Lost \ {s} : Sockets[c].ConnectedPeer # s}
  <2>1. d = [e EXCEPT !.files = F2]
    BY <1>4, <1>7 DEF CloseSocket
  <2>2. e = [u EXCEPT !.sockets = S2, !.list = RemoveFirst(SocketList, s), !.lost = X2]
    BY <1>1 DEF DestroySocket
  <2> HIDE DEF d, e, S2, X2
  <2>3. /\ DOMAIN e = HandlerFields /\ e = [x \in DOMAIN e |-> e[x]]
        /\ e.list = RemoveFirst(SocketList, s) /\ e.lost = X2 /\ e.files = UnqueuedFiles(p, fd)
        /\ e.queues = RemoveWatchesForFile(UnqueuedQueues(p, fd), p, fd)
        /\ e.sockets = S2
    BY <1>1, <1>2, <2>2 DEF HandlerFields
  <2>4. F2 = DestroyedFiles(p, fd, s)
    BY <1>1, <2>3 DEF DestroyedFiles
  <2> HIDE DEF F2
  <2>5. /\ DOMAIN d = HandlerFields /\ d = [x \in DOMAIN d |-> d[x]]
        /\ d.list = RemoveFirst(SocketList, s) /\ d.lost = X2 /\ d.files = F2
        /\ d.queues = RemoveWatchesForFile(UnqueuedQueues(p, fd), p, fd)
        /\ d.sockets = S2
    BY <2>1, <2>3 DEF HandlerFields
  <2>6. /\ DOMAIN h = HandlerFields
        /\ h.list = RemoveFirst(SocketList, s) /\ h.lost = X2 /\ h.files = [F2 EXCEPT ![p][fd] = NoFile]
        /\ h.queues = RemoveWatchesForFile(UnqueuedQueues(p, fd), p, fd)
        /\ h.sockets = S2
    BY <1>3, <2>5 DEF HandlerFields
  <2> QED
    BY <1>7, <2>4, <2>6 DEF S2, X2, Destroys, ClosedSockets, ClosedList,
         ClosedLost, ClosedFiles, ClosedQueues
<1> QED
  BY <1>5, <1>6, <1>7

\* Closing a descriptor leaves no pointer to its socket behind.
LEMMA CloseGood ==
    ASSUME SocketInv, NEW p \in Processes, NEW fd \in FileDescriptors,
           NEW h, h = CloseDescriptor(Current, p, fd)
    PROVE  GoodSockets(h.sockets, h.list, h.lost) /\ h.files \in FileTables
<1> DEFINE s == SocketAt(p, fd)
           U == UnqueuedFiles(p, fd)
           D == DestroyedFiles(p, fd, s)
<1>1. GoodSockets(Sockets, SocketList, Lost) /\ FileTable \in FileTables
      /\ Sockets \in [SocketIds -> SocketSet]
  BY DEF SocketInv, GoodSockets
<1>0. /\ h.sockets = ClosedSockets(p, fd) /\ h.list = ClosedList(p, fd)
      /\ h.lost = ClosedLost(p, fd) /\ h.files = ClosedFiles(p, fd)
  BY CloseEffect
<1>2. NoFile \in FileSet /\ Dangling \in FileSet
  BY FilesAreFiles
<1>3. U \in FileTables
  BY <1>1, <1>2 DEF UnqueuedFiles, FileTables
<1> HIDE DEF U
<1>4. D \in FileTables
  <2>1. \A q \in Processes, g \in FileDescriptors : U[q][g] \in FileSet
    BY <1>3 DEF FileTables
  <2> QED
    BY <1>2, <2>1 DEF DestroyedFiles, FileTables, U
<1> HIDE DEF D
<1>5. [U EXCEPT ![p][fd] = NoFile] \in FileTables /\ [D EXCEPT ![p][fd] = NoFile] \in FileTables
  BY <1>2, <1>3, <1>4, FileTableChange
<1>6. CASE s = NoSocket
  <2>1. /\ h.sockets = Sockets /\ h.list = SocketList /\ h.lost = Lost
        /\ h.files = [U EXCEPT ![p][fd] = NoFile]
    BY <1>0, <1>6 DEF U, Destroys, ClosedSockets, ClosedList, ClosedLost, ClosedFiles
  <2> QED
    BY <1>1, <1>5, <2>1
<1>7. CASE s # NoSocket /\ OtherDescriptors(p, fd) # {}
  <2> DEFINE g == Min(OtherDescriptors(p, fd))
             r == [Sockets[s] EXCEPT !.FileDescriptor = g]
  <2>1. g \in FileDescriptors
    BY <1>7, FreeFilesMin DEF OtherDescriptors
  <2>2. s \in SocketIds /\ Sockets[s] \in SocketSet
    BY <1>1, <1>7, SocketAtFound, TrackedAreIds DEF Tracked, GoodSockets
  <2> HIDE DEF g, s
  <2>3. /\ r \in SocketSet
        /\ r.ConnectedPeer = Sockets[s].ConnectedPeer
        /\ r.PendingConnections = Sockets[s].PendingConnections
        /\ r.PendingConnectionCapacity = Sockets[s].PendingConnectionCapacity
        /\ r.IsListening = Sockets[s].IsListening
        /\ r.Address = Sockets[s].Address
    BY <2>1, <2>2 DEF SocketSet
  <2>4. /\ h.list = SocketList /\ h.lost = Lost /\ h.sockets = [Sockets EXCEPT ![s] = r]
        /\ h.files = [U EXCEPT ![p][fd] = NoFile]
    <3>1. /\ h.list = SocketList /\ h.lost = Lost
          /\ h.sockets = [Sockets EXCEPT ![s].FileDescriptor = g]
          /\ h.files = [U EXCEPT ![p][fd] = NoFile]
      BY <1>0, <1>7 DEF U, s, g, Destroys, ClosedSockets, ClosedList, ClosedLost, ClosedFiles
    <3> QED
      BY <3>1
  <2> HIDE DEF r
  <2>5. GoodSockets(h.sockets, h.list, h.lost)
    <3>1. GoodSockets([Sockets EXCEPT ![s] = r], SocketList, Lost)
      BY <1>1, <2>2, <2>3, OneFrameGood
    <3>2. h.list = SocketList /\ h.lost = Lost /\ h.sockets = [Sockets EXCEPT ![s] = r]
      BY <2>4
    <3> QED
      BY <3>1, <3>2
  <2> QED
    BY <1>5, <2>4, <2>5
<1>8. CASE s # NoSocket /\ OtherDescriptors(p, fd) = {}
  <2> DEFINE S2 == [o \in SocketIds |-> IF o = s THEN FreeSocket ELSE Forget(Sockets[o], s)]
             X2 == {c \in Lost \ {s} : Sockets[c].ConnectedPeer # s}
  <2>1. s \in Range(SocketList) /\ s \in SocketIds
    BY <1>1, <1>8, SocketAtFound, TrackedAreIds DEF Tracked, GoodSockets
  <2>2. /\ h.list = RemoveFirst(SocketList, s) /\ h.lost = X2 /\ h.sockets = S2
        /\ h.files = [D EXCEPT ![p][fd] = NoFile]
    BY <1>0, <1>8 DEF D, Destroys, ClosedSockets, ClosedList, ClosedLost, ClosedFiles
  <2> HIDE DEF s
  <2>3. /\ S2 \in [SocketIds -> SocketSet]
        /\ \A o \in SocketIds \ {s} :
             /\ S2[o].ConnectedPeer =
                  IF Sockets[o].ConnectedPeer = s THEN NoSocket ELSE Sockets[o].ConnectedPeer
             /\ S2[o].PendingConnections = Without(Sockets[o].PendingConnections, s)
             /\ S2[o].PendingConnectionCapacity = Sockets[o].PendingConnectionCapacity
             /\ S2[o].IsListening = Sockets[o].IsListening
             /\ S2[o].Address = Sockets[o].Address
    BY <1>1, <2>1, DestroyFields
  <2> HIDE DEF S2
  <2>4. GoodSockets(S2, RemoveFirst(SocketList, s), X2)
    BY <1>1, <2>1, <2>3, DestroyGood
  <2> HIDE DEF X2
  <2> QED
    BY <1>5, <2>2, <2>4
<1> QED
  BY <1>6, <1>7, <1>8

\* close preserves the invariant.
LEMMA CloseCallGood ==
    ASSUME SocketInv, NEW p \in Processes, NEW fd \in FileDescriptors,
           HandleCloseSystemCall(p, fd)
    PROVE  SocketInv'
<1>1. PICK h : h = CloseDescriptor(Current, p, fd)
  OBVIOUS
<1>2. Sockets' = h.sockets /\ SocketList' = h.list /\ FileTable' = h.files /\ Lost' = h.lost
  BY <1>1 DEF HandleCloseSystemCall, Succeeds, Becomes
<1> QED
  BY <1>1, <1>2, CloseGood DEF SocketInv

\* dup2 preserves the invariant, the descriptor it closes included.
LEMMA Dup2Good ==
    ASSUME SocketInv, NEW p \in Processes, NEW old \in FileDescriptors, NEW new \in FileDescriptors,
           HandleDup2SystemCall(p, old, new)
    PROVE  SocketInv'
<1>1. PICK h : h = IF new \in OpenFiles(p) THEN CloseDescriptor(Current, p, new) ELSE Current
  OBVIOUS
<1>2. DOMAIN h = HandlerFields /\ GoodSockets(h.sockets, h.list, h.lost) /\ h.files \in FileTables
  <2>1. CASE new \in OpenFiles(p)
    BY <1>1, <2>1, CloseEffect, CloseGood
  <2>2. CASE new \notin OpenFiles(p)
    BY <1>1, <2>2 DEF Current, HandlerFields, SocketInv
  <2> QED
    BY <2>1, <2>2
<1>3. Becomes([h EXCEPT !.files[p][new] = h.files[p][old]])
  BY <1>1 DEF HandleDup2SystemCall
<1>4. Sockets' = h.sockets /\ SocketList' = h.list /\ Lost' = h.lost
      /\ FileTable' = [h.files EXCEPT ![p][new] = h.files[p][old]]
  BY <1>2, <1>3 DEF Becomes, HandlerFields
<1>5. h.files[p][old] \in FileSet
  BY <1>2 DEF FileTables
<1> QED
  BY <1>2, <1>4, <1>5, FileTableChange DEF SocketInv

\* fcntl preserves the invariant.
LEMMA FcntlGood ==
    ASSUME SocketInv, NEW p \in Processes, NEW old \in FileDescriptors, NEW minimum \in FileDescriptors,
           HandleFcntlSystemCall(p, old, minimum)
    PROVE  SocketInv'
<1> DEFINE free == {fd \in FreeFiles(p) : fd >= minimum}
<1>1. Min(free) \in FileDescriptors
  <2>1. free # {} /\ free \subseteq FileDescriptors
    BY DEF HandleFcntlSystemCall, FreeFiles
  <2> QED
    BY <2>1, FreeFilesMin
<1>2. Sockets' = Sockets /\ SocketList' = SocketList /\ Lost' = Lost
      /\ FileTable' = [FileTable EXCEPT ![p][Min(free)] = FileTable[p][old]]
  BY DEF HandleFcntlSystemCall, Becomes, Current
<1>3. FileTable[p][old] \in FileSet /\ FileTable \in FileTables
  BY DEF SocketInv, FileTables
<1> HIDE DEF free
<1> QED
  BY <1>1, <1>2, <1>3, FileTableChange DEF SocketInv

\* fork, exit and execve leave the sockets alone.
LEMMA ProcessCallsGood ==
    ASSUME SocketInv, NEW p \in Processes,
           \/ \E child \in Processes : Fork(p, child)
           \/ Exit(p)
           \/ \E fd \in FileDescriptors : Execve(p, fd)
    PROVE  SocketInv'
<1>1. NoFile \in FileSet /\ FileTable \in FileTables
  BY FilesAreFiles DEF SocketInv
<1>2. ASSUME NEW child \in Processes, Fork(p, child)
      PROVE  SocketInv'
  <2>1. Sockets' = Sockets /\ SocketList' = SocketList /\ Lost' = Lost
        /\ FileTable' = [FileTable EXCEPT ![child] = FileTable[p]]
    BY <1>2 DEF Fork, Becomes, Current
  <2>2. FileTable' \in FileTables
    BY <1>1, <2>1 DEF FileTables
  <2> QED
    BY <2>1, <2>2 DEF SocketInv
<1>3. ASSUME Exit(p)
      PROVE  SocketInv'
  <2>1. Sockets' = Sockets /\ SocketList' = SocketList /\ Lost' = Lost
        /\ FileTable' = [FileTable EXCEPT ![p] = EmptyTable]
    BY <1>3 DEF Exit, Becomes, Current
  <2>2. FileTable' \in FileTables
    BY <1>1, <2>1 DEF FileTables, EmptyTable
  <2> QED
    BY <2>1, <2>2 DEF SocketInv
<1>4. ASSUME NEW fd \in FileDescriptors, Execve(p, fd)
      PROVE  SocketInv'
  <2>1. Sockets' = Sockets /\ SocketList' = SocketList /\ Lost' = Lost
        /\ FileTable' = [FileTable EXCEPT ![p][fd] = NoFile]
    BY <1>4 DEF Execve, Becomes, Current
  <2>2. FileTable' \in FileTables
    BY <1>1, <2>1, FileTableChange
  <2> QED
    BY <2>1, <2>2 DEF SocketInv
<1> QED
  BY <1>2, <1>3, <1>4

\* epoll_create1 leaves the sockets alone.
LEMMA EpollCreateGood ==
    ASSUME SocketInv, NEW p \in Processes, HandleEpollCreate1SystemCall(p)
    PROVE  SocketInv'
<1> DEFINE free == {fd \in FreeFiles(p) : FindEventQueue(EventQueueStore, p, fd) = 0}
<1>1. Min(free) \in FileDescriptors
  <2>1. free # {} /\ free \subseteq FileDescriptors
    BY DEF HandleEpollCreate1SystemCall, FreeFiles
  <2> QED
    BY <2>1, FreeFilesMin
<1>2. Sockets' = Sockets /\ SocketList' = SocketList /\ Lost' = Lost
      /\ FileTable' = [FileTable EXCEPT ![p][Min(free)] = EpollFile(p, Min(free))]
  BY DEF HandleEpollCreate1SystemCall, Succeeds, Becomes, Current
<1> HIDE DEF free
<1>3. EpollFile(p, Min(free)) \in FileSet /\ FileTable \in FileTables
  BY <1>1, FilesAreFiles DEF SocketInv
<1> QED
  BY <1>1, <1>2, <1>3, FileTableChange DEF SocketInv

\* The rest of poll and epoll touches event queues and calls only.
LEMMA PollStepsGood ==
    ASSUME NEW p,
           \/ \E fd, target, events : HandleEpollCtlSystemCall(p, fd, target, events)
           \/ \E fd, timeout : HandleEpollWaitSystemCall(p, fd, timeout)
           \/ \E fds, events, timeout : HandlePollSystemCall(p, fds, events, timeout)
           \/ PollAgain(p)
           \/ Woken(p)
    PROVE  UNCHANGED <<Sockets, SocketList, FileTable, Live, Lost, Departures>>
<1>1. ASSUME NEW fd, NEW target, NEW events, HandleEpollCtlSystemCall(p, fd, target, events)
      PROVE  UNCHANGED <<Sockets, SocketList, FileTable, Live, Lost, Departures>>
  BY <1>1 DEF HandleEpollCtlSystemCall, ControlEventQueue, Succeeds, Becomes, Current
<1>2. ASSUME NEW c, StartPoll(p, c)
      PROVE  UNCHANGED <<Sockets, SocketList, FileTable, Live, Lost, Departures>>
  BY <1>2 DEF StartPoll, Becomes, Current
<1>3. CASE PollAgain(p) \/ Woken(p)
  BY <1>3 DEF PollAgain, Woken
<1> QED
  BY <1>1, <1>2, <1>3 DEF HandleEpollWaitSystemCall, HandlePollSystemCall

-----------------------------------------------------------------------------
(* The initial states are good                                             *)

\* How the minimum of a set is found.
LEMMA MinIs ==
    ASSUME NEW T, T \subseteq Nat, NEW x \in T, \A y \in T : x <= y
    PROVE  Min(T) = x
<1>1. Min(T) \in T /\ Min(T) <= x
  BY MinIsSmallest
<1>2. x \in Nat /\ Min(T) \in Nat /\ x <= Min(T)
  BY <1>1
<1> QED
  BY <1>1, <1>2

\* The addresses the first three sockets get.
LEMMA FirstFree ==
    /\ 1 \in SocketIds /\ 2 \in SocketIds /\ 3 \in SocketIds
    /\ Min(SocketIds \ {}) = 1 /\ Min(SocketIds \ {1}) = 2 /\ Min(SocketIds \ {1, 2}) = 3
<1>1. MAX_TRACKED_SOCKETS \in Nat /\ MAX_TRACKED_SOCKETS >= 3
  BY SocketsAssumption
<1>2. /\ 1 \in SocketIds /\ 2 \in SocketIds /\ 3 \in SocketIds
      /\ SocketIds \subseteq Nat /\ \A s \in SocketIds : s >= 1
  BY <1>1 DEF SocketIds
<1> DEFINE A == SocketIds \ {}
           B == SocketIds \ {1}
           C == SocketIds \ {1, 2}
<1>3. /\ A \subseteq Nat /\ 1 \in A /\ \A y \in A : 1 <= y
      /\ B \subseteq Nat /\ 2 \in B /\ \A y \in B : 2 <= y
      /\ C \subseteq Nat /\ 3 \in C /\ \A y \in C : 3 <= y
  BY <1>2
<1> HIDE DEF A, B, C
<1>4. Min(A) = 1 /\ Min(B) = 2 /\ Min(C) = 3
  BY <1>3, MinIs
<1> QED
  BY <1>2, <1>4 DEF A, B, C

\* The initial state without sockets.
LEMMA BootedEffect ==
    /\ DOMAIN Booted = HandlerFields /\ Booted.list = <<>> /\ Range(Booted.list) = {}
    /\ Booted.queues = <<>> /\ Booted.lost = {}
    /\ Booted.sockets \in [SocketIds -> SocketSet]
    /\ Booted.sockets = [s \in SocketIds |-> FreeSocket]
    /\ Booted.files \in FileTables
    /\ \A p \in Processes : \A fd \in FileDescriptors :
         Booted.files[p][fd] = IF p = InitProcess /\ fd = 0 THEN Terminal ELSE NoFile
<1>1. FreeSocket \in SocketSet
  <2>1. InitProcess \in Processes /\ 0 \in FileDescriptors
    BY SocketsAssumption DEF FileDescriptors
  <2> QED
    BY <2>1, NewSocketType
<1>2. Terminal \in FileSet /\ NoFile \in FileSet
  BY FilesAreFiles
<1> QED
  BY <1>1, <1>2 DEF Booted, HandlerFields, Range, FileTables

Listening(a, queue) ==
    [NewSocket("unix", "stream", InitProcess, 1) EXCEPT
       !.Address = a, !.IsListening = TRUE,
       !.PendingConnectionCapacity = 1, !.PendingConnections = queue]

Client(other, peer) == [NewSocket("unix", "stream", other, 0) EXCEPT !.ConnectedPeer = peer]
Accepted == [NewSocket("unix", "stream", InitProcess, 2) EXCEPT !.ConnectedPeer = 2]

ServedSockets(a, other) ==
    [[Booted.sockets EXCEPT ![1] = Listening(a, <<2>>)] EXCEPT ![2] = Client(other, 1)]
ServedFiles(other) ==
    [[Booted.files EXCEPT ![InitProcess][1] = SocketFile(1)] EXCEPT ![other][0] = SocketFile(2)]

ConnectedSockets(a, other) ==
    [[[Booted.sockets EXCEPT ![1] = Listening(a, <<>>)] EXCEPT ![2] = Client(other, 3)]
       EXCEPT ![3] = Accepted]
ConnectedFiles(other) == [ServedFiles(other) EXCEPT ![InitProcess][2] = SocketFile(3)]

\* The initial state with a client that waits.
LEMMA ServedEffect ==
    ASSUME NEW a, NEW other \in Processes, NEW h, h = Served(a, other)
    PROVE  /\ DOMAIN h = HandlerFields /\ h.list = <<1, 2>> /\ h.queues = <<>> /\ h.lost = {}
           /\ h.sockets = ServedSockets(a, other) /\ h.files = ServedFiles(other)
<1> DEFINE h1 == CreateSocket(Booted, "unix", "stream", InitProcess, 1)
           h2 == CreateSocket(h1, "unix", "stream", other, 0)
           N1 == NewSocket("unix", "stream", InitProcess, 1)
           N2 == NewSocket("unix", "stream", other, 0)
<1>0. DOMAIN Booted.sockets = SocketIds /\ 1 \in SocketIds /\ 2 \in SocketIds
  BY BootedEffect, FirstFree
<1>1. /\ DOMAIN h1 = HandlerFields /\ h1.sockets = [Booted.sockets EXCEPT ![1] = N1]
      /\ h1.list = <<1>> /\ h1.files = [Booted.files EXCEPT ![InitProcess][1] = SocketFile(1)]
      /\ h1.queues = <<>> /\ h1.lost = {}
  <2>1. 1 = Min(SocketIds \ Range(Booted.list))
    BY BootedEffect, FirstFree
  <2>2. /\ DOMAIN h1 = HandlerFields /\ h1.sockets = [Booted.sockets EXCEPT ![1] = N1]
        /\ h1.list = Append(Booted.list, 1)
        /\ h1.files = [Booted.files EXCEPT ![InitProcess][1] = SocketFile(1)]
        /\ h1.queues = Booted.queues /\ h1.lost = Booted.lost
    BY <2>1, BootedEffect DEF CreateSocket, HandlerFields
  <2> QED
    BY <2>2, BootedEffect
<1> HIDE DEF h1
<1>2. /\ DOMAIN h2 = HandlerFields /\ h2.sockets = [h1.sockets EXCEPT ![2] = N2]
      /\ h2.list = <<1, 2>> /\ h2.files = [h1.files EXCEPT ![other][0] = SocketFile(2)]
      /\ h2.queues = <<>> /\ h2.lost = {}
  <2>1. Range(h1.list) = {1}
    BY <1>1 DEF Range
  <2>2. 2 = Min(SocketIds \ Range(h1.list))
    BY <2>1, FirstFree
  <2>3. /\ DOMAIN h2 = HandlerFields /\ h2.sockets = [h1.sockets EXCEPT ![2] = N2]
        /\ h2.list = Append(h1.list, 2)
        /\ h2.files = [h1.files EXCEPT ![other][0] = SocketFile(2)]
        /\ h2.queues = h1.queues /\ h2.lost = h1.lost
    BY <1>1, <2>2 DEF CreateSocket, HandlerFields
  <2> QED
    BY <1>1, <2>3
<1>3. h = [h2 EXCEPT !.sockets[1] = [@ EXCEPT !.Address = a, !.IsListening = TRUE,
                                              !.PendingConnectionCapacity = 1,
                                              !.PendingConnections = <<2>>],
                     !.sockets[2] = [@ EXCEPT !.ConnectedPeer = 1]]
  BY DEF Served, h1
<1> HIDE DEF h2
<1>4. DOMAIN h = HandlerFields /\ h.list = h2.list /\ h.files = h2.files /\ h.queues = h2.queues
      /\ h.lost = h2.lost
  BY <1>2, <1>3 DEF HandlerFields
<1>5. h.sockets = [h2.sockets EXCEPT ![1] = [@ EXCEPT !.Address = a, !.IsListening = TRUE,
                                                      !.PendingConnectionCapacity = 1,
                                                      !.PendingConnections = <<2>>],
                                     ![2] = [@ EXCEPT !.ConnectedPeer = 1]]
  BY <1>2, <1>3 DEF HandlerFields
<1>6. h2.sockets[1] = N1 /\ h2.sockets[2] = N2 /\ DOMAIN h2.sockets = SocketIds
  BY <1>0, <1>1, <1>2
<1>7. h.sockets = [[h2.sockets EXCEPT ![1] = Listening(a, <<2>>)] EXCEPT ![2] = Client(other, 1)]
  <2> HIDE DEF N1, N2
  <2>1. h.sockets = [[h2.sockets EXCEPT ![1] = [N1 EXCEPT !.Address = a, !.IsListening = TRUE,
                                                          !.PendingConnectionCapacity = 1,
                                                          !.PendingConnections = <<2>>]]
                       EXCEPT ![2] = [N2 EXCEPT !.ConnectedPeer = 1]]
    BY <1>0, <1>5, <1>6
  <2> QED
    BY <2>1 DEF Listening, Client, N1, N2
<1>8. h.sockets = [[Booted.sockets EXCEPT ![1] = Listening(a, <<2>>)] EXCEPT ![2] = Client(other, 1)]
  BY <1>0, <1>1, <1>2, <1>7
<1> QED
  BY <1>1, <1>2, <1>4, <1>8 DEF ServedSockets, ServedFiles

\* The initial state with a client that is accepted.
LEMMA ConnectedEffect ==
    ASSUME NEW a, NEW other \in Processes, NEW h, h = Connected(a, other)
    PROVE  /\ DOMAIN h = HandlerFields /\ h.list = <<1, 2, 3>> /\ h.queues = <<>> /\ h.lost = {}
           /\ h.sockets = ConnectedSockets(a, other) /\ h.files = ConnectedFiles(other)
<1> DEFINE h1 == Served(a, other)
           h2 == CreateSocket(h1, "unix", "stream", InitProcess, 2)
           N3 == NewSocket("unix", "stream", InitProcess, 2)
           S1 == ServedSockets(a, other)
           F1 == ServedFiles(other)
<1>0. DOMAIN Booted.sockets = SocketIds /\ 1 \in SocketIds /\ 2 \in SocketIds /\ 3 \in SocketIds
  BY BootedEffect, FirstFree
<1>1. /\ DOMAIN h1 = HandlerFields /\ h1.sockets = S1 /\ h1.list = <<1, 2>> /\ h1.files = F1
      /\ h1.queues = <<>> /\ h1.lost = {}
  <2>1. PICK k : k = Served(a, other)
    OBVIOUS
  <2>2. /\ DOMAIN k = HandlerFields /\ k.sockets = S1 /\ k.list = <<1, 2>> /\ k.files = F1
        /\ k.queues = <<>> /\ k.lost = {}
    BY <2>1, ServedEffect
  <2> QED
    BY <2>1, <2>2
<1>2. h = [h2 EXCEPT !.sockets[1].PendingConnections = <<>>,
                     !.sockets[2].ConnectedPeer = 3,
                     !.sockets[3].ConnectedPeer = 2]
  BY DEF Connected
<1> HIDE DEF h1, F1
<1>3. /\ DOMAIN h2 = HandlerFields /\ h2.sockets = [S1 EXCEPT ![3] = N3]
      /\ h2.list = <<1, 2, 3>> /\ h2.files = [F1 EXCEPT ![InitProcess][2] = SocketFile(3)]
      /\ h2.queues = <<>> /\ h2.lost = {}
  <2> HIDE DEF S1
  <2>1. Range(h1.list) = {1, 2}
    <3>1. h1.list[1] = 1 /\ h1.list[2] = 2 /\ DOMAIN h1.list = 1 .. 2
      BY <1>1
    <3>2. 1 .. 2 = {1, 2}
      OBVIOUS
    <3> QED
      BY <3>1, <3>2 DEF Range
  <2>2. 3 = Min(SocketIds \ Range(h1.list))
    BY <2>1, FirstFree
  <2>3. /\ DOMAIN h2 = HandlerFields /\ h2.sockets = [h1.sockets EXCEPT ![3] = N3]
        /\ h2.list = Append(h1.list, 3)
        /\ h2.files = [h1.files EXCEPT ![InitProcess][2] = SocketFile(3)]
        /\ h2.queues = h1.queues /\ h2.lost = h1.lost
    BY <1>1, <2>2 DEF CreateSocket, HandlerFields
  <2> QED
    BY <1>1, <2>3
<1> HIDE DEF h2
<1>4. DOMAIN h = HandlerFields /\ h.list = h2.list /\ h.files = h2.files /\ h.queues = h2.queues
      /\ h.lost = h2.lost
  BY <1>2, <1>3 DEF HandlerFields
<1>5. h.sockets = [h2.sockets EXCEPT ![1].PendingConnections = <<>>,
                                     ![2].ConnectedPeer = 3, ![3].ConnectedPeer = 2]
  BY <1>2, <1>3 DEF HandlerFields
<1>6. h2.sockets[1] = Listening(a, <<2>>) /\ h2.sockets[2] = Client(other, 1) /\ h2.sockets[3] = N3
  BY <1>0, <1>3 DEF ServedSockets
<1>7. h.sockets = [[[h2.sockets EXCEPT ![1] = [Listening(a, <<2>>) EXCEPT !.PendingConnections = <<>>]]
                      EXCEPT ![2] = [Client(other, 1) EXCEPT !.ConnectedPeer = 3]]
                      EXCEPT ![3] = [N3 EXCEPT !.ConnectedPeer = 2]]
  BY <1>0, <1>5, <1>6
<1>8. /\ [Listening(a, <<2>>) EXCEPT !.PendingConnections = <<>>] = Listening(a, <<>>)
      /\ [Client(other, 1) EXCEPT !.ConnectedPeer = 3] = Client(other, 3)
      /\ [N3 EXCEPT !.ConnectedPeer = 2] = Accepted
  BY DEF Listening, Client, Accepted, NewSocket
<1>9. h.sockets = [[[h2.sockets EXCEPT ![1] = Listening(a, <<>>)] EXCEPT ![2] = Client(other, 3)]
                      EXCEPT ![3] = Accepted]
  BY <1>7, <1>8
<1>10. h.sockets = [[[Booted.sockets EXCEPT ![1] = Listening(a, <<>>)]
                       EXCEPT ![2] = Client(other, 3)] EXCEPT ![3] = Accepted]
  BY <1>0, <1>3, <1>9 DEF ServedSockets
<1> QED
  BY <1>3, <1>4, <1>10 DEF F1, ConnectedSockets, ConnectedFiles

\* A local address is one to which a socket can be bound.
LEMMA UnixAddresses ==
    ASSUME NEW a \in Addresses, a.Family = "unix"
    PROVE  a \in AddressSet /\ a # Unbound
<1>1. a \in AddressSet
  BY SocketsAssumption DEF AddressSet
<1> QED
  BY <1>1 DEF Unbound, Address

\* The types of the sockets of the initial states.
LEMMA InitialTypes ==
    ASSUME NEW a \in AddressSet, NEW other \in Processes, NEW queue \in Seq(SocketIds),
           NEW peer \in SocketIds
    PROVE  /\ Listening(a, queue) \in SocketSet /\ Client(other, peer) \in SocketSet
           /\ Accepted \in SocketSet
           /\ Listening(a, queue).Address = a /\ Listening(a, queue).IsListening
           /\ Listening(a, queue).PendingConnections = queue
           /\ Listening(a, queue).PendingConnectionCapacity = 1
           /\ Listening(a, queue).ConnectedPeer = NoSocket
           /\ Listening(a, queue).Owner = InitProcess /\ Listening(a, queue).FileDescriptor = 1
           /\ Client(other, peer).Address = Unbound /\ Client(other, peer).PendingConnections = <<>>
           /\ Client(other, peer).ConnectedPeer = peer
           /\ Client(other, peer).Owner = other /\ Client(other, peer).FileDescriptor = 0
           /\ Accepted.Address = Unbound /\ Accepted.PendingConnections = <<>>
           /\ Accepted.ConnectedPeer = 2
           /\ Accepted.Owner = InitProcess /\ Accepted.FileDescriptor = 2
<1>1. InitProcess \in Processes /\ {0, 1, 2} \subseteq FileDescriptors
  BY SocketsAssumption DEF FileDescriptors
<1>2. 2 \in SocketIds
  BY FirstFree
<1> DEFINE N1 == NewSocket("unix", "stream", InitProcess, 1)
           N2 == NewSocket("unix", "stream", other, 0)
           N3 == NewSocket("unix", "stream", InitProcess, 2)
<1>3. N1 \in SocketSet /\ N2 \in SocketSet /\ N3 \in SocketSet
  BY <1>1, NewSocketType
<1>4. /\ N1.ConnectedPeer = NoSocket /\ N1.Owner = InitProcess /\ N1.FileDescriptor = 1
      /\ N2.Address = Unbound /\ N2.PendingConnections = <<>>
      /\ N2.Owner = other /\ N2.FileDescriptor = 0
      /\ N3.Address = Unbound /\ N3.PendingConnections = <<>>
      /\ N3.Owner = InitProcess /\ N3.FileDescriptor = 2
  BY DEF NewSocket
<1> HIDE DEF N1, N2, N3
<1>5. Listening(a, queue) = [N1 EXCEPT !.Address = a, !.IsListening = TRUE,
                               !.PendingConnectionCapacity = 1, !.PendingConnections = queue]
      /\ Client(other, peer) = [N2 EXCEPT !.ConnectedPeer = peer]
      /\ Accepted = [N3 EXCEPT !.ConnectedPeer = 2]
  BY DEF Listening, Client, Accepted, N1, N2, N3
<1>6. /\ Client(other, peer) \in SocketSet
      /\ Client(other, peer).Address = Unbound /\ Client(other, peer).PendingConnections = <<>>
      /\ Client(other, peer).ConnectedPeer = peer
      /\ Client(other, peer).Owner = other /\ Client(other, peer).FileDescriptor = 0
  BY <1>3, <1>4, <1>5 DEF SocketSet
<1>7. /\ Accepted \in SocketSet /\ Accepted.Address = Unbound /\ Accepted.PendingConnections = <<>>
      /\ Accepted.ConnectedPeer = 2
      /\ Accepted.Owner = InitProcess /\ Accepted.FileDescriptor = 2
  BY <1>2, <1>3, <1>4, <1>5 DEF SocketSet
<1>8. /\ Listening(a, queue) \in SocketSet
      /\ Listening(a, queue).Address = a /\ Listening(a, queue).IsListening
      /\ Listening(a, queue).PendingConnections = queue
      /\ Listening(a, queue).PendingConnectionCapacity = 1
      /\ Listening(a, queue).ConnectedPeer = NoSocket
      /\ Listening(a, queue).Owner = InitProcess /\ Listening(a, queue).FileDescriptor = 1
  BY <1>1 DEF Listening, NewSocket, SocketSet
<1> QED
  BY <1>6, <1>7, <1>8

\* A listener without a peer and a client in its queue.
LEMMA ServedGood ==
    ASSUME NEW S \in [SocketIds -> SocketSet], NEW a \in AddressSet, a # Unbound,
           S[1].Address = a, S[1].IsListening, S[1].PendingConnections = << 2 >>,
           S[1].PendingConnectionCapacity = 1, S[1].ConnectedPeer = NoSocket,
           S[2].Address = Unbound, S[2].PendingConnections = <<>>, S[2].ConnectedPeer = 1
    PROVE  GoodSockets(S, <<1, 2>>, {})
<1>1. 1 \in SocketIds /\ 2 \in SocketIds /\ NoSocket = 0
  BY FirstFree DEF NoSocket
<1>2. <<1, 2>> \in Seq(SocketIds) /\ IsInjective(<<1, 2>>) /\ Range(<<1, 2>>) = {1, 2}
  <2> DEFINE L == <<1, 2>>
  <2>1. L \in Seq(SocketIds)
    BY <1>1
  <2>2. L[1] = 1 /\ L[2] = 2 /\ DOMAIN L = {1, 2}
    OBVIOUS
  <2> HIDE DEF L
  <2>3. IsInjective(L)
    BY <2>2 DEF IsInjective
  <2>4. Range(L) = {1, 2}
    BY <2>2 DEF Range
  <2> QED
    BY <2>1, <2>3, <2>4 DEF L
<1>3. /\ Range(<<2>>) = {2} /\ IsInjective(<<2>>) /\ Len(<<2>>) = 1
      /\ Range(<<>>) = {} /\ IsInjective(<<>>) /\ Len(<<>>) = 0
  BY DEF Range, IsInjective
<1>4. S[2].PendingConnectionCapacity \in Nat
  BY <1>1 DEF SocketSet
<1>5. Peers(S, {1, 2}, {})
  <2>1. /\ Range(S[1].PendingConnections) = {2} /\ IsInjective(S[1].PendingConnections)
        /\ Len(S[1].PendingConnections) = 1
        /\ Range(S[2].PendingConnections) = {} /\ IsInjective(S[2].PendingConnections)
        /\ Len(S[2].PendingConnections) = 0
    BY <1>3
  <2>2. 1 \in {1, 2} /\ 2 \in Range(S[1].PendingConnections) \cup {}
    BY <2>1
  <2>3. /\ S[2].ConnectedPeer \in {1, 2} /\ S[S[2].ConnectedPeer].IsListening
        /\ 2 \in Range(S[S[2].ConnectedPeer].PendingConnections) \cup {}
    BY <2>1
  <2>4. /\ \A c \in Range(S[1].PendingConnections) : c \in {1, 2} /\ S[c].ConnectedPeer = 1
        /\ Len(S[1].PendingConnections) <= S[1].PendingConnectionCapacity
    BY <2>1
  <2>5. /\ \A c \in Range(S[2].PendingConnections) : c \in {1, 2} /\ S[c].ConnectedPeer = 2
        /\ Len(S[2].PendingConnections) <= S[2].PendingConnectionCapacity
    BY <1>4, <2>1
  <2> QED
    BY <2>1, <2>3, <2>4, <2>5 DEF Peers
<1>6. Mutual(S, {1, 2}, {})
  BY <1>1, <1>3 DEF Mutual
<1>7. Exclusive(S, {1, 2})
  <2>1. a.Family # Unbound.Family
    BY DEF AddressSet, Unbound, Address
  <2> QED
    BY <2>1 DEF Exclusive
<1> QED
  BY <1>2, <1>5, <1>6, <1>7 DEF GoodSockets

\* A listener with an empty queue, and two connected sockets.
LEMMA ConnectedGood ==
    ASSUME NEW S \in [SocketIds -> SocketSet], NEW a \in AddressSet, a # Unbound,
           S[1].Address = a, S[1].PendingConnections = <<>>, S[1].ConnectedPeer = NoSocket,
           S[2].Address = Unbound, S[2].PendingConnections = <<>>, S[2].ConnectedPeer = 3,
           S[3].Address = Unbound, S[3].PendingConnections = <<>>, S[3].ConnectedPeer = 2
    PROVE  GoodSockets(S, <<1, 2, 3>>, {})
<1>1. 1 \in SocketIds /\ 2 \in SocketIds /\ 3 \in SocketIds /\ NoSocket = 0
  BY FirstFree DEF NoSocket
<1>2. <<1, 2, 3>> \in Seq(SocketIds) /\ IsInjective(<<1, 2, 3>>) /\ Range(<<1, 2, 3>>) = {1, 2, 3}
  <2> DEFINE L == <<1, 2, 3>>
  <2>1. L \in Seq(SocketIds)
    BY <1>1
  <2>2. L[1] = 1 /\ L[2] = 2 /\ L[3] = 3 /\ DOMAIN L = {1, 2, 3}
    OBVIOUS
  <2> HIDE DEF L
  <2>3. IsInjective(L)
    BY <2>2 DEF IsInjective
  <2>4. Range(L) = {1, 2, 3}
    BY <2>2 DEF Range
  <2> QED
    BY <2>1, <2>3, <2>4 DEF L
<1>3. Range(<<>>) = {} /\ IsInjective(<<>>) /\ Len(<<>>) = 0
  BY DEF Range, IsInjective
<1>4. \A s \in SocketIds : S[s].PendingConnectionCapacity \in Nat
  BY DEF SocketSet
<1>5. Peers(S, {1, 2, 3}, {})
  BY <1>1, <1>3, <1>4 DEF Peers
<1>6. Mutual(S, {1, 2, 3}, {})
  BY <1>1, <1>3 DEF Mutual
<1>7. Exclusive(S, {1, 2, 3})
  <2>1. a.Family # Unbound.Family
    BY DEF AddressSet, Unbound, Address
  <2> QED
    BY <2>1 DEF Exclusive
<1> QED
  BY <1>2, <1>5, <1>6, <1>7 DEF GoodSockets

\* Every initial state satisfies the invariant.
LEMMA InitSocketInv ==
    Init => SocketInv
<1>1. CASE StartsWith(Booted, {InitProcess})
  <2>1. /\ Sockets = Booted.sockets /\ SocketList = <<>> /\ FileTable = Booted.files /\ Lost = {}
    BY <1>1, BootedEffect DEF StartsWith
  <2>2. Sockets \in [SocketIds -> SocketSet] /\ FileTable \in FileTables /\ Range(SocketList) = {}
    BY <2>1, BootedEffect
  <2>3. IsInjective(SocketList) /\ SocketList \in Seq(SocketIds)
    BY <2>1 DEF IsInjective
  <2> QED
    BY <2>1, <2>2, <2>3 DEF SocketInv, GoodSockets, Peers, Mutual, Exclusive
<1>2. ASSUME NEW other \in Processes \ {InitProcess}, NEW a \in Addresses, a.Family = "unix",
             StartsWith(Served(a, other), {InitProcess, other})
      PROVE  SocketInv
  <2>1. PICK h : h = Served(a, other)
    OBVIOUS
  <2>2. /\ Sockets = ServedSockets(a, other) /\ SocketList = <<1, 2>>
        /\ FileTable = ServedFiles(other) /\ Lost = {}
    BY <1>2, <2>1, ServedEffect DEF StartsWith
  <2>3. a \in AddressSet /\ a # Unbound
    BY <1>2, UnixAddresses
  <2>4. 1 \in SocketIds /\ 2 \in SocketIds /\ <<2>> \in Seq(SocketIds)
    BY FirstFree
  <2>5. Listening(a, <<2>>) \in SocketSet /\ Client(other, 1) \in SocketSet
    BY ZenonT(30), <2>3, <2>4, InitialTypes
  <2>6. /\ Sockets \in [SocketIds -> SocketSet]
        /\ Sockets[1] = Listening(a, <<2>>) /\ Sockets[2] = Client(other, 1)
    BY <2>2, <2>4, <2>5, BootedEffect DEF ServedSockets
  <2>7. GoodSockets(Sockets, <<1, 2>>, {})
    BY <2>3, <2>4, <2>6, InitialTypes, ServedGood
  <2>8. FileTable \in FileTables
    <3>1. InitProcess \in Processes /\ 0 \in FileDescriptors /\ 1 \in FileDescriptors
      BY SocketsAssumption DEF FileDescriptors
    <3> QED
      BY <2>2, <2>4, <3>1, BootedEffect, FilesAreFiles, FileTableChange DEF ServedFiles
  <2> QED
    BY <2>2, <2>7, <2>8 DEF SocketInv
<1>3. ASSUME NEW other \in Processes \ {InitProcess}, NEW a \in Addresses, a.Family = "unix",
             StartsWith(Connected(a, other), {InitProcess, other})
      PROVE  SocketInv
  <2>1. PICK h : h = Connected(a, other)
    OBVIOUS
  <2>2. /\ Sockets = ConnectedSockets(a, other) /\ SocketList = <<1, 2, 3>>
        /\ FileTable = ConnectedFiles(other) /\ Lost = {}
    BY <1>3, <2>1, ConnectedEffect DEF StartsWith
  <2>3. a \in AddressSet /\ a # Unbound
    BY <1>3, UnixAddresses
  <2>4. 1 \in SocketIds /\ 2 \in SocketIds /\ 3 \in SocketIds /\ <<>> \in Seq(SocketIds)
    BY FirstFree
  <2>5. Listening(a, <<>>) \in SocketSet /\ Client(other, 3) \in SocketSet /\ Accepted \in SocketSet
    <3>1. Listening(a, <<>>) \in SocketSet
      BY <2>3, <2>4, InitialTypes
    <3>2. Client(other, 3) \in SocketSet
      BY ZenonT(30), <2>3, <2>4, InitialTypes
    <3>3. Accepted \in SocketSet
      BY <2>3, <2>4, InitialTypes
    <3> QED
      BY <3>1, <3>2, <3>3
  <2>6. /\ Sockets \in [SocketIds -> SocketSet]
        /\ Sockets[1] = Listening(a, <<>>) /\ Sockets[2] = Client(other, 3) /\ Sockets[3] = Accepted
    BY <2>2, <2>4, <2>5, BootedEffect DEF ConnectedSockets
  <2>7. GoodSockets(Sockets, <<1, 2, 3>>, {})
    <3>1. PICK queue \in Seq(SocketIds), peer \in SocketIds : queue = <<>> /\ peer = 3
      BY <2>4
    <3>2. /\ Listening(a, queue).Address = a /\ Listening(a, queue).PendingConnections = queue
          /\ Listening(a, queue).ConnectedPeer = NoSocket
          /\ Client(other, peer).Address = Unbound /\ Client(other, peer).PendingConnections = <<>>
          /\ Client(other, peer).ConnectedPeer = peer
          /\ Accepted.Address = Unbound /\ Accepted.PendingConnections = <<>>
          /\ Accepted.ConnectedPeer = 2
      <4>1. a \in AddressSet /\ other \in Processes
        BY <2>3
      <4> QED
        BY <4>1, InitialTypes
    <3>3. /\ Sockets[1] = Listening(a, queue) /\ Sockets[2] = Client(other, peer)
          /\ Sockets[3] = Accepted
      BY <2>6, <3>1
    <3>4. /\ Sockets[1].Address = a /\ Sockets[1].PendingConnections = <<>>
          /\ Sockets[1].ConnectedPeer = NoSocket
          /\ Sockets[2].Address = Unbound /\ Sockets[2].PendingConnections = <<>>
          /\ Sockets[2].ConnectedPeer = 3
          /\ Sockets[3].Address = Unbound /\ Sockets[3].PendingConnections = <<>>
          /\ Sockets[3].ConnectedPeer = 2
      BY <3>1, <3>2, <3>3
    <3> QED
      BY <2>3, <2>6, <3>4, ConnectedGood
  <2>8. FileTable \in FileTables
    <3>1. InitProcess \in Processes /\ {0, 1, 2} \subseteq FileDescriptors
      BY SocketsAssumption DEF FileDescriptors
    <3>2. ServedFiles(other) \in FileTables
      BY <2>4, <3>1, BootedEffect, FilesAreFiles, FileTableChange DEF ServedFiles
    <3> QED
      BY <2>2, <2>4, <3>1, <3>2, FilesAreFiles, FileTableChange DEF ConnectedFiles
  <2> QED
    BY <2>2, <2>7, <2>8 DEF SocketInv
<1> QED
  BY <1>1, <1>2, <1>3 DEF Init

\* Every call of every process preserves the invariant.
LEMMA NextSocketInv ==
    SocketInv /\ [Next]_vars => SocketInv'
<1> SUFFICES ASSUME SocketInv, [Next]_vars PROVE SocketInv'
  OBVIOUS
<1>1. CASE UNCHANGED vars
  BY <1>1 DEF vars, SocketInv
<1>2. ASSUME NEW p \in Processes, SocketCalls(p) PROVE SocketInv'
  BY <1>2, SocketCallGood, BindGood, ConnectCallGood, ListenGood, ShutdownGood, AcceptCallGood,
     ReadGood, WriteGood DEF SocketCalls
<1>3. ASSUME NEW p \in Processes, DescriptorCalls(p) PROVE SocketInv'
  BY <1>3, CloseCallGood, Dup2Good, FcntlGood, ProcessCallsGood DEF DescriptorCalls
<1>4. ASSUME NEW p \in Processes, PollCalls(p) PROVE SocketInv'
  <2>1. CASE HandleEpollCreate1SystemCall(p)
    BY <2>1, EpollCreateGood
  <2>2. CASE ~HandleEpollCreate1SystemCall(p)
    <3>1. UNCHANGED <<Sockets, SocketList, FileTable, Lost>>
      BY <1>4, <2>2, PollStepsGood DEF PollCalls
    <3> QED
      BY <3>1 DEF SocketInv
  <2> QED
    BY <2>1, <2>2
<1>5. ASSUME NEW p \in Processes, PollAgain(p) \/ Woken(p) PROVE SocketInv'
  <2>1. UNCHANGED <<Sockets, SocketList, FileTable, Lost>>
    BY <1>5, PollStepsGood
  <2> QED
    BY <2>1 DEF SocketInv
<1> QED
  BY <1>1, <1>2, <1>3, <1>4, <1>5 DEF Next

\* What SocketPoll answers agrees with what the calls answer, in a good state.
LEMMA PollAgrees ==
    ASSUME SocketInv, NEW s \in Tracked, Sockets[s].Domain = "unix", Sockets[s].Type = "stream"
    PROVE  IF Sockets[s].IsListening
           THEN PollIn(s) # {} <=> \E c \in Range(Sockets[s].PendingConnections) : c \in Tracked
           ELSE /\ PollIn(s) # {} <=> ReadResult(s) # "EAGAIN"
                /\ PollOut(s) # {} <=> WriteResult(s) # "EAGAIN"
<1> DEFINE peer == Sockets[s].ConnectedPeer
           q == Sockets[s].PendingConnections
<1>1. s \in SocketIds /\ Sockets[s] \in SocketSet
  BY TrackedAreIds DEF SocketInv, GoodSockets, Tracked
<1>2. /\ q \in Seq(SocketIds) /\ Sockets[s].ReceiveBufferedBytes \in Nat
      /\ ReceiveBufferCapacity \in Nat
  BY <1>1, SocketsAssumption DEF SocketSet
<1>3. \A c \in Range(q) : c \in Tracked
  BY DEF SocketInv, GoodSockets, Peers, Tracked
<1>4. CASE Sockets[s].IsListening
  <2>1. q # <<>> <=> \E c \in Range(q) : c \in Tracked
    <3>1. q = <<>> => Range(q) = {}
      BY DEF Range
    <3>2. q # <<>> => q[1] \in Range(q)
      BY <1>2 DEF Range
    <3> QED
      BY <1>3, <3>1, <3>2
  <2>2. PollIn(s) # {} <=> q # <<>>
    BY <1>4 DEF PollIn
  <2> QED
    BY <1>4, <2>1, <2>2
<1>5. CASE ~Sockets[s].IsListening
  <2>1. PollIn(s) # {} <=> ReadResult(s) # "EAGAIN"
    <3>1. CASE Sockets[s].IsShutdownRead
      BY <1>5, <3>1 DEF PollIn, ReadResult
    <3>2. CASE ~Sockets[s].IsShutdownRead /\ Sockets[s].ReceiveBufferedBytes > 0
      BY <1>5, <3>2 DEF PollIn, ReadResult
    <3>3. CASE ~Sockets[s].IsShutdownRead /\ ~(Sockets[s].ReceiveBufferedBytes > 0)
      BY <1>5, <3>3 DEF PollIn, ReadResult
    <3> QED
      BY <3>1, <3>2, <3>3
  <2>2. PollOut(s) # {} <=> WriteResult(s) # "EAGAIN"
    <3>1. CASE Sockets[s].IsShutdownWrite
      BY <1>5, <3>1 DEF PollOut, WriteResult
    <3>2. CASE ~Sockets[s].IsShutdownWrite /\ peer = NoSocket
      BY <1>5, <3>2 DEF PollOut, WriteResult
    <3>3. CASE ~Sockets[s].IsShutdownWrite /\ peer # NoSocket
      <4>1. Sockets[peer].ReceiveBufferedBytes \in Nat
        <5>1. peer \in SocketIds /\ Sockets \in [SocketIds -> SocketSet]
          BY <1>1, <3>3 DEF SocketSet, SocketInv, GoodSockets
        <5> QED
          BY <5>1 DEF SocketSet
      <4>2. Sockets[peer].ReceiveBufferedBytes < ReceiveBufferCapacity
            <=> ~(Sockets[peer].ReceiveBufferedBytes >= ReceiveBufferCapacity)
        BY <1>2, <4>1
      <4>3. CASE Sockets[peer].IsListening
        BY <1>5, <3>3, <4>3 DEF PollOut, WriteResult
      <4>4. CASE ~Sockets[peer].IsListening /\ Sockets[peer].IsShutdownRead
        BY <1>5, <3>3, <4>4 DEF PollOut, WriteResult
      <4>5. CASE ~Sockets[peer].IsListening /\ ~Sockets[peer].IsShutdownRead
        BY <1>5, <3>3, <4>2, <4>5 DEF PollOut, WriteResult
      <4> QED
        BY <4>3, <4>4, <4>5
    <3> QED
      BY <3>1, <3>2, <3>3
  <2> QED
    BY <1>5, <2>1, <2>2
<1> QED
  BY <1>4, <1>5

\* The invariant implies the three properties of the sockets.
LEMMA SocketProperties ==
    SocketInv => PeersAreConsistent /\ AddressesAreExclusive /\ PollMatchesCalls
<1> SUFFICES ASSUME SocketInv PROVE PeersAreConsistent /\ AddressesAreExclusive /\ PollMatchesCalls
  OBVIOUS
<1>1. Peers(Sockets, Range(SocketList), Lost) /\ Exclusive(Sockets, Range(SocketList))
  BY DEF SocketInv, GoodSockets
<1>2. PeersAreConsistent
  BY <1>1 DEF PeersAreConsistent, Peers, Tracked
<1>3. AddressesAreExclusive
  BY <1>1 DEF AddressesAreExclusive, Exclusive, Tracked
<1>4. PollMatchesCalls
  BY PollAgrees DEF PollMatchesCalls
<1> QED
  BY <1>2, <1>3, <1>4

\* The inductive invariant of the manager's sockets: the list, the peers, the
\* queues and the addresses, as every call and every close leaves them.
THEOREM SocketsStayGood == Spec => []SocketInv
<1> QED
  BY InitSocketInv, NextSocketInv, PTL DEF Spec

\* No pointer to a deleted socket is ever left in a peer or in a listener's queue,
\* whatever the processes connect, accept, listen on again, fork and close.
THEOREM PeersConsistent == Spec => []PeersAreConsistent
<1> QED
  BY SocketsStayGood, SocketProperties, PTL

\* BindSocket and the port ListenSocket picks never give an address away twice.
THEOREM AddressesExclusive == Spec => []AddressesAreExclusive
<1> QED
  BY SocketsStayGood, SocketProperties, PTL

\* SocketPoll and SocketRead, SocketWrite and AcceptSocket never disagree.
THEOREM PollMatches == Spec => []PollMatchesCalls
<1> QED
  BY SocketsStayGood, SocketProperties, PTL
=============================================================================
