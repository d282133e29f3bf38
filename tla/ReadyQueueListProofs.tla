------------------------ MODULE ReadyQueueListProofs ------------------------
(***************************************************************************)
(* The scheduler's linked list is well formed for every number of tags and *)
(* processes.  Inv is inductive: the links are only known to lead somewhere*)
(* because they spell out a sequence without repetitions (Linked), a walk  *)
(* only stays in the list because its cursor is in that sequence, and the  *)
(* tag that PushBack links is only new because the heap holds exactly the  *)
(* list's tags (NoLeak).                                                   *)
(***************************************************************************)
EXTENDS ReadyQueueList, SequenceLemmas

Inv == TypeOK /\ Linked /\ NoLeak /\ CurrentIsHead /\ WalksStayInList

\* An empty list, and a list of one tag, in terms of its ends.
LEMMA Ends ==
    ASSUME TypeOK, Linked
    PROVE  /\ HeadNode = NULL <=> order = <<>>
           /\ TailNode = NULL <=> order = <<>>
           /\ order # <<>> => /\ Len(order) >= 1
                              /\ HeadNode = order[1]
                              /\ TailNode = order[Len(order)]
                              /\ HeadNode \in Tags
                              /\ TailNode \in Tags
<1>1. order # <<>> => Len(order) \in Nat /\ Len(order) >= 1
                      /\ order[1] \in Tags /\ order[Len(order)] \in Tags
  BY DEF TypeOK
<1> QED
  BY <1>1, NullIsNoTag DEF Linked

\* The empty queue satisfies the invariant.
LEMMA InitInv == Init => Inv
<1> SUFFICES ASSUME Init PROVE Inv
  OBVIOUS
<1>1. TypeOK
  BY DEF Init, TypeOK, Pointers
<1>2. order = <<>> /\ Len(order) = 0
  BY DEF Init
<1>3. Linked /\ NoLeak
  BY <1>2 DEF Init, Linked, NoLeak, Contains
<1> QED
  BY <1>1, <1>3 DEF Init, Inv, CurrentIsHead, WalksStayInList

\* AddToReadyQueue: the new tag is in neither the heap nor the list.
LEMMA AddInv ==
    ASSUME Inv, NEW id \in ProcessIds, AddToReadyQueue(id)
    PROVE  Inv'
<1> USE DEF Inv
<1>1. PICK t \in Tags \ heap :
         /\ heap' = heap \cup {t}
         /\ Id' = [Id EXCEPT ![t] = id]
         /\ HeadNode' = PushedHead(t, HeadNode, TailNode)
         /\ NextProcess' = PushedNext(t, TailNode, NextProcess)
         /\ TailNode' = t
         /\ order' = Append(order, t)
  BY DEF AddToReadyQueue
<1>2. /\ pc = "idle" /\ pc' = "idle"
      /\ UNCHANGED <<CurrentProcess, ProcessId, Node, Previous, Selected>>
  BY DEF AddToReadyQueue, call
<1> DEFINE n == Len(order)
<1>3. /\ n \in Nat
      /\ order \in Seq(Tags)
      /\ order' \in Seq(Tags)
      /\ Len(order') = n + 1
      /\ \A i \in 1 .. n : order'[i] = order[i] /\ order[i] \in Tags /\ order[i] # t
      /\ order'[n + 1] = t
      /\ order' # <<>>
  <2>1. \A i \in 1 .. n : order[i] \in heap
    BY DEF TypeOK, NoLeak, Contains
  <2> QED
    BY <1>1, <2>1 DEF TypeOK
<1>4. /\ HeadNode = NULL <=> n = 0
      /\ TailNode = NULL <=> n = 0
      /\ n > 0 => HeadNode = order[1] /\ TailNode = order[n]
  BY Ends, <1>3 DEF TypeOK
<1>5. TypeOK'
  <2>1. NextProcess' \in [Tags -> Pointers]
    BY <1>1 DEF TypeOK, PushedNext, Pointers
  <2>2. HeadNode' \in Pointers /\ TailNode' \in Pointers
    BY <1>1 DEF TypeOK, PushedHead, Pointers
  <2> QED
    BY <1>1, <1>2, <1>3, <2>1, <2>2 DEF TypeOK
<1> HIDE DEF n
<1>6. Linked'
  <2>1. \A i, j \in 1 .. n + 1 : order'[i] = order'[j] => i = j
    BY <1>3 DEF Linked, n
  <2>2. \A i \in 1 .. n + 1 :
          NextProcess'[order'[i]] = IF i < n + 1 THEN order'[i + 1] ELSE NULL
    <3> SUFFICES ASSUME NEW i \in 1 .. n + 1
                 PROVE  NextProcess'[order'[i]] = IF i < n + 1 THEN order'[i + 1] ELSE NULL
      OBVIOUS
    <3>1. CASE i = n + 1
      BY <1>1, <1>3, <3>1 DEF PushedNext
    <3>2. CASE i = n
      <4>1. order'[i] = TailNode /\ order'[i] \in Tags /\ order'[i] # t
        BY <1>3, <1>4, <3>2
      <4> QED
        BY <1>1, <1>3, <3>2, <4>1 DEF PushedNext
    <3>3. CASE i < n
      <4>1. /\ order'[i] = order[i] /\ order[i] \in Tags /\ order[i] # t
            /\ order'[i + 1] = order[i + 1]
            /\ order[i] # order[n]
        BY <1>3, <3>3 DEF Linked, n
      <4>2. TailNode = order[n]
        BY <1>3, <1>4, <3>3
      <4>3. NextProcess'[order[i]] = NextProcess[order[i]]
        BY <1>1, <4>1, <4>2 DEF PushedNext
      <4>4. NextProcess[order[i]] = order[i + 1]
        BY <1>3, <3>3 DEF Linked, n
      <4> QED
        BY <3>3, <4>1, <4>3, <4>4, <1>3
    <3> QED
      BY <1>3, <3>1, <3>2, <3>3
  <2>3. HeadNode' = order'[1] /\ TailNode' = order'[n + 1]
    BY <1>1, <1>3, <1>4 DEF PushedHead
  <2> QED
    BY <1>3, <2>1, <2>2, <2>3 DEF Linked
<1>7. NoLeak'
  <2>1. \A x \in Tags : Contains(order, x)' <=> Contains(order, x) \/ x = t
    BY <1>3 DEF Contains, n
  <2> QED
    BY <1>1, <2>1 DEF NoLeak
<1>8. CurrentIsHead'
  BY <1>1, <1>2, <1>4 DEF CurrentIsHead, PushedHead
<1>9. WalksStayInList'
  BY <1>2 DEF WalksStayInList
<1> QED
  BY <1>5, <1>6, <1>7, <1>8, <1>9

\* SelectNextProcess without a rotation: the list stays.
LEMMA SelectHeadInv ==
    ASSUME Inv, SelectHead
    PROVE  Inv'
<1>1. /\ pc = "idle" /\ UNCHANGED <<HeadNode, TailNode, NextProcess, order>>
      /\ UNCHANGED <<Id, heap, pc, ProcessId, Node, Previous>>
      /\ HeadNode # NULL
      /\ CurrentProcess' = HeadNode
      /\ Selected' = Id[HeadNode]
  BY DEF SelectHead, list, call
<1>2. TypeOK'
  BY <1>1 DEF Inv, TypeOK, Pointers
<1>3. Linked' /\ NoLeak'
  BY <1>1 DEF Inv, Linked, NoLeak, Contains
<1> QED
  BY <1>1, <1>2, <1>3 DEF Inv, CurrentIsHead, WalksStayInList

\* SelectNextProcess with a rotation.  A list of one tag is never rotated:
\* CurrentProcess is then the head, and the head is the tail.
LEMMA SelectRotatedInv ==
    ASSUME Inv, SelectRotated
    PROVE  Inv'
<1> USE DEF Inv
<1>1. /\ pc = "idle" /\ HeadNode # NULL /\ CurrentProcess # NULL
      /\ ~(HeadNode = CurrentProcess /\ NextProcess[CurrentProcess] = NULL)
      /\ CurrentProcess' = HeadNode' /\ Selected' = Id[HeadNode']
      /\ UNCHANGED <<Id, heap, pc, ProcessId, Node, Previous>>
  BY DEF SelectRotated, call
<1> DEFINE n == Len(order)
<1>2. /\ order \in Seq(Tags) /\ n \in Nat /\ n >= 1 /\ order # <<>>
      /\ HeadNode = order[1] /\ TailNode = order[n]
      /\ \A i \in 1 .. n : order[i] \in Tags
  BY <1>1, Ends DEF TypeOK
<1>3. /\ \A i, j \in 1 .. n : order[i] = order[j] => i = j
      /\ \A i \in 1 .. n :
           NextProcess[order[i]] = IF i < n THEN order[i + 1] ELSE NULL
  BY DEF Linked
<1>4. n >= 2 /\ HeadNode # TailNode
  <2>1. CurrentProcess = HeadNode
    BY <1>1 DEF CurrentIsHead
  <2>2. NextProcess[order[1]] # NULL
    BY <1>1, <1>2, <2>1
  <2>3. n # 1
    BY <1>2, <1>3, <2>2
  <2> HIDE DEF n
  <2>4. n >= 2 /\ 1 \in 1 .. n /\ n \in 1 .. n
    BY <1>2, <2>3
  <2>5. order[1] # order[n]
    BY <1>3, <2>3, <2>4
  <2> QED
    BY <1>2, <2>4, <2>5
<1> DEFINE head == NextProcess[HeadNode]
           tail == PoppedTail(HeadNode, TailNode, NextProcess)
           next == PoppedNext(HeadNode, NextProcess)
<1>5. /\ HeadNode' = PushedHead(HeadNode, head, tail)
      /\ NextProcess' = PushedNext(HeadNode, tail, next)
      /\ TailNode' = HeadNode
      /\ order' = Append(Tail(order), Head(order))
  BY <1>4 DEF SelectRotated
<1>6. head = order[2] /\ head \in Tags /\ tail = order[n]
  BY <1>2, <1>3, <1>4, NullIsNoTag DEF PoppedTail
<1>7. /\ order' \in Seq(Tags) /\ Len(order') = n
      /\ \A i \in 1 .. n : order'[i] = IF i < n THEN order[i + 1] ELSE order[1]
  BY <1>2, <1>5, RotateElements
<1>8. HeadNode' = order[2] /\ TailNode' = order[1]
  BY <1>2, <1>5, <1>6, NullIsNoTag DEF PushedHead
<1>9. \A x \in Tags : NextProcess'[x] = IF x = order[1] THEN NULL
                                        ELSE IF x = order[n] THEN order[1]
                                        ELSE NextProcess[x]
  BY <1>2, <1>5, <1>6 DEF PushedNext, PoppedNext, TypeOK
<1>10. TypeOK'
  <2>1. NextProcess' \in [Tags -> Pointers]
    <3>1. next \in [Tags -> Pointers] /\ HeadNode \in Tags
      BY <1>2 DEF TypeOK, PoppedNext, Pointers
    <3> QED
      BY <1>5, <3>1 DEF PushedNext, Pointers
  <2>2. HeadNode' \in Tags /\ TailNode' \in Tags
    BY <1>2, <1>4, <1>8
  <2> QED
    BY <1>1, <1>7, <2>1, <2>2 DEF TypeOK, Pointers
<1> HIDE DEF n
<1>11. Linked'
  <2>1. \A i, j \in 1 .. n : order'[i] = order'[j] => i = j
    BY <1>2, <1>3, <1>7
  <2>2. ASSUME NEW i \in 1 .. n
        PROVE  NextProcess'[order'[i]] = IF i < n THEN order'[i + 1] ELSE NULL
    <3>1. CASE i = n
      BY <1>2, <1>7, <1>9, <3>1
    <3>2. CASE i = n - 1
      <4>1. order'[i] = order[n] /\ order'[i + 1] = order[1] /\ order[n] # order[1]
        BY <1>2, <1>3, <1>4, <1>7, <3>2
      <4> QED
        BY <1>2, <1>9, <3>2, <4>1
    <3>3. CASE i < n - 1
      <4>1. /\ order'[i] = order[i + 1] /\ order'[i + 1] = order[i + 2]
            /\ order[i + 1] # order[1] /\ order[i + 1] # order[n]
            /\ order[i + 1] \in Tags
        BY <1>2, <1>3, <1>4, <1>7, <3>3
      <4>2. NextProcess[order[i + 1]] = order[i + 2]
        BY <1>2, <1>3, <3>3
      <4>3. NextProcess'[order[i + 1]] = NextProcess[order[i + 1]]
        BY <1>9, <4>1
      <4>4. i < n
        BY <1>2, <3>3
      <4> QED
        BY <4>1, <4>2, <4>3, <4>4
    <3> QED
      BY <1>2, <3>1, <3>2, <3>3
  <2>3. order'[1] = order[2] /\ order'[n] = order[1] /\ order' # <<>>
    BY <1>2, <1>4, <1>7
  <2> QED
    BY <1>2, <1>7, <1>8, <2>1, <2>2, <2>3 DEF Linked
<1>12. NoLeak'
  <2> SUFFICES ASSUME NEW x \in Tags
               PROVE  Contains(order, x)' <=> Contains(order, x)
    BY <1>1 DEF NoLeak
  <2>1. ASSUME NEW i \in 1 .. n, order[i] = x
        PROVE  \E j \in 1 .. n : order'[j] = x
    <3>1. CASE i = 1
      BY <1>2, <1>7, <2>1, <3>1
    <3>2. CASE i > 1
      <4>1. i - 1 \in 1 .. n /\ order'[i - 1] = order[i]
        BY <1>2, <1>7, <3>2
      <4> QED
        BY <2>1, <4>1
    <3> QED
      BY <3>1, <3>2
  <2>2. ASSUME NEW i \in 1 .. n, order'[i] = x
        PROVE  \E j \in 1 .. n : order[j] = x
    BY <1>2, <1>7, <2>2
  <2> QED
    BY <1>7, <2>1, <2>2 DEF Contains, n
<1>13. CurrentIsHead' /\ WalksStayInList'
  BY <1>1 DEF CurrentIsHead, WalksStayInList
<1> QED
  BY <1>10, <1>11, <1>12, <1>13

\* The steps that only move a cursor: the list, the heap and CurrentProcess
\* stay as they are.
LEMMA CursorInv ==
    ASSUME Inv,
           \/ SelectNothing \/ FindStep \/ FindNothing \/ WalkToPrevious \/ RemoveStep
           \/ \E id \in ProcessIds : AddDropped(id) \/ CallRemove(id)
    PROVE  Inv'
<1> USE DEF Inv
<1>1. /\ UNCHANGED <<HeadNode, TailNode, NextProcess, order>>
      /\ UNCHANGED <<CurrentProcess, Id, heap>>
  BY DEF SelectNothing, FindStep, FindNothing, WalkToPrevious, RemoveStep,
         AddDropped, CallRemove, list, vars
<1>2. Linked' /\ NoLeak' /\ CurrentIsHead'
  BY <1>1 DEF Linked, NoLeak, Contains, CurrentIsHead
<1> DEFINE n == Len(order)
<1>3. /\ order \in Seq(Tags) /\ n \in Nat
      /\ \A i \in 1 .. n : order[i] \in Tags
      /\ \A i, j \in 1 .. n : order[i] = order[j] => i = j
      /\ \A i \in 1 .. n :
           NextProcess[order[i]] = IF i < n THEN order[i + 1] ELSE NULL
  BY DEF TypeOK, Linked
<1>4. HeadNode = NULL \/ (n >= 1 /\ HeadNode = order[1])
  BY Ends
<1> HIDE DEF n
<1>5. CASE SelectNothing \/ \E id \in ProcessIds : AddDropped(id)
  <2>1. UNCHANGED <<pc, ProcessId, Node, Previous>> /\ Selected' \in {Selected, INVALID}
    BY <1>5 DEF SelectNothing, AddDropped, call, vars
  <2>2. TypeOK'
    BY <1>1, <2>1 DEF TypeOK
  <2>3. WalksStayInList'
    BY <1>1, <2>1 DEF WalksStayInList, Contains
  <2> QED
    BY <1>2, <2>2, <2>3
<1>6. ASSUME NEW id \in ProcessIds, CallRemove(id)
      PROVE  Inv'
  <2>1. pc' = "find" /\ ProcessId' = id /\ Node' = HeadNode /\ UNCHANGED <<Previous, Selected>>
    BY <1>6 DEF CallRemove
  <2>2. TypeOK'
    BY <1>1, <2>1 DEF TypeOK
  <2>3. WalksStayInList'
    BY <1>1, <1>3, <1>4, <2>1 DEF WalksStayInList, Contains, n
  <2> QED
    BY <1>2, <2>2, <2>3
<1>7. CASE FindStep
  <2>1. /\ pc = "find" /\ Node # NULL /\ Node' = NextProcess[Node]
        /\ UNCHANGED <<pc, ProcessId, Previous, Selected>>
    BY <1>7 DEF FindStep
  <2>2. PICK i \in 1 .. n : order[i] = Node
    BY <2>1 DEF WalksStayInList, Contains, n
  <2>3. Node' = NULL \/ (i + 1 \in 1 .. n /\ Node' = order[i + 1])
    BY <1>3, <2>1, <2>2
  <2>4. TypeOK'
    BY <1>1, <1>3, <2>1, <2>3 DEF TypeOK, Pointers
  <2>5. WalksStayInList'
    BY <1>1, <2>1, <2>3 DEF WalksStayInList, Contains, n
  <2> QED
    BY <1>2, <2>4, <2>5
<1>8. CASE FindNothing
  <2>1. pc' = "idle" /\ ProcessId' = INVALID /\ Node' = NULL /\ Previous' = NULL
        /\ Selected' = Selected
    BY <1>8 DEF FindNothing, Return
  <2>2. TypeOK'
    BY <1>1, <2>1 DEF TypeOK, Pointers
  <2> QED
    BY <1>2, <2>1, <2>2 DEF WalksStayInList
<1>9. CASE WalkToPrevious
  <2>1. /\ pc = "find" /\ Node # NULL /\ Id[Node] = ProcessId /\ HeadNode # Node
        /\ pc' = "remove" /\ Previous' = HeadNode
        /\ UNCHANGED <<ProcessId, Node, Selected>>
    BY <1>9 DEF WalkToPrevious
  <2>2. PICK j \in 1 .. n : order[j] = Node
    BY <2>1 DEF WalksStayInList, Contains, n
  <2>3. HeadNode = order[1] /\ 1 \in 1 .. n /\ 1 < j
    BY <1>3, <1>4, <2>1, <2>2, Ends DEF n
  <2>4. TypeOK'
    BY <1>1, <2>1 DEF TypeOK
  <2>5. \E i \in 1 .. n : i < j /\ order[i] = HeadNode /\ order[j] = Node
    BY <2>2, <2>3
  <2>6. WalksStayInList'
    BY <1>1, <2>1, <2>5 DEF WalksStayInList, n
  <2> QED
    BY <1>2, <2>4, <2>6
<1>10. CASE RemoveStep
  <2>1. /\ pc = "remove" /\ NextProcess[Previous] # Node
        /\ Previous' = NextProcess[Previous]
        /\ UNCHANGED <<pc, ProcessId, Node, Selected>>
    BY <1>10 DEF RemoveStep
  <2>2. PICK i \in 1 .. n, j \in 1 .. n :
          i < j /\ order[i] = Previous /\ order[j] = Node
    BY <2>1 DEF WalksStayInList, n
  <2>3. Previous' = order[i + 1] /\ i + 1 \in 1 .. n /\ i + 1 < j
    BY <1>3, <2>1, <2>2
  <2>4. TypeOK'
    BY <1>1, <1>3, <2>1, <2>3 DEF TypeOK, Pointers
  <2>5. \E i1, j1 \in 1 .. n : i1 < j1 /\ order[i1] = Previous' /\ order[j1] = Node
    BY <2>2, <2>3
  <2>6. WalksStayInList'
    BY <1>1, <2>1, <2>5 DEF WalksStayInList, n
  <2> QED
    BY <1>2, <2>4, <2>6
<1> QED
  BY <1>5, <1>6, <1>7, <1>8, <1>9, <1>10

\* What the two ways of removing a node have in common: Node is at place i of
\* the list, is the tag that is deleted, and the links close over the gap.
LEMMA RemovalInv ==
    ASSUME Inv,
           NEW i \in 1 .. Len(order),
           order[i] = Node,
           DeleteNode(NextProcess[Node]),
           order' \in Seq(Tags),
           Len(order') = Len(order) - 1,
           \A m \in 1 .. Len(order) - 1 :
               order'[m] = IF m < i THEN order[m] ELSE order[m + 1],
           NextProcess' \in [Tags -> Pointers],
           NextProcess'[Node] = NULL,
           \A m \in 1 .. Len(order) :
               m # i => NextProcess'[order[m]] =
                           IF m = i - 1 THEN NextProcess[Node]
                           ELSE NextProcess[order[m]],
           HeadNode' = IF i = 1 THEN NextProcess[Node] ELSE HeadNode,
           TailNode' = IF i < Len(order) THEN TailNode
                       ELSE IF i = 1 THEN NULL ELSE order[i - 1]
    PROVE  Inv'
<1> USE DEF Inv
<1> DEFINE n == Len(order)
<1>1. /\ order \in Seq(Tags) /\ n \in Nat /\ n >= 1 /\ i \in 1 .. n
      /\ \A m \in 1 .. n : order[m] \in Tags
      /\ \A m, l \in 1 .. n : order[m] = order[l] => m = l
      /\ \A m \in 1 .. n :
           NextProcess[order[m]] = IF m < n THEN order[m + 1] ELSE NULL
      /\ HeadNode = order[1] /\ TailNode = order[n]
  BY Ends DEF TypeOK, Linked
<1>2. /\ heap' = heap \ {Node} /\ pc' = "idle" /\ ProcessId' = INVALID
      /\ Node' = NULL /\ Previous' = NULL /\ UNCHANGED <<Id, Selected>>
      /\ CurrentProcess' = IF HeadNode' = NULL THEN NULL
                           ELSE IF CurrentProcess = Node
                                THEN IF NextProcess[Node] # NULL
                                     THEN NULL ELSE HeadNode'
                                ELSE CurrentProcess
  BY DEF DeleteNode, Return
<1>3. order' \in Seq(Tags) /\ Len(order') = n - 1
  OBVIOUS
<1>4. \A m \in 1 .. n - 1 : order'[m] = IF m < i THEN order[m] ELSE order[m + 1]
  OBVIOUS
<1>5. \A m \in 1 .. n :
        m # i => NextProcess'[order[m]] =
                   IF m = i - 1 THEN NextProcess[Node] ELSE NextProcess[order[m]]
  OBVIOUS
<1>6. TailNode' = IF i < n THEN TailNode ELSE IF i = 1 THEN NULL ELSE order[i - 1]
  OBVIOUS
<1>7. NextProcess[Node] = IF i < n THEN order[i + 1] ELSE NULL
  BY <1>1
<1> HIDE DEF n
<1>8. HeadNode' = IF n = 1 THEN NULL ELSE order'[1]
  <2>1. CASE i = 1
    BY <1>1, <1>4, <1>7, <2>1
  <2>2. CASE i > 1
    BY <1>1, <1>4, <2>2
  <2> QED
    BY <1>1, <2>1, <2>2
<1>9. TailNode' = IF n = 1 THEN NULL ELSE order'[n - 1]
  <2>1. CASE i < n
    BY <1>1, <1>4, <1>6, <2>1
  <2>2. CASE i = n
    BY <1>1, <1>4, <1>6, <2>2
  <2> QED
    BY <1>1, <2>1, <2>2
<1>10. TypeOK'
  <2>1. \A m \in 1 .. n - 1 : order'[m] \in Tags
    <3> SUFFICES ASSUME NEW m \in 1 .. n - 1 PROVE order'[m] \in Tags
      OBVIOUS
    <3>1. m \in 1 .. n /\ m + 1 \in 1 .. n
      BY <1>1
    <3>2. order[m] \in Tags /\ order[m + 1] \in Tags
      BY <1>1, <3>1
    <3> QED
      BY <1>4, <3>2
  <2>2. HeadNode' \in Pointers /\ TailNode' \in Pointers
    BY <1>1, <1>8, <1>9, <2>1 DEF Pointers
  <2>3. CurrentProcess' \in Pointers
    BY <1>2, <2>2 DEF TypeOK, Pointers
  <2> QED
    BY <1>2, <1>3, <2>2, <2>3 DEF TypeOK, Pointers
<1>11. Linked'
  <2>1. \A m, l \in 1 .. n - 1 : order'[m] = order'[l] => m = l
    BY SMTT(30), <1>1, <1>4
  <2>2. ASSUME NEW m \in 1 .. n - 1
        PROVE  NextProcess'[order'[m]] = IF m < n - 1 THEN order'[m + 1] ELSE NULL
    <3>1. CASE m < i - 1
      <4>1. order'[m] = order[m] /\ order'[m + 1] = order[m + 1] /\ m < n - 1
        BY <1>1, <1>4, <3>1
      <4>2. NextProcess'[order[m]] = NextProcess[order[m]]
        BY <1>1, <1>5, <3>1
      <4> QED
        BY <1>1, <3>1, <4>1, <4>2
    <3>2. CASE m = i - 1
      <4>1. order'[m] = order[m] /\ NextProcess'[order[m]] = NextProcess[Node]
        BY <1>1, <1>4, <1>5, <3>2
      <4>2. m < n - 1 => order'[m + 1] = order[i + 1]
        BY <1>1, <1>4, <3>2
      <4> QED
        BY <1>1, <1>7, <3>2, <4>1, <4>2
    <3>3. CASE m > i - 1
      <4>1. order'[m] = order[m + 1] /\ m + 1 \in 1 .. n
        BY <1>1, <1>4, <3>3
      <4>2. NextProcess'[order[m + 1]] = NextProcess[order[m + 1]]
        BY <1>1, <1>5, <3>3, <4>1
      <4>3. m < n - 1 => order'[m + 1] = order[m + 2]
        BY <1>1, <1>4, <3>3
      <4>4. NextProcess[order[m + 1]] = IF m + 1 < n THEN order[m + 2] ELSE NULL
        BY <1>1, <4>1
      <4> QED
        BY <1>1, <4>1, <4>2, <4>3, <4>4
    <3> QED
      BY <1>1, <3>1, <3>2, <3>3
  <2>3. order' = <<>> <=> n = 1
    BY <1>1, <1>3
  <2> QED
    BY <1>1, <1>3, <1>8, <1>9, <2>1, <2>2, <2>3 DEF Linked
<1>12. NoLeak'
  <2> SUFFICES ASSUME NEW x \in Tags
               PROVE  Contains(order, x)' <=> Contains(order, x) /\ x # Node
    BY <1>2 DEF NoLeak
  <2>1. ASSUME NEW m \in 1 .. n, order[m] = x, x # Node
        PROVE  \E l \in 1 .. n - 1 : order'[l] = x
    <3>1. CASE m < i
      <4>1. m \in 1 .. n - 1 /\ order'[m] = order[m]
        BY <1>1, <1>4, <3>1
      <4> QED
        BY <2>1, <4>1
    <3>2. CASE m > i
      <4>1. m - 1 \in 1 .. n - 1 /\ order'[m - 1] = order[m]
        BY <1>1, <1>4, <3>2
      <4> QED
        BY <2>1, <4>1
    <3> QED
      BY <1>1, <2>1, <3>1, <3>2
  <2>2. ASSUME NEW m \in 1 .. n - 1, order'[m] = x
        PROVE  x # Node /\ \E l \in 1 .. n : order[l] = x
    BY SMTT(30), <1>1, <1>4, <2>2
  <2> QED
    BY <1>3, <2>1, <2>2 DEF Contains, n
<1>13. CurrentIsHead'
  <2>1. CASE i = 1
    <3>1. Node = HeadNode
      BY <1>1, <2>1
    <3> QED
      BY <1>2, <3>1, NullIsNoTag DEF CurrentIsHead
  <2>2. CASE i > 1
    <3>1. Node # HeadNode /\ HeadNode' = HeadNode /\ Node # NULL
      BY <1>1, <2>2, NullIsNoTag
    <3> QED
      BY <1>2, <3>1 DEF CurrentIsHead
  <2> QED
    BY <1>1, <2>1, <2>2
<1>14. WalksStayInList'
  BY <1>2 DEF WalksStayInList
<1> QED
  BY <1>10, <1>11, <1>12, <1>13, <1>14

\* IntrusiveQueue::Remove of the head.
LEMMA RemoveHeadInv ==
    ASSUME Inv, RemoveHead
    PROVE  Inv'
<1> USE DEF Inv
<1> DEFINE n == Len(order)
<1>1. /\ Node # NULL /\ HeadNode = Node
      /\ HeadNode' = NextProcess[Node]
      /\ TailNode' = PoppedTail(Node, TailNode, NextProcess)
      /\ NextProcess' = PoppedNext(Node, NextProcess)
      /\ order' = Tail(order)
      /\ DeleteNode(NextProcess[Node])
  BY DEF RemoveHead
<1>2. order # <<>> /\ Node = order[1] /\ 1 \in 1 .. n /\ n \in Nat
  BY <1>1, Ends DEF TypeOK
<1>3. /\ \A m \in 1 .. n : order[m] \in Tags
      /\ \A m, l \in 1 .. n : order[m] = order[l] => m = l
      /\ \A m \in 1 .. n :
           NextProcess[order[m]] = IF m < n THEN order[m + 1] ELSE NULL
  BY DEF TypeOK, Linked
<1>4. /\ order' \in Seq(Tags) /\ Len(order') = n - 1
      /\ \A m \in 1 .. n - 1 : order'[m] = order[m + 1]
  BY <1>1, <1>2 DEF TypeOK
<1>5. /\ NextProcess' \in [Tags -> Pointers]
      /\ NextProcess'[Node] = NULL
      /\ \A x \in Tags : x # Node => NextProcess'[x] = NextProcess[x]
  BY <1>1, <1>2, <1>3 DEF PoppedNext, TypeOK, Pointers
<1>6. TailNode' = IF 1 < n THEN TailNode ELSE NULL
  <2>1. 1 < n => order[2] \in Tags
    BY <1>2, <1>3
  <2>2. NextProcess[Node] = IF 1 < n THEN order[2] ELSE NULL
    BY <1>2, <1>3
  <2> QED
    BY <1>1, <2>1, <2>2, NullIsNoTag DEF PoppedTail
<1>7. \A m \in 1 .. n : m # 1 => order[m] \in Tags /\ order[m] # Node
  BY <1>2, <1>3
<1>8. \A m \in 1 .. n : m # 1 => NextProcess'[order[m]] = NextProcess[order[m]]
  BY <1>5, <1>7
<1>9. \A m \in 1 .. n : m # 1 - 1
  OBVIOUS
<1> QED
  BY RemovalInv, <1>1, <1>2, <1>4, <1>5, <1>6, <1>8, <1>9

\* IntrusiveQueue::Remove of a node further back, once its predecessor is found.
LEMMA UnlinkInv ==
    ASSUME Inv, Unlink
    PROVE  Inv'
<1> USE DEF Inv
<1> DEFINE n == Len(order)
<1>1. /\ pc = "remove" /\ NextProcess[Previous] = Node
      /\ NextProcess' = [NextProcess EXCEPT ![Previous] = NextProcess[Node],
                                            ![Node] = NULL]
      /\ TailNode' = IF TailNode = Node THEN Previous ELSE TailNode
      /\ order' = RemoveFirst(order, Node)
      /\ HeadNode' = HeadNode
      /\ DeleteNode(NextProcess[Node])
  BY DEF Unlink
<1>2. PICK j \in 1 .. n, i \in 1 .. n :
        j < i /\ order[j] = Previous /\ order[i] = Node
  BY <1>1 DEF WalksStayInList
<1>3. /\ order \in Seq(Tags) /\ n \in Nat
      /\ \A m \in 1 .. n : order[m] \in Tags
      /\ \A m, l \in 1 .. n : order[m] = order[l] => m = l
      /\ \A m \in 1 .. n :
           NextProcess[order[m]] = IF m < n THEN order[m + 1] ELSE NULL
      /\ TailNode = order[n]
  BY <1>2, Ends DEF TypeOK, Linked
<1>4. RemoveFirst(order, order[i]) = RemoveAt(order, i)
  BY <1>2, <1>3, RemoveFirstIsRemoveAt
<1>5. /\ order' \in Seq(Tags) /\ Len(order') = n - 1
      /\ \A m \in 1 .. n - 1 :
           order'[m] = IF m < i THEN order[m] ELSE order[m + 1]
  BY <1>1, <1>2, <1>3, <1>4, RemoveAtElements
<1> HIDE DEF n
<1>6. i > 1 /\ i - 1 \in 1 .. n /\ order[i - 1] = Previous
  <2>1. j < n /\ j + 1 \in 1 .. n /\ order[j + 1] = order[i]
    BY <1>1, <1>2, <1>3
  <2>2. j + 1 = i
    BY <1>3, <2>1
  <2> QED
    BY <1>2, <1>3, <2>2
<1>7. Previous \in Tags /\ Node \in Tags /\ Previous # Node
  BY <1>2, <1>3
<1>8. /\ NextProcess' \in [Tags -> Pointers]
      /\ NextProcess'[Node] = NULL
      /\ NextProcess'[Previous] = NextProcess[Node]
      /\ \A x \in Tags \ {Node, Previous} : NextProcess'[x] = NextProcess[x]
  BY <1>1, <1>7 DEF TypeOK, Pointers
<1>9. ASSUME NEW m \in 1 .. n, m # i
      PROVE  NextProcess'[order[m]] = IF m = i - 1 THEN NextProcess[Node]
                                      ELSE NextProcess[order[m]]
  <2>1. CASE m = i - 1
    BY <1>6, <1>8, <2>1
  <2>2. CASE m # i - 1
    <3>1. order[m] # Node /\ order[m] # Previous /\ order[m] \in Tags
      BY <1>2, <1>3, <1>6, <1>9, <2>2
    <3> QED
      BY <1>8, <2>2, <3>1
  <2> QED
    BY <2>1, <2>2
<1>10. TailNode' = IF i < n THEN TailNode ELSE order[i - 1]
  <2>1. CASE i < n
    <3>1. order[n] # order[i]
      BY <1>2, <1>3, <2>1
    <3> QED
      BY <1>1, <1>2, <1>3, <2>1, <3>1
  <2>2. CASE i = n
    BY <1>1, <1>2, <1>3, <1>6, <2>2
  <2> QED
    BY <1>2, <1>3, <2>1, <2>2
<1>11. i # 1
  BY <1>6
<1> QED
  BY RemovalInv, <1>1, <1>2, <1>5, <1>8, <1>9, <1>10, <1>11 DEF n

\* Every operation and every iteration of a loop preserves the invariant.
LEMMA NextInv == Inv /\ [Next]_vars => Inv'
<1> SUFFICES ASSUME Inv, [Next]_vars PROVE Inv'
  OBVIOUS
<1>1. CASE UNCHANGED vars
  BY <1>1 DEF vars, Inv, TypeOK, Linked, NoLeak, Contains, CurrentIsHead,
              WalksStayInList
<1>2. CASE Next
  BY <1>2, AddInv, SelectHeadInv, SelectRotatedInv, CursorInv, RemoveHeadInv,
     UnlinkInv DEF Next, Step
<1> QED
  BY <1>1, <1>2

\* Inv holds in every state of every execution of the ready queue's code.
THEOREM Invariance == Spec => []Inv
  BY InitInv, NextInv, PTL DEF Spec

\* Whatever the order in which processes are queued, removed and selected, and
\* however many there are, HeadNode, TailNode and the links form one list of
\* exactly the tags on the heap.
THEOREM ListStaysWellFormed == Spec => []ListWellFormed
<1>1. Inv => ListWellFormed
  BY DEF Inv, ListWellFormed
<1> QED
  BY <1>1, Invariance, PTL

\* Scheduler::CurrentProcess never dangles: it is null or the head of the list.
THEOREM CurrentNeverDangles == Spec => []CurrentIsHead
<1>1. Inv => CurrentIsHead
  BY DEF Inv
<1> QED
  BY <1>1, Invariance, PTL

\* FindFirst and IntrusiveQueue::Remove only follow links of allocated tags.
THEOREM WalksAreSafe == Spec => []WalksStayInList
<1>1. Inv => WalksStayInList
  BY DEF Inv
<1> QED
  BY <1>1, Invariance, PTL

-----------------------------------------------------------------------------
(* The linked list implements the round-robin queue of Scheduler.  A call  *)
(* of RemoveFromReadyQueue takes its effect in the step that unlinks the   *)
(* tag; the iterations of its two walks leave the abstract queue alone.    *)
(* What the links alone do not say, and the proof needs, is FindsFirst:    *)
(* the tag FindFirst hands to IntrusiveQueue::Remove is the first with the *)
(* id.                                                                     *)

\* Every tag in front of the one FindFirst looks at, and later of the one it
\* found, has another id.
FindsFirst ==
    pc \in {"find", "remove"} =>
        \A i \in 1 .. Len(order) :
            \/ Id[order[i]] # ProcessId
            \/ \E j \in 1 .. i : order[j] = Node

\* The two components of the refinement mapping.
Queue == [i \in 1 .. Len(order) |-> Id[order[i]]]
Sched == [ReadyQueue |-> Queue, CurrentProcess |-> CurrentProcess # NULL]

\* The ids of a list of tags, element by element.
LEMMA QueueElements ==
    ASSUME NEW o \in Seq(Tags), NEW id \in [Tags -> ProcessIds],
           NEW q, q = [i \in 1 .. Len(o) |-> id[o[i]]]
    PROVE  /\ q \in Seq(ProcessIds)
           /\ Len(q) = Len(o)
           /\ Len(o) \in Nat
           /\ \A i \in 1 .. Len(o) : q[i] = id[o[i]]
           /\ q = <<>> <=> o = <<>>
<1>1. Len(o) \in Nat /\ \A i \in 1 .. Len(o) : id[o[i]] \in ProcessIds
  OBVIOUS
<1>2. q \in [1 .. Len(o) -> ProcessIds]
  BY <1>1
<1>3. q \in Seq(ProcessIds) /\ Len(q) = Len(o)
  BY <1>1, <1>2
<1> QED
  BY <1>1, <1>3

\* The abstract queue: one process per tag of the list, in the same order.
LEMMA QueueIsSeq ==
    ASSUME TypeOK
    PROVE  /\ Queue \in Seq(ProcessIds)
           /\ Len(Queue) = Len(order)
           /\ Len(order) \in Nat
           /\ \A i \in 1 .. Len(order) : Queue[i] = Id[order[i]]
           /\ Queue = <<>> <=> order = <<>>
<1>1. order \in Seq(Tags) /\ Id \in [Tags -> ProcessIds]
  BY DEF TypeOK
<1>2. Queue = [i \in 1 .. Len(order) |-> Id[order[i]]]
  BY DEF Queue
<1> QED
  BY <1>1, <1>2, QueueElements

\* The same after a step.
LEMMA NextQueueIsSeq ==
    ASSUME TypeOK'
    PROVE  /\ Queue' \in Seq(ProcessIds)
           /\ Len(Queue') = Len(order')
           /\ Len(order') \in Nat
           /\ \A i \in 1 .. Len(order') : Queue'[i] = Id'[order'[i]]
           /\ Queue' = <<>> <=> order' = <<>>
<1>1. order' \in Seq(Tags) /\ Id' \in [Tags -> ProcessIds]
  BY DEF TypeOK
<1>2. Queue' = [i \in 1 .. Len(order') |-> Id'[order'[i]]]
  BY DEF Queue
<1> QED
  BY <1>1, <1>2, QueueElements

\* A step that leaves the list, the ids and CurrentProcess alone.
LEMMA SchedStays ==
    ASSUME UNCHANGED <<order, Id, CurrentProcess>>
    PROVE  Queue' = Queue /\ Sched' = Sched
<1>1. Queue' = Queue
  BY DEF Queue
<1> QED
  BY <1>1 DEF Sched

-----------------------------------------------------------------------------
(* FindsFirst is an invariant                                              *)

\* An iteration of FindFirst skips a tag of another process only.
LEMMA FindStepFindsFirst ==
    ASSUME Inv, FindsFirst, FindStep
    PROVE  FindsFirst'
<1>1. /\ pc = "find" /\ Node # NULL /\ Id[Node] # ProcessId
      /\ UNCHANGED <<pc, order, Id, ProcessId>>
  BY DEF FindStep, list
<1> SUFFICES ASSUME NEW i \in 1 .. Len(order), Id[order[i]] = ProcessId
             PROVE  \E j \in 1 .. i : order[j] = Node'
  BY <1>1 DEF FindsFirst
<1>2. PICK j \in 1 .. i : order[j] = Node
  BY <1>1 DEF FindsFirst
<1>3. j # i /\ j + 1 \in 1 .. i /\ j < Len(order) /\ j \in 1 .. Len(order)
  BY <1>1, <1>2 DEF Inv, TypeOK
<1>4. NextProcess[order[j]] = order[j + 1]
  BY <1>3 DEF Inv, Linked
<1>5. Node' = order[j + 1]
  BY <1>2, <1>4 DEF FindStep
<1> QED
  BY <1>3, <1>5

\* The tag FindFirst stands at is never behind the first tag it looks for.
LEMMA FindsFirstInductive == Inv /\ FindsFirst /\ [Next]_vars => FindsFirst'
<1> SUFFICES ASSUME Inv, FindsFirst, [Next]_vars PROVE FindsFirst'
  OBVIOUS
<1>1. CASE UNCHANGED <<pc, order, Id, ProcessId, Node>>
  BY <1>1 DEF FindsFirst
<1>2. CASE pc' = "idle"
  BY <1>2 DEF FindsFirst
<1>3. ASSUME NEW id \in ProcessIds, CallRemove(id)
      PROVE  FindsFirst'
  <2>1. Node' = HeadNode /\ order' = order
    BY <1>3 DEF CallRemove, list
  <2>2. ASSUME NEW i \in 1 .. Len(order)
        PROVE  1 \in 1 .. i /\ order[1] = HeadNode
    <3>1. order # <<>>
      BY DEF Inv, TypeOK
    <3> QED
      BY <3>1, Ends DEF Inv
  <2> QED
    BY <2>1, <2>2 DEF FindsFirst
<1>4. CASE FindStep
  BY <1>4, FindStepFindsFirst
<1>5. CASE WalkToPrevious \/ RemoveStep
  BY <1>5 DEF WalkToPrevious, RemoveStep, list, FindsFirst
<1>6. CASE SelectHead \/ SelectNothing \/ SelectRotated
      \/ \E id \in ProcessIds : AddToReadyQueue(id) \/ AddDropped(id)
  <2>1. pc = "idle" /\ pc' = pc
    BY <1>6 DEF SelectHead, SelectNothing, SelectRotated, AddToReadyQueue, AddDropped,
                call, vars
  <2> QED
    BY <1>2, <2>1
<1>7. CASE RemoveHead \/ Unlink \/ FindNothing
  <2>1. pc' = "idle"
    BY <1>7 DEF RemoveHead, Unlink, FindNothing, DeleteNode, Return
  <2> QED
    BY <1>2, <2>1
<1>8. CASE UNCHANGED vars
  BY <1>1, <1>8 DEF vars
<1> QED
  BY <1>3, <1>4, <1>5, <1>6, <1>7, <1>8 DEF Next, Step

-----------------------------------------------------------------------------
(* Every step is a step of the abstract queue                              *)

\* AddToReadyQueue of the list appends the id to the abstract queue.
LEMMA AddMaps ==
    ASSUME Inv, NEW id \in ProcessIds, AddToReadyQueue(id)
    PROVE  Abstract!AddProcess(id)
<1>1. PICK t \in Tags \ heap :
         Id' = [Id EXCEPT ![t] = id] /\ order' = Append(order, t)
  BY DEF AddToReadyQueue
<1>2. UNCHANGED <<CurrentProcess, Selected>>
  BY DEF AddToReadyQueue
<1>3. TypeOK'
  BY AddInv DEF Inv
<1> DEFINE n == Len(order)
<1>4. n \in Nat /\ Len(order') = n + 1 /\ order'[n + 1] = t
      /\ \A i \in 1 .. n : order'[i] = order[i] /\ order[i] \in Tags
  BY <1>1 DEF Inv, TypeOK
<1>5. \A i \in 1 .. n : order[i] # t
  BY <1>1 DEF Inv, TypeOK, NoLeak, Contains
<1>6. \A i \in 1 .. n : Id'[order'[i]] = Id[order[i]]
  BY <1>1, <1>4, <1>5 DEF Inv, TypeOK
<1>7. Id'[order'[n + 1]] = id
  BY <1>1, <1>4 DEF Inv, TypeOK
<1>8. /\ Queue \in Seq(ProcessIds) /\ Len(Queue) = n
      /\ \A i \in 1 .. n : Queue[i] = Id[order[i]]
  BY QueueIsSeq DEF Inv
<1>9. Queue' \in Seq(ProcessIds) /\ Len(Queue') = n + 1
      /\ \A i \in 1 .. n + 1 : Queue'[i] = Id'[order'[i]]
  BY <1>3, <1>4, NextQueueIsSeq
<1> HIDE DEF n
<1>10. Append(Queue, id) \in Seq(ProcessIds) /\ Len(Append(Queue, id)) = n + 1
       /\ \A i \in 1 .. n + 1 : Append(Queue, id)[i] = IF i = n + 1 THEN id ELSE Queue[i]
  BY <1>4, <1>8
<1>11. \A i \in 1 .. n + 1 : Queue'[i] = Append(Queue, id)[i]
  BY <1>4, <1>6, <1>7, <1>8, <1>9, <1>10
<1>12. Queue' = Append(Queue, id)
  BY <1>9, <1>10, <1>11, SeqEqual
<1>13. Sched' = [Sched EXCEPT !.ReadyQueue = Append(@, id)]
  BY <1>2, <1>12 DEF Sched
<1> QED
  BY <1>2, <1>13 DEF Abstract!AddProcess, Abstract!AddToReadyQueue, Sched, Queue

\* A step that writes what the operators of Scheduler say is the abstract
\* step.
LEMMA SelectMaps ==
    ASSUME Sched' = Abstract!SelectNextProcess(Sched),
           Selected' = Abstract!SelectedProcess(Sched)
    PROVE  Abstract!SelectProcess
  BY DEF Abstract!SelectProcess, Sched, Queue

\* What the abstract SelectNextProcess does to a queue that is not empty.
LEMMA AbstractSelect ==
    ASSUME Queue # <<>>,
           NEW q, q = IF CurrentProcess # NULL
                      THEN Append(Tail(Queue), Head(Queue)) ELSE Queue
    PROVE  /\ Abstract!SelectNextProcess(Sched) =
                [ReadyQueue |-> q, CurrentProcess |-> TRUE]
           /\ Abstract!SelectedProcess(Sched) = q[1]
<1>1. Abstract!SelectNextProcess(Sched) = [ReadyQueue |-> q, CurrentProcess |-> TRUE]
  <2>1. CASE CurrentProcess = NULL
    BY <2>1 DEF Sched, Abstract!SelectNextProcess, Abstract!RotateFrontToBack
  <2>2. CASE CurrentProcess # NULL
    BY <2>2 DEF Sched, Abstract!SelectNextProcess, Abstract!RotateFrontToBack
  <2> QED
    BY <2>1, <2>2
<1>2. Sched.ReadyQueue = Queue
  BY DEF Sched
<1>3. Abstract!SelectNextProcess(Sched).ReadyQueue = q
  BY <1>1
<1>4. Abstract!SelectedProcess(Sched) = Abstract!SelectNextProcess(Sched).ReadyQueue[1]
  BY <1>2 DEF Abstract!SelectedProcess
<1> QED
  BY <1>1, <1>3, <1>4

\* SelectNextProcess without a rotation: nothing was current, or the current
\* tag is alone and a rotation changes nothing.
LEMMA SelectHeadMaps ==
    ASSUME Inv, SelectHead
    PROVE  Abstract!SelectProcess
<1>1. /\ UNCHANGED <<order, Id>>
      /\ HeadNode # NULL
      /\ CurrentProcess = NULL \/ NextProcess[HeadNode] = NULL
      /\ CurrentProcess' = HeadNode
      /\ Selected' = Id[HeadNode]
  BY DEF SelectHead, list
<1>2. order # <<>> /\ HeadNode = order[1] /\ Len(order) >= 1
  BY <1>1, Ends DEF Inv
<1>3. /\ Queue \in Seq(ProcessIds) /\ Queue # <<>> /\ Queue[1] = Id[order[1]]
      /\ Len(Queue) = Len(order) /\ Len(order) \in Nat
  BY <1>2, QueueIsSeq DEF Inv
<1>4. Queue' = Queue
  BY <1>1 DEF Queue
<1>5. Queue = IF CurrentProcess # NULL
              THEN Append(Tail(Queue), Head(Queue)) ELSE Queue
  <2> SUFFICES ASSUME CurrentProcess # NULL
               PROVE  Append(Tail(Queue), Head(Queue)) = Queue
    OBVIOUS
  <2>1. 1 < Len(order) => order[2] \in Tags /\ NextProcess[order[1]] = order[2]
    BY <1>2, <1>3 DEF Inv, TypeOK, Linked
  <2>2. Len(order) = 1
    BY <1>1, <1>2, <1>3, <2>1, NullIsNoTag
  <2> QED
    BY <1>3, <2>2, RotateElements, SeqEqual
<1>6. Sched' = [ReadyQueue |-> Queue, CurrentProcess |-> TRUE]
  BY <1>1, <1>4 DEF Sched
<1> QED
  BY <1>1, <1>2, <1>3, <1>5, <1>6, AbstractSelect, SelectMaps

\* SelectNextProcess with a rotation.
LEMMA SelectRotatedMaps ==
    ASSUME Inv, SelectRotated
    PROVE  Abstract!SelectProcess
<1>1. /\ HeadNode # NULL /\ CurrentProcess # NULL /\ Id' = Id
      /\ CurrentProcess' = HeadNode' /\ Selected' = Id[HeadNode']
      /\ order' = IF HeadNode = TailNode THEN order
                  ELSE Append(Tail(order), Head(order))
  BY DEF SelectRotated, list
<1>2. TypeOK' /\ Linked'
  BY SelectRotatedInv DEF Inv
<1>3. order # <<>> /\ Len(order) >= 1 /\ HeadNode = order[1] /\ TailNode = order[Len(order)]
  BY <1>1, Ends DEF Inv
<1>4. /\ order \in Seq(Tags) /\ Id \in [Tags -> ProcessIds]
      /\ Queue \in Seq(ProcessIds) /\ Len(Queue) = Len(order) /\ Len(order) \in Nat
      /\ Queue # <<>> /\ \A i \in 1 .. Len(order) : Queue[i] = Id[order[i]]
  BY <1>3, QueueIsSeq DEF Inv, TypeOK
<1>5. /\ order' \in Seq(Tags) /\ Len(order') = Len(order)
      /\ \A i \in 1 .. Len(order) :
           order'[i] = IF i < Len(order) THEN order[i + 1] ELSE order[1]
  <2>1. CASE HeadNode = TailNode
    <3>1. Len(order) \in 1 .. Len(order) /\ 1 \in 1 .. Len(order)
      BY <1>3, <1>4
    <3>2. Len(order) = 1
      BY <1>3, <2>1, <3>1 DEF Inv, Linked
    <3> QED
      BY <1>1, <1>4, <2>1, <3>2
  <2>2. CASE HeadNode # TailNode
    BY <1>1, <1>3, <1>4, <2>2, RotateElements
  <2> QED
    BY <2>1, <2>2
<1>6. /\ Queue' \in Seq(ProcessIds) /\ Len(Queue') = Len(order)
      /\ \A i \in 1 .. Len(order) : Queue'[i] = Id[order'[i]]
  BY <1>1, <1>2, <1>5, NextQueueIsSeq
<1>7. Queue' = Append(Tail(Queue), Head(Queue))
  <2> DEFINE r == Append(Tail(Queue), Head(Queue))
  <2>1. /\ r \in Seq(ProcessIds) /\ Len(r) = Len(Queue)
        /\ \A i \in 1 .. Len(Queue) :
             r[i] = IF i < Len(Queue) THEN Queue[i + 1] ELSE Queue[1]
    BY <1>4, RotateElements
  <2> HIDE DEF r
  <2>2. ASSUME NEW i \in 1 .. Len(order) PROVE r[i] = Queue'[i]
    <3>1. i < Len(order) => i + 1 \in 1 .. Len(order)
      BY <1>4
    <3>2. 1 \in 1 .. Len(order)
      BY <1>3, <1>4
    <3>3. r[i] = IF i < Len(order) THEN Queue[i + 1] ELSE Queue[1]
      BY <1>4, <2>1
    <3>4. Queue'[i] = IF i < Len(order) THEN Id[order[i + 1]] ELSE Id[order[1]]
      BY <1>5, <1>6
    <3> QED
      BY <1>4, <3>1, <3>2, <3>3, <3>4
  <2>3. r = Queue'
    BY <1>4, <1>6, <2>1, <2>2, SeqEqual
  <2> QED
    BY <2>3 DEF r
<1>8. HeadNode' = order'[1] /\ HeadNode' \in Tags
  <2>1. order' # <<>>
    BY <1>3, <1>4, <1>5
  <2>2. HeadNode' = order'[1]
    BY <1>2, <2>1 DEF Linked
  <2> QED
    BY <1>3, <1>4, <1>5, <2>2
<1>9. Sched' = [ReadyQueue |-> Queue', CurrentProcess |-> TRUE]
  BY <1>1, <1>8, NullIsNoTag DEF Sched
<1>10. Selected' = Queue'[1]
  BY <1>1, <1>3, <1>4, <1>6, <1>8
<1> QED
  BY <1>1, <1>4, <1>7, <1>9, <1>10, AbstractSelect, SelectMaps

\* Selecting from the empty list is the abstract selection.
LEMMA SelectNothingMaps ==
    ASSUME Inv, SelectNothing
    PROVE  Abstract!SelectProcess
<1>1. Sched' = Sched /\ Selected' = INVALID /\ HeadNode = NULL
  BY SchedStays DEF SelectNothing, list
<1>2. Queue = <<>>
  BY <1>1, QueueIsSeq, Ends DEF Inv
<1>3. Sched.ReadyQueue = <<>>
  BY <1>2 DEF Sched
<1> QED
  BY <1>1, <1>3, SelectMaps DEF Abstract!SelectNextProcess, Abstract!SelectedProcess

\* The instance's operators on sequences are the library's.
LEMMA AbstractRemoveFirst ==
    ASSUME NEW q, NEW id
    PROVE  /\ Abstract!Contains(q, id) <=> Contains(q, id)
           /\ Abstract!RemoveFirst(q, id) = RemoveFirst(q, id)
<1>1. Abstract!Contains(q, id) <=> Contains(q, id)
  BY DEF Abstract!Contains, Contains
<1>2. Abstract!SelectInSeq(q, LAMBDA v : v = id) = SelectInSeq(q, LAMBDA v : v = id)
  BY DEF Abstract!SelectInSeq, SelectInSeq, Abstract!Min, Min
<1>3. \A i : Abstract!RemoveAt(q, i) = RemoveAt(q, i)
  BY DEF Abstract!RemoveAt, RemoveAt
<1> QED
  BY <1>1, <1>2, <1>3 DEF Abstract!RemoveFirst, RemoveFirst

\* The step that unlinks and deletes a tag, the first with the id, is the whole
\* of RemoveFromReadyQueue on the abstract queue.
LEMMA RemovalMaps ==
    ASSUME Inv, TypeOK',
           NEW i \in 1 .. Len(order),
           order[i] = Node,
           Id[Node] = ProcessId,
           \A m \in 1 .. Len(order) : Id[order[m]] = ProcessId => i <= m,
           DeleteNode(NextProcess[Node]),
           Len(order') = Len(order) - 1,
           \A m \in 1 .. Len(order) - 1 :
               order'[m] = IF m < i THEN order[m] ELSE order[m + 1],
           HeadNode' = IF i = 1 THEN NextProcess[Node] ELSE HeadNode
    PROVE  \E id \in ProcessIds : Abstract!RemoveProcess(id)
<1> DEFINE n == Len(order)
<1>1. /\ order \in Seq(Tags) /\ n \in Nat /\ n >= 1 /\ order # <<>> /\ 1 \in 1 .. n
      /\ HeadNode = order[1] /\ HeadNode \in Tags /\ Node \in Tags
      /\ \A m, l \in 1 .. n : order[m] = order[l] => m = l
  <2>1. order \in Seq(Tags) /\ n \in Nat /\ n >= 1 /\ order # <<>>
    BY DEF Inv, TypeOK
  <2> QED
    BY <2>1, Ends DEF Inv, Linked
<1>2. /\ Queue \in Seq(ProcessIds) /\ Len(Queue) = n
      /\ \A m \in 1 .. n : Queue[m] = Id[order[m]]
  BY QueueIsSeq DEF Inv
<1>3. Queue[i] = ProcessId /\ ProcessId \in ProcessIds /\ Contains(Queue, ProcessId)
  BY <1>1, <1>2 DEF Inv, TypeOK, Contains
<1>4. Queue[1] # ProcessId <=> i # 1
  BY <1>1, <1>2, <1>3
<1>5. Id' = Id /\ Selected' = Selected
      /\ CurrentProcess' = IF HeadNode' = NULL THEN NULL
                           ELSE IF CurrentProcess = Node
                                THEN IF NextProcess[Node] # NULL
                                     THEN NULL ELSE HeadNode'
                                ELSE CurrentProcess
  BY DEF DeleteNode
<1>6. Queue' = RemoveFirst(Queue, ProcessId)
  <2> DEFINE r == RemoveAt(Queue, i)
  <2>1. RemoveFirst(Queue, Queue[i]) = r
    BY <1>2, <1>3, RemoveFirstAtFirst
  <2>2. /\ r \in Seq(ProcessIds) /\ Len(r) = n - 1
        /\ \A m \in 1 .. n - 1 : r[m] = IF m < i THEN Queue[m] ELSE Queue[m + 1]
    BY <1>2, RemoveAtElements
  <2> HIDE DEF r
  <2>3. /\ Queue' \in Seq(ProcessIds) /\ Len(Queue') = n - 1
        /\ \A m \in 1 .. n - 1 : Queue'[m] = Id[order'[m]]
    BY <1>5, NextQueueIsSeq
  <2>4. ASSUME NEW m \in 1 .. n - 1 PROVE r[m] = Queue'[m]
    <3>1. m \in 1 .. n /\ m + 1 \in 1 .. n
      BY <1>1
    <3>2. Queue'[m] = IF m < i THEN Id[order[m]] ELSE Id[order[m + 1]]
      BY <2>3
    <3> QED
      BY <1>2, <2>2, <3>1, <3>2
  <2>5. r = Queue'
    BY <1>1, <2>2, <2>3, <2>4, SeqEqual
  <2> QED
    BY <1>3, <2>1, <2>5
<1>7. CurrentProcess' # NULL <=> CurrentProcess # NULL /\ Queue[1] # ProcessId
  <2>1. CASE i = 1
    <3>1. Node = HeadNode /\ HeadNode' = NextProcess[Node] /\ CurrentProcess \in {NULL, Node}
      BY <1>1, <2>1 DEF Inv, CurrentIsHead
    <3> QED
      BY <1>4, <1>5, <2>1, <3>1
  <2>2. CASE i # 1
    <3>1. Node # HeadNode /\ HeadNode' = HeadNode /\ HeadNode' # NULL
          /\ CurrentProcess # Node
      BY <1>1, <2>2, NullIsNoTag DEF Inv, CurrentIsHead
    <3> QED
      BY <1>4, <1>5, <2>2, <3>1
  <2> QED
    BY <2>1, <2>2
<1>8. Sched' = Abstract!RemoveFromReadyQueue(Sched, ProcessId)
  <2>1. Sched.ReadyQueue = Queue
    BY DEF Sched
  <2>2. Abstract!RemoveFromReadyQueue(Sched, ProcessId) =
          [Sched EXCEPT !.ReadyQueue = RemoveFirst(@, ProcessId),
                        !.CurrentProcess = @ /\ Queue[1] # ProcessId]
    BY <1>3, <2>1, AbstractRemoveFirst DEF Abstract!RemoveFromReadyQueue
  <2>3. CASE CurrentProcess # NULL /\ Queue[1] # ProcessId
    <3>1. Sched' = [ReadyQueue |-> RemoveFirst(Queue, ProcessId), CurrentProcess |-> TRUE]
      BY <1>6, <1>7, <2>3 DEF Sched
    <3> QED
      BY <2>2, <2>3, <3>1 DEF Sched
  <2>4. CASE ~(CurrentProcess # NULL /\ Queue[1] # ProcessId)
    <3>1. Sched' = [ReadyQueue |-> RemoveFirst(Queue, ProcessId), CurrentProcess |-> FALSE]
      BY <1>6, <1>7, <2>4 DEF Sched
    <3> QED
      BY <2>2, <2>4, <3>1 DEF Sched
  <2> QED
    BY <2>3, <2>4
<1>9. PICK id \in ProcessIds : id = ProcessId
  BY <1>3
<1>10. Sched' = Abstract!RemoveFromReadyQueue(Sched, id)
  BY <1>8, <1>9
<1>11. Abstract!RemoveProcess(id)
  BY <1>5, <1>10 DEF Abstract!RemoveProcess, Sched, Queue
<1> QED
  BY <1>11

\* Removing the head removes the first entry of its process.
LEMMA RemoveHeadMaps ==
    ASSUME Inv, RemoveHead
    PROVE  \E id \in ProcessIds : Abstract!RemoveProcess(id)
<1>1. /\ Node # NULL /\ HeadNode = Node /\ Id[Node] = ProcessId
      /\ HeadNode' = NextProcess[Node] /\ order' = Tail(order)
      /\ DeleteNode(NextProcess[Node])
  BY DEF RemoveHead
<1>2. order # <<>> /\ order[1] = Node /\ order \in Seq(Tags)
  BY <1>1, Ends DEF Inv, TypeOK
<1>3. /\ 1 \in 1 .. Len(order) /\ Len(order') = Len(order) - 1
      /\ \A m \in 1 .. Len(order) - 1 : order'[m] = order[m + 1]
      /\ \A m \in 1 .. Len(order) : 1 <= m
      /\ \A m \in 1 .. Len(order) - 1 : ~(m < 1)
  BY <1>1, <1>2
<1>4. TypeOK'
  BY RemoveHeadInv DEF Inv
<1> QED
  BY <1>1, <1>2, <1>3, <1>4, RemovalMaps

\* Unlinking a tag behind the head removes the first entry of its process.
LEMMA UnlinkMaps ==
    ASSUME Inv, FindsFirst, Unlink
    PROVE  \E id \in ProcessIds : Abstract!RemoveProcess(id)
<1>1. /\ pc = "remove" /\ HeadNode' = HeadNode
      /\ order' = RemoveFirst(order, Node)
      /\ DeleteNode(NextProcess[Node])
  BY DEF Unlink
<1>2. PICK j \in 1 .. Len(order), i \in 1 .. Len(order) :
        j < i /\ order[j] = Previous /\ order[i] = Node
  BY <1>1 DEF Inv, WalksStayInList
<1>3. /\ order \in Seq(Tags) /\ Id[Node] = ProcessId /\ i # 1
      /\ \A m, l \in 1 .. Len(order) : order[m] = order[l] => m = l
  BY <1>1, <1>2 DEF Inv, TypeOK, Linked, WalksStayInList
<1>4. /\ Len(order') = Len(order) - 1
      /\ \A m \in 1 .. Len(order) - 1 :
           order'[m] = IF m < i THEN order[m] ELSE order[m + 1]
  <2>1. RemoveFirst(order, order[i]) = RemoveAt(order, i)
    BY <1>2, <1>3, RemoveFirstIsRemoveAt
  <2> QED
    BY ZenonT(30), <1>1, <1>2, <1>3, <2>1, RemoveAtElements
<1>5. ASSUME NEW m \in 1 .. Len(order), Id[order[m]] = ProcessId
      PROVE  i <= m
  <2>1. PICK l \in 1 .. m : order[l] = Node
    BY <1>1, <1>5 DEF FindsFirst
  <2>2. l \in 1 .. Len(order)
    BY <1>3
  <2> QED
    BY <1>2, <1>3, <2>1, <2>2
<1>6. TypeOK'
  BY UnlinkInv DEF Inv
<1> QED
  BY <1>1, <1>2, <1>3, <1>4, <1>5, <1>6, RemovalMaps

-----------------------------------------------------------------------------
\* Every step of the list is a step of Scheduler, or leaves its variables
\* alone.
LEMMA StepMaps ==
    ASSUME Inv, FindsFirst, [Next]_vars
    PROVE  [Abstract!Next]_(Abstract!vars)
<1>1. ASSUME UNCHANGED <<order, Id, CurrentProcess, Selected>>
      PROVE  UNCHANGED Abstract!vars
  BY <1>1, SchedStays DEF Abstract!vars, Sched, Queue
<1>2. CASE UNCHANGED vars
  BY <1>1, <1>2 DEF vars
<1>3. ASSUME NEW id \in ProcessIds, AddToReadyQueue(id)
      PROVE  Abstract!Next
  BY <1>3, AddMaps DEF Abstract!Next
<1>4. ASSUME NEW id \in ProcessIds, AddDropped(id)
      PROVE  UNCHANGED Abstract!vars
  BY <1>1, <1>4 DEF AddDropped, vars
<1>5. ASSUME NEW id \in ProcessIds, CallRemove(id)
      PROVE  UNCHANGED Abstract!vars
  BY <1>1, <1>5 DEF CallRemove, list
<1>6. CASE SelectNothing \/ SelectHead \/ SelectRotated
  BY <1>6, SelectNothingMaps, SelectHeadMaps, SelectRotatedMaps DEF Abstract!Next
<1>7. CASE FindStep \/ FindNothing \/ WalkToPrevious \/ RemoveStep
  BY <1>1, <1>7 DEF FindStep, FindNothing, WalkToPrevious, RemoveStep, list
<1>8. CASE RemoveHead \/ Unlink
  BY <1>8, RemoveHeadMaps, UnlinkMaps DEF Abstract!Next
<1> QED
  BY <1>2, <1>3, <1>4, <1>5, <1>6, <1>7, <1>8 DEF Next, Step

\* The empty list is the empty queue.
LEMMA InitMaps == Init => Abstract!Init /\ FindsFirst
<1> SUFFICES ASSUME Init PROVE Abstract!Init /\ FindsFirst
  OBVIOUS
<1>1. order = <<>> /\ CurrentProcess = NULL /\ Selected = INVALID /\ pc = "idle"
  BY DEF Init
<1>2. Queue = <<>>
  BY QueueIsSeq, InitInv, <1>1 DEF Inv
<1>3. Sched = [ReadyQueue |-> <<>>, CurrentProcess |-> FALSE]
  BY <1>1, <1>2 DEF Sched
<1> QED
  BY <1>1, <1>3 DEF Abstract!Init, Sched, Queue, FindsFirst

\* IntrusiveQueue and the pointer CurrentProcess, with the walks of
\* RemoveFromReadyQueue taken iteration by iteration, implement the round-robin
\* queue of Scheduler: the same ids in the same order, the same one selected.
THEOREM ListImplementsScheduler == Spec => ImplementsScheduler
<1>1. Init => Abstract!Init /\ FindsFirst
  BY InitMaps
<1>2. Inv /\ FindsFirst /\ [Next]_vars => FindsFirst' /\ [Abstract!Next]_(Abstract!vars)
  BY FindsFirstInductive, StepMaps
<1>3. Spec => []Inv
  BY Invariance
<1> QED
  BY <1>1, <1>2, <1>3, PTL DEF Spec, ImplementsScheduler, Abstract!Spec
=============================================================================
