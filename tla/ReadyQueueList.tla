--------------------------- MODULE ReadyQueueList ---------------------------
(***************************************************************************)
(* The scheduler's ready queue as the code builds it: ProcessTag nodes on  *)
(* the kernel heap, linked through NextProcess, with HeadNode and TailNode *)
(* (Kernel/Layers/Logic/IntrusiveQueue.hpp) and the pointer CurrentProcess *)
(* into the list (Kernel/Layers/Logic/Scheduler.cpp).                      *)
(*                                                                         *)
(* AddToReadyQueue and SelectNextProcess run straight through and are one  *)
(* step each.  RemoveFromReadyQueue walks the list twice, once in          *)
(* FindFirst and once in IntrusiveQueue::Remove; every iteration is a step *)
(* of its own, so that what a walk may touch is visible.  The kernel calls *)
(* the scheduler with interrupts disabled: no call starts inside another.  *)
(***************************************************************************)
EXTENDS Integers, SequencesExt

CONSTANTS Tags,         \* the addresses a ProcessTag can have
          ProcessIds,   \* the ids processes are queued under
          INVALID,      \* PROCESS_ID_INVALID
          NULL          \* nullptr

ASSUME NullIsNoTag == NULL \notin Tags
ASSUME InvalidIsNoProcess == INVALID \notin ProcessIds

VARIABLES HeadNode, TailNode,   \* the members of IntrusiveQueue
          CurrentProcess,       \* Scheduler::CurrentProcess
          NextProcess, Id,      \* the members of every ProcessTag, freed or not
          heap,                 \* the tags that are allocated
          pc,                   \* where RemoveFromReadyQueue is
          ProcessId,            \* its parameter
          Node,                 \* FindFirst's cursor, then the node found
          Previous,             \* IntrusiveQueue::Remove's cursor
          Selected,             \* what SelectNextProcess returned last
          order                 \* auxiliary: the nodes of the list, in order

vars == <<HeadNode, TailNode, CurrentProcess, NextProcess, Id, heap, pc,
          ProcessId, Node, Previous, Selected, order>>

list == <<HeadNode, TailNode, NextProcess, order>>
call == <<pc, ProcessId, Node, Previous>>

Pointers == Tags \cup {NULL}

Init ==
    /\ HeadNode = NULL
    /\ TailNode = NULL
    /\ CurrentProcess = NULL
    /\ NextProcess = [t \in Tags |-> NULL]
    /\ Id \in [Tags -> ProcessIds]       \* memory nobody has written yet
    /\ heap = {}
    /\ pc = "idle"
    /\ ProcessId = INVALID
    /\ Node = NULL
    /\ Previous = NULL
    /\ Selected = INVALID
    /\ order = <<>>
-----------------------------------------------------------------------------
(* IntrusiveQueue: the new values of its members, from values of NextOf    *)

\* PushBack(t) on a list with this tail, given the members' values.
PushedHead(t, head, tail) == IF tail = NULL THEN t ELSE head

PushedNext(t, tail, next) ==
    [n \in Tags |-> IF n = t THEN NULL
                    ELSE IF n = tail THEN t ELSE next[n]]

\* PopFront on a non-empty list: the head is unlinked and its link cleared.
PoppedTail(head, tail, next) == IF next[head] = NULL THEN NULL ELSE tail

PoppedNext(head, next) == [next EXCEPT ![head] = NULL]
-----------------------------------------------------------------------------
(* Scheduler::AddToReadyQueue                                              *)

AddToReadyQueue(id) ==
    /\ pc = "idle"
    /\ \E t \in Tags \ heap :
         /\ heap' = heap \cup {t}
         /\ Id' = [Id EXCEPT ![t] = id]
         /\ HeadNode' = PushedHead(t, HeadNode, TailNode)
         /\ NextProcess' = PushedNext(t, TailNode, NextProcess)
         /\ TailNode' = t
         /\ order' = Append(order, t)
    /\ UNCHANGED <<CurrentProcess, call, Selected>>

\* operator new found no memory: the process is not queued, nobody is told.
AddDropped(id) ==
    /\ pc = "idle"
    /\ heap = Tags
    /\ UNCHANGED vars
-----------------------------------------------------------------------------
(* Scheduler::SelectNextProcess                                            *)

\* Mutant of SelectRotated: CurrentProcess keeps pointing at the old head.
SelectRotatedStaleCurrent ==
    /\ pc = "idle"
    /\ HeadNode # NULL
    /\ CurrentProcess # NULL
    /\ HeadNode # TailNode
    /\ HeadNode' = NextProcess[HeadNode]
    /\ NextProcess' = PushedNext(HeadNode, TailNode, NextProcess)
    /\ TailNode' = HeadNode
    /\ order' = Append(Tail(order), Head(order))
    /\ Selected' = Id[HeadNode']
    /\ UNCHANGED <<CurrentProcess, Id, heap, call>>

\* The queue is empty.
SelectNothing ==
    /\ pc = "idle"
    /\ HeadNode = NULL
    /\ Selected' = INVALID
    /\ UNCHANGED <<list, CurrentProcess, Id, heap, call>>

\* Nothing is current, or the current tag is the only one.
SelectHead ==
    /\ pc = "idle"
    /\ HeadNode # NULL
    /\ \/ CurrentProcess = NULL
       \/ HeadNode = CurrentProcess /\ NextProcess[CurrentProcess] = NULL
    /\ CurrentProcess' = HeadNode
    /\ Selected' = Id[HeadNode]
    /\ UNCHANGED <<list, Id, heap, call>>

\* RotateFrontToBack (which leaves a list of one tag alone), then the head.
SelectRotated ==
    /\ pc = "idle"
    /\ HeadNode # NULL
    /\ CurrentProcess # NULL
    /\ ~(HeadNode = CurrentProcess /\ NextProcess[CurrentProcess] = NULL)
    /\ IF HeadNode = TailNode
       THEN UNCHANGED list
       ELSE LET head == NextProcess[HeadNode]
                tail == PoppedTail(HeadNode, TailNode, NextProcess)
                next == PoppedNext(HeadNode, NextProcess)
            IN /\ HeadNode' = PushedHead(HeadNode, head, tail)
               /\ NextProcess' = PushedNext(HeadNode, tail, next)
               /\ TailNode' = HeadNode
               /\ order' = Append(Tail(order), Head(order))
    /\ CurrentProcess' = HeadNode'
    /\ Selected' = Id[HeadNode']
    /\ UNCHANGED <<Id, heap, call>>
-----------------------------------------------------------------------------
(* Scheduler::RemoveFromReadyQueue                                         *)

CallRemove(id) ==
    /\ pc = "idle"
    /\ pc' = "find"
    /\ ProcessId' = id
    /\ Node' = HeadNode
    /\ UNCHANGED <<list, CurrentProcess, Id, heap, Previous, Selected>>

Return ==
    /\ pc' = "idle"
    /\ ProcessId' = INVALID
    /\ Node' = NULL
    /\ Previous' = NULL

\* Mutant of FindStep: the loop forgets to advance its cursor.
FindStepStuck ==
    /\ pc = "find"
    /\ Node # NULL
    /\ Id[Node] # ProcessId
    /\ UNCHANGED vars

\* FindFirst: one iteration that does not match.
FindStep ==
    /\ pc = "find"
    /\ Node # NULL
    /\ Id[Node] # ProcessId
    /\ Node' = NextProcess[Node]
    /\ UNCHANGED <<list, CurrentProcess, Id, heap, pc, ProcessId, Previous,
                   Selected>>

\* FindFirst returned nullptr: "return false".
FindNothing ==
    /\ pc = "find"
    /\ Node = NULL
    /\ Return
    /\ UNCHANGED <<list, CurrentProcess, Id, heap, Selected>>

\* Mutant of DeleteNode: when the current tag goes, its successor becomes
\* current, so the next selection passes it over.
DeleteNodeCurrentToNext(next) ==
    /\ CurrentProcess' = IF CurrentProcess = Node THEN next ELSE CurrentProcess
    /\ heap' = heap \ {Node}
    /\ Return
    /\ UNCHANGED <<Id, Selected>>

\* After the unlinking: CurrentProcess is repaired, the node deleted.  next
\* is ReadyQueue.Next(Node), read before the unlinking.
DeleteNode(next) ==
    /\ CurrentProcess' =
         IF HeadNode' = NULL THEN NULL
         ELSE IF CurrentProcess = Node
              THEN IF next # NULL THEN NULL ELSE HeadNode'
              ELSE CurrentProcess
    /\ heap' = heap \ {Node}
    /\ Return
    /\ UNCHANGED <<Id, Selected>>

\* FindFirst stopped at the head: IntrusiveQueue::Remove is PopFront.
RemoveHead ==
    /\ pc = "find"
    /\ Node # NULL
    /\ Id[Node] = ProcessId
    /\ HeadNode = Node
    /\ HeadNode' = NextProcess[Node]
    /\ TailNode' = PoppedTail(Node, TailNode, NextProcess)
    /\ NextProcess' = PoppedNext(Node, NextProcess)
    /\ order' = Tail(order)
    /\ DeleteNode(NextProcess[Node])

\* Mutant of WalkToPrevious: the walk starts behind the head.
WalkToPreviousSkipsHead ==
    /\ pc = "find"
    /\ Node # NULL
    /\ Id[Node] = ProcessId
    /\ HeadNode # Node
    /\ pc' = "remove"
    /\ Previous' = NextProcess[HeadNode]
    /\ UNCHANGED <<list, CurrentProcess, Id, heap, ProcessId, Node, Selected>>

\* FindFirst stopped further back: look for the predecessor.
WalkToPrevious ==
    /\ pc = "find"
    /\ Node # NULL
    /\ Id[Node] = ProcessId
    /\ HeadNode # Node
    /\ pc' = "remove"
    /\ Previous' = HeadNode
    /\ UNCHANGED <<list, CurrentProcess, Id, heap, ProcessId, Node, Selected>>

RemoveStep ==
    /\ pc = "remove"
    /\ Previous # NULL
    /\ NextProcess[Previous] # Node
    /\ Previous' = NextProcess[Previous]
    /\ UNCHANGED <<list, CurrentProcess, Id, heap, pc, ProcessId, Node,
                   Selected>>

\* Mutant of Unlink: the tail pointer is not moved back.
UnlinkKeepsTail ==
    /\ pc = "remove"
    /\ Previous # NULL
    /\ NextProcess[Previous] = Node
    /\ NextProcess' = [NextProcess EXCEPT ![Previous] = NextProcess[Node],
                                          ![Node] = NULL]
    /\ order' = RemoveFirst(order, Node)
    /\ UNCHANGED <<HeadNode, TailNode>>
    /\ DeleteNode(NextProcess[Node])

\* The predecessor is found: the node is unlinked, its link cleared.
Unlink ==
    /\ pc = "remove"
    /\ Previous # NULL
    /\ NextProcess[Previous] = Node
    /\ NextProcess' = [NextProcess EXCEPT ![Previous] = NextProcess[Node],
                                          ![Node] = NULL]
    /\ TailNode' = IF TailNode = Node THEN Previous ELSE TailNode
    /\ order' = RemoveFirst(order, Node)
    /\ UNCHANGED HeadNode
    /\ DeleteNode(NextProcess[Node])
-----------------------------------------------------------------------------
Step ==
    \/ FindStep
    \/ FindNothing
    \/ RemoveHead
    \/ WalkToPrevious
    \/ RemoveStep
    \/ Unlink

Next ==
    \/ \E id \in ProcessIds : \/ AddToReadyQueue(id)
                              \/ AddDropped(id)
                              \/ CallRemove(id)
    \/ SelectNothing
    \/ SelectHead
    \/ SelectRotated
    \/ Step

\* A call of RemoveFromReadyQueue runs on; nothing makes the kernel call it.
Spec == Init /\ [][Next]_vars /\ WF_vars(Step)
-----------------------------------------------------------------------------
(* Properties                                                              *)

\* Every variable has a value of its type.
TypeOK ==
    /\ HeadNode \in Pointers
    /\ TailNode \in Pointers
    /\ CurrentProcess \in Pointers
    /\ NextProcess \in [Tags -> Pointers]
    /\ Id \in [Tags -> ProcessIds]
    /\ heap \in SUBSET Tags
    /\ pc \in {"idle", "find", "remove"}
    /\ ProcessId \in ProcessIds \cup {INVALID}
    /\ Node \in Pointers
    /\ Previous \in Pointers
    /\ Selected \in ProcessIds \cup {INVALID}
    /\ order \in Seq(Tags)

\* The links spell out `order': head and tail are its ends, each link leads
\* to the next node, no node occurs twice.
Linked ==
    /\ \A i, j \in 1..Len(order) : order[i] = order[j] => i = j
    /\ \A i \in 1..Len(order) :
         NextProcess[order[i]] = IF i < Len(order) THEN order[i + 1] ELSE NULL
    /\ HeadNode = IF order = <<>> THEN NULL ELSE order[1]
    /\ TailNode = IF order = <<>> THEN NULL ELSE order[Len(order)]

\* The tags on the heap are exactly the tags in the list: RemoveFromReadyQueue
\* deletes what it unlinked, and neither leaks a tag nor frees a linked one.
NoLeak == \A t \in Tags : t \in heap <=> Contains(order, t)

\* What PushBack, PopFront and IntrusiveQueue::Remove must keep true of
\* HeadNode, TailNode and the NextProcess links, whatever the order of calls.
ListWellFormed == Linked /\ NoLeak

\* Scheduler::CurrentProcess is null or the head of the list, never a tag
\* that was deleted or one further back: RemoveFromReadyQueue's repair of it
\* and SelectNextProcess's use of it rely on this.
CurrentIsHead == CurrentProcess \in {NULL, HeadNode}

\* The two walks of RemoveFromReadyQueue (FindFirst and IntrusiveQueue::
\* Remove) only dereference allocated tags of the list, and the second, which
\* does not stop at the tail, meets the node before the end.
WalksStayInList ==
    /\ pc = "find" => Node = NULL \/ Contains(order, Node)
    /\ pc = "remove" =>
         /\ Id[Node] = ProcessId
         /\ \E i, j \in 1..Len(order) :
              i < j /\ order[i] = Previous /\ order[j] = Node

\* Every call of RemoveFromReadyQueue returns: its two loops end.
RemoveReturns == pc # "idle" ~> pc = "idle"

\* The list, read front to back, behaves as the queue of Scheduler.tla.
Abstract == INSTANCE Scheduler
    WITH sched <- [ReadyQueue |-> [i \in 1..Len(order) |-> Id[order[i]]],
                   CurrentProcess |-> CurrentProcess # NULL]

\* Refinement: AddToReadyQueue, RemoveFromReadyQueue (the first tag with the
\* id) and SelectNextProcess on the linked list are the operations of the
\* abstract round-robin queue, and return what it returns.
ImplementsScheduler == Abstract!Spec
=============================================================================
