----------------------------- MODULE KernelProofs -----------------------------
(***************************************************************************)
(* The properties of the kernel's processes and queues, for every size of  *)
(* the process table, every set of signals and whatever the programs do.   *)
(***************************************************************************)
EXTENDS KernelLemmas

-----------------------------------------------------------------------------
(* The invariant                                                           *)

\* A process that is on the processor without being RUNNING (it was killed or
\* stopped there) executes no system call.
CpuInCall(s) == s.Status[s.cpu] # "RUNNING" => s.Call[s.cpu].call = "user"

\* The kernel is in the middle of a loop only while no kernel stack is in use on
\* the processor; the process it is about may be run, or signalled.
LoopSound(s) ==
    /\ s.Loop.op # "none" => s.Call[s.cpu].call = "user"
    /\ s.Loop.op = "mouse" => s.Loop.index \in ProcessIds /\ s.Status[s.Loop.index] # "BLOCKED"
    /\ s.Loop.op = "dispatch" => s.Loop.index \in UserIds

Orderly(s) == Base(s) /\ CpuInCall(s) /\ LoopSound(s)

KernelInv == Orderly(k)

-----------------------------------------------------------------------------
(* When the invariant holds after a call                                   *)

\* A state in which the executing process is in its program is orderly.
LEMMA UserOrderly ==
    ASSUME NEW t, Base(t), t.Call[t.cpu].call = "user", t.Loop.op = "none"
    PROVE  Orderly(t)
  BY DEF Orderly, CpuInCall, LoopSound

\* A state in which the executing process is RUNNING is orderly.
LEMMA RunningOrderly ==
    ASSUME NEW t, Base(t), t.Status[t.cpu] = "RUNNING", t.Loop.op = "none"
    PROVE  Orderly(t)
  BY DEF Orderly, CpuInCall, LoopSound

\* A call that keeps the processor with a program, or with the loop it is in.
LEMMA KeptOrderly ==
    ASSUME NEW s, Base(s), LoopSound(s), s.Call[s.cpu].call = "user", s.Loop.op # "mouse",
           NEW t, Base(t), Kept(s, t)
    PROVE  Orderly(t)
<1>1. s.cpu \in ProcessIds
  BY DEF Base, KernelState
<1>2. t.Call[t.cpu].call = "user" /\ t.Loop = s.Loop
  BY <1>1, UserFrameType DEF Kept
<1> QED
  BY <1>2 DEF Orderly, CpuInCall, LoopSound

\* Schedule leaves an orderly state.
LEMMA ScheduledOrderly ==
    ASSUME NEW s, Base(s), CpuInCall(s), s.Loop.op = "none", NEW t, t = Schedule(s)
    PROVE  Orderly(t)
<1>1. Base(t) /\ Scheduled(s, t)
  BY ScheduleBase
<1>2. t.Status[t.cpu] = "RUNNING" \/ (t.Status[t.cpu] # "RUNNING" => t.Call[t.cpu].call = "user")
  BY <1>1 DEF Scheduled, CpuInCall
<1> QED
  BY <1>1, <1>2 DEF Orderly, CpuInCall, LoopSound, Scheduled

\* Blocking the running process leaves an orderly state.
LEMMA BlockedOrderly ==
    ASSUME NEW s, NEW t, NEW p, NEW frame, Base(t), Blocked(s, t, p, frame), s.Loop.op = "none"
    PROVE  Orderly(t)
<1>1. t.Loop = s.Loop /\ t.Status[t.cpu] = "RUNNING"
  BY FieldNames DEF Blocked, Same, SwitchFields
<1> QED
  BY <1>1, RunningOrderly

\* The fields the invariant does not look at.
SideFields == Fields \ (BaseFields \cup {"Loop", "halted"})

\* The fields that neither status nor queues depend on.
LEMMA SideFieldNames ==
    /\ SideFields \subseteq Fields
    /\ "ParrentId" \in SideFields
    /\ "AddressSpace" \in SideFields
    /\ "VforkChildId" \in SideFields
    /\ "VforkParentId" \in SideFields
    /\ "WaitingForChild" \in SideFields
    /\ "PendingChildId" \in SideFields
    /\ "InterruptedBySignal" \in SideFields
    /\ "SignalActions" \in SideFields
    /\ "TimerInterval" \in SideFields
    /\ "FutexWaitQueue" \in SideFields
    /\ "PageTable" \in SideFields
    /\ "Allocated" \in SideFields
    /\ "TTYReadable" \in SideFields
    /\ "EventsPending" \in SideFields
    /\ "EventWaiters" \in SideFields
  BY DEF SideFields, Fields, BaseFields

\* A change of such fields keeps status and queues in agreement.
LEMMA SideFieldsKept ==
    ASSUME NEW s, Base(s), NEW t \in KernelState, NEW F, F \subseteq SideFields, Same(s, t, F)
    PROVE  Base(t) /\ Kept(s, t)
<1>1. F \cap (BaseFields \cup {"Loop", "halted"}) = {}
  BY DEF SideFields
<1> QED
  BY <1>1, SideFieldsBase

\* An assignment to one of them does so, too.
LEMMA SideFieldWritten ==
    ASSUME NEW s, Base(s), NEW f \in SideFields, NEW v \in TypeOf(f), NEW t,
           t = [s EXCEPT ![f] = v]
    PROVE  Base(t) /\ Kept(s, t) /\ Same(s, t, {f}) /\ t[f] = v
<1>1. s \in KernelState /\ f \in Fields
  BY SideFieldNames DEF Base
<1>2. Same(s, t, {f}) /\ t[f] = v /\ t \in KernelState
  <2>1. IsState(s) /\ Typed(s)
    BY <1>1, StateOf
  <2>2. Same(s, t, {f}) /\ t[f] = v
    BY <1>1, <2>1 DEF Same, IsState
  <2> QED
    BY <2>1, <2>2, SameTyped, TypedIsKernelState
<1>3. {f} \subseteq SideFields
  OBVIOUS
<1> QED
  BY <1>2, <1>3, SideFieldsKept

\* The kernel enters, leaves or goes on with a loop.
LEMMA LoopWritten ==
    ASSUME NEW s, Base(s), NEW v \in Loops, NEW t, t = [s EXCEPT !.Loop = v]
    PROVE  Base(t) /\ Same(s, t, {"Loop"}) /\ t.Loop = v
<1>1. s \in KernelState
  BY DEF Base
<1>2. v \in TypeOf("Loop") /\ "Loop" \in Fields
  BY FieldNames DEF TypeOf
<1>3. Same(s, t, {"Loop"}) /\ t.Loop = v /\ t \in KernelState
  BY <1>1, <1>2, FieldReplaced
<1>4. \A f \in BaseFields : t[f] = s[f]
  BY <1>3 DEF Same, BaseFields, Fields
<1> QED
  BY <1>3, <1>4, BaseFrame

\* The value of Loop between interrupts.
LEMMA NoLoopType == NoLoop \in Loops /\ NoLoop.op = "none"
  BY TableAssumption DEF NoLoop, Loops

\* The system call of p returns.
LEMMA ReturnBase ==
    ASSUME NEW s, Base(s), NEW p \in ProcessIds, NEW t, t = Return(s, p)
    PROVE  Base(t) /\ Kept(s, t) /\ Same(s, t, {"Call"}) /\ t.Call = [s.Call EXCEPT ![p] = UserFrame]
<1>1. s \in KernelState /\ s.Call \in [ProcessIds -> Frames]
  BY DEF Base, KernelState
<1>2. PICK g : g = [s.Call EXCEPT ![p] = UserFrame]
  OBVIOUS
<1>3. g \in TypeOf("Call") /\ "Call" \in Fields
  BY <1>1, <1>2, EntryWritten, UserFrameType, FieldNames DEF TypeOf
<1>4. t = [s EXCEPT !.Call = g]
  BY <1>2 DEF Return
<1>5. t \in KernelState /\ Same(s, t, {"Call"}) /\ t.Call = g
  BY <1>1, <1>3, <1>4, FieldReplaced
<1>6. /\ t.Status = s.Status /\ t.ReadyQueue = s.ReadyQueue /\ t.cpu = s.cpu
      /\ t.CurrentProcessId = s.CurrentProcessId /\ t.SleepQueue = s.SleepQueue
      /\ t.TimerRemaining = s.TimerRemaining
      /\ t.HasSavedSignalState = s.HasSavedSignalState
      /\ t.PendingSignalMask = s.PendingSignalMask
      /\ t.BlockedSignalMask = s.BlockedSignalMask
      /\ t.Loop = s.Loop /\ t.halted = s.halted
  BY <1>5, FieldNames DEF Same
<1>7. \A q \in ProcessIds : t.Call[q] \in {s.Call[q], UserFrame}
  BY <1>1, <1>2, <1>5
<1>8. QueueSound(t) /\ RunningOnCpu(t) /\ SleepersBlocked(t) /\ NullAlive(t)
  BY <1>6 DEF Base, QueueSound, RunningOnCpu, SleepersBlocked, NullAlive
<1>9. Quiet(t)
  BY <1>6, <1>7, UserFrameType DEF Base, Quiet, CanDispatch, Deliverable
<1> QED
  BY <1>2, <1>5, <1>6, <1>7, <1>8, <1>9 DEF Base, Kept

-----------------------------------------------------------------------------
(* Creating processes                                                      *)

\* The slot a new process gets is a terminated user process.
LEMMA NewProcess ==
    ASSUME NEW s, Base(s), FreeSlots(s) # {}
    PROVE  NewProcessId(s) \in UserIds /\ s.Status[NewProcessId(s)] = "TERMINATED"
<1>1. FreeSlots(s) \subseteq Nat
  BY NullIsProcess DEF FreeSlots
<1>2. NewProcessId(s) \in FreeSlots(s)
  BY <1>1, MinIsSmallest DEF NewProcessId
<1>3. NewProcessId(s) # NullProcess
  BY <1>2 DEF Base, NullAlive, FreeSlots, Live
<1> QED
  BY <1>2, <1>3 DEF FreeSlots, Live, UserIds

\* The child is READY, but not in the ready queue yet.
Unqueued(s, t, child) ==
    /\ BaseButQueue(t, child) /\ Kept(s, t)
    /\ t.Status = [s.Status EXCEPT ![child] = "READY"]
    /\ child \notin Range(t.ReadyQueue)
    /\ t.Call[child] = UserFrame

\* A slot that InitializeProcessEntry has filled is READY and not in the queue
\* yet.
LEMMA FreshUnqueued ==
    ASSUME NEW s, Base(s), NEW child \in UserIds, s.Status[child] = "TERMINATED",
           NEW space \in Spaces \cup {NULL}, NEW t,
           t = InitializeProcessEntry(s, child, "READY", space)
    PROVE  Unqueued(s, t, child)
<1>1. s \in KernelState /\ child \in ProcessIds /\ child # NullProcess
  BY NullIsProcess DEF Base
<1>2. t \in KernelState /\ Fresh(s, t, child, "READY", space)
  BY <1>1, FreshEffect DEF ProcessStates
<1>3. /\ s.Status \in [ProcessIds -> ProcessStates] /\ s.Call \in [ProcessIds -> Frames]
      /\ s.TimerRemaining \in [ProcessIds -> 0 .. MaxTicks]
      /\ s.HasSavedSignalState \in [ProcessIds -> BOOLEAN]
      /\ s.PendingSignalMask \in [ProcessIds -> SUBSET Signals]
      /\ s.BlockedSignalMask \in [ProcessIds -> SUBSET Signals]
  BY <1>1 DEF KernelState
<1>4. /\ t.ReadyQueue = s.ReadyQueue /\ t.cpu = s.cpu /\ t.SleepQueue = s.SleepQueue
      /\ t.CurrentProcessId = s.CurrentProcessId /\ t.Loop = s.Loop /\ t.halted = s.halted
  BY <1>2, FieldNames DEF Fresh, Same, EntryFields
<1>5. t.Status = [s.Status EXCEPT ![child] = "READY"]
  BY <1>2 DEF Fresh
<1>6. t.Status[child] = "READY" /\ \A q \in ProcessIds \ {child} : t.Status[q] = s.Status[q]
  BY <1>1, <1>3, <1>5
<1>7. t.Call[child] = UserFrame /\ \A q \in ProcessIds \ {child} : t.Call[q] = s.Call[q]
  BY <1>1, <1>2, <1>3 DEF Fresh
<1>8. /\ t.TimerRemaining[child] = 0
      /\ \A q \in ProcessIds \ {child} : t.TimerRemaining[q] = s.TimerRemaining[q]
  BY <1>1, <1>2, <1>3 DEF Fresh
<1>9. \A q \in ProcessIds \ {child} :
        /\ t.HasSavedSignalState[q] = s.HasSavedSignalState[q]
        /\ t.PendingSignalMask[q] = s.PendingSignalMask[q]
        /\ t.BlockedSignalMask[q] = s.BlockedSignalMask[q]
  BY <1>1, <1>2, <1>3 DEF Fresh
<1>10. child \notin Range(t.ReadyQueue) /\ IsInjective(t.ReadyQueue)
  BY <1>4 DEF Base, QueueSound
<1>11. \A q \in ProcessIds \ {child} :
         q \in Range(t.ReadyQueue) <=> t.Status[q] \in {"READY", "RUNNING"}
  BY <1>4, <1>6 DEF Base, QueueSound
<1>12. RunningOnCpu(t)
  BY <1>1, <1>4, <1>6 DEF Base, RunningOnCpu
<1>13. SleepersBlocked(t)
  <2>1. Sleepers(s.SleepQueue) \subseteq ProcessIds
    BY <1>1, SleepersAreProcesses
  <2> QED
    BY <1>4, <1>6, <2>1 DEF Base, SleepersBlocked
<1>14. NullAlive(t)
  BY <1>1, <1>6, <1>8, NullIsProcess DEF Base, NullAlive
<1>15. Quiet(t)
  BY <1>7, <1>9, UserFrameType DEF Base, Quiet, CanDispatch, Deliverable
<1>16. Kept(s, t)
  BY <1>4, <1>7 DEF Kept
<1> QED
  BY <1>2, <1>5, <1>7, <1>10, <1>11, <1>12, <1>13, <1>14, <1>15, <1>16 DEF Unqueued, BaseButQueue

\* What the child inherits, and its links, do not matter to the queues.
LEMMA UnqueuedFrame ==
    ASSUME NEW s, NEW t, NEW child \in UserIds, Unqueued(s, t, child),
           NEW u \in KernelState, NEW F, Same(t, u, F),
           F \subseteq SideFields \cup {"BlockedSignalMask"},
           \A q \in ProcessIds \ {child} : u.BlockedSignalMask[q] = t.BlockedSignalMask[q]
    PROVE  Unqueued(s, u, child)
<1>1. /\ "Status" \notin F /\ "ReadyQueue" \notin F /\ "cpu" \notin F
      /\ "CurrentProcessId" \notin F /\ "SleepQueue" \notin F /\ "TimerRemaining" \notin F
      /\ "Call" \notin F /\ "HasSavedSignalState" \notin F /\ "PendingSignalMask" \notin F
      /\ "Loop" \notin F /\ "halted" \notin F
  BY DEF SideFields, BaseFields
<1>2. /\ u.Status = t.Status /\ u.ReadyQueue = t.ReadyQueue /\ u.cpu = t.cpu
      /\ u.CurrentProcessId = t.CurrentProcessId /\ u.SleepQueue = t.SleepQueue
      /\ u.TimerRemaining = t.TimerRemaining /\ u.Call = t.Call
      /\ u.HasSavedSignalState = t.HasSavedSignalState
      /\ u.PendingSignalMask = t.PendingSignalMask
      /\ u.Loop = t.Loop /\ u.halted = t.halted
  BY <1>1, FieldNames DEF Same
<1>3. Quiet(u)
  BY <1>2, UserFrameType DEF Unqueued, BaseButQueue, Quiet, CanDispatch, Deliverable
<1>4. RunningOnCpu(u) /\ SleepersBlocked(u) /\ NullAlive(u)
  BY <1>2 DEF Unqueued, BaseButQueue, RunningOnCpu, SleepersBlocked, NullAlive
<1> QED
  BY <1>2, <1>3, <1>4 DEF Unqueued, BaseButQueue, Kept

\* What the child takes over from its parent does not change that.
LEMMA InheritUnqueued ==
    ASSUME NEW s, NEW t, NEW child \in UserIds, Unqueued(s, t, child),
           NEW parent \in ProcessIds, NEW u, u = InheritFrom(t, parent, child)
    PROVE  Unqueued(s, u, child)
<1> DEFINE F == {"ParrentId", "BlockedSignalMask", "SignalActions"}
<1>1. t \in KernelState /\ child \in ProcessIds
  BY NullIsProcess DEF Unqueued, BaseButQueue
<1>2. IsState(t) /\ Typed(t)
  BY <1>1, StateOf
<1>3. /\ t.ParrentId \in [ProcessIds -> Ids]
      /\ t.BlockedSignalMask \in [ProcessIds -> SUBSET Signals]
      /\ t.SignalActions \in [ProcessIds -> [Signals -> Handlers]]
  BY <1>1 DEF KernelState
<1>4. /\ Same(t, u, F)
      /\ u.ParrentId = [t.ParrentId EXCEPT ![child] = parent]
      /\ u.BlockedSignalMask = [t.BlockedSignalMask EXCEPT ![child] = t.BlockedSignalMask[parent]]
      /\ u.SignalActions = [t.SignalActions EXCEPT ![child] = t.SignalActions[parent]]
  BY <1>2, FieldNames DEF Same, IsState, InheritFrom
<1>5. /\ u.ParrentId \in [ProcessIds -> Ids]
      /\ u.BlockedSignalMask \in [ProcessIds -> SUBSET Signals]
      /\ u.SignalActions \in [ProcessIds -> [Signals -> Handlers]]
  BY <1>1, <1>3, <1>4, NullIsProcess
<1>6. \A f \in F : u[f] \in TypeOf(f)
  BY <1>5 DEF TypeOf
<1>7. u \in KernelState
  <2> HIDE DEF F
  <2> QED
    BY <1>2, <1>4, <1>6, SameTyped, TypedIsKernelState
<1>8. \A q \in ProcessIds \ {child} : u.BlockedSignalMask[q] = t.BlockedSignalMask[q]
  BY <1>1, <1>3, <1>4
<1>9. F \subseteq SideFields \cup {"BlockedSignalMask"}
  BY SideFieldNames
<1> QED
  <2> HIDE DEF F
  <2> QED
    BY <1>4, <1>7, <1>8, <1>9, UnqueuedFrame

\* AddToReadyQueue and AddProcessToReadyQueue of the child.
LEMMA ChildQueued ==
    ASSUME NEW s, NEW child \in UserIds, NEW u, Unqueued(s, u, child),
           u.Status[child] = "READY",
           NEW t, t = AddToReadyQueue(u, child) \/ t = AddProcessToReadyQueue(u, child)
    PROVE  Base(t) /\ Kept(s, t) /\ t.Status = u.Status
<1>1. u \in KernelState /\ child \in ProcessIds
  BY NullIsProcess DEF Unqueued, BaseButQueue
<1>2. t = AddToReadyQueue(u, child)
  BY DEF AddProcessToReadyQueue, Live
<1>3. /\ t \in KernelState /\ Same(u, t, {"ReadyQueue"})
      /\ Range(t.ReadyQueue) = Range(u.ReadyQueue) \cup {child}
      /\ IsInjective(t.ReadyQueue)
  BY <1>1, <1>2, AddToReadyQueueEffect DEF Unqueued, BaseButQueue
<1>4. /\ t.Status = u.Status /\ t.cpu = u.cpu
      /\ t.CurrentProcessId = u.CurrentProcessId /\ t.SleepQueue = u.SleepQueue
      /\ t.TimerRemaining = u.TimerRemaining /\ t.Call = u.Call
      /\ t.HasSavedSignalState = u.HasSavedSignalState
      /\ t.PendingSignalMask = u.PendingSignalMask
      /\ t.BlockedSignalMask = u.BlockedSignalMask
      /\ t.Loop = u.Loop /\ t.halted = u.halted
  BY <1>3, FieldNames DEF Same
<1>5. QueueSound(t)
  <2>1. u.ReadyQueue \in Seq(ProcessIds)
    BY <1>1 DEF KernelState
  <2>2. Range(u.ReadyQueue) \subseteq ProcessIds
    BY <2>1 DEF Range
  <2> QED
    BY <1>1, <1>3, <1>4, <2>2 DEF Unqueued, BaseButQueue, QueueSound
<1>6. RunningOnCpu(t) /\ SleepersBlocked(t) /\ NullAlive(t)
  BY <1>4 DEF Unqueued, BaseButQueue, RunningOnCpu, SleepersBlocked, NullAlive
<1>7. Quiet(t)
  BY <1>4 DEF Unqueued, BaseButQueue, Quiet, CanDispatch, Deliverable
<1> QED
  BY <1>3, <1>4, <1>5, <1>6, <1>7 DEF Unqueued, Kept, Base

-----------------------------------------------------------------------------
(* The actions of the programs that create processes                       *)

\* A process that makes a call is RUNNING, executes and is in its program.
LEMMA CallingFacts ==
    ASSUME KernelInv, NEW p, NEW c, Calling(p, c)
    PROVE  /\ p \in UserIds /\ p \in ProcessIds /\ c \in SystemCalls
           /\ Base(k) /\ LoopSound(k) /\ k.Status[p] = "RUNNING" /\ k.cpu = p
           /\ k.Call[p].call = "user" /\ k.Loop.op = "none"
  BY NullIsProcess DEF KernelInv, Orderly, Calling, InUserMode

\* A process that goes on with a blocked call is RUNNING and executes.
LEMMA ResumingFacts ==
    ASSUME KernelInv, NEW p \in UserIds, NEW c, c # "user", Resuming(p, c)
    PROVE  /\ p \in ProcessIds
           /\ Base(k) /\ LoopSound(k) /\ k.Status[p] = "RUNNING" /\ k.cpu = p
           /\ k.Call[p].call = c /\ k.Loop.op = "none"
  BY NullIsProcess DEF KernelInv, Orderly, Resuming, CpuInCall

\* What a call leaves behind that keeps the processor with its caller.
LEMMA CallKeeps ==
    ASSUME KernelInv, NEW p, NEW c, Calling(p, c), NEW t, Base(t), Kept(k, t)
    PROVE  Orderly(t)
<1>1. /\ Base(k) /\ LoopSound(k) /\ k.cpu = p /\ k.Call[p].call = "user"
      /\ k.Loop.op = "none"
  BY CallingFacts
<1> QED
  BY <1>1, KeptOrderly

\* A call that returns an error at once preserves the invariant.
LEMMA RejectedSystemCallStep ==
    ASSUME KernelInv, NEW p, RejectedSystemCall(p)
    PROVE  KernelInv'
<1>1. /\ Base(k) /\ LoopSound(k) /\ k.cpu = p /\ k.Call[p].call = "user"
      /\ k.Loop.op = "none"
  BY DEF KernelInv, Orderly, RejectedSystemCall, InUserMode
<1>2. PICK t : t = GetRunningProcess(k)
  OBVIOUS
<1>3. Base(t) /\ Kept(k, t)
  BY <1>1, <1>2, GetRunningBase
<1>4. Orderly(t)
  BY <1>1, <1>3, KeptOrderly
<1> QED
  BY <1>2, <1>4 DEF RejectedSystemCall, KernelInv

\* The entry of a child in a state in which the address space space exists.
LEMMA ChildOf ==
    ASSUME NEW s, Base(s), FreeSlots(s) # {}, NEW parent \in ProcessIds,
           NEW space \in Spaces \cup {NULL}, NEW child, child = NewProcessId(s),
           NEW u, u = InheritFrom(CreateUserProcess(s, space), parent, child)
    PROVE  child \in UserIds /\ Unqueued(s, u, child)
<1>1. child \in UserIds /\ s.Status[child] = "TERMINATED"
  BY NewProcess
<1>2. PICK v : v = CreateUserProcess(s, space)
  OBVIOUS
<1>3. v = InitializeProcessEntry(s, child, "READY", space)
  BY <1>2 DEF CreateUserProcess
<1>4. Unqueued(s, v, child)
  BY <1>1, <1>3, FreshUnqueued
<1>5. u = InheritFrom(v, parent, child)
  BY <1>2
<1> QED
  BY <1>1, <1>4, <1>5, InheritUnqueued

\* A new address space changes neither processes nor free slots.
LEMMA SpaceAllocated ==
    ASSUME NEW s, Base(s), NEW space \in Spaces, NEW t,
           t = [s EXCEPT !.Allocated = @ \cup {space}]
    PROVE  /\ Base(t) /\ Kept(s, t) /\ FreeSlots(t) = FreeSlots(s)
           /\ NewProcessId(t) = NewProcessId(s)
<1>1. s.Allocated \in SUBSET Spaces
  BY DEF Base, KernelState
<1>2. PICK A : A = s.Allocated \cup {space}
  OBVIOUS
<1>3. A \in TypeOf("Allocated")
  BY <1>1, <1>2 DEF TypeOf
<1>4. t = [s EXCEPT !.Allocated = A]
  BY <1>2
<1>5. Base(t) /\ Kept(s, t) /\ Same(s, t, {"Allocated"})
  BY <1>3, <1>4, SideFieldNames, SideFieldWritten
<1>6. t.Status = s.Status
  BY <1>5, FieldNames DEF Same
<1> QED
  BY <1>5, <1>6 DEF FreeSlots, NewProcessId, Live

\* fork preserves the invariant.
LEMMA ForkStep ==
    ASSUME KernelInv, NEW p, Fork(p)
    PROVE  KernelInv'
<1>1. Calling(p, "fork") /\ FreeSlots(k) # {}
  BY DEF Fork
<1>2. p \in ProcessIds /\ Base(k)
  BY <1>1, CallingFacts
<1>3. PICK space \in Spaces :
        k' = AddToReadyQueue(InheritFrom(CreateUserProcess(
               [k EXCEPT !.Allocated = @ \cup {space}], space), p, NewProcessId(k)), NewProcessId(k))
  BY DEF Fork
<1>4. PICK s : s = [k EXCEPT !.Allocated = @ \cup {space}]
  OBVIOUS
<1>5. Base(s) /\ Kept(k, s) /\ FreeSlots(s) = FreeSlots(k) /\ NewProcessId(s) = NewProcessId(k)
  BY <1>2, <1>4, SpaceAllocated
<1>6. PICK child : child = NewProcessId(k)
  OBVIOUS
<1>7. PICK u : u = InheritFrom(CreateUserProcess(s, space), p, child)
  OBVIOUS
<1>8. child \in UserIds /\ Unqueued(s, u, child)
  BY <1>1, <1>2, <1>5, <1>6, <1>7, ChildOf
<1>9. PICK t : t = AddToReadyQueue(u, child)
  OBVIOUS
<1>10. u.Status[child] = "READY"
  BY <1>5, <1>8, NullIsProcess DEF Unqueued, Base, KernelState
<1>11. Base(t) /\ Kept(s, t)
  BY <1>8, <1>9, <1>10, ChildQueued
<1>12. Orderly(t)
  BY <1>1, <1>5, <1>11, KeptComposes, CallKeeps
<1>13. k' = t
  BY <1>3, <1>4, <1>6, <1>7, <1>9
<1> QED
  BY <1>12, <1>13 DEF KernelInv

\* fork that has to kill its half-made child preserves the invariant.
LEMMA ForkFailsStep ==
    ASSUME KernelInv, NEW p, ForkFails(p)
    PROVE  KernelInv'
<1>1. Calling(p, "forkfail") /\ FreeSlots(k) # {}
  BY DEF ForkFails
<1>2. p \in ProcessIds /\ Base(k)
  BY <1>1, CallingFacts
<1>3. PICK space \in Spaces :
        k' = KillProcess(InheritFrom(CreateUserProcess(
               [k EXCEPT !.Allocated = @ \cup {space}], space), p, NewProcessId(k)), NewProcessId(k))
  BY DEF ForkFails
<1>4. PICK s : s = [k EXCEPT !.Allocated = @ \cup {space}]
  OBVIOUS
<1>5. Base(s) /\ Kept(k, s) /\ FreeSlots(s) = FreeSlots(k) /\ NewProcessId(s) = NewProcessId(k)
  BY <1>2, <1>4, SpaceAllocated
<1>6. PICK child : child = NewProcessId(k)
  OBVIOUS
<1>7. PICK u : u = InheritFrom(CreateUserProcess(s, space), p, child)
  OBVIOUS
<1>8. child \in UserIds /\ Unqueued(s, u, child)
  BY <1>1, <1>2, <1>5, <1>6, <1>7, ChildOf
<1>9. PICK t : t = KillProcess(u, child)
  OBVIOUS
<1>10. Base(t) /\ Kept(u, t)
  BY <1>8, <1>9, KillUnqueuedBase DEF Unqueued
<1>11. Orderly(t)
  BY <1>1, <1>5, <1>8, <1>10, KeptComposes, CallKeeps DEF Unqueued
<1>12. k' = t
  BY <1>3, <1>4, <1>6, <1>7, <1>9
<1> QED
  BY <1>11, <1>12 DEF KernelInv

\* clone of a thread preserves the invariant.
LEMMA CloneThreadStep ==
    ASSUME KernelInv, NEW p, CloneThread(p)
    PROVE  KernelInv'
<1>1. Calling(p, "clone") /\ FreeSlots(k) # {}
  BY DEF CloneThread
<1>2. p \in ProcessIds /\ Base(k)
  BY <1>1, CallingFacts
<1>3. PICK child : child = NewProcessId(k)
  OBVIOUS
<1>4. PICK u : u = InheritFrom(CreateUserProcess(k, k.AddressSpace[p]), p, child)
  OBVIOUS
<1>5. k.AddressSpace[p] \in Spaces \cup {NULL}
  BY <1>2 DEF Base, KernelState
<1>6. child \in UserIds /\ Unqueued(k, u, child)
  BY <1>1, <1>2, <1>3, <1>4, <1>5, ChildOf
<1>7. PICK t : t = AddProcessToReadyQueue(u, child)
  OBVIOUS
<1>8. u.Status[child] = "READY"
  BY <1>2, <1>6, NullIsProcess DEF Unqueued, Base, KernelState
<1>9. Base(t) /\ Kept(k, t)
  BY <1>6, <1>7, <1>8, ChildQueued
<1>10. Orderly(t)
  BY <1>1, <1>9, CallKeeps
<1>11. k' = t
  BY <1>3, <1>4, <1>7 DEF CloneThread
<1> QED
  BY <1>10, <1>11 DEF KernelInv

\* The frames of the blocking calls.
LEMMA FrameTypes ==
    /\ \A c \in Calls : [UserFrame EXCEPT !.call = c] \in Frames /\ [UserFrame EXCEPT !.call = c].call = c
    /\ \A pid \in Ids : /\ [UserFrame EXCEPT !.call = "wait", !.pid = pid] \in Frames
                        /\ [UserFrame EXCEPT !.call = "wait", !.pid = pid].call = "wait"
    /\ \A mask \in SUBSET Signals :
         /\ [UserFrame EXCEPT !.call = "sigsuspend", !.mask = mask] \in Frames
         /\ [UserFrame EXCEPT !.call = "sigsuspend", !.mask = mask].call = "sigsuspend"
<1>1. UserFrame \in Frames
  BY UserFrameType
<1>2. {"wait", "sigsuspend"} \subseteq Calls
  BY DEF Calls
<1> QED
  BY <1>1, <1>2 DEF Frames

\* The frame of a futex wait.
LEMMA FutexFrameType ==
    ASSUME NEW key \in Spaces \cup {NULL}, NEW ticks \in 0 .. MaxTicks, NEW frame,
           frame = [UserFrame EXCEPT !.call = "futex", !.key = key, !.ticks = ticks]
    PROVE  frame \in Frames /\ frame.call = "futex"
<1>1. UserFrame \in Frames
  BY UserFrameType
<1>2. "futex" \in Calls
  BY DEF Calls
<1> QED
  BY <1>1, <1>2 DEF Frames

\* The caller is blocked, after something that keeps its Status.
LEMMA CallBlocks ==
    ASSUME KernelInv, NEW p, NEW c, Calling(p, c), NEW s, Base(s), s.Status[p] = "RUNNING",
           s.Loop = k.Loop, NEW frame \in Frames,
           frame.call = "sigsuspend" => ~CanDispatch(s, p),
           NEW t, t = BlockProcess(s, p, frame)
    PROVE  Orderly(t)
<1>1. p \in UserIds /\ k.Loop.op = "none"
  BY CallingFacts
<1>2. BaseBut(s, p)
  BY BaseIsBaseBut
<1>3. Base(t) /\ Blocked(s, t, p, frame)
  BY <1>1, <1>2, BlockBase
<1> QED
  BY <1>1, <1>3, BlockedOrderly

\* The vfork link does not change that the child is not in the queue yet.
LEMMA Linked ==
    ASSUME NEW s, NEW u, NEW child \in UserIds, Unqueued(s, u, child),
           NEW p \in ProcessIds, NEW t,
           t = [u EXCEPT !.VforkChildId[p] = child, !.VforkParentId[child] = p]
    PROVE  Unqueued(s, t, child)
<1> DEFINE F == {"VforkChildId", "VforkParentId"}
<1>1. u \in KernelState /\ child \in ProcessIds
  BY NullIsProcess DEF Unqueued, BaseButQueue
<1>2. IsState(u) /\ Typed(u)
  BY <1>1, StateOf
<1>3. /\ u.VforkChildId \in [ProcessIds -> Ids]
      /\ u.VforkParentId \in [ProcessIds -> Ids]
  BY <1>1 DEF KernelState
<1>4. /\ Same(u, t, F)
      /\ t.VforkChildId = [u.VforkChildId EXCEPT ![p] = child]
      /\ t.VforkParentId = [u.VforkParentId EXCEPT ![child] = p]
  BY <1>2, FieldNames DEF Same, IsState
<1>5. /\ t.VforkChildId \in [ProcessIds -> Ids]
      /\ t.VforkParentId \in [ProcessIds -> Ids]
  BY <1>1, <1>3, <1>4, NullIsProcess
<1>6. \A f \in F : t[f] \in TypeOf(f)
  BY <1>5 DEF TypeOf
<1>7. t \in KernelState
  <2> HIDE DEF F
  <2> QED
    BY <1>2, <1>4, <1>6, SameTyped, TypedIsKernelState
<1>8. t.BlockedSignalMask = u.BlockedSignalMask
  BY <1>4, FieldNames DEF Same
<1>9. F \subseteq SideFields \cup {"BlockedSignalMask"}
  BY SideFieldNames
<1> QED
  <2> HIDE DEF F
  <2> QED
    BY <1>4, <1>7, <1>8, <1>9, UnqueuedFrame

\* vfork preserves the invariant: the parent blocks and the child is READY.
LEMMA VforkStep ==
    ASSUME KernelInv, NEW p, Vfork(p)
    PROVE  KernelInv'
<1>1. Calling(p, "vfork") /\ FreeSlots(k) # {}
  BY DEF Vfork
<1>2. p \in ProcessIds /\ Base(k) /\ k.Status[p] = "RUNNING"
  BY <1>1, CallingFacts
<1>3. PICK child : child = NewProcessId(k)
  OBVIOUS
<1>4. PICK u : u = InheritFrom(CreateUserProcess(k, k.AddressSpace[p]), p, child)
  OBVIOUS
<1>5. k.AddressSpace[p] \in Spaces \cup {NULL}
  BY <1>2 DEF Base, KernelState
<1>6. child \in UserIds /\ Unqueued(k, u, child) /\ k.Status[child] = "TERMINATED"
  BY <1>1, <1>2, <1>3, <1>4, <1>5, ChildOf, NewProcess
<1>7. PICK v : v = [u EXCEPT !.VforkChildId[p] = child, !.VforkParentId[child] = p]
  OBVIOUS
<1>8. Unqueued(k, v, child)
  BY <1>2, <1>6, <1>7, Linked
<1>9. PICK s : s = AddProcessToReadyQueue(v, child)
  OBVIOUS
<1>10. v.Status[child] = "READY" /\ v.Status[p] = "RUNNING"
  BY <1>2, <1>6, <1>8, NullIsProcess DEF Unqueued, Base, KernelState
<1>11. Base(s) /\ Kept(k, s) /\ s.Status = v.Status
  BY <1>6, <1>8, <1>9, <1>10, ChildQueued
<1>12. PICK frame : frame = [UserFrame EXCEPT !.call = "vfork"]
  OBVIOUS
<1>13. frame \in Frames /\ frame.call = "vfork"
  BY <1>12, FrameTypes DEF Calls
<1>14. PICK t : t = BlockProcess(s, p, frame)
  OBVIOUS
<1>15. Orderly(t)
  BY <1>1, <1>10, <1>11, <1>13, <1>14, CallBlocks DEF Kept
<1>16. k' = t
  BY <1>3, <1>4, <1>7, <1>9, <1>12, <1>14 DEF Vfork
<1> QED
  BY <1>15, <1>16 DEF KernelInv

-----------------------------------------------------------------------------
(* The actions of the programs that replace and end processes              *)

\* Releasing a vfork parent keeps status and queues in agreement.
LEMMA ReleaseVforkParentBase ==
    ASSUME NEW s, Base(s), NEW child, NEW parent \in Ids, NEW t,
           t = ReleaseVforkParent(s, child, parent)
    PROVE  Base(t) /\ Kept(s, t)
<1>1. CASE parent = INVALID \/ ~Live(s, parent)
  <2>1. t = s
    BY <1>1 DEF ReleaseVforkParent
  <2> QED
    BY <2>1, KeptSame
<1>2. CASE parent # INVALID /\ Live(s, parent)
  <2>1. parent \in ProcessIds
    BY <1>2 DEF Ids
  <2>2. s.VforkChildId \in [ProcessIds -> Ids]
    BY DEF Base, KernelState
  <2>3. PICK g : g = [s.VforkChildId EXCEPT ![parent] = INVALID]
    OBVIOUS
  <2>4. g \in TypeOf("VforkChildId")
    BY <2>1, <2>2, <2>3 DEF TypeOf, Ids
  <2>5. PICK u : u = [s EXCEPT !.VforkChildId = g]
    OBVIOUS
  <2>6. Base(u) /\ Kept(s, u)
    BY <2>4, <2>5, SideFieldNames, SideFieldWritten
  <2>7. t = u \/ t = UnblockProcess(u, parent)
    BY <1>2, <2>3, <2>5 DEF ReleaseVforkParent
  <2>8. CASE t = u
    BY <2>6, <2>8
  <2>9. CASE t = UnblockProcess(u, parent)
    BY <2>1, <2>6, <2>9, UnblockBase, KeptComposes
  <2> QED
    BY <2>7, <2>8, <2>9
<1> QED
  BY <1>1, <1>2

\* exit_group preserves the invariant: the caller dies and another process
\* runs.
LEMMA ExitGroupStep ==
    ASSUME KernelInv, NEW p, ExitGroup(p)
    PROVE  KernelInv'
<1>1. Calling(p, "exit")
  BY DEF ExitGroup
<1>2. /\ p \in UserIds /\ p \in ProcessIds /\ Base(k) /\ k.cpu = p
      /\ k.Call[p].call = "user" /\ k.Loop.op = "none"
  BY <1>1, CallingFacts
<1>3. k.VforkParentId[p] \in Ids
  BY <1>2 DEF Base, KernelState
<1>4. PICK s : s = KillProcess(k, p)
  OBVIOUS
<1>5. Base(s) /\ Kept(k, s)
  BY <1>2, <1>4, KillBase
<1>6. PICK u : u = ReleaseVforkParent(s, p, k.VforkParentId[p])
  OBVIOUS
<1>7. Base(u) /\ Kept(s, u)
  BY <1>3, <1>5, <1>6, ReleaseVforkParentBase
<1>8. CpuInCall(u) /\ u.Loop.op = "none"
  BY <1>1, <1>2, <1>5, <1>7, KeptComposes, CallKeeps DEF Kept, Orderly
<1>9. PICK t : t = Schedule(u)
  OBVIOUS
<1>10. Orderly(t)
  BY <1>7, <1>8, <1>9, ScheduledOrderly
<1>11. k' = t
  BY <1>4, <1>6, <1>9 DEF ExitGroup
<1> QED
  BY <1>10, <1>11 DEF KernelInv

\* Replacing the image writes nothing that the queues depend on.
LEMMA ExecveImage ==
    ASSUME NEW s, Base(s), NEW p \in ProcessIds, NEW space \in Spaces,
           NEW actions \in [Signals -> Handlers], NEW t,
           t = [ChangeProcessExecution(s, p, space) EXCEPT
                  !.VforkParentId[p] = INVALID, !.SignalActions[p] = actions]
    PROVE  Base(t) /\ Kept(s, t)
<1> DEFINE F == {"AddressSpace", "PageTable", "Allocated", "VforkParentId", "SignalActions"}
<1>1. s \in KernelState
  BY DEF Base
<1>2. IsState(s) /\ Typed(s)
  BY <1>1, StateOf
<1>3. /\ s.AddressSpace \in [ProcessIds -> Spaces \cup {NULL}]
      /\ s.Allocated \in SUBSET Spaces
      /\ s.VforkParentId \in [ProcessIds -> Ids]
      /\ s.SignalActions \in [ProcessIds -> [Signals -> Handlers]]
  BY <1>1 DEF KernelState
<1>4. PICK gone : gone = IF SharesWithVforkParent(s, p) THEN {} ELSE {s.AddressSpace[p]}
  OBVIOUS
<1>5. PICK u : u = [s EXCEPT !.AddressSpace[p] = space, !.PageTable = space,
                            !.Allocated = (@ \cup {space}) \ gone]
  OBVIOUS
<1>6. u = ChangeProcessExecution(s, p, space)
  BY <1>4, <1>5 DEF ChangeProcessExecution
<1>7. /\ Same(s, u, F)
      /\ u.AddressSpace = [s.AddressSpace EXCEPT ![p] = space]
      /\ u.PageTable = space
      /\ u.Allocated = (s.Allocated \cup {space}) \ gone
      /\ u.VforkParentId = s.VforkParentId /\ u.SignalActions = s.SignalActions
  BY <1>2, <1>5, FieldNames DEF Same, IsState
<1>8. t = [u EXCEPT !.VforkParentId[p] = INVALID, !.SignalActions[p] = actions]
  BY <1>6
<1>9. /\ Same(u, t, F)
      /\ t.AddressSpace = u.AddressSpace /\ t.PageTable = u.PageTable
      /\ t.Allocated = u.Allocated
      /\ t.VforkParentId = [u.VforkParentId EXCEPT ![p] = INVALID]
      /\ t.SignalActions = [u.SignalActions EXCEPT ![p] = actions]
  BY <1>7, <1>8, FieldNames DEF Same, IsState
<1>10. Same(s, t, F)
  BY <1>7, <1>9 DEF Same
<1>11. /\ t.AddressSpace \in [ProcessIds -> Spaces \cup {NULL}]
       /\ t.PageTable \in Spaces \cup {NULL}
       /\ t.Allocated \in SUBSET Spaces
       /\ t.VforkParentId \in [ProcessIds -> Ids]
       /\ t.SignalActions \in [ProcessIds -> [Signals -> Handlers]]
  <2>1. INVALID \in Ids
    BY DEF Ids
  <2>2. t.AddressSpace \in [ProcessIds -> Spaces \cup {NULL}]
    BY <1>3, <1>7, <1>9
  <2>3. t.PageTable \in Spaces \cup {NULL} /\ t.Allocated \in SUBSET Spaces
    BY <1>3, <1>7, <1>9
  <2>4. t.VforkParentId \in [ProcessIds -> Ids]
    <3>1. PICK g : g = [s.VforkParentId EXCEPT ![p] = INVALID]
      OBVIOUS
    <3>2. g \in [ProcessIds -> Ids]
      BY <1>3, <2>1, <3>1
    <3> QED
      BY <1>7, <1>9, <3>1, <3>2
  <2>5. t.SignalActions \in [ProcessIds -> [Signals -> Handlers]]
    <3> DEFINE S == [Signals -> Handlers]
    <3>1. actions \in S /\ s.SignalActions \in [ProcessIds -> S]
      BY <1>3
    <3> HIDE DEF S
    <3>2. PICK g : g = [s.SignalActions EXCEPT ![p] = actions]
      OBVIOUS
    <3>3. g \in [ProcessIds -> S]
      BY <3>1, <3>2
    <3>4. t.SignalActions = g
      BY <1>7, <1>9, <3>2
    <3> QED
      BY <3>3, <3>4 DEF S
  <2> QED
    BY <2>2, <2>3, <2>4, <2>5
<1>12. \A f \in F : t[f] \in TypeOf(f)
  BY ZenonT(30), <1>11 DEF TypeOf
<1>13. F \subseteq SideFields
  BY SideFieldNames
<1> QED
  <2> HIDE DEF F
  <2>1. t \in KernelState
    BY <1>2, <1>10, <1>12, SameTyped, TypedIsKernelState
  <2> QED
    BY <1>10, <1>13, <2>1, SideFieldsKept

\* execve preserves the invariant.
LEMMA ExecveStep ==
    ASSUME KernelInv, NEW p, Execve(p)
    PROVE  KernelInv'
<1>1. Calling(p, "execve")
  BY DEF Execve
<1>2. p \in ProcessIds /\ Base(k)
  BY <1>1, CallingFacts
<1>3. PICK space \in Spaces, sameHandlers \in BOOLEAN :
        k' = ReleaseVforkParent(
               [ChangeProcessExecution(k, p, space) EXCEPT
                  !.VforkParentId[p] = INVALID,
                  !.SignalActions[p] =
                     [s \in Signals |->
                        IF ~sameHandlers /\ k.SignalActions[p][s] = "FUNCTION"
                        THEN "BAD" ELSE k.SignalActions[p][s]]],
               p, k.VforkParentId[p])
  BY DEF Execve
<1>4. PICK actions :
        actions = [s \in Signals |->
                     IF ~sameHandlers /\ k.SignalActions[p][s] = "FUNCTION"
                     THEN "BAD" ELSE k.SignalActions[p][s]]
  OBVIOUS
<1>5. actions \in [Signals -> Handlers]
  <2>1. k.SignalActions \in [ProcessIds -> [Signals -> Handlers]]
    BY <1>2 DEF Base, KernelState
  <2>2. k.SignalActions[p] \in [Signals -> Handlers]
    BY <1>2, <2>1
  <2> QED
    BY <1>4, <2>2 DEF Handlers
<1>6. PICK s : s = [ChangeProcessExecution(k, p, space) EXCEPT
                      !.VforkParentId[p] = INVALID, !.SignalActions[p] = actions]
  OBVIOUS
<1>7. Base(s) /\ Kept(k, s)
  BY <1>2, <1>5, <1>6, ExecveImage
<1>8. k.VforkParentId[p] \in Ids
  BY <1>2 DEF Base, KernelState
<1>9. PICK t : t = ReleaseVforkParent(s, p, k.VforkParentId[p])
  OBVIOUS
<1>10. Base(t) /\ Kept(s, t)
  BY <1>7, <1>8, <1>9, ReleaseVforkParentBase
<1>11. Orderly(t)
  BY <1>1, <1>7, <1>10, KeptComposes, CallKeeps
<1>12. k' = t
  BY <1>3, <1>4, <1>6, <1>9
<1> QED
  BY <1>11, <1>12 DEF KernelInv

-----------------------------------------------------------------------------
(* The actions that wait for a child                                       *)

\* The caller of a call that was blocked returns to its program.
LEMMA CallReturns ==
    ASSUME KernelInv, NEW p \in UserIds, NEW c, c # "user", Resuming(p, c),
           NEW s, Base(s), Kept(k, s), NEW t, t = Return(s, p)
    PROVE  Orderly(t)
<1>1. p \in ProcessIds /\ k.cpu = p /\ k.Loop.op = "none"
  BY ResumingFacts
<1>2. Base(t) /\ Kept(s, t) /\ t.Call = [s.Call EXCEPT ![p] = UserFrame]
  BY <1>1, ReturnBase
<1>3. s.Call \in [ProcessIds -> Frames]
  BY DEF Base, KernelState
<1>4. t.cpu = p /\ t.Loop.op = "none" /\ t.Call[p].call = "user"
  BY <1>1, <1>2, <1>3, UserFrameType DEF Kept
<1> QED
  BY <1>2, <1>4, UserOrderly

\* The parent's return from vfork preserves the invariant.
LEMMA ResumeVforkStep ==
    ASSUME KernelInv, NEW p \in UserIds, ResumeVfork(p)
    PROVE  KernelInv'
<1>1. Resuming(p, "vfork") /\ k' = Return(k, p)
  BY DEF ResumeVfork
<1>2. Base(k) /\ Kept(k, k)
  BY <1>1, ResumingFacts, KeptSame
<1>3. PICK t : t = Return(k, p)
  OBVIOUS
<1>4. Orderly(t)
  BY <1>1, <1>2, <1>3, CallReturns
<1> QED
  BY <1>1, <1>3, <1>4 DEF KernelInv

\* The mark of a waiting parent concerns neither status nor queues.
LEMMA WaitingWritten ==
    ASSUME NEW s, Base(s), NEW p \in ProcessIds, NEW x \in BOOLEAN, NEW t,
           t = [s EXCEPT !.WaitingForChild[p] = x]
    PROVE  Base(t) /\ Kept(s, t) /\ t.Status = s.Status
<1>1. s.WaitingForChild \in [ProcessIds -> BOOLEAN]
  BY DEF Base, KernelState
<1>2. PICK g : g = [s.WaitingForChild EXCEPT ![p] = x]
  OBVIOUS
<1>3. g \in TypeOf("WaitingForChild")
  BY <1>1, <1>2, EntryWritten DEF TypeOf
<1>4. t = [s EXCEPT !.WaitingForChild = g]
  BY <1>2
<1>5. Base(t) /\ Kept(s, t) /\ Same(s, t, {"WaitingForChild"})
  BY <1>3, <1>4, SideFieldNames, SideFieldWritten
<1> QED
  BY <1>5, FieldNames DEF Same

\* Taking a child's exit concerns neither status nor queues.
LEMMA ConsumeBase ==
    ASSUME NEW s, Base(s), NEW p \in ProcessIds, NEW t, t = ConsumePendingChild(s, p)
    PROVE  Base(t) /\ Kept(s, t)
<1>1. s.PendingChildId \in [ProcessIds -> Ids]
  BY DEF Base, KernelState
<1>2. PICK g : g = [s.PendingChildId EXCEPT ![p] = INVALID]
  OBVIOUS
<1>3. g \in TypeOf("PendingChildId")
  BY <1>1, <1>2 DEF TypeOf, Ids
<1>4. PICK u : u = [s EXCEPT !.PendingChildId = g]
  OBVIOUS
<1>5. Base(u) /\ Kept(s, u) /\ Same(s, u, {"PendingChildId"})
  BY <1>3, <1>4, SideFieldNames, SideFieldWritten
<1>6. t = [u EXCEPT !.WaitingForChild[p] = FALSE]
  BY <1>2, <1>4 DEF ConsumePendingChild
<1>7. Base(t) /\ Kept(u, t)
  BY <1>5, <1>6, WaitingWritten
<1> QED
  BY <1>5, <1>7, KeptComposes

\* wait4 that finds a child which has exited preserves the invariant.
LEMMA WaitReturnsStep ==
    ASSUME KernelInv, NEW p, WaitReturns(p)
    PROVE  KernelInv'
<1>1. Calling(p, "wait") /\ k' = ConsumePendingChild(k, p)
  BY DEF WaitReturns
<1>2. p \in ProcessIds /\ Base(k)
  BY <1>1, CallingFacts
<1>3. PICK t : t = ConsumePendingChild(k, p)
  OBVIOUS
<1>4. Base(t) /\ Kept(k, t)
  BY <1>2, <1>3, ConsumeBase
<1>5. Orderly(t)
  BY <1>1, <1>4, CallKeeps
<1> QED
  BY <1>1, <1>3, <1>5 DEF KernelInv

\* wait4 that blocks preserves the invariant.
LEMMA WaitBlocksStep ==
    ASSUME KernelInv, NEW p, WaitBlocks(p)
    PROVE  KernelInv'
<1>1. Calling(p, "wait")
  BY DEF WaitBlocks
<1>2. p \in ProcessIds /\ Base(k) /\ k.Status[p] = "RUNNING"
  BY <1>1, CallingFacts
<1>3. PICK pid \in Ids :
        k' = BlockProcess([k EXCEPT !.WaitingForChild[p] = TRUE], p,
                          [UserFrame EXCEPT !.call = "wait", !.pid = pid])
  BY DEF WaitBlocks
<1>4. PICK s : s = [k EXCEPT !.WaitingForChild[p] = TRUE]
  OBVIOUS
<1>5. Base(s) /\ Kept(k, s) /\ s.Status = k.Status
  BY <1>2, <1>4, WaitingWritten
<1>6. PICK frame : frame = [UserFrame EXCEPT !.call = "wait", !.pid = pid]
  OBVIOUS
<1>7. frame \in Frames /\ frame.call = "wait"
  BY <1>6, FrameTypes
<1>8. PICK t : t = BlockProcess(s, p, frame)
  OBVIOUS
<1>9. Orderly(t)
  BY <1>1, <1>2, <1>5, <1>7, <1>8, CallBlocks DEF Kept
<1> QED
  BY <1>3, <1>4, <1>6, <1>8, <1>9 DEF KernelInv

\* wait4 that goes on after a child's exit or a signal preserves the
\* invariant.
LEMMA ResumeWaitStep ==
    ASSUME KernelInv, NEW p \in UserIds, ResumeWait(p)
    PROVE  KernelInv'
<1>1. Resuming(p, "wait")
  BY DEF ResumeWait
<1>2. p \in ProcessIds /\ Base(k)
  BY <1>1, ResumingFacts
<1>3. PICK s : s = IF CanConsume(k, p, k.Call[p].pid) THEN ConsumePendingChild(k, p)
                   ELSE [k EXCEPT !.WaitingForChild[p] = FALSE]
  OBVIOUS
<1>4. Base(s) /\ Kept(k, s)
  <2>1. CASE CanConsume(k, p, k.Call[p].pid)
    <3>1. s = ConsumePendingChild(k, p)
      BY <1>3, <2>1
    <3> QED
      BY <1>2, <3>1, ConsumeBase
  <2>2. CASE ~CanConsume(k, p, k.Call[p].pid)
    <3>1. s = [k EXCEPT !.WaitingForChild[p] = FALSE]
      BY <1>3, <2>2
    <3> QED
      BY <1>2, <3>1, WaitingWritten
  <2> QED
    BY <2>1, <2>2
<1>5. PICK t : t = Return(s, p)
  OBVIOUS
<1>6. Orderly(t)
  BY <1>1, <1>4, <1>5, CallReturns
<1> QED
  BY <1>3, <1>5, <1>6 DEF KernelInv, ResumeWait

-----------------------------------------------------------------------------
(* The actions that sleep and that wait on futexes                         *)

\* SleepProcess leaves an orderly state: a tag of its own, then BLOCKED.
LEMMA SleepOrderly ==
    ASSUME NEW s, Base(s), NEW p \in UserIds, s.Status[p] = "RUNNING", s.Loop.op = "none",
           NEW ticks \in 0 .. MaxTicks, NEW frame \in Frames, frame.call # "sigsuspend",
           NEW t, t = SleepProcess(s, p, ticks, frame)
    PROVE  Orderly(t)
<1>1. Base(t)
  BY SleepBase
<1>2. PICK u : Same(s, u, {"SleepQueue"}) /\ Blocked(u, t, p, frame)
  BY SleepBase
<1>3. u.Loop.op = "none"
  BY <1>2, FieldNames DEF Same
<1> QED
  BY <1>1, <1>2, <1>3, BlockedOrderly

\* BlockProcess leaves an orderly state.
LEMMA BlockOrderly ==
    ASSUME NEW s, Base(s), NEW p \in UserIds, s.Status[p] = "RUNNING", s.Loop.op = "none",
           NEW frame \in Frames, frame.call # "sigsuspend",
           NEW t, t = BlockProcess(s, p, frame)
    PROVE  Orderly(t)
<1>1. BaseBut(s, p)
  BY BaseIsBaseBut
<1>2. Base(t) /\ Blocked(s, t, p, frame)
  BY <1>1, BlockBase
<1> QED
  BY <1>2, BlockedOrderly

\* nanosleep preserves the invariant.
LEMMA NanosleepStep ==
    ASSUME KernelInv, NEW p, Nanosleep(p)
    PROVE  KernelInv'
<1>1. Calling(p, "nanosleep")
  BY DEF Nanosleep
<1>2. /\ p \in UserIds /\ p \in ProcessIds /\ Base(k) /\ k.Status[p] = "RUNNING"
      /\ k.Loop.op = "none"
  BY <1>1, CallingFacts
<1>3. ASSUME NEW ticks \in 1 .. MaxTicks,
             k' = SleepProcess(k, p, ticks, [UserFrame EXCEPT !.call = "nanosleep"])
      PROVE  KernelInv'
  <2>1. PICK frame : frame = [UserFrame EXCEPT !.call = "nanosleep"]
    OBVIOUS
  <2>2. frame \in Frames /\ frame.call = "nanosleep"
    BY <2>1, FrameTypes DEF Calls
  <2>3. PICK t : t = SleepProcess(k, p, ticks, frame)
    OBVIOUS
  <2>4. ticks \in 0 .. MaxTicks
    BY TickAssumption
  <2>5. Orderly(t)
    BY <1>2, <2>2, <2>3, <2>4, SleepOrderly
  <2> QED
    BY <1>3, <2>1, <2>3, <2>5 DEF KernelInv
<1>4. ASSUME k' = [k EXCEPT !.InterruptedBySignal[p] = FALSE]
      PROVE  KernelInv'
  <2>1. PICK t : InterruptedWritten(k, t, p, FALSE)
    BY DEF InterruptedWritten
  <2>2. Base(t) /\ Kept(k, t)
    BY <1>2, <2>1, InterruptedBase
  <2>3. Orderly(t)
    BY <1>1, <2>2, CallKeeps
  <2> QED
    BY <1>4, <2>1, <2>3 DEF KernelInv, InterruptedWritten
<1> QED
  BY <1>3, <1>4 DEF Nanosleep

\* The return from nanosleep preserves the invariant.
LEMMA ResumeNanosleepStep ==
    ASSUME KernelInv, NEW p \in UserIds, ResumeNanosleep(p)
    PROVE  KernelInv'
<1>1. Resuming(p, "nanosleep")
  BY DEF ResumeNanosleep
<1>2. p \in ProcessIds /\ Base(k)
  BY <1>1, ResumingFacts
<1>3. PICK s : InterruptedWritten(k, s, p, FALSE)
  BY DEF InterruptedWritten
<1>4. Base(s) /\ Kept(k, s)
  BY <1>2, <1>3, InterruptedBase
<1>5. PICK t : t = Return(s, p)
  OBVIOUS
<1>6. Orderly(t)
  BY <1>1, <1>4, <1>5, CallReturns
<1> QED
  BY <1>3, <1>5, <1>6 DEF KernelInv, ResumeNanosleep, InterruptedWritten

\* The futex queue is written: nothing the invariant looks at.
LEMMA FutexQueueWritten ==
    ASSUME NEW s, Base(s), NEW q, q \in TypeOf("FutexWaitQueue"), NEW t,
           t = [s EXCEPT !.FutexWaitQueue = q]
    PROVE  Base(t) /\ Kept(s, t) /\ t.Status = s.Status
<1>1. Base(t) /\ Kept(s, t) /\ Same(s, t, {"FutexWaitQueue"})
  BY SideFieldNames, SideFieldWritten
<1> QED
  BY <1>1, FieldNames DEF Same

\* Entering a futex queue concerns neither status nor ready queue.
LEMMA AddFutexWaiterBase ==
    ASSUME NEW s, Base(s), NEW p \in ProcessIds, NEW key \in Spaces \cup {NULL}, NEW t,
           t = AddFutexWaiter(s, p, key)
    PROVE  Base(t) /\ Kept(s, t) /\ t.Status = s.Status
<1> DEFINE S == [Id : ProcessIds, Key : Spaces \cup {NULL}]
<1>1. s.FutexWaitQueue \in Seq(S)
  BY DEF Base, KernelState
<1>2. PICK tag \in S : tag = [Id |-> p, Key |-> key]
  OBVIOUS
<1>3. PICK K : K = {i \in DOMAIN s.FutexWaitQueue : s.FutexWaitQueue[i].Id # p}
  OBVIOUS
<1>4. PICK q : q = Append(Compacted(s.FutexWaitQueue, K), tag)
  OBVIOUS
<1>5. q \in Seq(S)
  <2> HIDE DEF S
  <2>1. K \subseteq DOMAIN s.FutexWaitQueue
    BY <1>3
  <2>2. Compacted(s.FutexWaitQueue, K) \in Seq(S)
    BY <1>1, <2>1, CompactedElements
  <2> QED
    BY <1>4, <2>2
<1>6. q \in TypeOf("FutexWaitQueue")
  BY <1>5 DEF TypeOf
<1>7. t = [s EXCEPT !.FutexWaitQueue = q]
  BY <1>2, <1>3, <1>4 DEF AddFutexWaiter
<1> QED
  BY <1>6, <1>7, FutexQueueWritten

\* Leaving a futex queue concerns neither status nor ready queue.
LEMMA RemoveFutexWaiterBase ==
    ASSUME NEW s, Base(s), NEW p, NEW key, NEW t, t = RemoveFutexWaiter(s, p, key)
    PROVE  Base(t) /\ Kept(s, t)
<1> DEFINE S == [Id : ProcessIds, Key : Spaces \cup {NULL}]
<1>1. s.FutexWaitQueue \in Seq(S)
  BY DEF Base, KernelState
<1>2. PICK q : q = RemoveFirst(s.FutexWaitQueue, [Id |-> p, Key |-> key])
  OBVIOUS
<1>3. q \in Seq(S)
  <2> HIDE DEF S
  <2> QED
    BY <1>1, <1>2, RemovedType
<1>4. q \in TypeOf("FutexWaitQueue")
  BY <1>3 DEF TypeOf
<1>5. t = [s EXCEPT !.FutexWaitQueue = q]
  BY <1>2 DEF RemoveFutexWaiter
<1> QED
  BY <1>4, <1>5, FutexQueueWritten

\* A futex wait, with or without time-out, leaves an orderly state.
LEMMA FutexSleepOrderly ==
    ASSUME NEW s, Base(s), NEW p \in UserIds, s.Status[p] = "RUNNING", s.Loop.op = "none",
           NEW key \in Spaces \cup {NULL}, NEW ticks \in 0 .. MaxTicks,
           NEW t, t = FutexSleep(s, p, key, ticks)
    PROVE  Orderly(t)
<1>1. PICK frame : frame = [UserFrame EXCEPT !.call = "futex", !.key = key, !.ticks = ticks]
  OBVIOUS
<1>2. frame \in Frames /\ frame.call = "futex"
  BY <1>1, FutexFrameType
<1>3. CASE ticks > 0
  <2>1. t = SleepProcess(s, p, 1, frame)
    BY <1>1, <1>3 DEF FutexSleep
  <2>2. 1 \in 0 .. MaxTicks
    BY TickAssumption
  <2> QED
    BY <1>2, <2>1, <2>2, SleepOrderly
<1>4. CASE ~(ticks > 0)
  <2>1. t = BlockProcess(s, p, frame)
    BY <1>1, <1>4 DEF FutexSleep
  <2> QED
    BY <1>2, <2>1, BlockOrderly
<1> QED
  BY <1>3, <1>4

\* A futex is keyed by the address space, or by none when it is shared.
LEMMA FutexKeyType ==
    ASSUME Base(k), NEW p \in ProcessIds, NEW private \in BOOLEAN
    PROVE  FutexKey(p, private) \in Spaces \cup {NULL}
  BY DEF Base, KernelState, FutexKey

\* FUTEX_WAIT preserves the invariant.
LEMMA FutexWaitStep ==
    ASSUME KernelInv, NEW p, FutexWait(p)
    PROVE  KernelInv'
<1>1. Calling(p, "futex")
  BY DEF FutexWait
<1>2. /\ p \in UserIds /\ p \in ProcessIds /\ Base(k) /\ k.Status[p] = "RUNNING"
      /\ k.Loop.op = "none"
  BY <1>1, CallingFacts
<1>3. PICK private \in BOOLEAN, ticks \in 0 .. MaxTicks :
        k' = FutexSleep(AddFutexWaiter(k, p, FutexKey(p, private)), p,
                        FutexKey(p, private), ticks)
  BY DEF FutexWait
<1>4. PICK key : key = FutexKey(p, private)
  OBVIOUS
<1>5. key \in Spaces \cup {NULL}
  BY <1>2, <1>4, FutexKeyType
<1>6. PICK s : s = AddFutexWaiter(k, p, key)
  OBVIOUS
<1>7. Base(s) /\ Kept(k, s) /\ s.Status = k.Status
  BY <1>2, <1>5, <1>6, AddFutexWaiterBase
<1>8. PICK t : t = FutexSleep(s, p, key, ticks)
  OBVIOUS
<1>9. s.Status[p] = "RUNNING" /\ s.Loop.op = "none"
  BY <1>2, <1>7 DEF Kept
<1>10. Orderly(t)
  BY <1>2, <1>5, <1>7, <1>8, <1>9, FutexSleepOrderly
<1>11. k' = t
  BY <1>3, <1>4, <1>6, <1>8
<1> QED
  BY <1>10, <1>11 DEF KernelInv

\* FUTEX_WAIT that is woken, timed out or interrupted preserves the invariant.
LEMMA ResumeFutexStep ==
    ASSUME KernelInv, NEW p \in UserIds, ResumeFutex(p)
    PROVE  KernelInv'
<1>1. Resuming(p, "futex")
  BY DEF ResumeFutex
<1>2. /\ p \in ProcessIds /\ Base(k) /\ k.Status[p] = "RUNNING" /\ k.Loop.op = "none"
      /\ Kept(k, k)
  BY <1>1, ResumingFacts, KeptSame
<1>3. PICK key, ticks : key = k.Call[p].key /\ ticks = k.Call[p].ticks
  OBVIOUS
<1>4. key \in Spaces \cup {NULL} /\ ticks \in 0 .. MaxTicks
  <2>1. k.Call[p] \in Frames
    BY <1>2 DEF Base, KernelState
  <2> QED
    BY <1>3, <2>1 DEF Frames
<1>5. PICK removed : removed = RemoveFutexWaiter(k, p, key)
  OBVIOUS
<1>6. Base(removed) /\ Kept(k, removed)
  BY <1>2, <1>5, RemoveFutexWaiterBase
<1>7. PICK fewer : fewer = IF ticks > 1 THEN ticks - 1 ELSE 0
  OBVIOUS
<1>8. fewer \in 0 .. MaxTicks
  BY <1>4, <1>7, TickAssumption
<1>9. \/ k' = Return([removed EXCEPT !.InterruptedBySignal[p] = FALSE], p)
      \/ k' = Return(k, p)
      \/ k' = Return(removed, p)
      \/ k' = FutexSleep(k, p, key, fewer)
  <2>1. PICK eintr \in BOOLEAN : eintr = k.InterruptedBySignal[p]
    <3>1. k.InterruptedBySignal \in [ProcessIds -> BOOLEAN]
      BY <1>2 DEF Base, KernelState
    <3>2. k.InterruptedBySignal[p] \in BOOLEAN
      BY <1>2, <3>1
    <3> QED
      BY <3>2
  <2>2. CASE eintr
    BY <1>3, <1>5, <2>1, <2>2 DEF ResumeFutex
  <2>3. CASE ~eintr /\ ~IsProcessWaitingOnFutex(k, p, key)
    BY <1>3, <1>5, <2>1, <2>3 DEF ResumeFutex
  <2>4. CASE ~eintr /\ IsProcessWaitingOnFutex(k, p, key) /\ ticks = 1
    BY <1>3, <1>5, <2>1, <2>4 DEF ResumeFutex
  <2>5. CASE ~eintr /\ IsProcessWaitingOnFutex(k, p, key) /\ ticks # 1
    BY <1>3, <1>5, <1>7, <2>1, <2>5 DEF ResumeFutex
  <2> QED
    BY <2>2, <2>3, <2>4, <2>5
<1>10. ASSUME k' = Return([removed EXCEPT !.InterruptedBySignal[p] = FALSE], p)
       PROVE  KernelInv'
  <2>1. PICK s : InterruptedWritten(removed, s, p, FALSE)
    BY DEF InterruptedWritten
  <2>2. Base(s) /\ Kept(removed, s)
    BY <1>2, <1>6, <2>1, InterruptedBase
  <2>3. PICK t : t = Return(s, p)
    OBVIOUS
  <2>4. Kept(k, s)
    BY <1>6, <2>2, KeptComposes
  <2>5. Orderly(t)
    BY <1>1, <2>2, <2>3, <2>4, CallReturns
  <2> QED
    BY <1>10, <2>1, <2>3, <2>5 DEF KernelInv, InterruptedWritten
<1>11. ASSUME k' = Return(k, p) \/ k' = Return(removed, p)
       PROVE  KernelInv'
  <2>1. PICK s : Base(s) /\ Kept(k, s) /\ k' = Return(s, p)
    BY <1>2, <1>6, <1>11
  <2>2. PICK t : t = Return(s, p)
    OBVIOUS
  <2>3. Orderly(t)
    BY <1>1, <2>1, <2>2, CallReturns
  <2> QED
    BY <2>1, <2>2, <2>3 DEF KernelInv
<1>12. ASSUME k' = FutexSleep(k, p, key, fewer)
       PROVE  KernelInv'
  <2>1. PICK t : t = FutexSleep(k, p, key, fewer)
    OBVIOUS
  <2>2. Orderly(t)
    BY <1>2, <1>4, <1>8, <2>1, FutexSleepOrderly
  <2> QED
    BY <1>12, <2>1, <2>2 DEF KernelInv
<1> QED
  BY <1>9, <1>10, <1>11, <1>12

\* FUTEX_WAKE preserves the invariant, also when it wakes the tag of a process
\* that is not BLOCKED.
LEMMA FutexWakeStep ==
    ASSUME KernelInv, NEW p, FutexWake(p)
    PROVE  KernelInv'
<1> DEFINE S == [Id : ProcessIds, Key : Spaces \cup {NULL}]
<1>1. Calling(p, "futex")
  BY DEF FutexWake
<1>2. p \in ProcessIds /\ Base(k)
  BY <1>1, CallingFacts
<1>3. k.FutexWaitQueue \in Seq(S)
  BY <1>2 DEF Base, KernelState
<1>4. PICK private \in BOOLEAN :
        /\ {i \in DOMAIN k.FutexWaitQueue :
              k.FutexWaitQueue[i].Key = FutexKey(p, private)} # {}
        /\ k' = WakeProcess(
                  [k EXCEPT !.FutexWaitQueue =
                     RemoveAt(@, Min({i \in DOMAIN k.FutexWaitQueue :
                                        k.FutexWaitQueue[i].Key = FutexKey(p, private)}))],
                  k.FutexWaitQueue[Min({i \in DOMAIN k.FutexWaitQueue :
                                          k.FutexWaitQueue[i].Key = FutexKey(p, private)})].Id)
  BY DEF FutexWake
<1>5. PICK waiters :
        waiters = {i \in DOMAIN k.FutexWaitQueue :
                     k.FutexWaitQueue[i].Key = FutexKey(p, private)}
  OBVIOUS
<1>6. waiters # {} /\ waiters \subseteq DOMAIN k.FutexWaitQueue
  BY <1>4, <1>5
<1>7. PICK i : i = Min(waiters)
  OBVIOUS
<1>8. i \in 1 .. Len(k.FutexWaitQueue)
  <2>1. DOMAIN k.FutexWaitQueue = 1 .. Len(k.FutexWaitQueue) /\ waiters \subseteq Nat
    BY <1>3, <1>6
  <2> QED
    BY <1>6, <1>7, <2>1, MinIsSmallest
<1>9. PICK woken : woken = k.FutexWaitQueue[i].Id
  OBVIOUS
<1>10. woken \in ProcessIds
  <2>1. k.FutexWaitQueue[i] \in S
    <3> HIDE DEF S
    <3> QED
      BY <1>3, <1>8
  <2> QED
    BY <1>9, <2>1
<1>11. PICK q : q = RemoveAt(k.FutexWaitQueue, i)
  OBVIOUS
<1>12. q \in Seq(S)
  <2> HIDE DEF S
  <2> QED
    BY <1>3, <1>8, <1>11, RemoveAtElements
<1>13. q \in TypeOf("FutexWaitQueue")
  BY <1>12 DEF TypeOf
<1>14. PICK s : s = [k EXCEPT !.FutexWaitQueue = q]
  OBVIOUS
<1>15. Base(s) /\ Kept(k, s)
  BY <1>2, <1>13, <1>14, FutexQueueWritten
<1>16. PICK t : t = UnblockProcess(s, woken)
  OBVIOUS
<1>17. Base(t) /\ Kept(s, t)
  BY <1>10, <1>15, <1>16, UnblockBase
<1>18. Orderly(t)
  BY <1>1, <1>15, <1>17, KeptComposes, CallKeeps
<1>19. k' = t
  BY <1>4, <1>5, <1>7, <1>9, <1>11, <1>14, <1>16 DEF WakeProcess
<1> QED
  BY <1>18, <1>19 DEF KernelInv

-----------------------------------------------------------------------------
(* The actions of signals and timers                                       *)

\* kill preserves the invariant, whatever sender and target were doing.
LEMMA KillStep ==
    ASSUME KernelInv, NEW p, Kill(p)
    PROVE  KernelInv'
<1>1. Calling(p, "kill")
  BY DEF Kill
<1>2. Base(k)
  BY <1>1, CallingFacts
<1>3. PICK target \in UserIds, sig \in SentSignals : k' = SignalProcess(k, target, sig)
  BY DEF Kill
<1>4. sig \in Signals
  BY SentAssumption
<1>5. PICK t : t = SignalProcess(k, target, sig)
  OBVIOUS
<1>6. Base(t) /\ Kept(k, t)
  BY <1>2, <1>4, <1>5, SignalBase
<1>7. Orderly(t)
  BY <1>1, <1>6, CallKeeps
<1> QED
  BY <1>3, <1>5, <1>7 DEF KernelInv

\* pause preserves the invariant.
LEMMA PauseStep ==
    ASSUME KernelInv, NEW p, Pause(p)
    PROVE  KernelInv'
<1>1. Calling(p, "pause")
  BY DEF Pause
<1>2. p \in UserIds /\ Base(k) /\ k.Status[p] = "RUNNING" /\ k.Loop.op = "none"
  BY <1>1, CallingFacts
<1>3. PICK frame : frame = [UserFrame EXCEPT !.call = "pause"]
  OBVIOUS
<1>4. frame \in Frames /\ frame.call = "pause"
  BY <1>3, FrameTypes DEF Calls
<1>5. PICK t : t = BlockProcess(k, p, frame)
  OBVIOUS
<1>6. Orderly(t)
  BY <1>2, <1>4, <1>5, BlockOrderly
<1> QED
  BY <1>3, <1>5, <1>6 DEF Pause, KernelInv

\* The return from pause preserves the invariant.
LEMMA ResumePauseStep ==
    ASSUME KernelInv, NEW p \in UserIds, ResumePause(p)
    PROVE  KernelInv'
<1>1. Resuming(p, "pause") /\ k' = Return(k, p)
  BY DEF ResumePause
<1>2. Base(k) /\ Kept(k, k)
  BY <1>1, ResumingFacts, KeptSame
<1>3. PICK t : t = Return(k, p)
  OBVIOUS
<1>4. Orderly(t)
  BY <1>1, <1>2, <1>3, CallReturns
<1> QED
  BY <1>1, <1>3, <1>4 DEF KernelInv

\* rt_sigaction preserves the invariant.
LEMMA SigactionStep ==
    ASSUME KernelInv, NEW p, Sigaction(p)
    PROVE  KernelInv'
<1> DEFINE S == [Signals -> Handlers]
<1>1. Calling(p, "sigaction")
  BY DEF Sigaction
<1>2. p \in ProcessIds /\ Base(k)
  BY <1>1, CallingFacts
<1>3. PICK sig \in ManagedSignals \ Unblockable, handler \in InstalledHandlers :
        k' = [k EXCEPT !.SignalActions[p][sig] = handler]
  BY DEF Sigaction
<1>4. k.SignalActions \in [ProcessIds -> S]
  BY <1>2 DEF Base, KernelState
<1>5. PICK actions : actions = [k.SignalActions[p] EXCEPT ![sig] = handler]
  OBVIOUS
<1>6. actions \in S
  <2>1. k.SignalActions[p] \in S
    BY <1>2, <1>4
  <2>2. handler \in Handlers
    BY HandlersAssumption
  <2> QED
    BY <1>5, <2>1, <2>2
<1>7. PICK g : g = [k.SignalActions EXCEPT ![p] = actions]
  OBVIOUS
<1>8. g \in [ProcessIds -> S]
  <2> HIDE DEF S
  <2> QED
    BY <1>4, <1>6, <1>7
<1>9. g \in TypeOf("SignalActions")
  BY <1>8 DEF TypeOf
<1>10. PICK t : t = [k EXCEPT !.SignalActions = g]
  OBVIOUS
<1>11. Base(t) /\ Kept(k, t)
  BY <1>2, <1>9, <1>10, SideFieldNames, SideFieldWritten
<1>12. Orderly(t)
  BY <1>1, <1>11, CallKeeps
<1>13. k' = t
  BY <1>3, <1>5, <1>7, <1>10
<1> QED
  BY <1>12, <1>13 DEF KernelInv

\* The mask of a process that is not in rt_sigsuspend is written.
MaskWritten(s, t, p, mask) == t = [s EXCEPT !.BlockedSignalMask[p] = mask]

\* What a new signal mask changes.
LEMMA MaskWrittenEffect ==
    ASSUME NEW s \in KernelState, NEW p \in ProcessIds, NEW mask \in SUBSET Signals, NEW t,
           MaskWritten(s, t, p, mask)
    PROVE  /\ t \in KernelState /\ Same(s, t, {"BlockedSignalMask"})
           /\ t.BlockedSignalMask = [s.BlockedSignalMask EXCEPT ![p] = mask]
<1>1. s.BlockedSignalMask \in [ProcessIds -> SUBSET Signals]
  BY DEF KernelState
<1>2. PICK g : g = [s.BlockedSignalMask EXCEPT ![p] = mask]
  OBVIOUS
<1>3. g \in TypeOf("BlockedSignalMask") /\ "BlockedSignalMask" \in Fields
  BY <1>1, <1>2, FieldNames DEF TypeOf
<1>4. t = [s EXCEPT !.BlockedSignalMask = g]
  BY <1>2 DEF MaskWritten
<1> QED
  BY <1>2, <1>3, <1>4, FieldReplaced

\* A new mask concerns no sleep in rt_sigsuspend when its process executes its
\* program.
LEMMA MaskBase ==
    ASSUME NEW s, Base(s), NEW p \in ProcessIds, s.Call[p].call = "user",
           NEW mask \in SUBSET Signals, NEW t, MaskWritten(s, t, p, mask)
    PROVE  Base(t) /\ Kept(s, t) /\ Same(s, t, {"BlockedSignalMask"})
<1>1. s \in KernelState /\ s.BlockedSignalMask \in [ProcessIds -> SUBSET Signals]
  BY DEF Base, KernelState
<1>2. /\ t \in KernelState /\ Same(s, t, {"BlockedSignalMask"})
      /\ t.BlockedSignalMask = [s.BlockedSignalMask EXCEPT ![p] = mask]
  BY <1>1, MaskWrittenEffect
<1>3. Same(s, t, SignalFields) /\ Typed(t)
  BY <1>2, StateOf DEF Same, SignalFields
<1>4. \A q \in ProcessIds \ {p} :
        /\ t.PendingSignalMask[q] = s.PendingSignalMask[q]
        /\ t.BlockedSignalMask[q] = s.BlockedSignalMask[q]
        /\ t.HasSavedSignalState[q] = s.HasSavedSignalState[q]
  BY <1>1, <1>2, FieldNames DEF Same
<1> QED
  BY <1>2, <1>3, <1>4, SignalFieldsBase

\* The end of a call of p: it may have signals to look at.
LEMMA DispatchAllOrderly ==
    ASSUME NEW s, Base(s), NEW p \in UserIds, s.cpu = p, s.Call[p].call = "user",
           s.Loop.op = "none", NEW t, t = DispatchAll(s, p)
    PROVE  Orderly(t)
<1>1. CASE ~CanDispatch(s, p)
  <2>1. t = s
    BY <1>1 DEF DispatchAll
  <2> QED
    BY <2>1, UserOrderly
<1>2. CASE CanDispatch(s, p)
  <2>1. PICK v \in Loops : v = [op |-> "dispatch", index |-> p]
    <3>1. p \in 0 .. MaxProcesses
      BY TableAssumption DEF UserIds, ProcessIds
    <3>2. [op |-> "dispatch", index |-> p] \in Loops
      BY <3>1 DEF Loops
    <3> QED
      BY <3>2
  <2>2. t = [s EXCEPT !.Loop = v]
    BY <1>2, <2>1 DEF DispatchAll
  <2>3. Base(t) /\ Same(s, t, {"Loop"}) /\ t.Loop = v
    BY <2>2, LoopWritten
  <2>4. t.cpu = p /\ t.Call[p].call = "user" /\ t.Loop.op = "dispatch" /\ t.Loop.index = p
    BY <2>1, <2>3, FieldNames DEF Same
  <2> QED
    BY <2>3, <2>4 DEF Orderly, CpuInCall, LoopSound
<1> QED
  BY <1>1, <1>2

\* The masks that programs install.
LEMMA ManagedMask ==
    ASSUME NEW mask \in SUBSET (ManagedSignals \ Unblockable)
    PROVE  mask \in SUBSET Signals
  BY SentAssumption

\* rt_sigprocmask preserves the invariant.
LEMMA SigprocmaskStep ==
    ASSUME KernelInv, NEW p, Sigprocmask(p)
    PROVE  KernelInv'
<1>1. Calling(p, "sigprocmask")
  BY DEF Sigprocmask
<1>2. /\ p \in UserIds /\ p \in ProcessIds /\ Base(k) /\ k.cpu = p
      /\ k.Call[p].call = "user" /\ k.Loop.op = "none"
  BY <1>1, CallingFacts
<1>3. PICK mask \in SUBSET (ManagedSignals \ Unblockable) :
        k' = DispatchAll([k EXCEPT !.BlockedSignalMask[p] = mask], p)
  BY DEF Sigprocmask
<1>4. PICK s : MaskWritten(k, s, p, mask)
  BY DEF MaskWritten
<1>5. mask \in SUBSET Signals
  BY ManagedMask
<1>6. Base(s) /\ Kept(k, s) /\ Same(k, s, {"BlockedSignalMask"})
  BY <1>2, <1>4, <1>5, MaskBase
<1>7. s.cpu = p /\ s.Call[p].call = "user" /\ s.Loop.op = "none"
  BY <1>2, <1>6, FieldNames DEF Same
<1>8. PICK t : t = DispatchAll(s, p)
  OBVIOUS
<1>9. Orderly(t)
  BY <1>2, <1>6, <1>7, <1>8, DispatchAllOrderly
<1> QED
  BY <1>3, <1>4, <1>8, <1>9 DEF KernelInv, MaskWritten

\* Delivering the next pending signal keeps status and queues in agreement.
LEMMA DispatchOneBase ==
    ASSUME NEW s, Base(s), NEW p \in UserIds, CanDispatch(s, p), NEW t, t = DispatchOne(s, p)
    PROVE  Base(t) /\ Kept(s, t)
<1>1. p \in ProcessIds /\ s.PendingSignalMask \in [ProcessIds -> SUBSET Signals]
  BY NullIsProcess DEF Base, KernelState
<1>2. PICK sig : sig = Min(Deliverable(s, p))
  OBVIOUS
<1>3. sig \in Signals
  <2>1. Deliverable(s, p) \subseteq Signals
    BY <1>1 DEF Deliverable
  <2>2. Deliverable(s, p) \subseteq Nat
    <3>1. 1 .. 64 \subseteq Nat
      OBVIOUS
    <3> QED
      BY <2>1, <3>1, SignalAssumption, Zenon
  <2> QED
    BY <1>2, <2>1, <2>2, MinIsSmallest DEF CanDispatch
<1>4. PICK u : u = ClearPending(s, p, sig)
  OBVIOUS
<1>5. Base(u) /\ Kept(s, u)
  BY <1>1, <1>4, TakenBase
<1>6. t = SignalProcess(u, p, sig)
  BY <1>2, <1>4 DEF DispatchOne
<1>7. Base(t) /\ Kept(u, t)
  BY <1>3, <1>5, <1>6, SignalBase
<1> QED
  BY <1>5, <1>7, KeptComposes

\* An iteration of the loop over pending signals preserves the invariant.
LEMMA DispatchStepStep ==
    ASSUME KernelInv, DispatchStep
    PROVE  KernelInv'
<1>1. Base(k) /\ LoopSound(k) /\ k.Loop.op = "dispatch"
  BY DEF KernelInv, Orderly, DispatchStep
<1>2. PICK p \in UserIds : p = k.Loop.index
  BY <1>1 DEF LoopSound
<1>3. k.Call[k.cpu].call = "user"
  BY <1>1 DEF LoopSound
<1>4. CASE CanDispatch(k, p)
  <2>1. PICK t : t = DispatchOne(k, p)
    OBVIOUS
  <2>2. Base(t) /\ Kept(k, t)
    BY <1>1, <1>2, <1>4, <2>1, DispatchOneBase
  <2>3. Orderly(t)
    BY <1>1, <1>3, <2>2, KeptOrderly
  <2>4. k' = t
    BY <1>2, <1>4, <2>1 DEF DispatchStep
  <2> QED
    BY <2>3, <2>4 DEF KernelInv
<1>5. CASE ~CanDispatch(k, p)
  <2>1. PICK t : t = [k EXCEPT !.Loop = NoLoop]
    OBVIOUS
  <2>2. Base(t) /\ Same(k, t, {"Loop"}) /\ t.Loop = NoLoop
    BY <1>1, <2>1, NoLoopType, LoopWritten
  <2>3. t.cpu = k.cpu /\ t.Call = k.Call /\ t.Loop.op = "none"
    BY <2>2, NoLoopType, FieldNames DEF Same
  <2>4. Orderly(t)
    BY <1>3, <2>2, <2>3, UserOrderly
  <2>5. k' = t
    BY <1>2, <1>5, <2>1 DEF DispatchStep
  <2> QED
    BY <2>4, <2>5 DEF KernelInv
<1> QED
  BY <1>4, <1>5

\* rt_sigreturn preserves the invariant.
LEMMA SigreturnStep ==
    ASSUME KernelInv, NEW p, Sigreturn(p)
    PROVE  KernelInv'
<1> DEFINE F == {"BlockedSignalMask", "HasSavedSignalState"}
<1>1. Calling(p, "sigreturn")
  BY DEF Sigreturn
<1>2. /\ p \in UserIds /\ p \in ProcessIds /\ Base(k) /\ LoopSound(k) /\ k.cpu = p
      /\ k.Call[p].call = "user" /\ k.Loop.op = "none"
  BY <1>1, CallingFacts
<1>3. /\ k \in KernelState
      /\ k.BlockedSignalMask \in [ProcessIds -> SUBSET Signals]
      /\ k.SavedSignalMask \in [ProcessIds -> SUBSET Signals]
      /\ k.HasSavedSignalState \in [ProcessIds -> BOOLEAN]
  BY <1>2 DEF Base, KernelState
<1>4. IsState(k) /\ Typed(k)
  BY <1>3, StateOf
<1>5. PICK s : s = [k EXCEPT !.BlockedSignalMask[p] = k.SavedSignalMask[p],
                            !.HasSavedSignalState[p] = FALSE]
  OBVIOUS
<1>6. /\ Same(k, s, F)
      /\ s.BlockedSignalMask = [k.BlockedSignalMask EXCEPT ![p] = k.SavedSignalMask[p]]
      /\ s.HasSavedSignalState = [k.HasSavedSignalState EXCEPT ![p] = FALSE]
  BY <1>4, <1>5, FieldNames DEF Same, IsState
<1>7. \A f \in F : s[f] \in TypeOf(f)
  <2>1. s.BlockedSignalMask \in [ProcessIds -> SUBSET Signals]
    BY <1>2, <1>3, <1>6
  <2>2. s.HasSavedSignalState \in [ProcessIds -> BOOLEAN]
    BY <1>2, <1>3, <1>6
  <2> QED
    BY <2>1, <2>2 DEF TypeOf
<1>8. Typed(s) /\ s \in KernelState
  <2> HIDE DEF F
  <2> QED
    BY <1>4, <1>6, <1>7, SameTyped, TypedIsKernelState
<1>9. Same(k, s, SignalFields)
  BY <1>6 DEF Same, SignalFields
<1>10. \A q \in ProcessIds \ {p} :
         /\ s.PendingSignalMask[q] = k.PendingSignalMask[q]
         /\ s.BlockedSignalMask[q] = k.BlockedSignalMask[q]
         /\ s.HasSavedSignalState[q] = k.HasSavedSignalState[q]
  BY <1>2, <1>3, <1>6, FieldNames DEF Same
<1>11. Base(s) /\ Kept(k, s)
  BY <1>2, <1>8, <1>9, <1>10, SignalFieldsBase
<1>12. s.cpu = p /\ s.Call[p].call = "user" /\ s.Loop.op = "none"
  BY <1>2, <1>6, FieldNames DEF Same
<1>13. PICK t : t = DispatchAll(s, p)
  OBVIOUS
<1>14. Orderly(t) /\ Orderly(s)
  BY <1>2, <1>11, <1>12, <1>13, DispatchAllOrderly, UserOrderly
<1>15. k' = t \/ k' = s
  BY <1>5, <1>13 DEF Sigreturn
<1> QED
  BY <1>14, <1>15 DEF KernelInv

\* rt_sigsuspend preserves the invariant: it sleeps only when no signal can be
\* delivered.
LEMMA SigsuspendStep ==
    ASSUME KernelInv, NEW p, Sigsuspend(p)
    PROVE  KernelInv'
<1>1. Calling(p, "sigsuspend")
  BY DEF Sigsuspend
<1>2. /\ p \in UserIds /\ p \in ProcessIds /\ Base(k) /\ k.Status[p] = "RUNNING"
      /\ k.Call[p].call = "user" /\ k.Loop.op = "none"
  BY <1>1, CallingFacts
<1>3. PICK mask \in SUBSET (ManagedSignals \ Unblockable) :
        k' = IF CanDispatch([k EXCEPT !.BlockedSignalMask[p] = mask], p)
             THEN [DispatchOne([k EXCEPT !.BlockedSignalMask[p] = mask], p)
                     EXCEPT !.BlockedSignalMask[p] = k.BlockedSignalMask[p]]
             ELSE BlockProcess([k EXCEPT !.BlockedSignalMask[p] = mask], p,
                               [UserFrame EXCEPT !.call = "sigsuspend",
                                                 !.mask = k.BlockedSignalMask[p]])
  BY DEF Sigsuspend
<1>4. PICK s : MaskWritten(k, s, p, mask)
  BY DEF MaskWritten
<1>5. Base(s) /\ Kept(k, s) /\ Same(k, s, {"BlockedSignalMask"})
  BY <1>2, <1>4, ManagedMask, MaskBase
<1>6. PICK previous \in SUBSET Signals : previous = k.BlockedSignalMask[p]
  <2>1. k.BlockedSignalMask \in [ProcessIds -> SUBSET Signals]
    BY <1>2 DEF Base, KernelState
  <2>2. k.BlockedSignalMask[p] \in SUBSET Signals
    BY <1>2, <2>1
  <2> QED
    BY <2>2
<1>7. PICK frame : frame = [UserFrame EXCEPT !.call = "sigsuspend", !.mask = previous]
  OBVIOUS
<1>8. frame \in Frames
  BY <1>7, FrameTypes
<1>9. k' = IF CanDispatch(s, p)
           THEN [DispatchOne(s, p) EXCEPT !.BlockedSignalMask[p] = previous]
           ELSE BlockProcess(s, p, frame)
  BY <1>3, <1>4, <1>6, <1>7 DEF MaskWritten
<1>10. CASE CanDispatch(s, p)
  <2>1. PICK u : u = DispatchOne(s, p)
    OBVIOUS
  <2>2. Base(u) /\ Kept(s, u)
    BY <1>2, <1>5, <1>10, <2>1, DispatchOneBase
  <2>3. u.Call[p].call = "user"
    BY <1>2, <1>5, <2>2, UserFrameType DEF Kept
  <2>4. PICK t : MaskWritten(u, t, p, previous)
    BY DEF MaskWritten
  <2>5. Base(t) /\ Kept(u, t)
    BY <1>2, <2>2, <2>3, <2>4, MaskBase
  <2>6. Orderly(t)
    BY <1>1, <1>5, <2>2, <2>5, KeptComposes, CallKeeps
  <2>7. k' = t
    BY <1>9, <1>10, <2>1, <2>4 DEF MaskWritten
  <2> QED
    BY <2>6, <2>7 DEF KernelInv
<1>11. CASE ~CanDispatch(s, p)
  <2>1. s.Status[p] = "RUNNING" /\ s.Loop = k.Loop
    BY <1>2, <1>5, FieldNames DEF Same
  <2>2. PICK t : t = BlockProcess(s, p, frame)
    OBVIOUS
  <2>3. Orderly(t)
    BY <1>1, <1>5, <1>8, <1>11, <2>1, <2>2, CallBlocks
  <2> QED
    BY <1>9, <1>11, <2>2, <2>3 DEF KernelInv
<1> QED
  BY <1>10, <1>11

\* Two state records with the same fields are equal.
LEMMA SameState ==
    ASSUME NEW s, NEW t, IsState(s), IsState(t), \A f \in Fields : s[f] = t[f]
    PROVE  s = t
  BY DEF IsState

\* The mask that rt_sigsuspend had saved is restored when it returns.
LEMMA ResumeSigsuspendStep ==
    ASSUME KernelInv, NEW p \in UserIds, ResumeSigsuspend(p)
    PROVE  KernelInv'
<1>1. Resuming(p, "sigsuspend")
  BY DEF ResumeSigsuspend
<1>2. p \in ProcessIds /\ Base(k) /\ k \in KernelState /\ k.cpu = p /\ k.Loop.op = "none"
  BY <1>1, ResumingFacts DEF Base
<1>3. PICK mask \in SUBSET Signals : mask = k.Call[p].mask
  <2>1. k.Call[p] \in Frames
    BY <1>2 DEF KernelState
  <2>2. k.Call[p].mask \in SUBSET Signals
    BY <2>1 DEF Frames
  <2> QED
    BY <2>2
<1>4. PICK s : s = Return(k, p)
  OBVIOUS
<1>5. Base(s) /\ Kept(k, s) /\ Same(k, s, {"Call"}) /\ s.Call = [k.Call EXCEPT ![p] = UserFrame]
  BY <1>2, <1>4, ReturnBase
<1>6. s.Call[p] = UserFrame
  BY <1>2, <1>5 DEF KernelState
<1>7. PICK t : MaskWritten(s, t, p, mask)
  BY DEF MaskWritten
<1>8. Base(t) /\ Kept(s, t) /\ Same(s, t, {"BlockedSignalMask"})
  BY <1>2, <1>5, <1>6, <1>7, UserFrameType, MaskBase
<1>9. t.cpu = p /\ t.Call[p].call = "user" /\ t.Loop.op = "none"
  BY <1>2, <1>5, <1>6, <1>8, UserFrameType, FieldNames DEF Same, Kept
<1>10. Orderly(t)
  BY <1>8, <1>9, UserOrderly
<1>11. k' = t
  <2>1. t.BlockedSignalMask = [s.BlockedSignalMask EXCEPT ![p] = mask]
    BY <1>2, <1>5, <1>7, MaskWrittenEffect DEF Base
  <2>2. PICK u : MaskWritten(k, u, p, mask)
    BY DEF MaskWritten
  <2>3. /\ u \in KernelState /\ Same(k, u, {"BlockedSignalMask"})
        /\ u.BlockedSignalMask = [k.BlockedSignalMask EXCEPT ![p] = mask]
    BY <1>2, <2>2, MaskWrittenEffect
  <2>4. PICK v : v = [u EXCEPT !.Call[p] = UserFrame]
    OBVIOUS
  <2>5. k' = v
    BY <1>3, <2>2, <2>4 DEF ResumeSigsuspend, Return, MaskWritten
  <2>6. IsState(u)
    BY <2>3 DEF Same
  <2>7. Same(u, v, {"Call"}) /\ v.Call = [u.Call EXCEPT ![p] = UserFrame]
    BY <2>4, <2>6, FieldNames DEF Same, IsState
  <2>8. v.Call = t.Call /\ v.BlockedSignalMask = t.BlockedSignalMask
    BY <1>5, <1>8, <2>1, <2>3, <2>7, FieldNames DEF Same
  <2>9. \A f \in Fields \ {"Call", "BlockedSignalMask"} : v[f] = t[f]
    BY <1>5, <1>8, <2>3, <2>7 DEF Same
  <2>10. \A f \in Fields : v[f] = t[f]
    BY <2>8, <2>9
  <2>11. IsState(v) /\ IsState(t)
    BY <1>8, <2>7 DEF Same
  <2> QED
    BY <2>5, <2>10, <2>11, SameState
<1> QED
  BY <1>10, <1>11 DEF KernelInv

\* The interval timer of p is set, or goes on.
TimerSet(s, t, p, ticks) == t = [s EXCEPT !.TimerRemaining[p] = ticks]

\* A timer's remaining ticks concern neither status nor queues.
LEMMA TimerWritten ==
    ASSUME NEW s, Base(s), NEW p \in UserIds, SIGALRM \in Signals,
           NEW ticks \in 0 .. MaxTicks, NEW t, TimerSet(s, t, p, ticks)
    PROVE  Base(t) /\ Kept(s, t) /\ Same(s, t, {"TimerRemaining"})
<1>1. /\ s \in KernelState /\ p \in ProcessIds
      /\ s.TimerRemaining \in [ProcessIds -> 0 .. MaxTicks]
  BY NullIsProcess DEF Base, KernelState
<1>2. PICK g : g = [s.TimerRemaining EXCEPT ![p] = ticks]
  OBVIOUS
<1>3. g \in TypeOf("TimerRemaining") /\ "TimerRemaining" \in Fields
  BY <1>1, <1>2, FieldNames DEF TypeOf
<1>4. t = [s EXCEPT !.TimerRemaining = g]
  BY <1>2 DEF TimerSet
<1>5. t \in KernelState /\ Same(s, t, {"TimerRemaining"}) /\ t.TimerRemaining = g
  BY <1>1, <1>3, <1>4, FieldReplaced
<1>6. /\ t.Status = s.Status /\ t.ReadyQueue = s.ReadyQueue /\ t.cpu = s.cpu
      /\ t.CurrentProcessId = s.CurrentProcessId /\ t.SleepQueue = s.SleepQueue
      /\ t.Call = s.Call /\ t.HasSavedSignalState = s.HasSavedSignalState
      /\ t.PendingSignalMask = s.PendingSignalMask
      /\ t.BlockedSignalMask = s.BlockedSignalMask
      /\ t.Loop = s.Loop /\ t.halted = s.halted
  BY <1>5, FieldNames DEF Same
<1>7. NullAlive(t)
  <2>1. \A q \in ProcessIds \ {p} : t.TimerRemaining[q] = s.TimerRemaining[q]
    BY <1>1, <1>2, <1>5
  <2>2. p # NullProcess
    BY NullIsProcess
  <2> QED
    BY <1>6, <2>1, <2>2 DEF Base, NullAlive
<1>8. QueueSound(t) /\ RunningOnCpu(t) /\ SleepersBlocked(t)
  BY <1>6 DEF Base, QueueSound, RunningOnCpu, SleepersBlocked
<1>9. Quiet(t)
  BY <1>6 DEF Base, Quiet, CanDispatch, Deliverable
<1> QED
  BY <1>5, <1>6, <1>7, <1>8, <1>9, KeptSame DEF Base

\* setitimer preserves the invariant.
LEMMA SetitimerStep ==
    ASSUME KernelInv, NEW p, Setitimer(p)
    PROVE  KernelInv'
<1>1. Calling(p, "setitimer")
  BY DEF Setitimer
<1>2. p \in UserIds /\ p \in ProcessIds /\ "setitimer" \in SystemCalls /\ Base(k)
  BY <1>1, CallingFacts
<1>3. PICK value \in 0 .. MaxTicks, interval \in 0 .. MaxTicks :
        k' = [k EXCEPT !.TimerRemaining[p] = value, !.TimerInterval[p] = interval]
  BY DEF Setitimer
<1>4. PICK s : TimerSet(k, s, p, value)
  BY DEF TimerSet
<1>5. Base(s) /\ Kept(k, s)
  BY <1>2, <1>4, AlarmAssumption, TimerWritten
<1>6. s.TimerInterval \in [ProcessIds -> 0 .. MaxTicks]
  BY <1>5 DEF Base, KernelState
<1>7. PICK g : g = [s.TimerInterval EXCEPT ![p] = interval]
  OBVIOUS
<1>8. g \in TypeOf("TimerInterval")
  BY <1>2, <1>6, <1>7 DEF TypeOf
<1>9. PICK t : t = [s EXCEPT !.TimerInterval = g]
  OBVIOUS
<1>10. Base(t) /\ Kept(s, t)
  BY <1>5, <1>8, <1>9, SideFieldNames, SideFieldWritten
<1>11. Orderly(t)
  BY <1>1, <1>5, <1>10, KeptComposes, CallKeeps
<1>12. k' = t
  BY <1>3, <1>4, <1>7, <1>9 DEF TimerSet
<1> QED
  BY <1>11, <1>12 DEF KernelInv

-----------------------------------------------------------------------------
(* The actions that read the terminal and the event device                 *)

\* Taking input from the terminal concerns neither status nor queues.
LEMMA ReadableWritten ==
    ASSUME NEW s, Base(s), NEW n \in 1 .. s.TTYReadable, NEW t,
           t = [s EXCEPT !.TTYReadable = @ - n]
    PROVE  Base(t) /\ Kept(s, t)
<1>1. s.TTYReadable \in Nat
  BY DEF Base, KernelState
<1>2. PICK m : m = s.TTYReadable - n
  OBVIOUS
<1>3. m \in TypeOf("TTYReadable")
  <2>1. m \in Nat
    BY <1>1, <1>2
  <2> QED
    BY <2>1 DEF TypeOf
<1>4. t = [s EXCEPT !.TTYReadable = m]
  BY <1>2
<1> QED
  BY <1>3, <1>4, SideFieldNames, SideFieldWritten

\* A terminal read leaves an orderly state, whether it returns or blocks.
LEMMA ReadTTYOrderly ==
    ASSUME NEW s, Base(s), NEW p \in UserIds, s.Status[p] = "RUNNING", s.cpu = p,
           s.Loop.op = "none", NEW t, t \in ReadTTYFrom(s, p)
    PROVE  Orderly(t)
<1>1. p \in ProcessIds
  BY NullIsProcess
<1>2. CASE s.TTYReadable = 0
  <2>1. PICK frame : frame = [UserFrame EXCEPT !.call = "tty"]
    OBVIOUS
  <2>2. frame \in Frames /\ frame.call = "tty"
    BY <2>1, FrameTypes DEF Calls
  <2>3. PICK u : u = AddToTTYInputWaitQueue(s, p)
    OBVIOUS
  <2>4. Base(u) /\ Kept(s, u) /\ Same(s, u, {"TTYInputWaitQueue"})
    BY <1>1, <2>3, AddToTTYBase
  <2>5. u.Status = s.Status /\ u.Loop = s.Loop
    BY <2>4, FieldNames DEF Same
  <2>6. t = BlockProcess(u, p, frame)
    BY <1>2, <2>1, <2>3 DEF ReadTTYFrom, BlockProcessForTTYInput
  <2> QED
    BY <2>2, <2>4, <2>5, <2>6, BlockOrderly
<1>3. CASE s.TTYReadable # 0
  <2>1. PICK n \in 1 .. s.TTYReadable : t = Return([s EXCEPT !.TTYReadable = @ - n], p)
    BY <1>3 DEF ReadTTYFrom
  <2>2. PICK u : u = [s EXCEPT !.TTYReadable = @ - n]
    OBVIOUS
  <2>3. Base(u) /\ Kept(s, u)
    BY <2>2, ReadableWritten
  <2>4. t = Return(u, p)
    BY <2>1, <2>2
  <2>5. Base(t) /\ Kept(u, t) /\ t.Call = [u.Call EXCEPT ![p] = UserFrame]
    BY <1>1, <2>3, <2>4, ReturnBase
  <2>6. u.Call \in [ProcessIds -> Frames]
    BY <2>3 DEF Base, KernelState
  <2>7. t.cpu = p /\ t.Call[p].call = "user" /\ t.Loop.op = "none"
    BY <1>1, <2>3, <2>5, <2>6, UserFrameType DEF Kept
  <2> QED
    BY <2>5, <2>7, UserOrderly
<1> QED
  BY <1>2, <1>3

\* A terminal read, or its next pass, preserves the invariant.
LEMMA ReadTTYStep ==
    ASSUME KernelInv, NEW p \in UserIds, ReadTTY(p) \/ ResumeReadTTY(p)
    PROVE  KernelInv'
<1>1. Base(k) /\ k.Status[p] = "RUNNING" /\ k.cpu = p /\ k.Loop.op = "none"
  <2>1. CASE ReadTTY(p)
    BY <2>1, CallingFacts DEF ReadTTY
  <2>2. CASE ResumeReadTTY(p)
    BY <2>2, ResumingFacts DEF ResumeReadTTY
  <2> QED
    BY <2>1, <2>2
<1>2. PICK t : t \in ReadTTYFrom(k, p) /\ k' = t
  BY DEF ReadTTY, ResumeReadTTY
<1>3. Orderly(t)
  BY <1>1, <1>2, ReadTTYOrderly
<1> QED
  BY <1>2, <1>3 DEF KernelInv

\* The list of event waiters concerns neither status nor queues.
LEMMA WaitersWritten ==
    ASSUME NEW s, Base(s), NEW q \in Seq(ProcessIds), NEW t, t = [s EXCEPT !.EventWaiters = q]
    PROVE  Base(t) /\ Kept(s, t) /\ Same(s, t, {"EventWaiters"})
<1>1. q \in TypeOf("EventWaiters")
  BY DEF TypeOf
<1> QED
  BY <1>1, SideFieldNames, SideFieldWritten

\* Leaving that list does not concern them,
LEMMA RemoveWaiterBase ==
    ASSUME NEW s, Base(s), NEW p, NEW t, t = RemoveWaitingProcess(s, p)
    PROVE  Base(t) /\ Kept(s, t) /\ Same(s, t, {"EventWaiters"})
<1>1. s.EventWaiters \in Seq(ProcessIds)
  BY DEF Base, KernelState
<1>2. PICK q : q = RemoveFirst(s.EventWaiters, p)
  OBVIOUS
<1>3. q \in Seq(ProcessIds)
  BY <1>1, <1>2, RemovedType
<1>4. t = [s EXCEPT !.EventWaiters = q]
  BY <1>2 DEF RemoveWaitingProcess
<1> QED
  BY <1>3, <1>4, WaitersWritten

\* nor does entering it,
LEMMA AddWaiterBase ==
    ASSUME NEW s, Base(s), NEW p \in ProcessIds, NEW t, t = AddWaitingProcess(s, p)
    PROVE  Base(t) /\ Kept(s, t) /\ t.Status = s.Status
<1>1. CASE Contains(s.EventWaiters, p)
  <2>1. t = s
    BY <1>1 DEF AddWaitingProcess
  <2> QED
    BY <2>1, KeptSame
<1>2. CASE ~Contains(s.EventWaiters, p)
  <2>1. s.EventWaiters \in Seq(ProcessIds)
    BY DEF Base, KernelState
  <2>2. PICK q : q = Append(s.EventWaiters, p)
    OBVIOUS
  <2>3. q \in Seq(ProcessIds)
    BY <2>1, <2>2
  <2>4. t = [s EXCEPT !.EventWaiters = q]
    BY <1>2, <2>2 DEF AddWaitingProcess
  <2>5. Base(t) /\ Kept(s, t) /\ Same(s, t, {"EventWaiters"})
    BY <2>3, <2>4, WaitersWritten
  <2> QED
    BY <2>5, FieldNames DEF Same
<1> QED
  BY <1>1, <1>2

\* nor the count of pending events.
LEMMA PendingEventsWritten ==
    ASSUME NEW s, Base(s), NEW n \in Nat, NEW t, t = [s EXCEPT !.EventsPending = n]
    PROVE  Base(t) /\ Kept(s, t)
<1>1. n \in TypeOf("EventsPending")
  BY DEF TypeOf
<1> QED
  BY <1>1, SideFieldNames, SideFieldWritten

\* An event read leaves an orderly state, whether it returns or blocks.
LEMMA ReadEventOrderly ==
    ASSUME NEW s, Base(s), NEW p \in UserIds, s.Status[p] = "RUNNING", s.cpu = p,
           s.Loop.op = "none", NEW t, t \in ReadEventFrom(s, p)
    PROVE  Orderly(t)
<1>1. p \in ProcessIds
  BY NullIsProcess
<1>2. CASE s.EventsPending = 0
  <2>1. PICK frame : frame = [UserFrame EXCEPT !.call = "event"]
    OBVIOUS
  <2>2. frame \in Frames /\ frame.call = "event"
    BY <2>1, FrameTypes DEF Calls
  <2>3. PICK u : u = AddWaitingProcess(s, p)
    OBVIOUS
  <2>4. Base(u) /\ Kept(s, u) /\ u.Status = s.Status
    BY <1>1, <2>3, AddWaiterBase
  <2>5. u.Loop = s.Loop
    BY <2>4 DEF Kept
  <2>6. t = SleepProcess(u, p, 1, frame)
    BY <1>2, <2>1, <2>3 DEF ReadEventFrom
  <2>7. 1 \in 0 .. MaxTicks
    BY TickAssumption
  <2> QED
    BY <2>2, <2>4, <2>5, <2>6, <2>7, SleepOrderly
<1>3. CASE s.EventsPending # 0
  <2>1. PICK n \in 1 .. s.EventsPending :
          t = Return([RemoveWaitingProcess(s, p) EXCEPT !.EventsPending = @ - n], p)
    BY <1>3 DEF ReadEventFrom
  <2>2. PICK r : r = RemoveWaitingProcess(s, p)
    OBVIOUS
  <2>3. Base(r) /\ Kept(s, r) /\ Same(s, r, {"EventWaiters"})
    BY <2>2, RemoveWaiterBase
  <2>4. r.EventsPending = s.EventsPending /\ s.EventsPending \in Nat
    BY <2>3, FieldNames DEF Same, Base, KernelState
  <2>5. PICK m \in Nat : m = r.EventsPending - n
    BY <2>4
  <2>6. PICK u : u = [r EXCEPT !.EventsPending = m]
    OBVIOUS
  <2>7. Base(u) /\ Kept(r, u)
    BY <2>3, <2>6, PendingEventsWritten
  <2>8. t = Return(u, p)
    BY <2>1, <2>2, <2>5, <2>6
  <2>9. Base(t) /\ Kept(u, t) /\ t.Call = [u.Call EXCEPT ![p] = UserFrame]
    BY <1>1, <2>7, <2>8, ReturnBase
  <2>10. u.Call \in [ProcessIds -> Frames]
    BY <2>7 DEF Base, KernelState
  <2>11. t.cpu = p /\ t.Call[p].call = "user" /\ t.Loop.op = "none"
    BY <1>1, <2>3, <2>7, <2>9, <2>10, UserFrameType DEF Kept
  <2> QED
    BY <2>9, <2>11, UserOrderly
<1> QED
  BY <1>2, <1>3

\* An event read preserves the invariant.
LEMMA ReadEventStep ==
    ASSUME KernelInv, NEW p \in UserIds, ReadEvent(p)
    PROVE  KernelInv'
<1>1. Base(k) /\ k.Status[p] = "RUNNING" /\ k.cpu = p /\ k.Loop.op = "none"
  BY CallingFacts DEF ReadEvent
<1>2. PICK t : t \in ReadEventFrom(k, p) /\ k' = t
  BY DEF ReadEvent
<1>3. Orderly(t)
  BY <1>1, <1>2, ReadEventOrderly
<1> QED
  BY <1>2, <1>3 DEF KernelInv

\* The next pass of an event read preserves the invariant.
LEMMA ResumeReadEventStep ==
    ASSUME KernelInv, NEW p \in UserIds, ResumeReadEvent(p)
    PROVE  KernelInv'
<1>1. Resuming(p, "event")
  BY DEF ResumeReadEvent
<1>2. /\ p \in ProcessIds /\ Base(k) /\ k.Status[p] = "RUNNING" /\ k.cpu = p
      /\ k.Loop.op = "none"
  BY <1>1, ResumingFacts
<1>3. CASE k.InterruptedBySignal[p]
  <2>1. PICK r : r = RemoveWaitingProcess(k, p)
    OBVIOUS
  <2>2. Base(r) /\ Kept(k, r)
    BY <1>2, <2>1, RemoveWaiterBase
  <2>3. PICK s : InterruptedWritten(r, s, p, FALSE)
    BY DEF InterruptedWritten
  <2>4. Base(s) /\ Kept(r, s)
    BY <1>2, <2>2, <2>3, InterruptedBase
  <2>5. PICK t : t = Return(s, p)
    OBVIOUS
  <2>6. Orderly(t)
    <3>1. Kept(k, s)
      BY <2>2, <2>4, KeptComposes
    <3> QED
      BY <1>1, <2>4, <2>5, <3>1, CallReturns
  <2>7. k' = t
    BY <1>3, <2>1, <2>3, <2>5 DEF ResumeReadEvent, InterruptedWritten
  <2> QED
    BY <2>6, <2>7 DEF KernelInv
<1>4. CASE ~k.InterruptedBySignal[p]
  <2>1. PICK t : t \in ReadEventFrom(k, p) /\ k' = t
    BY <1>4 DEF ResumeReadEvent
  <2>2. Orderly(t)
    BY <1>2, <2>1, ReadEventOrderly
  <2> QED
    BY <2>1, <2>2 DEF KernelInv
<1> QED
  BY <1>3, <1>4

-----------------------------------------------------------------------------
(* Interrupts                                                              *)

\* What an interrupt records of the process it stopped concerns neither status
\* nor queues.
LEMMA CaptureBase ==
    ASSUME NEW s, Base(s), NEW t, t = Capture(s)
    PROVE  Base(t) /\ Kept(s, t) /\ Same(s, t, {"CurrentProcessId"})
<1>1. CASE s.cpu = NullProcess
  <2>1. t = s
    BY <1>1 DEF Capture
  <2> QED
    BY <2>1, KeptSame, StateOf DEF Base
<1>2. CASE s.cpu # NullProcess
  <2>1. t = GetRunningProcess(s)
    BY <1>2 DEF Capture
  <2> QED
    BY <2>1, GetRunningBase
<1> QED
  BY <1>1, <1>2

\* SynchronizationManager::Tick changes no tag's process.
LEMMA TickedElements ==
    ASSUME NEW q \in Seq([Id : ProcessIds, Ticks : 0 .. MaxTicks])
    PROVE  /\ Ticked(q) \in Seq([Id : ProcessIds, Ticks : 0 .. MaxTicks])
           /\ DOMAIN Ticked(q) = DOMAIN q
           /\ \A i \in DOMAIN q : Ticked(q)[i].Id = q[i].Id
<1> DEFINE S == [Id : ProcessIds, Ticks : 0 .. MaxTicks]
           tag(i) == IF q[i].Ticks > 0 THEN [q[i] EXCEPT !.Ticks = @ - 1] ELSE q[i]
<1>1. DOMAIN q = 1 .. Len(q) /\ Len(q) \in Nat
  OBVIOUS
<1>2. ASSUME NEW i \in 1 .. Len(q)
      PROVE  tag(i) \in S /\ tag(i).Id = q[i].Id
  <2>1. q[i] \in S
    <3> HIDE DEF S
    <3>1. q \in Seq(S)
      BY DEF S
    <3> QED
      BY <3>1
  <2>2. PICK e \in S : e = q[i]
    BY <2>1
  <2>3. CASE e.Ticks > 0
    <3>1. PICK u : u = [e EXCEPT !.Ticks = @ - 1]
      OBVIOUS
    <3>2. u \in S /\ u.Id = e.Id
      BY <2>3, <3>1, TickAssumption
    <3> QED
      BY <2>2, <2>3, <3>1, <3>2
  <2>4. CASE ~(e.Ticks > 0)
    BY <2>2, <2>4
  <2> QED
    BY <2>3, <2>4
<1>3. Ticked(q) = [i \in 1 .. Len(q) |-> tag(i)]
  BY <1>1 DEF Ticked
<1> HIDE DEF S, tag
<1>4. Ticked(q) \in Seq(S)
  BY <1>1, <1>2, <1>3
<1>5. DOMAIN Ticked(q) = DOMAIN q /\ \A i \in DOMAIN q : Ticked(q)[i].Id = q[i].Id
  BY <1>1, <1>2, <1>3
<1> QED
  BY <1>4, <1>5 DEF S

\* A tick counts the sleepers down and wakes nobody yet.
LEMMA SyncTickBase ==
    ASSUME NEW s, Base(s), NEW t, t = SyncTick(s)
    PROVE  Base(t) /\ Kept(s, t) /\ Same(s, t, {"SleepQueue"})
<1>1. s \in KernelState /\ s.SleepQueue \in Seq([Id : ProcessIds, Ticks : 0 .. MaxTicks])
  BY DEF Base, KernelState
<1>2. PICK q : q = Ticked(s.SleepQueue)
  OBVIOUS
<1>3. /\ q \in Seq([Id : ProcessIds, Ticks : 0 .. MaxTicks])
      /\ DOMAIN q = DOMAIN s.SleepQueue
      /\ \A i \in DOMAIN s.SleepQueue : q[i].Id = s.SleepQueue[i].Id
  <2>1. PICK r : r = s.SleepQueue
    OBVIOUS
  <2>2. r \in Seq([Id : ProcessIds, Ticks : 0 .. MaxTicks]) /\ q = Ticked(r)
    BY <1>1, <1>2, <2>1
  <2>3. /\ Ticked(r) \in Seq([Id : ProcessIds, Ticks : 0 .. MaxTicks])
        /\ DOMAIN Ticked(r) = DOMAIN r
        /\ \A i \in DOMAIN r : Ticked(r)[i].Id = r[i].Id
    BY <2>2, TickedElements
  <2> QED
    BY <2>1, <2>2, <2>3
<1>4. q \in TypeOf("SleepQueue") /\ "SleepQueue" \in Fields
  <2> DEFINE S == Seq([Id : ProcessIds, Ticks : 0 .. MaxTicks])
  <2>1. q \in S
    BY <1>3
  <2>2. TypeOf("SleepQueue") = S
    BY FieldTypes
  <2> HIDE DEF S
  <2> QED
    BY <2>1, <2>2, FieldNames
<1>5. t = [s EXCEPT !.SleepQueue = q]
  BY <1>2 DEF SyncTick
<1>6. t \in KernelState /\ Same(s, t, {"SleepQueue"}) /\ t.SleepQueue = q
  BY <1>1, <1>4, <1>5, FieldReplaced
<1>7. /\ t.Status = s.Status /\ t.ReadyQueue = s.ReadyQueue /\ t.cpu = s.cpu
      /\ t.CurrentProcessId = s.CurrentProcessId
      /\ t.TimerRemaining = s.TimerRemaining /\ t.Call = s.Call
      /\ t.HasSavedSignalState = s.HasSavedSignalState
      /\ t.PendingSignalMask = s.PendingSignalMask
      /\ t.BlockedSignalMask = s.BlockedSignalMask
      /\ t.Loop = s.Loop /\ t.halted = s.halted
  BY <1>6, FieldNames DEF Same
<1>8. Sleepers(t.SleepQueue) = Sleepers(s.SleepQueue)
  BY <1>3, <1>6 DEF Sleepers
<1>9. SleepOnce(t.SleepQueue)
  BY <1>3, <1>6 DEF Base, SleepersBlocked, SleepOnce
<1>10. SleepersBlocked(t)
  BY <1>7, <1>8, <1>9 DEF Base, SleepersBlocked
<1>11. QueueSound(t) /\ RunningOnCpu(t) /\ NullAlive(t)
  BY <1>7 DEF Base, QueueSound, RunningOnCpu, NullAlive
<1>12. Quiet(t)
  BY <1>7 DEF Base, Quiet, CanDispatch, Deliverable
<1> QED
  BY <1>6, <1>7, <1>10, <1>11, <1>12, KeptSame DEF Base

\* The end of the timer interrupt, in user mode or in the idle loop.
LEMMA FinishTickOrderly ==
    ASSUME NEW s, Base(s), s.Call[s.cpu].call = "user", s.Loop.op = "none",
           NEW t, t = FinishTick(s)
    PROVE  Orderly(t)
<1>1. PICK u : u = SyncTick(s)
  OBVIOUS
<1>2. Base(u) /\ Kept(s, u)
  BY <1>1, SyncTickBase
<1>3. PICK expired : expired = ExpiredTags(u)
  OBVIOUS
<1>4. PICK v : v = IF expired = {} THEN u ELSE WakeProcess(u, u.SleepQueue[Min(expired)].Id)
  OBVIOUS
<1>5. Base(v) /\ Kept(u, v)
  <2>1. CASE expired = {}
    BY <1>2, <1>4, <2>1, KeptSame
  <2>2. CASE expired # {}
    <3> DEFINE S == [Id : ProcessIds, Ticks : 0 .. MaxTicks]
    <3>1. u.SleepQueue \in Seq(S)
      BY <1>2 DEF Base, KernelState
    <3>2. expired \subseteq DOMAIN u.SleepQueue
      BY <1>3 DEF ExpiredTags
    <3>3. DOMAIN u.SleepQueue = 1 .. Len(u.SleepQueue)
      BY <3>1
    <3>4. PICK i : i = Min(expired)
      OBVIOUS
    <3>5. i \in DOMAIN u.SleepQueue
      <4>1. expired \subseteq Nat
        BY <3>2, <3>3
      <4> QED
        BY <2>2, <3>2, <3>4, <4>1, MinIsSmallest
    <3>6. u.SleepQueue[i] \in S
      <4> HIDE DEF S
      <4> QED
        BY <3>1, <3>3, <3>5
    <3>7. PICK p : p = u.SleepQueue[i].Id
      OBVIOUS
    <3>8. p \in ProcessIds
      BY <3>6, <3>7
    <3>9. v = UnblockProcess(u, p)
      BY <1>4, <2>2, <3>4, <3>7 DEF WakeProcess
    <3> QED
      BY <1>2, <3>8, <3>9, UnblockBase
  <2> QED
    BY <2>1, <2>2
<1>6. v.Call[v.cpu].call = "user" /\ v.Loop.op = "none"
  <2>1. s.cpu \in ProcessIds
    BY DEF Base, KernelState
  <2>2. Kept(s, v)
    BY <1>2, <1>5, KeptComposes
  <2> QED
    BY <2>1, <2>2, UserFrameType DEF Kept
<1>7. t = Schedule(v)
  BY <1>1, <1>3, <1>4 DEF FinishTick
<1> QED
  BY <1>5, <1>6, <1>7, ScheduledOrderly DEF CpuInCall

\* An interrupt finds a process in its program.
LEMMA InterruptibleFacts ==
    ASSUME KernelInv, Interruptible
    PROVE  /\ Base(k) /\ LoopSound(k) /\ k.Call[k.cpu].call = "user" /\ k.Loop.op = "none"
           /\ k.cpu \in ProcessIds
  BY DEF KernelInv, Orderly, Interruptible, InUserMode, Base, KernelState

\* The timer interrupt preserves the invariant: one sleeper wakes, and the
\* next process runs.
LEMMA TimerInterruptStep ==
    ASSUME KernelInv, TimerInterrupt
    PROVE  KernelInv'
<1>1. /\ Base(k) /\ k.Call[k.cpu].call = "user" /\ k.Loop.op = "none" /\ k.cpu \in ProcessIds
  BY InterruptibleFacts DEF TimerInterrupt
<1>2. PICK s : s = Capture(k)
  OBVIOUS
<1>3. Base(s) /\ Kept(k, s) /\ Same(k, s, {"CurrentProcessId"})
  BY <1>1, <1>2, CaptureBase
<1>4. s.Call[s.cpu].call = "user" /\ s.Loop.op = "none"
  BY <1>1, <1>3, FieldNames DEF Same
<1>5. CASE Armed(k, 0) = {}
  <2>1. PICK t : t = FinishTick(s)
    OBVIOUS
  <2>2. Orderly(t)
    BY <1>3, <1>4, <2>1, FinishTickOrderly
  <2>3. k' = t
    BY <1>2, <1>5, <2>1 DEF TimerInterrupt
  <2> QED
    BY <2>2, <2>3 DEF KernelInv
<1>6. CASE Armed(k, 0) # {}
  <2>1. PICK v \in Loops : v = [op |-> "timer", index |-> 0]
    <3>1. 0 \in 0 .. MaxProcesses
      BY TableAssumption
    <3>2. [op |-> "timer", index |-> 0] \in Loops
      BY <3>1 DEF Loops
    <3> QED
      BY <3>2
  <2>2. PICK t : t = [s EXCEPT !.Loop = v]
    OBVIOUS
  <2>3. Base(t) /\ Same(s, t, {"Loop"}) /\ t.Loop = v
    BY <1>3, <2>2, LoopWritten
  <2>4. t.Call[t.cpu].call = "user" /\ t.Loop.op = "timer"
    BY <1>4, <2>1, <2>3, FieldNames DEF Same
  <2>5. Orderly(t)
    BY <2>3, <2>4 DEF Orderly, CpuInCall, LoopSound
  <2>6. k' = t
    BY <1>2, <1>6, <2>1, <2>2 DEF TimerInterrupt
  <2> QED
    BY <2>5, <2>6 DEF KernelInv
<1> QED
  BY <1>5, <1>6

\* One interval timer: the signal may stop or kill the process.
LEMMA TickTimerBase ==
    ASSUME NEW s, Base(s), NEW p \in UserIds, s.TimerRemaining[p] > 0, NEW t, t = TickTimer(s, p)
    PROVE  Base(t) /\ Kept(s, t)
<1>1. p \in ProcessIds /\ s.TimerRemaining \in [ProcessIds -> 0 .. MaxTicks]
  BY NullIsProcess DEF Base, KernelState
<1>2. SIGALRM \in Signals
  BY <1>1 DEF Base, NullAlive
<1>3. PICK ticks : ticks = s.TimerRemaining[p] - 1
  OBVIOUS
<1>4. ticks \in 0 .. MaxTicks
  <2>1. s.TimerRemaining[p] \in 0 .. MaxTicks
    BY <1>1
  <2> QED
    BY <1>3, <2>1, TickAssumption
<1>5. PICK u : TimerSet(s, u, p, ticks)
  BY DEF TimerSet
<1>6. Base(u) /\ Kept(s, u)
  BY <1>2, <1>4, <1>5, TimerWritten
<1>7. u = [s EXCEPT !.TimerRemaining[p] = @ - 1]
  BY <1>3, <1>5 DEF TimerSet
<1>8. CASE s.TimerRemaining[p] > 1
  <2>1. t = u
    BY <1>7, <1>8 DEF TickTimer
  <2> QED
    BY <1>6, <2>1
<1>9. CASE ~(s.TimerRemaining[p] > 1)
  <2>1. PICK v : v = SignalProcess(u, p, SIGALRM)
    OBVIOUS
  <2>2. Base(v) /\ Kept(u, v)
    BY <1>2, <1>6, <2>1, SignalBase
  <2>3. v.TimerInterval \in [ProcessIds -> 0 .. MaxTicks]
    BY <2>2 DEF Base, KernelState
  <2>4. PICK interval : interval = v.TimerInterval[p]
    OBVIOUS
  <2>5. interval \in 0 .. MaxTicks
    BY <1>1, <2>3, <2>4
  <2>6. PICK w : TimerSet(v, w, p, interval)
    BY DEF TimerSet
  <2>7. Base(w) /\ Kept(v, w)
    BY <1>2, <2>2, <2>5, <2>6, TimerWritten
  <2>8. t = w
    BY <1>7, <1>9, <2>1, <2>4, <2>6 DEF TickTimer, TimerSet
  <2> QED
    BY <1>6, <2>2, <2>7, <2>8, KeptComposes
<1> QED
  BY <1>8, <1>9

\* An iteration of the loop over interval timers preserves the invariant.
LEMMA TimerStepStep ==
    ASSUME KernelInv, TimerStep
    PROVE  KernelInv'
<1>1. /\ Base(k) /\ k.Loop.op = "timer" /\ k.Call[k.cpu].call = "user" /\ k \in KernelState
      /\ k.cpu \in ProcessIds
  BY DEF KernelInv, Orderly, LoopSound, TimerStep, Base, KernelState
<1>2. k.Loop.index \in 0 .. MaxProcesses
  <2>1. k.Loop \in Loops
    BY <1>1 DEF KernelState
  <2> QED
    BY <2>1 DEF Loops
<1>3. PICK armed : armed = Armed(k, k.Loop.index)
  OBVIOUS
<1>4. CASE armed = {}
  <2>1. PICK s : s = [k EXCEPT !.Loop = NoLoop]
    OBVIOUS
  <2>2. Base(s) /\ Same(k, s, {"Loop"}) /\ s.Loop = NoLoop
    BY <1>1, <2>1, NoLoopType, LoopWritten
  <2>3. s.Call[s.cpu].call = "user" /\ s.Loop.op = "none"
    BY <1>1, <2>2, NoLoopType, FieldNames DEF Same
  <2>4. PICK t : t = FinishTick(s)
    OBVIOUS
  <2>5. Orderly(t)
    BY <2>2, <2>3, <2>4, FinishTickOrderly
  <2>6. k' = t
    BY <1>3, <1>4, <2>1, <2>4 DEF TimerStep
  <2> QED
    BY <2>5, <2>6 DEF KernelInv
<1>5. CASE armed # {}
  <2>1. PICK p : p = Min(armed)
    OBVIOUS
  <2>2. p \in armed
    <3>1. armed \subseteq Nat
      BY <1>2, <1>3, TableAssumption DEF Armed
    <3> QED
      BY <1>5, <2>1, <3>1, MinIsSmallest
  <2>3. p \in k.Loop.index .. MaxProcesses - 1 /\ k.TimerRemaining[p] > 0
    BY <1>3, <2>2 DEF Armed
  <2>4. p \in ProcessIds
    BY <1>2, <2>3, TableAssumption DEF ProcessIds
  <2>5. p \in UserIds
    <3>1. k.TimerRemaining[p] # 0
      BY <2>3
    <3> QED
      BY <1>1, <2>4, <3>1 DEF Base, NullAlive, UserIds
  <2>6. PICK s : s = TickTimer(k, p)
    OBVIOUS
  <2>7. Base(s) /\ Kept(k, s)
    BY <1>1, <2>3, <2>5, <2>6, TickTimerBase
  <2>8. s.Loop.op = "timer" /\ s.Loop \in Loops /\ s.Call[s.cpu].call = "user"
    BY <1>1, <2>7, UserFrameType DEF Kept, Base, KernelState
  <2>9. PICK v : v = [s.Loop EXCEPT !.index = p + 1]
    OBVIOUS
  <2>10. v \in Loops /\ v.op = "timer"
    <3>1. p + 1 \in 0 .. MaxProcesses
      BY <2>4, TableAssumption DEF ProcessIds
    <3> QED
      BY <2>8, <2>9, <3>1 DEF Loops
  <2>11. PICK t : t = [s EXCEPT !.Loop = v]
    OBVIOUS
  <2>12. Base(t) /\ Same(s, t, {"Loop"}) /\ t.Loop = v
    BY <2>7, <2>10, <2>11, LoopWritten
  <2>13. t.Call[t.cpu].call = "user" /\ t.Loop.op = "timer"
    BY <2>8, <2>10, <2>12, FieldNames DEF Same
  <2>14. Orderly(t)
    BY <2>12, <2>13 DEF Orderly, CpuInCall, LoopSound
  <2>15. k' = t
    BY <1>3, <1>5, <2>1, <2>6, <2>9, <2>11 DEF TimerStep
  <2> QED
    BY <2>14, <2>15 DEF KernelInv
<1> QED
  BY <1>4, <1>5

\* Waking the readers of the terminal keeps status and queues in agreement.
LEMMA NotifyTTYBase ==
    ASSUME NEW s, Base(s), NEW t, t = NotifyTTYInputAvailable(s)
    PROVE  Base(t) /\ Kept(s, t)
<1>1. s \in KernelState /\ s.TTYInputWaitQueue \in Seq(ProcessIds)
  BY DEF Base, KernelState
<1>2. CASE s.TTYInputWaitQueue = <<>>
  <2>1. t = s
    BY <1>2 DEF NotifyTTYInputAvailable
  <2> QED
    BY <2>1, KeptSame
<1>3. CASE s.TTYInputWaitQueue # <<>>
  <2>1. PICK p : p = Head(s.TTYInputWaitQueue)
    OBVIOUS
  <2>2. p \in ProcessIds
    BY <1>1, <1>3, <2>1
  <2>3. PICK u : u = RemoveFromTTYInputWaitQueue(s, p)
    OBVIOUS
  <2>4. u \in KernelState /\ Same(s, u, {"TTYInputWaitQueue"})
    BY <1>1, <2>3, RemoveFromTTYEffect
  <2>5. {"TTYInputWaitQueue"} \cap (BaseFields \cup {"Loop", "halted"}) = {}
    BY DEF BaseFields
  <2>6. Base(u) /\ Kept(s, u)
    BY <2>4, <2>5, SideFieldsBase
  <2>7. t = UnblockProcess(u, p)
    BY <1>3, <2>1, <2>3 DEF NotifyTTYInputAvailable
  <2> QED
    BY <2>2, <2>6, <2>7, UnblockBase, KeptComposes
<1> QED
  BY <1>2, <1>3

\* The keyboard interrupt preserves the invariant.
LEMMA KeyboardInterruptStep ==
    ASSUME KernelInv, KeyboardInterrupt
    PROVE  KernelInv'
<1>1. /\ Base(k) /\ LoopSound(k) /\ k.Call[k.cpu].call = "user" /\ k.Loop.op = "none"
  BY InterruptibleFacts DEF KeyboardInterrupt
<1>2. PICK bytes \in 1 .. MaxInput - k.TTYReadable :
        k' = NotifyTTYInputAvailable([Capture(k) EXCEPT !.TTYReadable = @ + bytes])
  BY DEF KeyboardInterrupt
<1>3. PICK s : s = Capture(k)
  OBVIOUS
<1>4. Base(s) /\ Kept(k, s)
  BY <1>1, <1>3, CaptureBase
<1>5. PICK n : n = s.TTYReadable + bytes
  OBVIOUS
<1>6. n \in TypeOf("TTYReadable")
  <2>1. s.TTYReadable \in Nat /\ k.TTYReadable \in Nat
    BY <1>1, <1>4 DEF Base, KernelState
  <2>2. bytes \in Nat
    BY <2>1, InputAssumption
  <2>3. n \in Nat
    BY <1>5, <2>1, <2>2
  <2> QED
    BY <2>3 DEF TypeOf
<1>7. PICK u : u = [s EXCEPT !.TTYReadable = n]
  OBVIOUS
<1>8. Base(u) /\ Kept(s, u)
  BY <1>4, <1>6, <1>7, SideFieldNames, SideFieldWritten
<1>9. PICK t : t = NotifyTTYInputAvailable(u)
  OBVIOUS
<1>10. Base(t) /\ Kept(u, t)
  BY <1>8, <1>9, NotifyTTYBase
<1>11. Kept(k, t)
  BY <1>4, <1>8, <1>10, KeptComposes
<1>12. Orderly(t)
  BY <1>1, <1>10, <1>11, KeptOrderly
<1>13. k' = t
  BY <1>2, <1>3, <1>5, <1>7, <1>9
<1> QED
  BY <1>12, <1>13 DEF KernelInv

\* The mouse interrupt preserves the invariant.
LEMMA MouseInterruptStep ==
    ASSUME KernelInv, MouseInterrupt
    PROVE  KernelInv'
<1>1. /\ Base(k) /\ LoopSound(k) /\ k.Call[k.cpu].call = "user" /\ k.Loop.op = "none"
      /\ k.cpu \in ProcessIds
  BY InterruptibleFacts DEF MouseInterrupt
<1>2. PICK s : s = Capture(k)
  OBVIOUS
<1>3. Base(s) /\ Kept(k, s)
  BY <1>1, <1>2, CaptureBase
<1>4. PICK n : n = IF s.EventsPending < MaxInput THEN s.EventsPending + 1 ELSE s.EventsPending
  OBVIOUS
<1>5. n \in Nat
  <2>1. s.EventsPending \in Nat
    BY <1>3 DEF Base, KernelState
  <2> QED
    BY <1>4, <2>1, InputAssumption
<1>6. PICK u : u = [s EXCEPT !.EventsPending = n]
  OBVIOUS
<1>7. Base(u) /\ Kept(s, u)
  BY <1>3, <1>5, <1>6, PendingEventsWritten
<1>8. Kept(k, u)
  BY <1>3, <1>7, KeptComposes
<1>9. u.Call[u.cpu].call = "user" /\ Orderly(u)
  BY <1>1, <1>7, <1>8, UserFrameType, KeptOrderly DEF Kept
<1>10. PICK v \in Loops : v = [op |-> "mouse", index |-> 0]
  <2>1. 0 \in 0 .. MaxProcesses
    BY TableAssumption
  <2>2. [op |-> "mouse", index |-> 0] \in Loops
    BY <2>1 DEF Loops
  <2> QED
    BY <2>2
<1>11. PICK t : t = [u EXCEPT !.Loop = v]
  OBVIOUS
<1>12. Base(t) /\ Same(u, t, {"Loop"}) /\ t.Loop = v
  BY <1>7, <1>11, LoopWritten
<1>13. t.Call[t.cpu].call = "user" /\ t.Loop.op = "mouse" /\ t.Loop.index = NullProcess
  BY <1>9, <1>10, <1>12, FieldNames DEF Same, NullProcess
<1>14. t.Status[NullProcess] # "BLOCKED"
  BY <1>12 DEF Base, NullAlive
<1>15. Orderly(t)
  BY <1>12, <1>13, <1>14, NullIsProcess DEF Orderly, CpuInCall, LoopSound
<1>16. k' = u \/ k' = t
  BY <1>2, <1>4, <1>6, <1>10, <1>11 DEF MouseInterrupt
<1> QED
  BY <1>9, <1>15, <1>16 DEF KernelInv

\* An iteration of the loop over event waiters preserves the invariant.
LEMMA MouseStepStep ==
    ASSUME KernelInv, MouseStep
    PROVE  KernelInv'
<1>1. /\ Base(k) /\ LoopSound(k) /\ k.Loop.op = "mouse" /\ k.Call[k.cpu].call = "user"
      /\ k \in KernelState /\ k.cpu \in ProcessIds
  BY DEF KernelInv, Orderly, LoopSound, MouseStep, Base, KernelState
<1>2. CASE k.EventWaiters # <<>>
  <2>1. k.EventWaiters \in Seq(ProcessIds)
    BY <1>1 DEF KernelState
  <2>2. PICK p : p = Head(k.EventWaiters)
    OBVIOUS
  <2>3. PICK q : q = Tail(k.EventWaiters)
    OBVIOUS
  <2>4. p \in ProcessIds /\ q \in Seq(ProcessIds)
    BY <1>2, <2>1, <2>2, <2>3
  <2>5. PICK u : u = UnblockProcess(k, p)
    OBVIOUS
  <2>6. Base(u) /\ Woken(k, u, p) /\ Kept(k, u)
    BY <1>1, <2>4, <2>5, UnblockBase
  <2>7. u.EventWaiters = k.EventWaiters
    BY <2>6, FieldNames DEF Woken, Same
  <2>8. u.Status[p] # "BLOCKED"
    BY <1>1, <2>4, <2>6 DEF Woken, KernelState
  <2>9. PICK v : v = [u EXCEPT !.EventWaiters = q]
    OBVIOUS
  <2>10. Base(v) /\ Kept(u, v) /\ Same(u, v, {"EventWaiters"})
    BY <2>4, <2>6, <2>9, WaitersWritten
  <2>11. v.Loop = k.Loop /\ v.Status = u.Status /\ v.Call[v.cpu].call = "user" /\ v.Loop \in Loops
    <3>1. Kept(k, v)
      BY <2>6, <2>10, KeptComposes
    <3> QED
      BY <1>1, <2>10, <3>1, UserFrameType, FieldNames DEF Kept, Same, KernelState
  <2>12. PICK l : l = [v.Loop EXCEPT !.index = p]
    OBVIOUS
  <2>13. l \in Loops /\ l.op = "mouse" /\ l.index = p
    <3>1. p \in 0 .. MaxProcesses
      BY <2>4, TableAssumption DEF ProcessIds
    <3> QED
      BY <1>1, <2>11, <2>12, <3>1 DEF Loops
  <2>14. PICK t : t = [v EXCEPT !.Loop = l]
    OBVIOUS
  <2>15. Base(t) /\ Same(v, t, {"Loop"}) /\ t.Loop = l
    BY <2>10, <2>13, <2>14, LoopWritten
  <2>16. /\ t.Call[t.cpu].call = "user" /\ t.Loop.op = "mouse" /\ t.Loop.index = p
         /\ t.Status[p] # "BLOCKED"
    BY <2>8, <2>11, <2>13, <2>15, FieldNames DEF Same
  <2>17. Orderly(t)
    BY <2>4, <2>15, <2>16 DEF Orderly, CpuInCall, LoopSound
  <2>18. k' = t
    <3>1. k' = [u EXCEPT !.EventWaiters = Tail(@), !.Loop.index = p]
      BY <1>2, <2>2, <2>5 DEF MouseStep
    <3> QED
      BY <2>3, <2>7, <2>9, <2>12, <2>14, <3>1
  <2> QED
    BY <2>17, <2>18 DEF KernelInv
<1>3. CASE k.EventWaiters = <<>>
  <2>1. PICK p : p = k.Loop.index
    OBVIOUS
  <2>2. p \in ProcessIds /\ k.Status[p] # "BLOCKED"
    BY <1>1, <2>1 DEF LoopSound
  <2>3. PICK s : s = [k EXCEPT !.Loop = NoLoop]
    OBVIOUS
  <2>4. Base(s) /\ Same(k, s, {"Loop"}) /\ s.Loop = NoLoop
    BY <1>1, <2>3, NoLoopType, LoopWritten
  <2>5. /\ s.Call[s.cpu].call = "user" /\ s.Loop.op = "none" /\ s.Status[p] # "BLOCKED"
    BY <1>1, <2>2, <2>4, NoLoopType, FieldNames DEF Same
  <2>6. PICK t : t = RunProcess(s, p)
    OBVIOUS
  <2>7. Base(t) /\ Scheduled(s, t)
    BY <2>2, <2>4, <2>5, <2>6, RunBase
  <2>8. CpuInCall(t) /\ t.Loop.op = "none"
    BY <2>5, <2>7 DEF Scheduled, CpuInCall
  <2>9. Orderly(t)
    BY <2>7, <2>8 DEF Orderly, LoopSound
  <2>10. k' = t
    BY <1>3, <2>1, <2>3, <2>6 DEF MouseStep
  <2> QED
    BY <2>9, <2>10 DEF KernelInv
<1> QED
  BY <1>2, <1>3

\* A fault that kills its process preserves the invariant.
LEMMA ExceptionStep ==
    ASSUME KernelInv, NEW p, Exception(p)
    PROVE  KernelInv'
<1>1. /\ Base(k) /\ LoopSound(k) /\ k.Call[k.cpu].call = "user" /\ k.Loop.op = "none"
      /\ k \in KernelState /\ k.cpu \in ProcessIds
  BY DEF KernelInv, Orderly, Exception, InUserMode, Base, KernelState
<1>2. PICK current : current = GetCurrentProcess(k)
  OBVIOUS
<1>3. CASE current \in UserIds
  <2>1. PICK s : s = KillProcess(k, current)
    OBVIOUS
  <2>2. Base(s) /\ Kept(k, s)
    BY <1>1, <1>3, <2>1, KillBase
  <2>3. CpuInCall(s) /\ s.Loop.op = "none"
    BY <1>1, <2>2, UserFrameType DEF Kept, CpuInCall
  <2>4. PICK t : t = Schedule(s)
    OBVIOUS
  <2>5. Orderly(t)
    BY <2>2, <2>3, <2>4, ScheduledOrderly
  <2>6. k' = t
    BY <1>2, <1>3, <2>1, <2>4 DEF Exception
  <2> QED
    BY <2>5, <2>6 DEF KernelInv
<1>4. CASE current \notin UserIds
  <2>1. PICK t : t = [k EXCEPT !.halted = TRUE]
    OBVIOUS
  <2>2. TRUE \in TypeOf("halted") /\ "halted" \in Fields
    BY FieldNames DEF TypeOf
  <2>3. t \in KernelState /\ Same(k, t, {"halted"})
    BY <1>1, <2>1, <2>2, FieldReplaced
  <2>4. \A f \in BaseFields : t[f] = k[f]
    BY <2>3 DEF Same, BaseFields, Fields
  <2>5. Base(t)
    BY <1>1, <2>3, <2>4, BaseFrame
  <2>6. t.Call = k.Call /\ t.cpu = k.cpu /\ t.Loop = k.Loop
    BY <2>3, FieldNames DEF Same
  <2>7. Orderly(t)
    BY <1>1, <2>5, <2>6, UserOrderly
  <2>8. k' = t
    BY <1>2, <1>4, <2>1 DEF Exception
  <2> QED
    BY <2>7, <2>8 DEF KernelInv
<1> QED
  BY <1>3, <1>4

-----------------------------------------------------------------------------
(* The theorems                                                            *)

\* The state after boot is typed.
LEMMA BootTyped ==
    ASSUME NEW space \in Spaces, NEW s, s = BootState(space)
    PROVE  s \in KernelState
<1>1. IsState(s)
  BY DEF BootState, IsState, Fields
<1>2. INVALID \in Ids /\ NULL \in Spaces \cup {NULL} /\ space \in Spaces \cup {NULL}
      /\ UserFrame \in Frames /\ 0 \in 0 .. MaxTicks /\ NoLoop \in Loops
      /\ NullProcess \in ProcessIds /\ InitProcess \in ProcessIds /\ NullProcess \in Ids
  BY UserFrameType, NoLoopType, NullIsProcess, TickAssumption DEF Ids
<1>3. s.Status \in [ProcessIds -> ProcessStates]
  BY DEF BootState, ProcessStates
<1>4. /\ s.ParrentId \in [ProcessIds -> Ids]
      /\ s.AddressSpace \in [ProcessIds -> Spaces \cup {NULL}]
      /\ s.VforkChildId \in [ProcessIds -> Ids]
      /\ s.VforkParentId \in [ProcessIds -> Ids]
      /\ s.WaitingForChild \in [ProcessIds -> BOOLEAN]
      /\ s.PendingChildId \in [ProcessIds -> Ids]
  BY <1>2 DEF BootState
<1>5. /\ s.BlockedSignalMask \in [ProcessIds -> SUBSET Signals]
      /\ s.PendingSignalMask \in [ProcessIds -> SUBSET Signals]
      /\ s.SavedSignalMask \in [ProcessIds -> SUBSET Signals]
      /\ s.HasSavedSignalState \in [ProcessIds -> BOOLEAN]
      /\ s.SavedSignalWasSyscall \in [ProcessIds -> BOOLEAN]
      /\ s.InterruptedBySignal \in [ProcessIds -> BOOLEAN]
  BY DEF BootState
<1>6. s.SignalActions \in [ProcessIds -> [Signals -> Handlers]]
  <2>1. PICK actions : actions = [x \in Signals |-> "DFL"]
    OBVIOUS
  <2>2. actions \in [Signals -> Handlers]
    BY <2>1 DEF Handlers
  <2>3. s.SignalActions = [q \in ProcessIds |-> actions]
    BY <2>1 DEF BootState
  <2> QED
    BY <2>2, <2>3
<1>7. /\ s.TimerRemaining \in [ProcessIds -> 0 .. MaxTicks]
      /\ s.TimerInterval \in [ProcessIds -> 0 .. MaxTicks]
      /\ s.Call \in [ProcessIds -> Frames]
  BY <1>2 DEF BootState
<1>8. /\ s.ReadyQueue \in Seq(ProcessIds) /\ s.CurrentProcess \in BOOLEAN
      /\ s.TTYInputWaitQueue \in Seq(ProcessIds)
      /\ s.EventWaiters \in Seq(ProcessIds)
      /\ s.SleepQueue = <<>> /\ s.FutexWaitQueue = <<>>
  BY <1>2 DEF BootState
<1>9. /\ s.CurrentProcessId \in Ids /\ s.cpu \in ProcessIds
      /\ s.PageTable \in Spaces \cup {NULL} /\ s.Allocated \in SUBSET Spaces
      /\ s.TTYReadable \in Nat /\ s.EventsPending \in Nat
      /\ s.halted \in BOOLEAN /\ s.Loop \in Loops
  BY <1>2 DEF BootState
<1>10. /\ s.SleepQueue \in Seq([Id : ProcessIds, Ticks : 0 .. MaxTicks])
       /\ s.FutexWaitQueue \in Seq([Id : ProcessIds, Key : Spaces \cup {NULL}])
  BY <1>8
<1> HIDE DEF BootState
<1>11. \A f \in Fields : s[f] \in TypeOf(f)
  BY ZenonT(30), <1>3, <1>4, <1>5, <1>6, <1>7, <1>8, <1>9, <1>10, FieldTypes DEF Fields
<1> QED
  BY <1>1, <1>11, TypedIsKernelState DEF Typed

\* The state after boot is orderly.
LEMMA BootOrderly ==
    ASSUME Init
    PROVE  KernelInv
<1>1. PICK space \in Spaces : k = BootState(space)
  BY DEF Init
<1>2. k \in KernelState
  BY <1>1, BootTyped
<1>3. /\ k.Status = [p \in ProcessIds |->
                       CASE p = NullProcess -> "RUNNING"
                         [] p = InitProcess -> "READY"
                         [] OTHER -> "TERMINATED"]
      /\ k.ReadyQueue = <<NullProcess, InitProcess>>
      /\ k.SleepQueue = <<>> /\ k.cpu = NullProcess /\ k.CurrentProcessId = NullProcess
      /\ k.TimerRemaining = [p \in ProcessIds |-> 0]
      /\ k.Call = [p \in ProcessIds |-> UserFrame]
      /\ k.Loop = NoLoop
  BY <1>1 DEF BootState
<1>4. /\ k.Status[NullProcess] = "RUNNING" /\ k.Status[InitProcess] = "READY"
      /\ \A p \in ProcessIds \ {NullProcess, InitProcess} : k.Status[p] = "TERMINATED"
  BY <1>3, NullIsProcess
<1>5. QueueSound(k)
  <2>1. PICK q : q = <<NullProcess, InitProcess>>
    OBVIOUS
  <2>2. Range(q) = {NullProcess, InitProcess} /\ IsInjective(q)
    <3>1. DOMAIN q = {1, 2} /\ q[1] = NullProcess /\ q[2] = InitProcess
      BY <2>1
    <3> QED
      BY <3>1, NullIsProcess DEF Range, IsInjective
  <2> QED
    BY ZenonT(30), <1>3, <1>4, <2>1, <2>2, NullIsProcess DEF QueueSound
<1>6. RunningOnCpu(k)
  BY <1>3, <1>4 DEF RunningOnCpu
<1>7. SleepersBlocked(k)
  BY <1>3 DEF SleepersBlocked, SleepOnce, Sleepers
<1>8. NullAlive(k)
  BY <1>3, <1>4 DEF NullAlive
<1>9. Quiet(k)
  BY <1>3, UserFrameType DEF Quiet
<1>10. k.Call[k.cpu].call = "user" /\ k.Loop.op = "none"
  BY <1>3, NullIsProcess, UserFrameType, NoLoopType
<1>11. Base(k)
  BY <1>2, <1>5, <1>6, <1>7, <1>8, <1>9 DEF Base
<1> QED
  BY <1>10, <1>11, UserOrderly DEF KernelInv

\* Every system call preserves the invariant.
LEMMA SystemCallStep ==
    ASSUME KernelInv, NEW p \in UserIds, SystemCall(p)
    PROVE  KernelInv'
<1>1. CASE Fork(p)
  BY <1>1, ForkStep
<1>2. CASE ForkFails(p)
  BY <1>2, ForkFailsStep
<1>3. CASE CloneThread(p)
  BY <1>3, CloneThreadStep
<1>4. CASE Vfork(p)
  BY <1>4, VforkStep
<1>5. CASE Execve(p)
  BY <1>5, ExecveStep
<1>6. CASE ExitGroup(p)
  BY <1>6, ExitGroupStep
<1>7. CASE WaitReturns(p)
  BY <1>7, WaitReturnsStep
<1>8. CASE WaitBlocks(p)
  BY <1>8, WaitBlocksStep
<1>9. CASE Nanosleep(p)
  BY <1>9, NanosleepStep
<1>10. CASE FutexWait(p)
  BY <1>10, FutexWaitStep
<1>11. CASE FutexWake(p)
  BY <1>11, FutexWakeStep
<1>12. CASE Kill(p)
  BY <1>12, KillStep
<1>13. CASE Pause(p)
  BY <1>13, PauseStep
<1>14. CASE Setitimer(p)
  BY <1>14, SetitimerStep
<1>15. CASE Sigaction(p)
  BY <1>15, SigactionStep
<1>16. CASE Sigprocmask(p)
  BY <1>16, SigprocmaskStep
<1>17. CASE Sigreturn(p)
  BY <1>17, SigreturnStep
<1>18. CASE Sigsuspend(p)
  BY <1>18, SigsuspendStep
<1>19. CASE ReadTTY(p)
  BY <1>19, ReadTTYStep
<1>20. CASE ReadEvent(p)
  BY <1>20, ReadEventStep
<1>21. CASE RejectedSystemCall(p)
  BY <1>21, RejectedSystemCallStep
<1> QED
  BY <1>1, <1>2, <1>3, <1>4, <1>5, <1>6, <1>7, <1>8, <1>9, <1>10, <1>11, <1>12, <1>13,
     <1>14, <1>15, <1>16, <1>17, <1>18, <1>19, <1>20, <1>21 DEF SystemCall

\* Every step that finishes what the kernel has begun preserves the invariant.
LEMMA KernelStepStep ==
    ASSUME KernelInv, KernelStep
    PROVE  KernelInv'
<1>1. ASSUME NEW p \in UserIds,
             \/ ResumeVfork(p) \/ ResumeWait(p) \/ ResumeNanosleep(p)
             \/ ResumeFutex(p) \/ ResumePause(p) \/ ResumeSigsuspend(p)
             \/ ResumeReadTTY(p) \/ ResumeReadEvent(p)
      PROVE  KernelInv'
  BY <1>1, ResumeVforkStep, ResumeWaitStep, ResumeNanosleepStep, ResumeFutexStep,
     ResumePauseStep, ResumeSigsuspendStep, ReadTTYStep, ResumeReadEventStep
<1> QED
  BY <1>1, DispatchStepStep, TimerStepStep, MouseStepStep DEF KernelStep

\* KernelInv is inductive: every action of the programs, every interrupt and
\* every continuation of a call leads from orderly states to orderly states.
LEMMA KernelInvInductive ==
    ASSUME KernelInv, [Next]_vars
    PROVE  KernelInv'
<1>1. CASE \E p \in UserIds : SystemCall(p) \/ Exception(p)
  BY <1>1, SystemCallStep, ExceptionStep
<1>2. CASE KernelStep
  BY <1>2, KernelStepStep
<1>3. CASE TimerInterrupt
  BY <1>3, TimerInterruptStep
<1>4. CASE KeyboardInterrupt
  BY <1>4, KeyboardInterruptStep
<1>5. CASE MouseInterrupt
  BY <1>5, MouseInterruptStep
<1>6. CASE HaltLoop \/ UNCHANGED vars
  BY <1>6 DEF HaltLoop, vars, KernelInv
<1> QED
  BY <1>1, <1>2, <1>3, <1>4, <1>5, <1>6 DEF Next

\* Whatever the programs do, between any two steps of the kernel the process
\* table, the queues, the signal masks and the loop it is in fit together.
THEOREM KernelStaysOrderly == Spec => []KernelInv
<1>1. Init => KernelInv
  BY BootOrderly
<1>2. KernelInv /\ [Next]_vars => KernelInv'
  BY KernelInvInductive
<1> QED
  BY <1>1, <1>2, PTL DEF Spec

\* The kernel state stays a record of its type: no process entry, queue entry,
\* tick count or signal mask ever leaves its range.
THEOREM TypeInvariant == Spec => []TypeOK
<1>1. KernelInv => TypeOK
  BY DEF KernelInv, Orderly, Base, TypeOK
<1> QED
  BY <1>1, KernelStaysOrderly, PTL

\* The scheduler's ready queue holds exactly the processes whose Status is READY
\* or RUNNING, each once, after every block, wake-up, creation, stop and kill.
THEOREM ReadyQueueMatches == Spec => []QueueMatchesStatus
<1>1. ASSUME KernelInv
      PROVE  QueueMatchesStatus
  <2>1. k.ReadyQueue \in Seq(ProcessIds) /\ QueueSound(k)
    BY <1>1 DEF KernelInv, Orderly, Base, KernelState
  <2>2. PICK q \in Seq(ProcessIds) : q = k.ReadyQueue
    BY <2>1
  <2>3. DOMAIN q = 1 .. Len(q)
    OBVIOUS
  <2>4. \A i, j \in 1 .. Len(q) : q[i] = q[j] => i = j
    BY <2>1, <2>2, <2>3 DEF QueueSound, IsInjective
  <2>5. \A p : Contains(q, p) <=> p \in Range(q)
    BY <2>3 DEF Contains, Range
  <2> QED
    BY <2>1, <2>2, <2>4, <2>5 DEF QueueSound, QueueMatchesStatus
<1> QED
  BY <1>1, KernelStaysOrderly, PTL

\* rt_sigsuspend never sleeps over a signal that it lets through: not one that
\* was pending when it was called, and not one that is sent while it waits.
THEOREM NoSignalMissed == Spec => []SuspendMissesNoSignal
<1>1. KernelInv => SuspendMissesNoSignal
  BY DEF KernelInv, Orderly, Base, Quiet, SuspendMissesNoSignal
<1> QED
  BY <1>1, KernelStaysOrderly, PTL
=============================================================================
