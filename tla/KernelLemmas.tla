----------------------------- MODULE KernelLemmas -----------------------------
(***************************************************************************)
(* What the functions of LogicLayer do to a kernel state, for every size   *)
(* of the process table and every set of signals.  Base(s) is what holds   *)
(* of the process table, the ready queue, the sleep queue and the signal   *)
(* masks between any two of them; each lemma below says that one function  *)
(* leads from Base to Base, and what else it leaves alone.                 *)
(***************************************************************************)
EXTENDS Kernel, SequenceLemmas

-----------------------------------------------------------------------------
(* Kernel states, field by field                                           *)

Fields ==
    {"Status", "ParrentId", "AddressSpace", "VforkChildId", "VforkParentId",
     "WaitingForChild", "PendingChildId", "BlockedSignalMask",
     "PendingSignalMask", "SavedSignalMask", "HasSavedSignalState",
     "SavedSignalWasSyscall", "InterruptedBySignal", "SignalActions",
     "TimerRemaining", "TimerInterval", "Call", "ReadyQueue",
     "CurrentProcess", "SleepQueue", "TTYInputWaitQueue", "FutexWaitQueue",
     "CurrentProcessId", "cpu", "PageTable", "Allocated", "TTYReadable",
     "EventsPending", "EventWaiters", "halted", "Loop"}

IsState(s) == DOMAIN s = Fields /\ s = [f \in DOMAIN s |-> s[f]]

\* t is s but for the fields in F.
Same(s, t, F) == IsState(t) /\ \A f \in Fields \ F : t[f] = s[f]

TypeOf(f) ==
    CASE f = "Status"                -> [ProcessIds -> ProcessStates]
      [] f = "ParrentId"             -> [ProcessIds -> Ids]
      [] f = "AddressSpace"          -> [ProcessIds -> Spaces \cup {NULL}]
      [] f = "VforkChildId"          -> [ProcessIds -> Ids]
      [] f = "VforkParentId"         -> [ProcessIds -> Ids]
      [] f = "WaitingForChild"       -> [ProcessIds -> BOOLEAN]
      [] f = "PendingChildId"        -> [ProcessIds -> Ids]
      [] f = "BlockedSignalMask"     -> [ProcessIds -> SUBSET Signals]
      [] f = "PendingSignalMask"     -> [ProcessIds -> SUBSET Signals]
      [] f = "SavedSignalMask"       -> [ProcessIds -> SUBSET Signals]
      [] f = "HasSavedSignalState"   -> [ProcessIds -> BOOLEAN]
      [] f = "SavedSignalWasSyscall" -> [ProcessIds -> BOOLEAN]
      [] f = "InterruptedBySignal"   -> [ProcessIds -> BOOLEAN]
      [] f = "SignalActions"         -> [ProcessIds -> [Signals -> Handlers]]
      [] f = "TimerRemaining"        -> [ProcessIds -> 0 .. MaxTicks]
      [] f = "TimerInterval"         -> [ProcessIds -> 0 .. MaxTicks]
      [] f = "Call"                  -> [ProcessIds -> Frames]
      [] f = "ReadyQueue"            -> Seq(ProcessIds)
      [] f = "CurrentProcess"        -> BOOLEAN
      [] f = "SleepQueue"            -> Seq([Id : ProcessIds, Ticks : 0 .. MaxTicks])
      [] f = "TTYInputWaitQueue"     -> Seq(ProcessIds)
      [] f = "FutexWaitQueue"        -> Seq([Id : ProcessIds, Key : Spaces \cup {NULL}])
      [] f = "CurrentProcessId"      -> Ids
      [] f = "cpu"                   -> ProcessIds
      [] f = "PageTable"             -> Spaces \cup {NULL}
      [] f = "Allocated"             -> SUBSET Spaces
      [] f = "TTYReadable"           -> Nat
      [] f = "EventsPending"         -> Nat
      [] f = "EventWaiters"          -> Seq(ProcessIds)
      [] f = "halted"                -> BOOLEAN
      [] f = "Loop"                  -> Loops

Typed(s) == IsState(s) /\ \A f \in Fields : s[f] \in TypeOf(f)

\* The fields of the state record, by name.
LEMMA FieldNames ==
    /\ "Status" \in Fields
    /\ "ParrentId" \in Fields
    /\ "AddressSpace" \in Fields
    /\ "VforkChildId" \in Fields
    /\ "VforkParentId" \in Fields
    /\ "WaitingForChild" \in Fields
    /\ "PendingChildId" \in Fields
    /\ "BlockedSignalMask" \in Fields
    /\ "PendingSignalMask" \in Fields
    /\ "SavedSignalMask" \in Fields
    /\ "HasSavedSignalState" \in Fields
    /\ "SavedSignalWasSyscall" \in Fields
    /\ "InterruptedBySignal" \in Fields
    /\ "SignalActions" \in Fields
    /\ "TimerRemaining" \in Fields
    /\ "TimerInterval" \in Fields
    /\ "Call" \in Fields
    /\ "ReadyQueue" \in Fields
    /\ "CurrentProcess" \in Fields
    /\ "SleepQueue" \in Fields
    /\ "TTYInputWaitQueue" \in Fields
    /\ "FutexWaitQueue" \in Fields
    /\ "CurrentProcessId" \in Fields
    /\ "cpu" \in Fields
    /\ "PageTable" \in Fields
    /\ "Allocated" \in Fields
    /\ "TTYReadable" \in Fields
    /\ "EventsPending" \in Fields
    /\ "EventWaiters" \in Fields
    /\ "halted" \in Fields
    /\ "Loop" \in Fields
  BY DEF Fields

\* The type of each field.
LEMMA FieldTypes ==
    /\ TypeOf("Status") = [ProcessIds -> ProcessStates]
    /\ TypeOf("ParrentId") = [ProcessIds -> Ids]
    /\ TypeOf("AddressSpace") = [ProcessIds -> Spaces \cup {NULL}]
    /\ TypeOf("VforkChildId") = [ProcessIds -> Ids]
    /\ TypeOf("VforkParentId") = [ProcessIds -> Ids]
    /\ TypeOf("WaitingForChild") = [ProcessIds -> BOOLEAN]
    /\ TypeOf("PendingChildId") = [ProcessIds -> Ids]
    /\ TypeOf("BlockedSignalMask") = [ProcessIds -> SUBSET Signals]
    /\ TypeOf("PendingSignalMask") = [ProcessIds -> SUBSET Signals]
    /\ TypeOf("SavedSignalMask") = [ProcessIds -> SUBSET Signals]
    /\ TypeOf("HasSavedSignalState") = [ProcessIds -> BOOLEAN]
    /\ TypeOf("SavedSignalWasSyscall") = [ProcessIds -> BOOLEAN]
    /\ TypeOf("InterruptedBySignal") = [ProcessIds -> BOOLEAN]
    /\ TypeOf("SignalActions") = [ProcessIds -> [Signals -> Handlers]]
    /\ TypeOf("TimerRemaining") = [ProcessIds -> 0 .. MaxTicks]
    /\ TypeOf("TimerInterval") = [ProcessIds -> 0 .. MaxTicks]
    /\ TypeOf("Call") = [ProcessIds -> Frames]
    /\ TypeOf("ReadyQueue") = Seq(ProcessIds)
    /\ TypeOf("CurrentProcess") = BOOLEAN
    /\ TypeOf("SleepQueue") = Seq([Id : ProcessIds, Ticks : 0 .. MaxTicks])
    /\ TypeOf("TTYInputWaitQueue") = Seq(ProcessIds)
    /\ TypeOf("FutexWaitQueue") = Seq([Id : ProcessIds, Key : Spaces \cup {NULL}])
    /\ TypeOf("CurrentProcessId") = Ids
    /\ TypeOf("cpu") = ProcessIds
    /\ TypeOf("PageTable") = Spaces \cup {NULL}
    /\ TypeOf("Allocated") = SUBSET Spaces
    /\ TypeOf("TTYReadable") = Nat
    /\ TypeOf("EventsPending") = Nat
    /\ TypeOf("EventWaiters") = Seq(ProcessIds)
    /\ TypeOf("halted") = BOOLEAN
    /\ TypeOf("Loop") = Loops
  BY DEF TypeOf

\* A state is typed field by field exactly when it is in KernelState.
LEMMA TypedIsKernelState ==
    ASSUME NEW s
    PROVE  Typed(s) <=> s \in KernelState
<1>1. ASSUME Typed(s)
      PROVE  s \in KernelState
  BY <1>1, FieldTypes DEF Typed, IsState, KernelState, Fields
<1>2. ASSUME s \in KernelState
      PROVE  Typed(s)
  <2>1. IsState(s)
    BY <1>2 DEF IsState, KernelState, Fields
  <2>2. \A f \in Fields : s[f] \in TypeOf(f)
    BY SMTT(30), <1>2, FieldTypes DEF KernelState, Fields
  <2> QED
    BY <2>1, <2>2 DEF Typed
<1> QED
  BY <1>1, <1>2

\* A change of the fields F that keeps their types keeps the state typed.
LEMMA SameTyped ==
    ASSUME NEW s, Typed(s), NEW t, NEW F, Same(s, t, F), \A f \in F : t[f] \in TypeOf(f)
    PROVE  Typed(t)
  BY DEF Typed, Same

\* Two changes in a row change the fields of either.
LEMMA SameComposes ==
    ASSUME NEW s, NEW t, NEW u, NEW F, NEW G, Same(s, t, F), Same(t, u, G)
    PROVE  Same(s, u, F \cup G)
  BY DEF Same

\* One field is replaced.
LEMMA FieldReplaced ==
    ASSUME NEW s \in KernelState, NEW f \in Fields, NEW v \in TypeOf(f), NEW t,
           t = [s EXCEPT ![f] = v]
    PROVE  Same(s, t, {f}) /\ t[f] = v /\ t \in KernelState
<1>1. IsState(s)
  BY TypedIsKernelState DEF Typed
<1>2. Same(s, t, {f}) /\ t[f] = v
  BY <1>1 DEF Same, IsState
<1> QED
  BY <1>2, SameTyped, TypedIsKernelState

-----------------------------------------------------------------------------
(* The parts of the invariant                                              *)

\* The ready queue holds the READY and RUNNING processes, each once.
QueueSound(s) ==
    /\ IsInjective(s.ReadyQueue)
    /\ Range(s.ReadyQueue) = {p \in ProcessIds : s.Status[p] \in {"READY", "RUNNING"}}

\* Only the process on the processor can be RUNNING, and CurrentProcessId can
\* name no other.
RunningOnCpu(s) ==
    /\ \A p \in ProcessIds : s.Status[p] = "RUNNING" => p = s.cpu /\ p = s.CurrentProcessId
    /\ s.CurrentProcessId \in {s.cpu, INVALID}

\* The ids in a sleep queue, each once.
Sleepers(q) == {q[i].Id : i \in DOMAIN q}
SleepOnce(q) == \A i, j \in DOMAIN q : q[i].Id = q[j].Id => i = j

SleepersBlocked(s) ==
    /\ SleepOnce(s.SleepQueue)
    /\ \A p \in Sleepers(s.SleepQueue) : s.Status[p] = "BLOCKED"

\* The null process is always runnable, so that Schedule finds a process, and
\* has no interval timer; where there are timers there is their signal.
NullAlive(s) ==
    /\ s.Status[NullProcess] \in {"READY", "RUNNING"}
    /\ \A p \in ProcessIds : s.TimerRemaining[p] # 0 => p # NullProcess /\ SIGALRM \in Signals

\* A process inside rt_sigsuspend has no signal that it could be delivered,
\* whether it is still blocked or was woken and waits for the processor.
Quiet(s) ==
    \A p \in ProcessIds : s.Call[p].call = "sigsuspend" => ~CanDispatch(s, p)

Base(s) ==
    /\ s \in KernelState
    /\ QueueSound(s) /\ RunningOnCpu(s) /\ SleepersBlocked(s) /\ NullAlive(s) /\ Quiet(s)

\* The null process, init and the user processes.
LEMMA NullIsProcess ==
    /\ NullProcess \in ProcessIds /\ InitProcess \in UserIds /\ UserIds \subseteq ProcessIds
    /\ NullProcess \notin UserIds /\ InitProcess # NullProcess
    /\ INVALID \notin ProcessIds /\ ProcessIds \subseteq Nat /\ ProcessIds \subseteq Ids
  BY TableAssumption, InvalidAssumption DEF ProcessIds, UserIds, NullProcess, InitProcess, Ids

-----------------------------------------------------------------------------
(* Queues                                                                  *)

\* A tag at the back of a queue it was not in.
LEMMA Appended ==
    ASSUME NEW S, NEW q \in Seq(S), NEW x \in S
    PROVE  /\ Append(q, x) \in Seq(S) /\ Append(q, x) # <<>>
           /\ Range(Append(q, x)) = Range(q) \cup {x}
           /\ IsInjective(q) /\ x \notin Range(q) => IsInjective(Append(q, x))
<1> DEFINE r == Append(q, x)
<1>1. /\ r \in Seq(S) /\ Len(r) = Len(q) + 1 /\ Len(q) \in Nat /\ DOMAIN q = 1 .. Len(q)
      /\ DOMAIN r = 1 .. Len(q) + 1
      /\ \A i \in 1 .. Len(q) : r[i] = q[i]
      /\ r[Len(q) + 1] = x
  OBVIOUS
<1> HIDE DEF r
<1>2. r # <<>>
  BY <1>1
<1>3. Range(r) = Range(q) \cup {x}
  BY <1>1 DEF Range
<1>4. IsInjective(q) /\ x \notin Range(q) => IsInjective(r)
  BY <1>1 DEF IsInjective, Range
<1> QED
  BY <1>1, <1>2, <1>3, <1>4 DEF r

\* An entry of a queue is taken out, if it is there.
LEMMA Removed ==
    ASSUME NEW S, NEW q \in Seq(S), IsInjective(q), NEW x
    PROVE  /\ RemoveFirst(q, x) \in Seq(S)
           /\ Range(RemoveFirst(q, x)) = Range(q) \ {x}
           /\ IsInjective(RemoveFirst(q, x))
<1>1. CASE x \in Range(q)
  BY <1>1, RemoveFirstRange
<1>2. CASE x \notin Range(q)
  <2>1. ~ \E i \in 1 .. Len(q) : q[i] = x
    BY <1>2 DEF Range
  <2>2. RemoveFirst(q, x) = q
    BY <2>1 DEF RemoveFirst
  <2> QED
    BY <1>2, <2>2
<1> QED
  BY <1>1, <1>2

\* RemoveFirst of anything leaves a sequence of what was there.
LEMMA RemovedType ==
    ASSUME NEW S, NEW q \in Seq(S), NEW x
    PROVE  RemoveFirst(q, x) \in Seq(S)
<1>1. CASE \E i \in 1 .. Len(q) : q[i] = x
  <2> DEFINE I == {i \in 1 .. Len(q) : q[i] = x}
  <2>1. I \subseteq Nat /\ I # {}
    BY <1>1
  <2>2. PICK m \in I : \A n \in I : m <= n
    BY <2>1, SmallestExists
  <2>3. m \in 1 .. Len(q) /\ q[m] = x /\ \A n \in 1 .. Len(q) : q[n] = q[m] => m <= n
    BY <2>2
  <2> QED
    BY <2>3, RemoveFirstAtFirst, RemoveAtElements
<1>2. CASE ~ \E i \in 1 .. Len(q) : q[i] = x
  BY <1>2 DEF RemoveFirst
<1> QED
  BY <1>1, <1>2

\* The same of the tag of a process in the sleep queue.
WithoutSleeper(q, p) == RemoveFirstMatch(q, LAMBDA tag : tag.Id = p)

\* Removing the first tag of p removes p from the sleepers, who have one tag
\* each.
LEMMA SleeperRemoved ==
    ASSUME NEW T, NEW q \in Seq([Id : ProcessIds, Ticks : T]), SleepOnce(q), NEW p
    PROVE  /\ WithoutSleeper(q, p) \in Seq([Id : ProcessIds, Ticks : T])
           /\ Sleepers(WithoutSleeper(q, p)) = Sleepers(q) \ {p}
           /\ SleepOnce(WithoutSleeper(q, p))
<1> DEFINE S == [Id : ProcessIds, Ticks : T]
           r == WithoutSleeper(q, p)
           I == {i \in 1 .. Len(q) : q[i].Id = p}
<1>1. CASE I = {}
  <2>1. ~ \E i \in 1 .. Len(q) : q[i].Id = p
    BY <1>1
  <2>2. r = q
    BY <2>1 DEF WithoutSleeper, RemoveFirstMatch
  <2>3. p \notin Sleepers(q)
    BY <2>1 DEF Sleepers
  <2> QED
    BY <2>2, <2>3
<1>2. CASE I # {}
  <2>1. \E i \in 1 .. Len(q) : q[i].Id = p
    BY <1>2
  <2>2. I \subseteq Nat
    OBVIOUS
  <2>3. Min(I) \in I
    BY <1>2, <2>2, MinIsSmallest
  <2>4. r = RemoveAt(q, SelectInSeq(q, LAMBDA tag : tag.Id = p))
    BY <2>1 DEF WithoutSleeper, RemoveFirstMatch
  <2>5. SelectInSeq(q, LAMBDA tag : tag.Id = p) = Min(I)
    BY <1>2 DEF SelectInSeq
  <2>6. PICK m \in 1 .. Len(q) : m = Min(I) /\ q[m].Id = p
    BY <2>3
  <2>7. /\ r \in Seq(S) /\ Len(r) = Len(q) - 1
        /\ \A n \in 1 .. Len(q) - 1 : r[n] = IF n < m THEN q[n] ELSE q[n + 1]
    BY <2>4, <2>5, <2>6, RemoveAtElements
  <2> HIDE DEF I, r
  <2>8. DOMAIN r = 1 .. Len(q) - 1 /\ DOMAIN q = 1 .. Len(q) /\ Len(q) \in Nat
    BY <2>7
  <2>9. SleepOnce(r)
    <3> SUFFICES ASSUME NEW i \in 1 .. Len(q) - 1, NEW j \in 1 .. Len(q) - 1, r[i].Id = r[j].Id
                 PROVE  i = j
      BY <2>8 DEF SleepOnce
    <3>1. PICK x \in DOMAIN q : r[i] = q[x] /\ x = IF i < m THEN i ELSE i + 1
      BY <2>7, <2>8
    <3>2. PICK y \in DOMAIN q : r[j] = q[y] /\ y = IF j < m THEN j ELSE j + 1
      BY <2>7, <2>8
    <3>3. x = y
      BY <3>1, <3>2 DEF SleepOnce
    <3> QED
      BY <2>6, <2>8, <3>1, <3>2, <3>3
  <2>10. ASSUME NEW y \in Sleepers(r)
         PROVE  y \in Sleepers(q) \ {p}
    <3>1. PICK n \in 1 .. Len(q) - 1 : y = r[n].Id
      BY <2>8, <2>10 DEF Sleepers
    <3>2. PICK i \in 1 .. Len(q) : r[n] = q[i] /\ i # m
      <4>1. CASE n < m
        <5>1. n \in 1 .. Len(q) /\ r[n] = q[n] /\ n # m
          BY <2>6, <2>7, <4>1
        <5> QED
          BY <5>1
      <4>2. CASE ~(n < m)
        <5>1. n + 1 \in 1 .. Len(q) /\ r[n] = q[n + 1] /\ n + 1 # m
          BY <2>6, <2>7, <2>8, <4>2
        <5> QED
          BY <5>1
      <4> QED
        BY <4>1, <4>2
    <3> QED
      BY <2>6, <2>8, <3>1, <3>2 DEF Sleepers, SleepOnce
  <2>11. ASSUME NEW y \in Sleepers(q) \ {p}
         PROVE  y \in Sleepers(r)
    <3>1. PICK i \in 1 .. Len(q) : y = q[i].Id
      BY <2>8, <2>11 DEF Sleepers
    <3>2. i < m \/ i > m
      BY <2>6, <2>11, <3>1
    <3>3. PICK n \in 1 .. Len(q) - 1 : r[n] = q[i]
      <4>1. CASE i < m
        BY <2>6, <2>7, <4>1
      <4>2. CASE i > m
        <5>1. i - 1 \in 1 .. Len(q) - 1 /\ ~(i - 1 < m) /\ (i - 1) + 1 = i
          BY <4>2, <2>6
        <5> QED
          BY <2>7, <5>1
      <4> QED
        BY <3>2, <4>1, <4>2
    <3> QED
      BY <2>8, <3>1, <3>3 DEF Sleepers
  <2>12. Sleepers(r) = Sleepers(q) \ {p}
    BY <2>10, <2>11
  <2> QED
    BY <2>7, <2>9, <2>12 DEF r
<1> QED
  BY <1>1, <1>2

-----------------------------------------------------------------------------
(* What the functions on queues change                                     *)

\* Only processes sleep.
LEMMA SleepersAreProcesses ==
    ASSUME NEW s \in KernelState
    PROVE  Sleepers(s.SleepQueue) \subseteq ProcessIds
<1> DEFINE S == [Id : ProcessIds, Ticks : 0 .. MaxTicks]
<1>1. PICK q : q = s.SleepQueue /\ q \in Seq(S)
  BY DEF KernelState
<1>2. \A x \in S : x.Id \in ProcessIds
  OBVIOUS
<1> HIDE DEF S
<1>3. \A i \in DOMAIN q : q[i].Id \in ProcessIds
  BY <1>1, <1>2
<1> QED
  BY <1>1, <1>3 DEF Sleepers

\* What RemoveFromSleepQueue changes.
LEMMA RemoveFromSleepQueueEffect ==
    ASSUME NEW s \in KernelState, SleepOnce(s.SleepQueue), NEW p, NEW t,
           t = RemoveFromSleepQueue(s, p)
    PROVE  /\ t \in KernelState /\ Same(s, t, {"SleepQueue"})
           /\ Sleepers(t.SleepQueue) = Sleepers(s.SleepQueue) \ {p} /\ SleepOnce(t.SleepQueue)
<1> DEFINE r == WithoutSleeper(s.SleepQueue, p)
<1>1. s.SleepQueue \in Seq([Id : ProcessIds, Ticks : 0 .. MaxTicks])
  BY DEF KernelState
<1>2. /\ r \in Seq([Id : ProcessIds, Ticks : 0 .. MaxTicks])
      /\ Sleepers(r) = Sleepers(s.SleepQueue) \ {p} /\ SleepOnce(r)
  BY <1>1, SleeperRemoved
<1>3. t = [s EXCEPT !.SleepQueue = r]
  BY DEF RemoveFromSleepQueue, WithoutSleeper
<1> HIDE DEF r
<1>4. r \in TypeOf("SleepQueue") /\ "SleepQueue" \in Fields
  BY <1>2, FieldNames DEF TypeOf
<1>5. t \in KernelState /\ Same(s, t, {"SleepQueue"}) /\ t.SleepQueue = r
  BY <1>3, <1>4, FieldReplaced
<1> QED
  BY <1>2, <1>5

\* What RemoveFromTTYInputWaitQueue changes.
LEMMA RemoveFromTTYEffect ==
    ASSUME NEW s \in KernelState, NEW p, NEW t, t = RemoveFromTTYInputWaitQueue(s, p)
    PROVE  /\ t \in KernelState /\ Same(s, t, {"TTYInputWaitQueue"})
           /\ t.TTYInputWaitQueue = RemoveFirst(s.TTYInputWaitQueue, p)
           /\ IsInjective(s.TTYInputWaitQueue) =>
                /\ Range(t.TTYInputWaitQueue) = Range(s.TTYInputWaitQueue) \ {p}
                /\ IsInjective(t.TTYInputWaitQueue)
<1> DEFINE r == RemoveFirst(s.TTYInputWaitQueue, p)
<1>1. s.TTYInputWaitQueue \in Seq(ProcessIds)
  BY DEF KernelState
<1>2. r \in Seq(ProcessIds)
  BY <1>1, RemovedType
<1>3. t = [s EXCEPT !.TTYInputWaitQueue = r]
  BY DEF RemoveFromTTYInputWaitQueue
<1>4. r \in TypeOf("TTYInputWaitQueue") /\ "TTYInputWaitQueue" \in Fields
  BY <1>2, FieldNames DEF TypeOf
<1>5. t \in KernelState /\ Same(s, t, {"TTYInputWaitQueue"}) /\ t.TTYInputWaitQueue = r
  BY <1>3, <1>4, FieldReplaced
<1> QED
  BY <1>1, <1>5, Removed

\* What RemoveFromReadyQueue changes.
LEMMA RemoveFromReadyQueueEffect ==
    ASSUME NEW s \in KernelState, IsInjective(s.ReadyQueue), NEW p, NEW t,
           t = RemoveFromReadyQueue(s, p)
    PROVE  /\ t \in KernelState /\ Same(s, t, {"ReadyQueue", "CurrentProcess"})
           /\ IsInjective(t.ReadyQueue) /\ Range(t.ReadyQueue) = Range(s.ReadyQueue) \ {p}
<1> DEFINE r == RemoveFirst(s.ReadyQueue, p)
           F == {"ReadyQueue", "CurrentProcess"}
<1>1. s.ReadyQueue \in Seq(ProcessIds) /\ s.CurrentProcess \in BOOLEAN
  BY DEF KernelState
<1>2. r \in Seq(ProcessIds) /\ Range(r) = Range(s.ReadyQueue) \ {p} /\ IsInjective(r)
  BY <1>1, Removed
<1>3. IsState(s) /\ Typed(s)
  BY TypedIsKernelState DEF Typed
<1>4. CASE Contains(s.ReadyQueue, p)
  <2>1. t = [s EXCEPT !.ReadyQueue = r, !.CurrentProcess = s.CurrentProcess /\ s.ReadyQueue[1] # p]
    BY <1>4 DEF RemoveFromReadyQueue
  <2> HIDE DEF r
  <2>2. t.ReadyQueue = r /\ t.CurrentProcess \in BOOLEAN /\ Same(s, t, F)
    BY ZenonT(30), <1>1, <1>3, <2>1, FieldNames DEF Same, IsState
  <2>3. \A f \in F : t[f] \in TypeOf(f)
    BY <1>2, <2>2 DEF TypeOf
  <2> HIDE DEF F
  <2>4. t \in KernelState
    BY <1>3, <2>2, <2>3, SameTyped, TypedIsKernelState
  <2> QED
    BY <1>2, <2>2, <2>4 DEF F
<1>5. CASE ~Contains(s.ReadyQueue, p)
  <2>1. t = s
    BY <1>5 DEF RemoveFromReadyQueue
  <2>2. Range(s.ReadyQueue) \ {p} = Range(s.ReadyQueue)
    BY <1>5, <1>1 DEF Range, Contains
  <2> QED
    BY <1>3, <2>1, <2>2 DEF Same
<1> QED
  BY <1>4, <1>5

\* What AddToReadyQueue changes.
LEMMA AddToReadyQueueEffect ==
    ASSUME NEW s \in KernelState, NEW p \in ProcessIds, NEW t, t = AddToReadyQueue(s, p)
    PROVE  /\ t \in KernelState /\ Same(s, t, {"ReadyQueue"})
           /\ Range(t.ReadyQueue) = Range(s.ReadyQueue) \cup {p}
           /\ IsInjective(s.ReadyQueue) /\ p \notin Range(s.ReadyQueue) => IsInjective(t.ReadyQueue)
<1> DEFINE r == Append(s.ReadyQueue, p)
<1>1. s.ReadyQueue \in Seq(ProcessIds)
  BY DEF KernelState
<1>2. /\ r \in Seq(ProcessIds) /\ Range(r) = Range(s.ReadyQueue) \cup {p}
      /\ IsInjective(s.ReadyQueue) /\ p \notin Range(s.ReadyQueue) => IsInjective(r)
  BY <1>1, Appended
<1>3. t = [s EXCEPT !.ReadyQueue = r]
  BY DEF AddToReadyQueue
<1> HIDE DEF r
<1>4. r \in TypeOf("ReadyQueue") /\ "ReadyQueue" \in Fields
  BY <1>2, FieldNames DEF TypeOf
<1>5. t \in KernelState /\ Same(s, t, {"ReadyQueue"}) /\ t.ReadyQueue = r
  BY <1>3, <1>4, FieldReplaced
<1> QED
  BY <1>2, <1>5

\* What an assignment to a status changes.
LEMMA SetStatusEffect ==
    ASSUME NEW s \in KernelState, NEW p \in ProcessIds, NEW x \in ProcessStates, NEW t,
           t = [s EXCEPT !.Status[p] = x]
    PROVE  t \in KernelState /\ Same(s, t, {"Status"}) /\ t.Status = [s.Status EXCEPT ![p] = x]
<1>1. s.Status \in [ProcessIds -> ProcessStates]
  BY DEF KernelState
<1>2. [s.Status EXCEPT ![p] = x] \in TypeOf("Status") /\ "Status" \in Fields
  BY <1>1, FieldNames DEF TypeOf
<1>3. t = [s EXCEPT !["Status"] = [s.Status EXCEPT ![p] = x]]
  OBVIOUS
<1> QED
  BY <1>2, <1>3, FieldReplaced

\* What becoming READY changes.
LEMMA MakeReadyEffect ==
    ASSUME NEW s \in KernelState, NEW p \in ProcessIds, NEW t, t = MakeReady(s, p)
    PROVE  /\ t \in KernelState /\ Same(s, t, {"Status", "ReadyQueue"})
           /\ t.Status = [s.Status EXCEPT ![p] = "READY"]
           /\ Range(t.ReadyQueue) = Range(s.ReadyQueue) \cup {p}
           /\ IsInjective(s.ReadyQueue) /\ p \notin Range(s.ReadyQueue) => IsInjective(t.ReadyQueue)
<1>1. PICK u : u = [s EXCEPT !.Status[p] = "READY"]
  OBVIOUS
<1>2. u \in KernelState /\ Same(s, u, {"Status"}) /\ u.Status = [s.Status EXCEPT ![p] = "READY"]
  BY <1>1, SetStatusEffect DEF ProcessStates
<1>3. t = AddToReadyQueue(u, p)
  BY <1>1 DEF MakeReady
<1>4. /\ t \in KernelState /\ Same(u, t, {"ReadyQueue"})
      /\ Range(t.ReadyQueue) = Range(u.ReadyQueue) \cup {p}
      /\ IsInjective(u.ReadyQueue) /\ p \notin Range(u.ReadyQueue) => IsInjective(t.ReadyQueue)
  BY <1>2, <1>3, AddToReadyQueueEffect
<1>5. u.ReadyQueue = s.ReadyQueue /\ t.Status = u.Status
  BY <1>2, <1>4, FieldNames DEF Same
<1> QED
  BY <1>2, <1>4, <1>5 DEF Same

-----------------------------------------------------------------------------
(* Processes that wake up, stop and die                                    *)

BaseFields ==
    {"Status", "ReadyQueue", "cpu", "CurrentProcessId", "SleepQueue", "TimerRemaining",
     "Call", "HasSavedSignalState", "PendingSignalMask", "BlockedSignalMask"}

\* Base depends on BaseFields only.
LEMMA BaseFrame ==
    ASSUME NEW s, Base(s), NEW t \in KernelState, \A f \in BaseFields : t[f] = s[f]
    PROVE  Base(t)
<1>1. /\ t.Status = s.Status /\ t.ReadyQueue = s.ReadyQueue /\ t.cpu = s.cpu
      /\ t.CurrentProcessId = s.CurrentProcessId /\ t.SleepQueue = s.SleepQueue
      /\ t.TimerRemaining = s.TimerRemaining /\ t.Call = s.Call
      /\ t.HasSavedSignalState = s.HasSavedSignalState
      /\ t.PendingSignalMask = s.PendingSignalMask
      /\ t.BlockedSignalMask = s.BlockedSignalMask
  BY DEF BaseFields
<1>2. QueueSound(t) /\ RunningOnCpu(t)
  BY <1>1 DEF Base, QueueSound, RunningOnCpu
<1>3. SleepersBlocked(t) /\ NullAlive(t)
  BY <1>1 DEF Base, SleepersBlocked, NullAlive
<1>4. Quiet(t)
  BY <1>1 DEF Base, Quiet, CanDispatch, Deliverable
<1> QED
  BY <1>2, <1>3, <1>4 DEF Base

\* What a call does to the processes it is not about: no other process gets the
\* processor, and a kernel stack is at most thrown away.
Kept(s, t) ==
    /\ t.cpu = s.cpu /\ t.Loop = s.Loop /\ t.halted = s.halted
    /\ \A q \in ProcessIds : t.Call[q] \in {s.Call[q], UserFrame}

\* What two steps keep, both together keep.
LEMMA KeptComposes ==
    ASSUME NEW s, NEW t, NEW u, Kept(s, t), Kept(t, u)
    PROVE  Kept(s, u)
  BY DEF Kept

\* Kept, from the four fields it is about.
LEMMA KeptSame ==
    ASSUME NEW s, NEW t, t.cpu = s.cpu, t.Loop = s.Loop, t.halted = s.halted, t.Call = s.Call
    PROVE  Kept(s, t)
  BY DEF Kept

\* A process may leave the sleep queue at any time.
LEMMA RemoveFromSleepQueueBase ==
    ASSUME NEW s, Base(s), NEW p, NEW t, t = RemoveFromSleepQueue(s, p)
    PROVE  /\ Base(t) /\ Same(s, t, {"SleepQueue"})
           /\ Sleepers(t.SleepQueue) = Sleepers(s.SleepQueue) \ {p}
<1>1. s \in KernelState /\ SleepOnce(s.SleepQueue)
  BY DEF Base, SleepersBlocked
<1>2. /\ t \in KernelState /\ Same(s, t, {"SleepQueue"})
      /\ Sleepers(t.SleepQueue) = Sleepers(s.SleepQueue) \ {p} /\ SleepOnce(t.SleepQueue)
  BY <1>1, RemoveFromSleepQueueEffect
<1>3. /\ t.Status = s.Status /\ t.ReadyQueue = s.ReadyQueue /\ t.cpu = s.cpu
      /\ t.CurrentProcessId = s.CurrentProcessId
      /\ t.TimerRemaining = s.TimerRemaining /\ t.Call = s.Call
      /\ t.HasSavedSignalState = s.HasSavedSignalState
      /\ t.PendingSignalMask = s.PendingSignalMask
      /\ t.BlockedSignalMask = s.BlockedSignalMask
  BY <1>2, FieldNames DEF Same
<1>4. QueueSound(t) /\ RunningOnCpu(t)
  BY <1>3 DEF Base, QueueSound, RunningOnCpu
<1>5. SleepersBlocked(t) /\ NullAlive(t)
  BY <1>2, <1>3 DEF Base, SleepersBlocked, NullAlive
<1>6. Quiet(t)
  BY <1>3 DEF Base, Quiet, CanDispatch, Deliverable
<1> QED
  BY <1>2, <1>4, <1>5, <1>6 DEF Base

\* A process may leave both wait queues at any time.
LEMMA LeaveWaitQueuesBase ==
    ASSUME NEW s, Base(s), NEW p, NEW t, t = LeaveWaitQueues(s, p)
    PROVE  /\ Base(t) /\ Same(s, t, {"SleepQueue", "TTYInputWaitQueue"})
           /\ Sleepers(t.SleepQueue) = Sleepers(s.SleepQueue) \ {p}
           /\ t.TTYInputWaitQueue = RemoveFirst(s.TTYInputWaitQueue, p)
<1>1. PICK u : u = RemoveFromSleepQueue(s, p)
  OBVIOUS
<1>2. /\ Base(u) /\ Same(s, u, {"SleepQueue"})
      /\ Sleepers(u.SleepQueue) = Sleepers(s.SleepQueue) \ {p}
  BY <1>1, RemoveFromSleepQueueBase
<1>3. t = RemoveFromTTYInputWaitQueue(u, p) /\ u \in KernelState
  BY <1>1, <1>2 DEF LeaveWaitQueues, Base
<1>4. /\ t \in KernelState /\ Same(u, t, {"TTYInputWaitQueue"})
      /\ t.TTYInputWaitQueue = RemoveFirst(u.TTYInputWaitQueue, p)
  BY <1>3, RemoveFromTTYEffect
<1>5. \A f \in BaseFields : t[f] = u[f]
  BY <1>4, FieldNames DEF Same, BaseFields
<1>6. Base(t)
  BY <1>2, <1>4, <1>5, BaseFrame
<1>7. u.TTYInputWaitQueue = s.TTYInputWaitQueue /\ t.SleepQueue = u.SleepQueue
  BY <1>2, <1>4, FieldNames DEF Same
<1>8. Same(s, t, {"SleepQueue", "TTYInputWaitQueue"})
  BY <1>2, <1>4 DEF Same
<1> QED
  BY <1>2, <1>4, <1>6, <1>7, <1>8

\* A blocked process that does not sleep may become READY.
LEMMA MakeReadyBase ==
    ASSUME NEW s, Base(s), NEW p \in ProcessIds, s.Status[p] = "BLOCKED",
           p \notin Sleepers(s.SleepQueue), NEW t, t = MakeReady(s, p)
    PROVE  /\ Base(t) /\ Same(s, t, {"Status", "ReadyQueue"})
           /\ t.Status = [s.Status EXCEPT ![p] = "READY"]
           /\ Range(t.ReadyQueue) = Range(s.ReadyQueue) \cup {p}
<1>1. s \in KernelState
  BY DEF Base
<1>2. s.Status \in [ProcessIds -> ProcessStates] /\ p \notin Range(s.ReadyQueue)
  BY <1>1 DEF Base, QueueSound, KernelState
<1>3. /\ t \in KernelState /\ Same(s, t, {"Status", "ReadyQueue"})
      /\ t.Status = [s.Status EXCEPT ![p] = "READY"]
      /\ Range(t.ReadyQueue) = Range(s.ReadyQueue) \cup {p}
      /\ IsInjective(s.ReadyQueue) /\ p \notin Range(s.ReadyQueue) => IsInjective(t.ReadyQueue)
  BY <1>1, MakeReadyEffect, Zenon
<1>4. /\ t.cpu = s.cpu /\ t.CurrentProcessId = s.CurrentProcessId
      /\ t.SleepQueue = s.SleepQueue /\ t.TimerRemaining = s.TimerRemaining
      /\ t.Call = s.Call /\ t.HasSavedSignalState = s.HasSavedSignalState
      /\ t.PendingSignalMask = s.PendingSignalMask
      /\ t.BlockedSignalMask = s.BlockedSignalMask
  BY <1>3, FieldNames DEF Same
<1>5. QueueSound(t)
  BY <1>2, <1>3 DEF Base, QueueSound
<1>6. RunningOnCpu(t)
  BY <1>2, <1>3, <1>4 DEF Base, RunningOnCpu
<1>7. SleepersBlocked(t)
  <2> SUFFICES ASSUME NEW q \in Sleepers(s.SleepQueue)
               PROVE  t.Status[q] = "BLOCKED"
    BY <1>4 DEF Base, SleepersBlocked
  <2>1. q # p /\ s.Status[q] = "BLOCKED"
    BY DEF Base, SleepersBlocked
  <2> QED
    BY <1>2, <1>3, <2>1
<1>8. NullAlive(t)
  BY <1>2, <1>3, <1>4, NullIsProcess DEF Base, NullAlive
<1>9. Quiet(t)
  BY <1>4 DEF Base, Quiet, CanDispatch, Deliverable
<1> QED
  BY <1>3, <1>5, <1>6, <1>7, <1>8, <1>9 DEF Base

\* UnblockProcess and WakeProcess.
Woken(s, t, p) ==
    /\ Same(s, t, {"Status", "ReadyQueue", "SleepQueue"})
    /\ t.Status = IF s.Status[p] = "BLOCKED" THEN [s.Status EXCEPT ![p] = "READY"] ELSE s.Status
    /\ Sleepers(t.SleepQueue) = IF s.Status[p] = "BLOCKED" THEN Sleepers(s.SleepQueue) \ {p}
                                                           ELSE Sleepers(s.SleepQueue)

\* UnblockProcess keeps status and queues in agreement.
LEMMA UnblockBase ==
    ASSUME NEW s, Base(s), NEW p \in ProcessIds, NEW t, t = UnblockProcess(s, p)
    PROVE  Base(t) /\ Woken(s, t, p) /\ Kept(s, t)
<1>1. CASE s.Status[p] = "BLOCKED"
  <2>1. PICK u : u = RemoveFromSleepQueue(s, p)
    OBVIOUS
  <2>2. /\ Base(u) /\ Same(s, u, {"SleepQueue"})
        /\ Sleepers(u.SleepQueue) = Sleepers(s.SleepQueue) \ {p}
    BY <2>1, RemoveFromSleepQueueBase
  <2>3. t = MakeReady(u, p)
    BY <1>1, <2>1 DEF UnblockProcess
  <2>4. u.Status = s.Status /\ p \notin Sleepers(u.SleepQueue)
    BY <2>2, FieldNames DEF Same
  <2>5. /\ Base(t) /\ Same(u, t, {"Status", "ReadyQueue"})
        /\ t.Status = [u.Status EXCEPT ![p] = "READY"]
    BY <1>1, <2>2, <2>3, <2>4, MakeReadyBase, Zenon
  <2>6. t.SleepQueue = u.SleepQueue
    BY <2>5, FieldNames DEF Same
  <2>7. Same(s, t, {"Status", "ReadyQueue", "SleepQueue"})
    BY <2>2, <2>5 DEF Same
  <2>8. t.cpu = s.cpu /\ t.Loop = s.Loop /\ t.halted = s.halted /\ t.Call = s.Call
    BY <2>7, FieldNames DEF Same
  <2> QED
    BY <1>1, <2>2, <2>4, <2>5, <2>6, <2>7, <2>8, KeptSame DEF Woken
<1>2. CASE s.Status[p] # "BLOCKED"
  <2>1. t = s
    BY <1>2 DEF UnblockProcess
  <2>2. IsState(s)
    BY TypedIsKernelState DEF Base, Typed
  <2> QED
    BY <1>2, <2>1, <2>2, KeptSame DEF Woken, Same
<1> QED
  BY <1>1, <1>2

\* ContinueProcess keeps status and queues in agreement.
LEMMA ContinueBase ==
    ASSUME NEW s, Base(s), NEW p \in ProcessIds, NEW t, t = ContinueProcess(s, p)
    PROVE  /\ Base(t) /\ Kept(s, t)
           /\ Same(s, t, {"Status", "ReadyQueue", "SleepQueue", "TTYInputWaitQueue"})
<1>1. CASE s.Status[p] = "BLOCKED"
  <2>1. PICK u : u = LeaveWaitQueues(s, p)
    OBVIOUS
  <2>2. /\ Base(u) /\ Same(s, u, {"SleepQueue", "TTYInputWaitQueue"})
        /\ Sleepers(u.SleepQueue) = Sleepers(s.SleepQueue) \ {p}
    BY <2>1, LeaveWaitQueuesBase
  <2>3. t = MakeReady(u, p)
    BY <1>1, <2>1 DEF ContinueProcess
  <2>4. u.Status = s.Status /\ p \notin Sleepers(u.SleepQueue)
    BY <2>2, FieldNames DEF Same
  <2>5. Base(t) /\ Same(u, t, {"Status", "ReadyQueue"})
    BY <1>1, <2>2, <2>3, <2>4, MakeReadyBase, Zenon
  <2>6. Same(s, t, {"Status", "ReadyQueue", "SleepQueue", "TTYInputWaitQueue"})
    BY <2>2, <2>5 DEF Same
  <2>7. t.cpu = s.cpu /\ t.Loop = s.Loop /\ t.halted = s.halted /\ t.Call = s.Call
    BY <2>6, FieldNames DEF Same
  <2> QED
    BY <2>5, <2>6, <2>7, KeptSame
<1>2. CASE s.Status[p] # "BLOCKED"
  <2>1. t = s
    BY <1>2 DEF ContinueProcess
  <2>2. IsState(s)
    BY TypedIsKernelState DEF Base, Typed
  <2> QED
    BY <2>1, <2>2, KeptSame DEF Same
<1> QED
  BY <1>1, <1>2

\* A process that is no longer runnable leaves the queues.
LEMMA LeaveQueuesBase ==
    ASSUME NEW s \in KernelState, NEW p \in ProcessIds, NEW t, t = LeaveQueues(s, p),
           s.Status[p] \notin {"READY", "RUNNING"},
           IsInjective(s.ReadyQueue),
           \A q \in ProcessIds \ {p} :
               q \in Range(s.ReadyQueue) <=> s.Status[q] \in {"READY", "RUNNING"},
           SleepOnce(s.SleepQueue),
           \A q \in Sleepers(s.SleepQueue) \ {p} : s.Status[q] = "BLOCKED",
           RunningOnCpu(s), NullAlive(s), Quiet(s)
    PROVE  /\ Base(t)
           /\ Same(s, t, {"ReadyQueue", "CurrentProcess", "SleepQueue", "TTYInputWaitQueue"})
           /\ Sleepers(t.SleepQueue) = Sleepers(s.SleepQueue) \ {p}
           /\ t.TTYInputWaitQueue = RemoveFirst(s.TTYInputWaitQueue, p)
<1>1. PICK u : u = RemoveFromReadyQueue(s, p)
  OBVIOUS
<1>2. /\ u \in KernelState /\ Same(s, u, {"ReadyQueue", "CurrentProcess"})
      /\ IsInjective(u.ReadyQueue) /\ Range(u.ReadyQueue) = Range(s.ReadyQueue) \ {p}
  BY <1>1, RemoveFromReadyQueueEffect
<1>3. PICK v : v = RemoveFromSleepQueue(u, p)
  OBVIOUS
<1>4. u.SleepQueue = s.SleepQueue
  BY <1>2, FieldNames DEF Same
<1>5. /\ v \in KernelState /\ Same(u, v, {"SleepQueue"})
      /\ Sleepers(v.SleepQueue) = Sleepers(s.SleepQueue) \ {p} /\ SleepOnce(v.SleepQueue)
  BY <1>2, <1>3, <1>4, RemoveFromSleepQueueEffect
<1>6. t = RemoveFromTTYInputWaitQueue(v, p)
  BY <1>1, <1>3 DEF LeaveQueues
<1>7. /\ t \in KernelState /\ Same(v, t, {"TTYInputWaitQueue"})
      /\ t.TTYInputWaitQueue = RemoveFirst(v.TTYInputWaitQueue, p)
  BY <1>5, <1>6, RemoveFromTTYEffect
<1>8. Same(s, t, {"ReadyQueue", "CurrentProcess", "SleepQueue", "TTYInputWaitQueue"})
  BY <1>2, <1>5, <1>7 DEF Same
<1>9. /\ v.TTYInputWaitQueue = s.TTYInputWaitQueue
      /\ t.SleepQueue = v.SleepQueue /\ t.ReadyQueue = u.ReadyQueue
  BY <1>2, <1>5, <1>7, FieldNames DEF Same
<1>10. /\ t.Status = s.Status /\ t.cpu = s.cpu /\ t.CurrentProcessId = s.CurrentProcessId
       /\ t.TimerRemaining = s.TimerRemaining /\ t.Call = s.Call
       /\ t.HasSavedSignalState = s.HasSavedSignalState
       /\ t.PendingSignalMask = s.PendingSignalMask
       /\ t.BlockedSignalMask = s.BlockedSignalMask
  BY <1>8, FieldNames DEF Same
<1>11. QueueSound(t)
  <2>1. Range(s.ReadyQueue) \subseteq ProcessIds
    BY DEF KernelState, Range
  <2> QED
    BY <1>2, <1>9, <1>10, <2>1 DEF QueueSound
<1>12. RunningOnCpu(t) /\ NullAlive(t)
  BY <1>10 DEF RunningOnCpu, NullAlive
<1>13. SleepersBlocked(t)
  BY <1>5, <1>9, <1>10 DEF SleepersBlocked
<1>14. Quiet(t)
  BY <1>10 DEF Quiet, CanDispatch, Deliverable
<1> QED
  BY <1>5, <1>7, <1>8, <1>9, <1>11, <1>12, <1>13, <1>14 DEF Base

\* StopProcess keeps status and queues in agreement, whatever the process was
\* doing.
LEMMA StopBase ==
    ASSUME NEW s, Base(s), NEW p \in UserIds, NEW t, t = StopProcess(s, p)
    PROVE  /\ Base(t) /\ Kept(s, t)
           /\ Same(s, t, {"Status", "ReadyQueue", "CurrentProcess", "SleepQueue",
                          "TTYInputWaitQueue"})
<1>1. p \in ProcessIds /\ p # NullProcess /\ s \in KernelState
  BY NullIsProcess DEF Base
<1>2. CASE s.Status[p] \in {"RUNNING", "READY"}
  <2>1. PICK u : u = [s EXCEPT !.Status[p] = "BLOCKED"]
    OBVIOUS
  <2>2. u \in KernelState /\ Same(s, u, {"Status"}) /\ u.Status = [s.Status EXCEPT ![p] = "BLOCKED"]
    BY <1>1, <2>1, SetStatusEffect DEF ProcessStates
  <2>3. /\ u.ReadyQueue = s.ReadyQueue /\ u.SleepQueue = s.SleepQueue
        /\ u.cpu = s.cpu /\ u.CurrentProcessId = s.CurrentProcessId
        /\ u.TimerRemaining = s.TimerRemaining /\ u.Call = s.Call
        /\ u.HasSavedSignalState = s.HasSavedSignalState
        /\ u.PendingSignalMask = s.PendingSignalMask
        /\ u.BlockedSignalMask = s.BlockedSignalMask
    BY <2>2, FieldNames DEF Same
  <2>4. s.Status \in [ProcessIds -> ProcessStates]
    BY <1>1 DEF KernelState
  <2>5. u.Status[p] = "BLOCKED" /\ \A q \in ProcessIds \ {p} : u.Status[q] = s.Status[q]
    BY <1>1, <2>2, <2>4
  <2>6. IsInjective(u.ReadyQueue) /\ \A q \in ProcessIds \ {p} :
               q \in Range(u.ReadyQueue) <=> u.Status[q] \in {"READY", "RUNNING"}
    BY <2>3, <2>5 DEF Base, QueueSound
  <2>7. SleepOnce(u.SleepQueue) /\ \A q \in Sleepers(u.SleepQueue) \ {p} : u.Status[q] = "BLOCKED"
    <3>1. \A q \in Sleepers(s.SleepQueue) : q \in ProcessIds
      BY <1>1, SleepersAreProcesses
    <3> QED
      BY <2>3, <2>5, <3>1 DEF Base, SleepersBlocked
  <2>8. RunningOnCpu(u) /\ NullAlive(u)
    BY <1>1, <2>3, <2>5, NullIsProcess DEF Base, RunningOnCpu, NullAlive
  <2>9. Quiet(u)
    BY <2>3 DEF Base, Quiet, CanDispatch, Deliverable
  <2>10. t = LeaveQueues(u, p)
    BY <1>2, <2>1 DEF StopProcess
  <2>11. /\ Base(t)
         /\ Same(u, t, {"ReadyQueue", "CurrentProcess", "SleepQueue", "TTYInputWaitQueue"})
    BY <1>1, <2>2, <2>5, <2>6, <2>7, <2>8, <2>9, <2>10, LeaveQueuesBase
  <2>12. Same(s, t, {"Status", "ReadyQueue", "CurrentProcess", "SleepQueue", "TTYInputWaitQueue"})
    BY <2>2, <2>11 DEF Same
  <2>13. t.cpu = s.cpu /\ t.Loop = s.Loop /\ t.halted = s.halted /\ t.Call = s.Call
    BY <2>12, FieldNames DEF Same
  <2> QED
    BY <2>11, <2>12, <2>13, KeptSame
<1>3. CASE s.Status[p] \notin {"RUNNING", "READY"}
  <2>1. t = s
    BY <1>3 DEF StopProcess
  <2>2. IsState(s)
    BY <1>1, TypedIsKernelState DEF Typed
  <2> QED
    BY <2>1, <2>2, KeptSame DEF Same
<1> QED
  BY <1>2, <1>3

\* A member of KernelState is a record with typed fields.
LEMMA StateOf ==
    ASSUME NEW s \in KernelState
    PROVE  IsState(s) /\ Typed(s) /\ \A F : Same(s, s, F)
  BY TypedIsKernelState DEF Typed, Same

\* What GetRunningProcess changes: only the recorded current process.
LEMMA GetRunningEffect ==
    ASSUME NEW s \in KernelState, RunningOnCpu(s), NEW t, t = GetRunningProcess(s)
    PROVE  /\ t \in KernelState /\ RunningOnCpu(t)
           /\ Kept(s, t) /\ Same(s, t, {"CurrentProcessId"})
           /\ t.CurrentProcessId = IF s.Status[s.cpu] = "RUNNING" THEN s.cpu ELSE INVALID
           /\ RunningProcess(s) = t.CurrentProcessId
<1>1. s.cpu \in ProcessIds /\ s.CurrentProcessId \in {s.cpu, INVALID}
  BY DEF KernelState, RunningOnCpu
<1>2. \A p \in ProcessIds : s.Status[p] = "RUNNING" => p = s.cpu /\ p = s.CurrentProcessId
  BY DEF RunningOnCpu
<1> DEFINE running == {p \in ProcessIds : s.Status[p] = "RUNNING"}
           r == RunningProcess(s)
<1>3. r = IF s.Status[s.cpu] = "RUNNING" THEN s.cpu ELSE INVALID
  <2>1. CASE s.Status[s.cpu] = "RUNNING"
    <3>1. s.CurrentProcessId = s.cpu /\ s.cpu \in running
      BY <1>1, <1>2, <2>1
    <3>2. r = s.CurrentProcessId
      BY <3>1 DEF RunningProcess
    <3> QED
      BY <2>1, <3>1, <3>2
  <2>2. CASE s.Status[s.cpu] # "RUNNING"
    <3>1. running = {}
      BY <1>2, <2>2
    <3>2. r = INVALID
      BY <3>1 DEF RunningProcess
    <3> QED
      BY <2>2, <3>2
  <2> QED
    BY <2>1, <2>2
<1>4. r \in TypeOf("CurrentProcessId") /\ "CurrentProcessId" \in Fields
  BY <1>1, <1>3, FieldNames DEF TypeOf, Ids
<1>5. t = [s EXCEPT !.CurrentProcessId = r]
  BY DEF GetRunningProcess
<1> HIDE DEF r, running
<1>6. t \in KernelState /\ Same(s, t, {"CurrentProcessId"}) /\ t.CurrentProcessId = r
  BY <1>1, <1>4, <1>5, FieldReplaced
<1>7. /\ t.Status = s.Status /\ t.cpu = s.cpu /\ t.Loop = s.Loop /\ t.halted = s.halted
      /\ t.Call = s.Call
  BY <1>6, FieldNames DEF Same
<1>8. RunningOnCpu(t)
  BY <1>1, <1>2, <1>3, <1>6, <1>7 DEF RunningOnCpu
<1> QED
  BY <1>3, <1>6, <1>7, <1>8, KeptSame DEF r

\* GetRunningProcess keeps status and queues in agreement.
LEMMA GetRunningBase ==
    ASSUME NEW s, Base(s), NEW t, t = GetRunningProcess(s)
    PROVE  /\ Base(t) /\ Kept(s, t) /\ Same(s, t, {"CurrentProcessId"})
           /\ t.CurrentProcessId = IF s.Status[s.cpu] = "RUNNING" THEN s.cpu ELSE INVALID
<1>1. s \in KernelState /\ RunningOnCpu(s)
  BY DEF Base
<1>2. /\ t \in KernelState /\ RunningOnCpu(t)
      /\ Kept(s, t) /\ Same(s, t, {"CurrentProcessId"})
      /\ t.CurrentProcessId = IF s.Status[s.cpu] = "RUNNING" THEN s.cpu ELSE INVALID
  BY <1>1, GetRunningEffect
<1>3. /\ t.Status = s.Status /\ t.ReadyQueue = s.ReadyQueue /\ t.SleepQueue = s.SleepQueue
      /\ t.TimerRemaining = s.TimerRemaining /\ t.Call = s.Call
      /\ t.HasSavedSignalState = s.HasSavedSignalState
      /\ t.PendingSignalMask = s.PendingSignalMask
      /\ t.BlockedSignalMask = s.BlockedSignalMask
  BY <1>2, FieldNames DEF Same
<1>4. QueueSound(t) /\ SleepersBlocked(t) /\ NullAlive(t)
  BY <1>3 DEF Base, QueueSound, SleepersBlocked, NullAlive
<1>5. Quiet(t)
  BY <1>3 DEF Base, Quiet, CanDispatch, Deliverable
<1> QED
  BY <1>2, <1>4, <1>5 DEF Base

\* The address space of p is deleted, unless it has none or borrows its
\* parent's; the page table of the running process makes way for the kernel's.
Released(s, t, p) ==
    LET keeps == s.AddressSpace[p] = NULL \/ SharesWithVforkParent(s, p)
    IN /\ Same(s, t, {"Allocated", "PageTable"})
       /\ t.Allocated = IF keeps THEN s.Allocated ELSE s.Allocated \ {s.AddressSpace[p]}
       /\ t.PageTable = IF ~keeps /\ RunningProcess(s) = p THEN NULL ELSE s.PageTable

\* What ReleaseAddressSpace changes.
LEMMA ReleaseEffect ==
    ASSUME NEW s \in KernelState, NEW p \in ProcessIds, NEW t, t = ReleaseAddressSpace(s, p)
    PROVE  t \in KernelState /\ Released(s, t, p)
<1> DEFINE F == {"Allocated", "PageTable"}
<1>1. IsState(s) /\ Typed(s) /\ Same(s, s, F)
  BY StateOf
<1>2. s.Allocated \subseteq Spaces /\ s.PageTable \in Spaces \cup {NULL}
  BY DEF KernelState
<1>3. CASE s.AddressSpace[p] = NULL \/ SharesWithVforkParent(s, p)
  BY <1>1, <1>3 DEF ReleaseAddressSpace, Released
<1>4. CASE ~(s.AddressSpace[p] = NULL \/ SharesWithVforkParent(s, p))
  <2>1. t = [s EXCEPT !.Allocated = s.Allocated \ {s.AddressSpace[p]},
                      !.PageTable = IF RunningProcess(s) = p THEN NULL ELSE s.PageTable]
    BY <1>4 DEF ReleaseAddressSpace
  <2>2. /\ Same(s, t, F) /\ t.Allocated = s.Allocated \ {s.AddressSpace[p]}
        /\ t.PageTable = IF RunningProcess(s) = p THEN NULL ELSE s.PageTable
    BY <1>1, <2>1, FieldNames DEF Same, IsState
  <2>3. \A f \in F : t[f] \in TypeOf(f)
    BY <1>2, <2>2 DEF TypeOf
  <2> HIDE DEF F
  <2>4. t \in KernelState
    BY <1>1, <2>2, <2>3, SameTyped, TypedIsKernelState
  <2> QED
    BY <1>4, <2>2, <2>4 DEF Released, F
<1> QED
  BY <1>3, <1>4

\* InitializeProcessEntry: the fields of a process entry, and nothing else.
EntryFields ==
    {"Status", "ParrentId", "AddressSpace", "VforkChildId", "VforkParentId",
     "WaitingForChild", "PendingChildId", "BlockedSignalMask", "PendingSignalMask",
     "SavedSignalMask", "HasSavedSignalState", "SavedSignalWasSyscall",
     "InterruptedBySignal", "SignalActions", "TimerRemaining", "TimerInterval", "Call"}

Fresh(s, t, p, status, space) ==
    /\ Same(s, t, EntryFields)
    /\ t.Status = [s.Status EXCEPT ![p] = status]
    /\ t.ParrentId = [s.ParrentId EXCEPT ![p] = INVALID]
    /\ t.AddressSpace = [s.AddressSpace EXCEPT ![p] = space]
    /\ t.VforkChildId = [s.VforkChildId EXCEPT ![p] = INVALID]
    /\ t.VforkParentId = [s.VforkParentId EXCEPT ![p] = INVALID]
    /\ t.WaitingForChild = [s.WaitingForChild EXCEPT ![p] = FALSE]
    /\ t.PendingChildId = [s.PendingChildId EXCEPT ![p] = INVALID]
    /\ t.BlockedSignalMask = [s.BlockedSignalMask EXCEPT ![p] = {}]
    /\ t.PendingSignalMask = [s.PendingSignalMask EXCEPT ![p] = {}]
    /\ t.HasSavedSignalState = [s.HasSavedSignalState EXCEPT ![p] = FALSE]
    /\ t.InterruptedBySignal = [s.InterruptedBySignal EXCEPT ![p] = FALSE]
    /\ t.TimerRemaining = [s.TimerRemaining EXCEPT ![p] = 0]
    /\ t.Call = [s.Call EXCEPT ![p] = UserFrame]

\* An assignment to one entry of a table keeps its type.
LEMMA EntryWritten ==
    ASSUME NEW S, NEW g \in [ProcessIds -> S], NEW p \in ProcessIds, NEW x \in S
    PROVE  [g EXCEPT ![p] = x] \in [ProcessIds -> S]
  OBVIOUS

\* The frame of a process that executes its program.
LEMMA UserFrameType == UserFrame \in Frames /\ UserFrame.call = "user"
  BY TickAssumption DEF UserFrame, Frames, Calls, Ids

\* What InitializeProcessEntry writes.
LEMMA FreshEffect ==
    ASSUME NEW s \in KernelState, NEW p \in ProcessIds, NEW status \in ProcessStates,
           NEW space \in Spaces \cup {NULL}, NEW t,
           t = InitializeProcessEntry(s, p, status, space)
    PROVE  t \in KernelState /\ Fresh(s, t, p, status, space)
<1> DEFINE F == {"Status", "ParrentId", "AddressSpace", "VforkChildId", "VforkParentId",
                 "WaitingForChild", "PendingChildId"}
           G == {"BlockedSignalMask", "PendingSignalMask", "SavedSignalMask",
                 "HasSavedSignalState", "SavedSignalWasSyscall", "InterruptedBySignal",
                 "SignalActions"}
           H == {"TimerRemaining", "TimerInterval", "Call"}
<1>1. PICK u : u = ResetRelations(s, p, status, space)
  OBVIOUS
<1>2. PICK v : v = ResetSignals(u, p)
  OBVIOUS
<1>3. t = ResetTimer(v, p)
  BY <1>1, <1>2 DEF InitializeProcessEntry
<1>4. IsState(s) /\ Typed(s)
  BY StateOf
<1>5. /\ Same(s, u, F)
      /\ u.Status = [s.Status EXCEPT ![p] = status]
      /\ u.ParrentId = [s.ParrentId EXCEPT ![p] = INVALID]
      /\ u.AddressSpace = [s.AddressSpace EXCEPT ![p] = space]
      /\ u.VforkChildId = [s.VforkChildId EXCEPT ![p] = INVALID]
      /\ u.VforkParentId = [s.VforkParentId EXCEPT ![p] = INVALID]
      /\ u.WaitingForChild = [s.WaitingForChild EXCEPT ![p] = FALSE]
      /\ u.PendingChildId = [s.PendingChildId EXCEPT ![p] = INVALID]
  BY ZenonT(30), <1>1, <1>4, FieldNames DEF ResetRelations, Same, IsState
<1>6. \A f \in F : u[f] \in TypeOf(f)
  <2>1. /\ s.Status \in [ProcessIds -> ProcessStates]
        /\ s.ParrentId \in [ProcessIds -> Ids] /\ s.VforkChildId \in [ProcessIds -> Ids]
        /\ s.VforkParentId \in [ProcessIds -> Ids] /\ s.PendingChildId \in [ProcessIds -> Ids]
        /\ s.AddressSpace \in [ProcessIds -> Spaces \cup {NULL}]
        /\ s.WaitingForChild \in [ProcessIds -> BOOLEAN]
    BY DEF KernelState
  <2>2. INVALID \in Ids
    BY DEF Ids
  <2>3. /\ u.Status \in [ProcessIds -> ProcessStates]
        /\ u.ParrentId \in [ProcessIds -> Ids] /\ u.VforkChildId \in [ProcessIds -> Ids]
        /\ u.VforkParentId \in [ProcessIds -> Ids] /\ u.PendingChildId \in [ProcessIds -> Ids]
        /\ u.AddressSpace \in [ProcessIds -> Spaces \cup {NULL}]
        /\ u.WaitingForChild \in [ProcessIds -> BOOLEAN]
    BY <1>5, <2>1, <2>2, EntryWritten
  <2> QED
    BY <2>3 DEF TypeOf
<1>7. u \in KernelState
  <2> HIDE DEF F
  <2> QED
    BY <1>4, <1>5, <1>6, SameTyped, TypedIsKernelState
<1>8. PICK d : d = [z \in Signals |-> "DFL"]
  OBVIOUS
<1>9. d \in [Signals -> Handlers]
  BY <1>8 DEF Handlers
<1>10. v = [u EXCEPT !.BlockedSignalMask[p] = {}, !.PendingSignalMask[p] = {},
                     !.SavedSignalMask[p] = {}, !.HasSavedSignalState[p] = FALSE,
                     !.SavedSignalWasSyscall[p] = FALSE, !.InterruptedBySignal[p] = FALSE,
                     !.SignalActions[p] = d]
  BY <1>2, <1>8 DEF ResetSignals
<1>11. IsState(u)
  BY <1>5 DEF Same
<1>12. /\ Same(u, v, G)
       /\ v.BlockedSignalMask = [u.BlockedSignalMask EXCEPT ![p] = {}]
       /\ v.PendingSignalMask = [u.PendingSignalMask EXCEPT ![p] = {}]
       /\ v.SavedSignalMask = [u.SavedSignalMask EXCEPT ![p] = {}]
       /\ v.HasSavedSignalState = [u.HasSavedSignalState EXCEPT ![p] = FALSE]
       /\ v.SavedSignalWasSyscall = [u.SavedSignalWasSyscall EXCEPT ![p] = FALSE]
       /\ v.InterruptedBySignal = [u.InterruptedBySignal EXCEPT ![p] = FALSE]
       /\ v.SignalActions = [u.SignalActions EXCEPT ![p] = d]
  BY <1>10, <1>11, FieldNames DEF Same, IsState
<1>13. \A f \in G : v[f] \in TypeOf(f)
  <2>1. /\ u.BlockedSignalMask \in [ProcessIds -> SUBSET Signals]
        /\ u.PendingSignalMask \in [ProcessIds -> SUBSET Signals]
        /\ u.SavedSignalMask \in [ProcessIds -> SUBSET Signals]
        /\ u.HasSavedSignalState \in [ProcessIds -> BOOLEAN]
        /\ u.SavedSignalWasSyscall \in [ProcessIds -> BOOLEAN]
        /\ u.InterruptedBySignal \in [ProcessIds -> BOOLEAN]
        /\ u.SignalActions \in [ProcessIds -> [Signals -> Handlers]]
    BY <1>7 DEF KernelState
  <2>2. {} \in SUBSET Signals /\ FALSE \in BOOLEAN
    OBVIOUS
  <2>3. /\ v.BlockedSignalMask \in [ProcessIds -> SUBSET Signals]
        /\ v.PendingSignalMask \in [ProcessIds -> SUBSET Signals]
        /\ v.SavedSignalMask \in [ProcessIds -> SUBSET Signals]
    BY <1>12, <2>1, <2>2, EntryWritten
  <2>4. /\ v.HasSavedSignalState \in [ProcessIds -> BOOLEAN]
        /\ v.SavedSignalWasSyscall \in [ProcessIds -> BOOLEAN]
        /\ v.InterruptedBySignal \in [ProcessIds -> BOOLEAN]
    BY <1>12, <2>1, <2>2, EntryWritten
  <2>5. v.SignalActions \in [ProcessIds -> [Signals -> Handlers]]
    BY <1>12, <1>9, <2>1, EntryWritten
  <2> QED
    BY <2>3, <2>4, <2>5 DEF TypeOf
<1>14. v \in KernelState /\ IsState(u) /\ IsState(v) /\ Typed(v)
  <2> HIDE DEF G
  <2> QED
    BY <1>7, <1>12, <1>13, SameTyped, TypedIsKernelState, StateOf
<1>15. /\ Same(v, t, H)
       /\ t.TimerRemaining = [v.TimerRemaining EXCEPT ![p] = 0]
       /\ t.TimerInterval = [v.TimerInterval EXCEPT ![p] = 0]
       /\ t.Call = [v.Call EXCEPT ![p] = UserFrame]
  BY <1>3, <1>14, FieldNames DEF ResetTimer, Same, IsState
<1>16. \A f \in H : t[f] \in TypeOf(f)
  <2>1. /\ v.TimerRemaining \in [ProcessIds -> 0 .. MaxTicks]
        /\ v.TimerInterval \in [ProcessIds -> 0 .. MaxTicks]
        /\ v.Call \in [ProcessIds -> Frames]
    BY <1>14 DEF KernelState
  <2>2. 0 \in 0 .. MaxTicks
    BY TickAssumption
  <2>3. /\ t.TimerRemaining \in [ProcessIds -> 0 .. MaxTicks]
        /\ t.TimerInterval \in [ProcessIds -> 0 .. MaxTicks]
    BY <1>15, <2>1, <2>2, EntryWritten
  <2>4. t.Call \in [ProcessIds -> Frames]
    BY <1>15, <2>1, UserFrameType, EntryWritten
  <2> QED
    BY <2>3, <2>4 DEF TypeOf
<1>17. t \in KernelState
  <2> HIDE DEF H
  <2> QED
    BY <1>14, <1>15, <1>16, SameTyped, TypedIsKernelState
<1>18. Same(s, t, EntryFields)
  BY <1>5, <1>12, <1>15 DEF Same, EntryFields
<1>19. /\ t.Status = u.Status /\ t.ParrentId = u.ParrentId /\ t.AddressSpace = u.AddressSpace
       /\ t.VforkChildId = u.VforkChildId /\ t.VforkParentId = u.VforkParentId
       /\ t.WaitingForChild = u.WaitingForChild /\ t.PendingChildId = u.PendingChildId
  BY <1>12, <1>15, FieldNames DEF Same
<1>20. /\ t.BlockedSignalMask = v.BlockedSignalMask /\ u.BlockedSignalMask = s.BlockedSignalMask
       /\ t.PendingSignalMask = v.PendingSignalMask /\ u.PendingSignalMask = s.PendingSignalMask
       /\ t.HasSavedSignalState = v.HasSavedSignalState
       /\ u.HasSavedSignalState = s.HasSavedSignalState
       /\ t.InterruptedBySignal = v.InterruptedBySignal
       /\ u.InterruptedBySignal = s.InterruptedBySignal
  BY <1>5, <1>15, FieldNames DEF Same
<1>21. v.TimerRemaining = s.TimerRemaining /\ v.Call = s.Call
  BY <1>5, <1>12, FieldNames DEF Same
<1> QED
  BY <1>5, <1>12, <1>15, <1>17, <1>18, <1>19, <1>20, <1>21 DEF Fresh

\* NotifyParent: the parent, if it lives, is told of the child and woken if it
\* waits for one.
Notified(s, t, parent, child) ==
    /\ Same(s, t, {"PendingChildId", "WaitingForChild", "Status", "ReadyQueue", "SleepQueue"})
    /\ parent = INVALID \/ s.Status[parent] = "TERMINATED" => t = s
    /\ parent # INVALID /\ s.Status[parent] # "TERMINATED" =>
         /\ t.PendingChildId = [s.PendingChildId EXCEPT ![parent] = child]
         /\ t.WaitingForChild = [s.WaitingForChild EXCEPT ![parent] = FALSE]
         /\ t.Status = IF s.WaitingForChild[parent] /\ s.Status[parent] = "BLOCKED"
                       THEN [s.Status EXCEPT ![parent] = "READY"] ELSE s.Status
         /\ Sleepers(t.SleepQueue) =
              IF s.WaitingForChild[parent] /\ s.Status[parent] = "BLOCKED"
              THEN Sleepers(s.SleepQueue) \ {parent} ELSE Sleepers(s.SleepQueue)

\* Telling the parent of an exit keeps status and queues in agreement.
LEMMA NotifyParentBase ==
    ASSUME NEW s, Base(s), NEW parent \in Ids, NEW child \in ProcessIds, NEW t,
           t = NotifyParent(s, parent, child)
    PROVE  Base(t) /\ Kept(s, t) /\ Notified(s, t, parent, child)
<1> DEFINE F == {"PendingChildId", "WaitingForChild"}
<1>1. s \in KernelState
  BY DEF Base
<1>2. IsState(s) /\ Typed(s) /\ \A G : Same(s, s, G)
  BY <1>1, StateOf
<1>3. CASE parent = INVALID \/ s.Status[parent] = "TERMINATED"
  <2>1. t = s
    BY <1>3 DEF NotifyParent, Live
  <2> QED
    BY <1>2, <1>3, <2>1, KeptSame DEF Notified
<1>4. CASE parent # INVALID /\ s.Status[parent] # "TERMINATED"
  <2>1. parent \in ProcessIds
    BY <1>4 DEF Ids
  <2>2. PICK told : told = [s EXCEPT !.PendingChildId[parent] = child,
                                     !.WaitingForChild[parent] = FALSE]
    OBVIOUS
  <2>3. /\ Same(s, told, F)
        /\ told.PendingChildId = [s.PendingChildId EXCEPT ![parent] = child]
        /\ told.WaitingForChild = [s.WaitingForChild EXCEPT ![parent] = FALSE]
    BY <1>2, <2>2, FieldNames DEF Same, IsState
  <2>4. \A f \in F : told[f] \in TypeOf(f)
    <3>1. s.PendingChildId \in [ProcessIds -> Ids] /\ s.WaitingForChild \in [ProcessIds -> BOOLEAN]
      BY <1>1 DEF KernelState
    <3>2. /\ told.PendingChildId \in [ProcessIds -> Ids]
          /\ told.WaitingForChild \in [ProcessIds -> BOOLEAN]
      BY <2>1, <2>3, <3>1, EntryWritten, NullIsProcess
    <3> QED
      BY <3>2 DEF TypeOf
  <2>5. told \in KernelState
    <3> HIDE DEF F
    <3> QED
      BY <1>2, <2>3, <2>4, SameTyped, TypedIsKernelState
  <2>6. \A f \in BaseFields : told[f] = s[f]
    BY <2>3, FieldNames DEF Same, BaseFields
  <2>7. Base(told)
    BY <2>5, <2>6, BaseFrame
  <2>8. /\ told.cpu = s.cpu /\ told.Loop = s.Loop /\ told.halted = s.halted
        /\ told.Call = s.Call /\ told.Status = s.Status /\ told.SleepQueue = s.SleepQueue
    BY <2>3, FieldNames DEF Same
  <2>9. Kept(s, told)
    BY <2>8, KeptSame
  <2>10. t = IF s.WaitingForChild[parent] THEN UnblockProcess(told, parent) ELSE told
    BY <1>4, <2>2 DEF NotifyParent, Live
  <2>11. CASE s.WaitingForChild[parent]
    <3>1. Base(t) /\ Woken(told, t, parent) /\ Kept(told, t)
      BY <2>1, <2>7, <2>10, <2>11, UnblockBase
    <3>2. Same(s, t, {"PendingChildId", "WaitingForChild", "Status", "ReadyQueue", "SleepQueue"})
      BY <2>3, <3>1 DEF Same, Woken
    <3>3. t.PendingChildId = told.PendingChildId /\ t.WaitingForChild = told.WaitingForChild
      BY <3>1, FieldNames DEF Woken, Same
    <3>4. Kept(s, t)
      BY <2>9, <3>1, KeptComposes
    <3> QED
      BY <1>4, <2>3, <2>8, <2>11, <3>1, <3>2, <3>3, <3>4 DEF Notified, Woken
  <2>12. CASE ~s.WaitingForChild[parent]
    <3>1. Same(s, told, {"PendingChildId", "WaitingForChild", "Status", "ReadyQueue", "SleepQueue"})
      BY <2>3 DEF Same
    <3> QED
      BY <1>4, <2>3, <2>7, <2>8, <2>9, <2>10, <2>12, <3>1 DEF Notified
  <2> QED
    BY <2>11, <2>12
<1> QED
  BY <1>3, <1>4

\* KillProcess, state by state: the address space is released (r), the entry
\* made fresh (d), the queues left (l), and the parent notified.
KilledVia(s, r, d, l, t, p) ==
    /\ \E u : GetRunningProcess(s) = u /\ Same(s, u, {"CurrentProcessId"}) /\ Released(u, r, p)
    /\ r.CurrentProcessId = IF s.Status[s.cpu] = "RUNNING" THEN s.cpu ELSE INVALID
    /\ Fresh(r, d, p, "TERMINATED", NULL)
    /\ Base(l)
    /\ Same(d, l, {"ReadyQueue", "CurrentProcess", "SleepQueue", "TTYInputWaitQueue"})
    /\ Sleepers(l.SleepQueue) = Sleepers(d.SleepQueue) \ {p}
    /\ l.TTYInputWaitQueue = RemoveFirst(d.TTYInputWaitQueue, p)
    /\ Notified(l, t, s.ParrentId[p], p)

\* Base, but for p, which may be READY without being queued: a child that was
\* never run is killed in that state.
BaseButQueue(s, p) ==
    /\ s \in KernelState
    /\ IsInjective(s.ReadyQueue)
    /\ \A q \in ProcessIds \ {p} :
         q \in Range(s.ReadyQueue) <=> s.Status[q] \in {"READY", "RUNNING"}
    /\ RunningOnCpu(s) /\ SleepersBlocked(s) /\ NullAlive(s) /\ Quiet(s)

\* KillProcess of a process that is not in the ready queue, as at a failed
\* fork.
LEMMA KillUnqueuedBase ==
    ASSUME NEW s, NEW p \in UserIds, BaseButQueue(s, p), NEW t, t = KillProcess(s, p)
    PROVE  Base(t) /\ Kept(s, t) /\ \E r, d, l : KilledVia(s, r, d, l, t, p)
<1>1. s \in KernelState /\ p \in ProcessIds /\ p # NullProcess
  BY NullIsProcess DEF BaseButQueue
<1>2. PICK u : u = GetRunningProcess(s)
  OBVIOUS
<1>3. /\ u \in KernelState /\ RunningOnCpu(u) /\ Kept(s, u) /\ Same(s, u, {"CurrentProcessId"})
      /\ u.CurrentProcessId = IF s.Status[s.cpu] = "RUNNING" THEN s.cpu ELSE INVALID
  BY <1>1, <1>2, GetRunningEffect DEF BaseButQueue
<1>4. PICK r : r = ReleaseAddressSpace(u, p)
  OBVIOUS
<1>5. r \in KernelState /\ Released(u, r, p) /\ u \in KernelState
  BY <1>1, <1>3, <1>4, ReleaseEffect
<1>6. Same(u, r, {"Allocated", "PageTable"})
  BY <1>5 DEF Released
<1>7. /\ r.Status = s.Status /\ r.ReadyQueue = s.ReadyQueue /\ r.SleepQueue = s.SleepQueue
      /\ r.cpu = u.cpu /\ r.cpu = s.cpu /\ r.CurrentProcessId = u.CurrentProcessId
      /\ r.TimerRemaining = s.TimerRemaining /\ r.Call = s.Call /\ u.Status = s.Status
      /\ r.HasSavedSignalState = s.HasSavedSignalState
      /\ r.PendingSignalMask = s.PendingSignalMask
      /\ r.BlockedSignalMask = s.BlockedSignalMask
  BY <1>3, <1>6, FieldNames DEF Same
<1>8. PICK d : d = InitializeProcessEntry(r, p, "TERMINATED", NULL)
  OBVIOUS
<1>9. d \in KernelState /\ Fresh(r, d, p, "TERMINATED", NULL)
  BY <1>1, <1>5, <1>8, FreshEffect DEF ProcessStates
<1>10. /\ d.ReadyQueue = r.ReadyQueue /\ d.SleepQueue = r.SleepQueue /\ d.cpu = r.cpu
       /\ d.CurrentProcessId = r.CurrentProcessId /\ d.Loop = r.Loop /\ d.halted = r.halted
  BY <1>9, FieldNames DEF Fresh, Same, EntryFields
<1>11. /\ r.Status \in [ProcessIds -> ProcessStates] /\ r.Call \in [ProcessIds -> Frames]
       /\ r.TimerRemaining \in [ProcessIds -> 0 .. MaxTicks]
       /\ r.PendingSignalMask \in [ProcessIds -> SUBSET Signals]
       /\ r.BlockedSignalMask \in [ProcessIds -> SUBSET Signals]
       /\ r.HasSavedSignalState \in [ProcessIds -> BOOLEAN]
  BY <1>5 DEF KernelState
<1>12. /\ d.Status[p] = "TERMINATED" /\ d.Call[p] = UserFrame /\ d.TimerRemaining[p] = 0
       /\ \A q \in ProcessIds \ {p} :
            /\ d.Status[q] = r.Status[q] /\ d.Call[q] = r.Call[q]
            /\ d.TimerRemaining[q] = r.TimerRemaining[q]
            /\ d.PendingSignalMask[q] = r.PendingSignalMask[q]
            /\ d.BlockedSignalMask[q] = r.BlockedSignalMask[q]
            /\ d.HasSavedSignalState[q] = r.HasSavedSignalState[q]
  BY <1>1, <1>9, <1>11 DEF Fresh
<1>13. IsInjective(d.ReadyQueue) /\ \A q \in ProcessIds \ {p} :
               q \in Range(d.ReadyQueue) <=> d.Status[q] \in {"READY", "RUNNING"}
  BY <1>7, <1>10, <1>12 DEF BaseButQueue
<1>14. SleepOnce(d.SleepQueue) /\ \A q \in Sleepers(d.SleepQueue) \ {p} : d.Status[q] = "BLOCKED"
  <2>1. Sleepers(r.SleepQueue) \subseteq ProcessIds
    BY <1>5, SleepersAreProcesses
  <2> QED
    BY <1>7, <1>10, <1>12, <2>1 DEF BaseButQueue, SleepersBlocked
<1>15. RunningOnCpu(d) /\ NullAlive(d)
  BY <1>1, <1>3, <1>7, <1>10, <1>12, NullIsProcess DEF BaseButQueue, RunningOnCpu, NullAlive
<1>16. Quiet(d)
  BY <1>7, <1>12, UserFrameType DEF BaseButQueue, Quiet, CanDispatch, Deliverable
<1>17. PICK l : l = LeaveQueues(d, p)
  OBVIOUS
<1>18. /\ Base(l)
       /\ Same(d, l, {"ReadyQueue", "CurrentProcess", "SleepQueue", "TTYInputWaitQueue"})
       /\ Sleepers(l.SleepQueue) = Sleepers(d.SleepQueue) \ {p}
       /\ l.TTYInputWaitQueue = RemoveFirst(d.TTYInputWaitQueue, p)
  BY <1>1, <1>9, <1>12, <1>13, <1>14, <1>15, <1>16, <1>17, LeaveQueuesBase
<1>19. t = NotifyParent(l, s.ParrentId[p], p)
  BY <1>2, <1>4, <1>8, <1>17 DEF KillProcess
<1>20. s.ParrentId[p] \in Ids
  BY <1>1 DEF KernelState
<1>21. Base(t) /\ Kept(l, t) /\ Notified(l, t, s.ParrentId[p], p)
  BY <1>1, <1>18, <1>19, <1>20, NotifyParentBase
<1>22. Kept(u, r)
  <2>1. r.cpu = u.cpu /\ r.Loop = u.Loop /\ r.halted = u.halted /\ r.Call = u.Call
    BY <1>6, FieldNames DEF Same
  <2> QED
    BY <2>1, KeptSame
<1>23. Kept(r, d)
  BY <1>10, <1>12 DEF Kept
<1>24. Kept(d, l)
  <2>1. l.cpu = d.cpu /\ l.Loop = d.Loop /\ l.halted = d.halted /\ l.Call = d.Call
    BY <1>18, FieldNames DEF Same
  <2> QED
    BY <2>1, KeptSame
<1>25. Kept(s, t)
  <2>1. Kept(s, r)
    BY <1>3, <1>22, KeptComposes
  <2>2. Kept(s, d)
    BY <1>23, <2>1, KeptComposes
  <2>3. Kept(s, l)
    BY <1>24, <2>2, KeptComposes
  <2> QED
    BY <1>21, <2>3, KeptComposes
<1>26. r.CurrentProcessId = u.CurrentProcessId
  BY <1>6, FieldNames DEF Same
<1>27. KilledVia(s, r, d, l, t, p)
  BY <1>2, <1>3, <1>5, <1>9, <1>18, <1>21, <1>26 DEF KilledVia
<1> QED
  BY <1>21, <1>25, <1>27

\* KillProcess keeps status and queues in agreement, whatever the process was
\* doing.
LEMMA KillBase ==
    ASSUME NEW s, Base(s), NEW p \in UserIds, NEW t, t = KillProcess(s, p)
    PROVE  Base(t) /\ Kept(s, t) /\ \E r, d, l : KilledVia(s, r, d, l, t, p)
<1>1. BaseButQueue(s, p)
  BY DEF Base, BaseButQueue, QueueSound
<1> QED
  BY <1>1, KillUnqueuedBase

-----------------------------------------------------------------------------
(* Signals                                                                 *)

\* The fields SignalProcess writes of a process that it does not kill.
SignalFields ==
    {"PendingSignalMask", "HasSavedSignalState", "SavedSignalWasSyscall", "SavedSignalMask",
     "BlockedSignalMask", "InterruptedBySignal"}

\* A change of those fields for p alone, after which p could be delivered
\* nothing that it could not be delivered before.
LEMMA SignalFieldsBase ==
    ASSUME NEW s, Base(s), NEW p \in ProcessIds, NEW t, Same(s, t, SignalFields), Typed(t),
           \A q \in ProcessIds \ {p} :
               /\ t.PendingSignalMask[q] = s.PendingSignalMask[q]
               /\ t.BlockedSignalMask[q] = s.BlockedSignalMask[q]
               /\ t.HasSavedSignalState[q] = s.HasSavedSignalState[q],
           s.Call[p].call = "sigsuspend" => ~CanDispatch(t, p)
    PROVE  Base(t) /\ Kept(s, t)
<1>1. t \in KernelState
  BY TypedIsKernelState
<1>2. /\ t.Status = s.Status /\ t.ReadyQueue = s.ReadyQueue /\ t.SleepQueue = s.SleepQueue
      /\ t.cpu = s.cpu /\ t.CurrentProcessId = s.CurrentProcessId
      /\ t.TimerRemaining = s.TimerRemaining /\ t.Call = s.Call
      /\ t.Loop = s.Loop /\ t.halted = s.halted
  BY FieldNames DEF Same, SignalFields
<1>3. QueueSound(t) /\ RunningOnCpu(t)
  BY <1>2 DEF Base, QueueSound, RunningOnCpu
<1>4. SleepersBlocked(t) /\ NullAlive(t)
  BY <1>2 DEF Base, SleepersBlocked, NullAlive
<1>5. Quiet(t)
  <2> SUFFICES ASSUME NEW q \in ProcessIds, t.Call[q].call = "sigsuspend", q # p
               PROVE  ~CanDispatch(t, q)
    BY <1>2 DEF Quiet
  <2>1. ~CanDispatch(s, q)
    BY <1>2 DEF Base, Quiet
  <2> QED
    BY <2>1 DEF CanDispatch, Deliverable
<1> QED
  BY <1>1, <1>2, <1>3, <1>4, <1>5, KeptSame DEF Base

\* A pending signal is taken: nothing becomes deliverable.
LEMMA TakenBase ==
    ASSUME NEW s, Base(s), NEW p \in ProcessIds, NEW sig, NEW t,
           t = ClearPending(s, p, sig)
    PROVE  /\ Base(t) /\ Kept(s, t) /\ Same(s, t, {"PendingSignalMask"})
           /\ t.PendingSignalMask = [s.PendingSignalMask EXCEPT ![p] = s.PendingSignalMask[p] \ {sig}]
<1>1. s \in KernelState
  BY DEF Base
<1>2. s.PendingSignalMask \in [ProcessIds -> SUBSET Signals]
  BY <1>1 DEF KernelState
<1>3. /\ Typed(t) /\ Same(s, t, {"PendingSignalMask"})
      /\ t.PendingSignalMask = [s.PendingSignalMask EXCEPT ![p] = s.PendingSignalMask[p] \ {sig}]
  <2>1. s.PendingSignalMask[p] \in SUBSET Signals
    BY <1>2
  <2>2. PICK g : g = [s.PendingSignalMask EXCEPT ![p] = s.PendingSignalMask[p] \ {sig}]
    OBVIOUS
  <2>3. g \in TypeOf("PendingSignalMask") /\ "PendingSignalMask" \in Fields
    BY <1>2, <2>1, <2>2, FieldNames DEF TypeOf
  <2>4. t = [s EXCEPT !.PendingSignalMask = g]
    BY <2>2 DEF ClearPending
  <2>5. t \in KernelState /\ Same(s, t, {"PendingSignalMask"}) /\ t.PendingSignalMask = g
    BY <1>1, <2>3, <2>4, FieldReplaced
  <2> QED
    BY <2>2, <2>5, TypedIsKernelState
<1>4. Same(s, t, SignalFields)
  BY <1>3 DEF Same, SignalFields
<1>5. t.BlockedSignalMask = s.BlockedSignalMask /\ t.HasSavedSignalState = s.HasSavedSignalState
  BY <1>3, FieldNames DEF Same
<1>6. \A q \in ProcessIds \ {p} : t.PendingSignalMask[q] = s.PendingSignalMask[q]
  BY <1>2, <1>3
<1>7. s.Call[p].call = "sigsuspend" => ~CanDispatch(t, p)
  <2>1. t.PendingSignalMask[p] = s.PendingSignalMask[p] \ {sig}
    BY <1>2, <1>3
  <2> QED
    BY <1>5, <2>1 DEF Base, Quiet, CanDispatch, Deliverable
<1>8. Base(t) /\ Kept(s, t)
  BY <1>3, <1>4, <1>5, <1>6, <1>7, SignalFieldsBase
<1> QED
  BY <1>3, <1>8

\* A signal becomes pending that p cannot be delivered.
LEMMA PendingBase ==
    ASSUME NEW s, Base(s), NEW p \in ProcessIds, NEW sig \in Signals, NEW t,
           t = SetPending(s, p, sig),
           s.HasSavedSignalState[p] \/ sig \in s.BlockedSignalMask[p]
    PROVE  Base(t) /\ Kept(s, t) /\ Same(s, t, {"PendingSignalMask"})
<1>1. s \in KernelState
  BY DEF Base
<1>2. s.PendingSignalMask \in [ProcessIds -> SUBSET Signals]
  BY <1>1 DEF KernelState
<1>3. /\ Typed(t) /\ Same(s, t, {"PendingSignalMask"})
      /\ t.PendingSignalMask = [s.PendingSignalMask EXCEPT ![p] = s.PendingSignalMask[p] \cup {sig}]
  <2>1. s.PendingSignalMask[p] \in SUBSET Signals
    BY <1>2
  <2>2. PICK g : g = [s.PendingSignalMask EXCEPT ![p] = s.PendingSignalMask[p] \cup {sig}]
    OBVIOUS
  <2>3. g \in TypeOf("PendingSignalMask") /\ "PendingSignalMask" \in Fields
    BY <1>2, <2>1, <2>2, FieldNames DEF TypeOf
  <2>4. t = [s EXCEPT !.PendingSignalMask = g]
    BY <2>2 DEF SetPending
  <2>5. t \in KernelState /\ Same(s, t, {"PendingSignalMask"}) /\ t.PendingSignalMask = g
    BY <1>1, <2>3, <2>4, FieldReplaced
  <2> QED
    BY <2>2, <2>5, TypedIsKernelState
<1>4. Same(s, t, SignalFields)
  BY <1>3 DEF Same, SignalFields
<1>5. t.BlockedSignalMask = s.BlockedSignalMask /\ t.HasSavedSignalState = s.HasSavedSignalState
  BY <1>3, FieldNames DEF Same
<1>6. \A q \in ProcessIds \ {p} : t.PendingSignalMask[q] = s.PendingSignalMask[q]
  BY <1>2, <1>3
<1>7. s.Call[p].call = "sigsuspend" => ~CanDispatch(t, p)
  <2>1. t.PendingSignalMask[p] = s.PendingSignalMask[p] \cup {sig}
    BY <1>2, <1>3
  <2> QED
    BY <1>5, <2>1 DEF Base, Quiet, CanDispatch, Deliverable
<1>8. Base(t) /\ Kept(s, t)
  BY <1>3, <1>4, <1>5, <1>6, <1>7, SignalFieldsBase
<1> QED
  BY <1>3, <1>8

\* A handler is installed, and the process is woken: it runs the handler before
\* it looks at its mask again.
HandlerFields ==
    {"HasSavedSignalState", "SavedSignalWasSyscall", "SavedSignalMask", "BlockedSignalMask"}

\* Redirecting a process to its handler concerns neither status nor queues.
LEMMA RedirectedBase ==
    ASSUME NEW s, Base(s), NEW p \in ProcessIds, NEW sig \in Signals, NEW t,
           t = Redirect(s, p, sig)
    PROVE  /\ Base(t) /\ Kept(s, t) /\ Same(s, t, HandlerFields)
           /\ t.HasSavedSignalState[p] = TRUE
<1>1. s \in KernelState /\ IsState(s) /\ Typed(s)
  BY StateOf DEF Base
<1>2. /\ s.HasSavedSignalState \in [ProcessIds -> BOOLEAN]
      /\ s.SavedSignalWasSyscall \in [ProcessIds -> BOOLEAN]
      /\ s.SavedSignalMask \in [ProcessIds -> SUBSET Signals]
      /\ s.BlockedSignalMask \in [ProcessIds -> SUBSET Signals]
  BY <1>1 DEF KernelState
<1>3. /\ InSystemCall(s, p) \in BOOLEAN
      /\ s.BlockedSignalMask[p] \in SUBSET Signals
      /\ (s.BlockedSignalMask[p] \cup {sig}) \ Unblockable \in SUBSET Signals
  <2>1. s.BlockedSignalMask[p] \in SUBSET Signals
    BY <1>2
  <2>2. (s.BlockedSignalMask[p] \cup {sig}) \ Unblockable \in SUBSET Signals
    BY <2>1
  <2> QED
    BY <2>1, <2>2 DEF InSystemCall
<1>4. PICK b \in BOOLEAN : b = InSystemCall(s, p)
  BY <1>3
<1>5. PICK n \in SUBSET Signals : n = (s.BlockedSignalMask[p] \cup {sig}) \ Unblockable
  BY <1>3
<1>6. PICK m \in SUBSET Signals : m = s.BlockedSignalMask[p]
  BY <1>3
<1>7. /\ IsState(t) /\ Same(s, t, HandlerFields)
      /\ t.HasSavedSignalState = [s.HasSavedSignalState EXCEPT ![p] = TRUE]
      /\ t.SavedSignalWasSyscall = [s.SavedSignalWasSyscall EXCEPT ![p] = b]
      /\ t.SavedSignalMask = [s.SavedSignalMask EXCEPT ![p] = m]
      /\ t.BlockedSignalMask = [s.BlockedSignalMask EXCEPT ![p] = n]
  <2>1. t = [s EXCEPT !.HasSavedSignalState[p] = TRUE, !.SavedSignalWasSyscall[p] = b,
                      !.SavedSignalMask[p] = m, !.BlockedSignalMask[p] = n]
    BY <1>4, <1>5, <1>6 DEF Redirect
  <2>2. IsState(s)
    BY <1>1
  <2> QED
    BY ZenonT(30), <2>1, <2>2, FieldNames DEF Same, IsState, HandlerFields
<1>8. /\ t.HasSavedSignalState \in [ProcessIds -> BOOLEAN]
      /\ t.SavedSignalWasSyscall \in [ProcessIds -> BOOLEAN]
      /\ t.SavedSignalMask \in [ProcessIds -> SUBSET Signals]
      /\ t.BlockedSignalMask \in [ProcessIds -> SUBSET Signals]
  BY <1>2, <1>7, EntryWritten
<1>9. \A f \in HandlerFields : t[f] \in TypeOf(f)
  BY <1>8 DEF TypeOf, HandlerFields
<1>10. Typed(t)
  BY <1>1, <1>7, <1>9, SameTyped
<1>11. Same(s, t, SignalFields)
  BY <1>7 DEF Same, SignalFields, HandlerFields
<1>12. t.HasSavedSignalState[p] = TRUE /\ t.PendingSignalMask = s.PendingSignalMask
  BY <1>2, <1>7, FieldNames DEF Same, HandlerFields
<1>13. \A q \in ProcessIds \ {p} : /\ t.BlockedSignalMask[q] = s.BlockedSignalMask[q]
                                   /\ t.HasSavedSignalState[q] = s.HasSavedSignalState[q]
  BY <1>2, <1>7
<1>14. ~CanDispatch(t, p)
  BY <1>12 DEF CanDispatch
<1>15. Base(t) /\ Kept(s, t)
  BY <1>10, <1>11, <1>12, <1>13, <1>14, SignalFieldsBase
<1> QED
  BY <1>7, <1>12, <1>15

\* A change of fields the invariant does not look at.
LEMMA SideFieldsBase ==
    ASSUME NEW s, Base(s), NEW t \in KernelState, NEW F, Same(s, t, F),
           F \cap (BaseFields \cup {"Loop", "halted"}) = {}
    PROVE  Base(t) /\ Kept(s, t)
<1>1. \A f \in BaseFields \cup {"Loop", "halted"} : f \in Fields /\ f \notin F
  BY FieldNames DEF BaseFields
<1>2. \A f \in BaseFields \cup {"Loop", "halted"} : t[f] = s[f]
  BY <1>1 DEF Same
<1>3. Base(t)
  BY <1>2, BaseFrame
<1>4. t.cpu = s.cpu /\ t.Loop = s.Loop /\ t.halted = s.halted /\ t.Call = s.Call
  BY <1>2 DEF BaseFields
<1> QED
  BY <1>3, <1>4, KeptSame

InterruptedWritten(s, t, p, x) == t = [s EXCEPT !.InterruptedBySignal[p] = x]

\* The mark of an interrupted call concerns neither status nor queues.
LEMMA InterruptedBase ==
    ASSUME NEW s, Base(s), NEW p \in ProcessIds, NEW x \in BOOLEAN, NEW t,
           InterruptedWritten(s, t, p, x)
    PROVE  Base(t) /\ Kept(s, t) /\ Same(s, t, {"InterruptedBySignal"})
<1>1. s \in KernelState
  BY DEF Base
<1>2. s.InterruptedBySignal \in [ProcessIds -> BOOLEAN]
  BY <1>1 DEF KernelState
<1>3. PICK g : g = [s.InterruptedBySignal EXCEPT ![p] = x]
  OBVIOUS
<1>4. g \in TypeOf("InterruptedBySignal") /\ "InterruptedBySignal" \in Fields
  BY <1>2, <1>3, EntryWritten, FieldNames DEF TypeOf
<1>5. t = [s EXCEPT !.InterruptedBySignal = g]
  BY <1>3 DEF InterruptedWritten
<1>6. t \in KernelState /\ Same(s, t, {"InterruptedBySignal"})
  BY <1>1, <1>4, <1>5, FieldReplaced
<1>7. {"InterruptedBySignal"} \cap (BaseFields \cup {"Loop", "halted"}) = {}
  BY DEF BaseFields
<1> QED
  BY <1>6, <1>7, SideFieldsBase

\* The handler is installed; a BLOCKED process is continued for it.
LEMMA RunHandlerBase ==
    ASSUME NEW s, Base(s), NEW p \in ProcessIds, NEW sig \in Signals, NEW t,
           t = RunHandler(s, p, sig)
    PROVE  Base(t) /\ Kept(s, t)
<1>1. PICK u : u = Redirect(s, p, sig)
  OBVIOUS
<1>2. Base(u) /\ Kept(s, u) /\ Same(s, u, HandlerFields)
  BY <1>1, RedirectedBase
<1>3. CASE s.Status[p] # "BLOCKED"
  <2>1. t = u
    BY <1>1, <1>3 DEF RunHandler
  <2> QED
    BY <1>2, <2>1
<1>4. CASE s.Status[p] = "BLOCKED"
  <2>1. PICK v : v = [u EXCEPT !.InterruptedBySignal[p] = TRUE]
    OBVIOUS
  <2>2. InterruptedWritten(u, v, p, TRUE)
    BY <2>1 DEF InterruptedWritten
  <2>3. Base(v) /\ Kept(u, v) /\ Same(u, v, {"InterruptedBySignal"})
    BY <1>2, <2>2, InterruptedBase
  <2>4. v.Status = s.Status
    BY <1>2, <2>3, FieldNames DEF Same, HandlerFields
  <2>5. t = MakeReady(LeaveWaitQueues(v, p), p)
    BY <1>1, <1>4, <2>1 DEF RunHandler
  <2>6. t = ContinueProcess(v, p)
    BY <1>4, <2>4, <2>5 DEF ContinueProcess
  <2>7. Base(t) /\ Kept(v, t)
    BY <2>3, <2>6, ContinueBase
  <2>8. Kept(s, v)
    BY <1>2, <2>3, KeptComposes
  <2> QED
    BY <2>7, <2>8, KeptComposes
<1> QED
  BY <1>3, <1>4

\* Delivering a signal keeps status and queues in agreement: it may stop, kill
\* or wake.
LEMMA DeliverBase ==
    ASSUME NEW s, Base(s), NEW p \in UserIds, NEW sig \in Signals, NEW t,
           t = DeliverSignal(s, p, sig)
    PROVE  Base(t) /\ Kept(s, t)
<1>1. s \in KernelState /\ p \in ProcessIds
  BY NullIsProcess DEF Base
<1>2. Kept(s, s)
  BY KeptSame
<1>3. s.SignalActions[p][sig] \in Handlers
  BY <1>1 DEF KernelState
<1>4. CASE t = KillProcess(s, p)
  BY <1>4, KillBase
<1>5. CASE t = s
  BY <1>2, <1>5
<1>6. CASE s.SignalActions[p][sig] = "IGN"
  BY <1>5, <1>6 DEF DeliverSignal
<1>7. CASE s.SignalActions[p][sig] = "DFL"
  <2>1. t = DefaultAction(s, p, sig)
    BY <1>7 DEF DeliverSignal
  <2> QED
    BY <1>4, <1>5, <2>1 DEF DefaultAction
<1>8. CASE s.SignalActions[p][sig] \in {"FUNCTION", "BAD"} /\ s.HasSavedSignalState[p]
  <2>1. t = SetPending(s, p, sig)
    BY <1>8 DEF DeliverSignal
  <2> QED
    BY <1>1, <1>8, <2>1, PendingBase
<1>9. CASE s.SignalActions[p][sig] = "FUNCTION" /\ ~s.HasSavedSignalState[p]
  <2>1. t = RunHandler(s, p, sig)
    BY <1>9 DEF DeliverSignal
  <2> QED
    BY <1>1, <2>1, RunHandlerBase
<1>10. CASE s.SignalActions[p][sig] = "BAD" /\ ~s.HasSavedSignalState[p]
  BY <1>4, <1>10 DEF DeliverSignal
<1> QED
  BY <1>3, <1>6, <1>7, <1>8, <1>9, <1>10 DEF Handlers

\* SignalProcess keeps status and queues in agreement.
LEMMA SignalBase ==
    ASSUME NEW s, Base(s), NEW p \in UserIds, NEW sig \in Signals, NEW t,
           t = SignalProcess(s, p, sig)
    PROVE  Base(t) /\ Kept(s, t)
<1>1. s \in KernelState /\ p \in ProcessIds
  BY NullIsProcess DEF Base
<1>2. PICK u : u = ClearPending(s, p, sig)
  OBVIOUS
<1>3. Base(u) /\ Kept(s, u)
  BY <1>1, <1>2, TakenBase
<1>4. SUFFICES \/ t = s
               \/ Base(t) /\ Kept(u, t)
               \/ t = SetPending(s, p, sig) /\ sig \in s.BlockedSignalMask[p]
  <2>1. Kept(s, s)
    BY KeptSame
  <2> QED
    BY <1>1, <1>3, <1>4, <2>1, KeptComposes, PendingBase
<1>5. SIGKILL # SIGSTOP /\ SIGKILL # SIGCONT /\ SIGSTOP # SIGCONT
  BY DEF SIGKILL, SIGSTOP, SIGCONT
<1>6. CASE ~Live(s, p)
  BY <1>6 DEF SignalProcess
<1>7. CASE Live(s, p) /\ sig = SIGKILL
  <2>1. Live(s, p) /\ sig = SIGKILL /\ sig # SIGSTOP /\ sig # SIGCONT
    BY <1>5, <1>7
  <2>2. t = KillProcess(u, p)
    BY <1>2, <2>1 DEF SignalProcess
  <2> QED
    BY <1>3, <2>2, KillBase
<1>8. CASE Live(s, p) /\ sig = SIGSTOP
  <2>1. Live(s, p) /\ sig # SIGKILL /\ sig = SIGSTOP /\ sig # SIGCONT
    BY <1>5, <1>8
  <2>2. t = StopProcess(u, p)
    BY <1>2, <2>1 DEF SignalProcess
  <2> QED
    BY <1>3, <2>2, StopBase
<1>9. CASE Live(s, p) /\ sig = SIGCONT
  <2>1. Live(s, p) /\ sig # SIGKILL /\ sig # SIGSTOP /\ sig = SIGCONT
    BY <1>5, <1>9
  <2>2. t = ContinueProcess(u, p)
    BY <1>2, <2>1 DEF SignalProcess
  <2> QED
    BY <1>1, <1>3, <2>2, ContinueBase
<1>10. CASE Live(s, p) /\ sig \notin {SIGKILL, SIGSTOP, SIGCONT} /\ sig \in s.BlockedSignalMask[p]
  BY <1>10 DEF SignalProcess
<1>11. CASE Live(s, p) /\ sig \notin {SIGKILL, SIGSTOP, SIGCONT} /\ sig \notin s.BlockedSignalMask[p]
  <2>1. t = DeliverSignal(u, p, sig)
    BY <1>2, <1>11 DEF SignalProcess
  <2> QED
    BY <1>3, <2>1, DeliverBase
<1> QED
  BY <1>6, <1>7, <1>8, <1>9, <1>10, <1>11

-----------------------------------------------------------------------------
(* Scheduling                                                              *)

\* RotateFrontToBack keeps the entries of the queue.
LEMMA Rotated ==
    ASSUME NEW S, NEW q \in Seq(S), q # <<>>
    PROVE  /\ RotateFrontToBack(q) \in Seq(S) /\ RotateFrontToBack(q) # <<>>
           /\ Range(RotateFrontToBack(q)) = Range(q)
           /\ IsInjective(q) => IsInjective(RotateFrontToBack(q))
<1> DEFINE r == Append(Tail(q), Head(q))
<1>1. r = RotateFrontToBack(q)
  BY DEF RotateFrontToBack
<1>2. /\ r \in Seq(S) /\ Len(r) = Len(q)
      /\ \A n \in 1 .. Len(q) : r[n] = IF n < Len(q) THEN q[n + 1] ELSE q[1]
  BY RotateElements
<1> HIDE DEF r
<1>3. Len(q) \in Nat /\ Len(q) >= 1 /\ DOMAIN q = 1 .. Len(q) /\ DOMAIN r = 1 .. Len(q)
  BY <1>2
<1>4. r # <<>>
  BY <1>2, <1>3
<1>5. ASSUME NEW y \in Range(r)
      PROVE  y \in Range(q)
  <2>1. PICK n \in 1 .. Len(q) : y = r[n]
    BY <1>3, <1>5 DEF Range
  <2>2. CASE n < Len(q)
    <3>1. n + 1 \in 1 .. Len(q) /\ y = q[n + 1]
      BY <1>2, <2>1, <2>2
    <3> QED
      BY <1>3, <3>1 DEF Range
  <2>3. CASE ~(n < Len(q))
    <3>1. 1 \in 1 .. Len(q) /\ y = q[1]
      BY <1>2, <1>3, <2>1, <2>3
    <3> QED
      BY <1>3, <3>1 DEF Range
  <2> QED
    BY <2>2, <2>3
<1>6. ASSUME NEW y \in Range(q)
      PROVE  y \in Range(r)
  <2>1. PICK n \in 1 .. Len(q) : y = q[n]
    BY <1>3, <1>6 DEF Range
  <2>2. CASE n = 1
    <3>1. Len(q) \in 1 .. Len(q) /\ y = r[Len(q)]
      BY <1>2, <1>3, <2>1, <2>2
    <3> QED
      BY <1>3, <3>1 DEF Range
  <2>3. CASE n # 1
    <3>1. n - 1 \in 1 .. Len(q) /\ n - 1 < Len(q) /\ (n - 1) + 1 = n
      BY <2>1, <2>3
    <3>2. y = r[n - 1]
      BY <1>2, <2>1, <3>1
    <3> QED
      BY <1>3, <3>1, <3>2 DEF Range
  <2> QED
    BY <2>2, <2>3
<1>7. ASSUME IsInjective(q)
      PROVE  IsInjective(r)
  <2>1. \A i, j \in 1 .. Len(q) : q[i] = q[j] => i = j
    BY <1>3, <1>7 DEF IsInjective
  <2> SUFFICES ASSUME NEW i \in 1 .. Len(q), NEW j \in 1 .. Len(q), r[i] = r[j]
               PROVE  i = j
    BY <1>3 DEF IsInjective
  <2> QED
    BY <1>2, <1>3, <2>1
<1> QED
  BY <1>1, <1>2, <1>4, <1>5, <1>6, <1>7

\* SelectNextProcess rotates the queue and selects one of its members.
LEMMA SelectNextEffect ==
    ASSUME NEW s \in KernelState, s.ReadyQueue # <<>>, NEW t, t = SelectNextProcess(s)
    PROVE  /\ t \in KernelState /\ Same(s, t, {"ReadyQueue", "CurrentProcess"})
           /\ Range(t.ReadyQueue) = Range(s.ReadyQueue)
           /\ IsInjective(s.ReadyQueue) => IsInjective(t.ReadyQueue)
           /\ SelectedProcess(s) \in Range(s.ReadyQueue)
<1> DEFINE F == {"ReadyQueue", "CurrentProcess"}
<1>1. s.ReadyQueue \in Seq(ProcessIds)
  BY DEF KernelState
<1>2. PICK r : r = IF s.CurrentProcess THEN RotateFrontToBack(s.ReadyQueue) ELSE s.ReadyQueue
  OBVIOUS
<1>3. /\ r \in Seq(ProcessIds) /\ r # <<>> /\ Range(r) = Range(s.ReadyQueue)
      /\ IsInjective(s.ReadyQueue) => IsInjective(r)
  BY <1>1, <1>2, Rotated
<1>4. IsState(s) /\ Typed(s)
  BY StateOf
<1>5. t = [s EXCEPT !.ReadyQueue = r, !.CurrentProcess = TRUE]
  BY <1>2 DEF SelectNextProcess
<1>6. Same(s, t, F) /\ t.ReadyQueue = r /\ t.CurrentProcess = TRUE
  BY <1>4, <1>5, FieldNames DEF Same, IsState
<1>7. \A f \in F : t[f] \in TypeOf(f)
  BY <1>3, <1>6 DEF TypeOf
<1>8. t \in KernelState
  <2> HIDE DEF F
  <2> QED
    BY <1>4, <1>6, <1>7, SameTyped, TypedIsKernelState
<1>9. SelectedProcess(s) = r[1]
  BY <1>6 DEF SelectedProcess
<1>10. 1 \in DOMAIN r
  BY <1>3
<1>11. SelectedProcess(s) \in Range(r)
  BY <1>9, <1>10 DEF Range
<1> QED
  BY <1>3, <1>6, <1>8, <1>11

SwitchFields == {"Status", "CurrentProcessId", "cpu", "PageTable"}

OthersWait(s, p) == \A q \in ProcessIds \ {p} : s.Status[q] # "RUNNING"

\* The task switch, from a state in which no other process is RUNNING.
LEMMA SwitchBase ==
    ASSUME NEW s \in KernelState, QueueSound(s), SleepersBlocked(s), NullAlive(s), Quiet(s),
           NEW p \in ProcessIds, s.Status[p] \in {"READY", "RUNNING"},
           OthersWait(s, p), NEW t, t = SwitchTo(s, p)
    PROVE  /\ Base(t) /\ Same(s, t, SwitchFields)
           /\ t.Status = [s.Status EXCEPT ![p] = "RUNNING"]
           /\ t.cpu = p /\ t.CurrentProcessId = p /\ t.PageTable = s.AddressSpace[p]
<1>1. IsState(s) /\ Typed(s)
  BY StateOf
<1>2. /\ s.Status \in [ProcessIds -> ProcessStates]
      /\ s.AddressSpace \in [ProcessIds -> Spaces \cup {NULL}]
  BY DEF KernelState
<1>3. /\ Same(s, t, SwitchFields)
      /\ t.Status = [s.Status EXCEPT ![p] = "RUNNING"]
      /\ t.cpu = p /\ t.CurrentProcessId = p /\ t.PageTable = s.AddressSpace[p]
  BY <1>1, FieldNames DEF SwitchTo, Same, IsState, SwitchFields
<1>4. \A f \in SwitchFields : t[f] \in TypeOf(f)
  <2>1. t.Status \in [ProcessIds -> ProcessStates]
    BY <1>2, <1>3, EntryWritten DEF ProcessStates
  <2>2. t.cpu \in ProcessIds /\ t.CurrentProcessId \in Ids /\ t.PageTable \in Spaces \cup {NULL}
    BY <1>2, <1>3, NullIsProcess
  <2> QED
    BY <2>1, <2>2 DEF TypeOf, SwitchFields
<1>5. t \in KernelState
  BY <1>1, <1>3, <1>4, SameTyped, TypedIsKernelState
<1>6. /\ t.ReadyQueue = s.ReadyQueue /\ t.SleepQueue = s.SleepQueue
      /\ t.TimerRemaining = s.TimerRemaining /\ t.Call = s.Call
      /\ t.HasSavedSignalState = s.HasSavedSignalState
      /\ t.PendingSignalMask = s.PendingSignalMask
      /\ t.BlockedSignalMask = s.BlockedSignalMask
  BY <1>3, FieldNames DEF Same, SwitchFields
<1>7. t.Status[p] = "RUNNING" /\ \A q \in ProcessIds \ {p} : t.Status[q] = s.Status[q]
  BY <1>2, <1>3
<1>8. QueueSound(t)
  BY <1>6, <1>7 DEF QueueSound
<1>9. RunningOnCpu(t)
  BY <1>3, <1>7 DEF RunningOnCpu, OthersWait
<1>10. SleepersBlocked(t)
  <2>1. Sleepers(s.SleepQueue) \subseteq ProcessIds
    BY SleepersAreProcesses
  <2>2. p \notin Sleepers(s.SleepQueue)
    BY DEF SleepersBlocked
  <2> QED
    BY <1>6, <1>7, <2>1, <2>2 DEF SleepersBlocked
<1>11. NullAlive(t)
  BY <1>6, <1>7, NullIsProcess DEF NullAlive
<1>12. Quiet(t)
  BY <1>6 DEF Quiet, CanDispatch, Deliverable
<1> QED
  BY <1>3, <1>5, <1>8, <1>9, <1>10, <1>11, <1>12 DEF Base

\* After a call that may have given the processor away.
Scheduled(s, t) ==
    /\ t.Loop = s.Loop /\ t.halted = s.halted /\ t.Call = s.Call
    /\ t.SleepQueue = s.SleepQueue
    /\ \A q \in ProcessIds : t.Status[q] = "BLOCKED" <=> s.Status[q] = "BLOCKED"
    /\ \/ t.Status[t.cpu] = "RUNNING" /\ t.PageTable = t.AddressSpace[t.cpu]
       \/ t.cpu = s.cpu /\ t.Status = s.Status /\ t.PageTable = s.PageTable

\* RunProcess of a process that is not BLOCKED.
LEMMA RunBase ==
    ASSUME NEW s, Base(s), NEW p \in ProcessIds, s.Status[p] # "BLOCKED", NEW t,
           t = RunProcess(s, p)
    PROVE  /\ Base(t) /\ Same(s, t, SwitchFields) /\ Scheduled(s, t)
           /\ Live(s, p) /\ s.Status[s.cpu] # "READY" => t.Status[t.cpu] = "RUNNING"
<1>1. s \in KernelState
  BY DEF Base
<1>2. IsState(s) /\ Typed(s) /\ \A F : Same(s, s, F)
  BY <1>1, StateOf
<1>3. s.Status \in [ProcessIds -> ProcessStates] /\ s.cpu \in ProcessIds
  BY <1>1 DEF KernelState
<1>4. \A q \in ProcessIds : s.Status[q] = "RUNNING" => q = s.cpu /\ q = s.CurrentProcessId
  BY DEF Base, RunningOnCpu
<1>5. s.CurrentProcessId \in {s.cpu, INVALID}
  BY DEF Base, RunningOnCpu
<1>6. \A q \in ProcessIds : s.Status[q] = "RUNNING" => GetCurrentProcess(s) = q
  BY <1>4, NullIsProcess DEF GetCurrentProcess, Live
<1>7. ASSUME t = s
      PROVE  Base(t) /\ Same(s, t, SwitchFields) /\ Scheduled(s, t)
  <2>1. Scheduled(s, s)
    BY DEF Scheduled
  <2> QED
    BY <1>2, <1>7, <2>1
<1>8. CASE ~Live(s, p)
  <2>1. t = s
    BY <1>8 DEF RunProcess
  <2> QED
    BY <1>7, <1>8, <2>1
<1>9. CASE Live(s, p) /\ GetCurrentProcess(s) = p
  <2>1. p # INVALID
    BY NullIsProcess
  <2>2. t = s
    BY <1>9, <2>1 DEF RunProcess
  <2>3. s.cpu = p
    BY <1>5, <1>9, <2>1 DEF GetCurrentProcess
  <2>4. s.Status[p] \in {"READY", "RUNNING"}
    BY <1>3, <1>9 DEF ProcessStates, Live
  <2> QED
    BY <1>7, <2>2, <2>3, <2>4
<1>10. CASE Live(s, p) /\ GetCurrentProcess(s) # p
  <2>1. s.Status[p] \in {"READY", "RUNNING"}
    BY <1>3, <1>10 DEF ProcessStates, Live
  <2>2. PICK u : /\ t = SwitchTo(u, p)
                 /\ u = IF GetCurrentProcess(s) # INVALID /\ s.Status[GetCurrentProcess(s)] = "RUNNING"
                        THEN [s EXCEPT !.Status[GetCurrentProcess(s)] = "READY"] ELSE s
    <3>1. CASE GetCurrentProcess(s) = INVALID
      BY <1>10, <3>1 DEF RunProcess
    <3>2. CASE GetCurrentProcess(s) # INVALID
      BY <1>10, <3>2 DEF RunProcess
    <3> QED
      BY <3>1, <3>2
  <2>3. /\ u \in KernelState /\ Same(s, u, {"Status"})
        /\ QueueSound(u) /\ SleepersBlocked(u) /\ NullAlive(u) /\ Quiet(u)
        /\ u.Status[p] = s.Status[p]
        /\ \A q \in ProcessIds \ {p} : u.Status[q] # "RUNNING"
        /\ \A q \in ProcessIds : u.Status[q] = "BLOCKED" <=> s.Status[q] = "BLOCKED"
    <3> DEFINE gives == /\ GetCurrentProcess(s) # INVALID
                        /\ s.Status[GetCurrentProcess(s)] = "RUNNING"
    <3>1. CASE ~gives
      <4>1. u = s
        BY <2>2, <3>1
      <4>2. \A q \in ProcessIds : s.Status[q] # "RUNNING"
        BY <1>6, <3>1, NullIsProcess
      <4> QED
        BY <1>1, <1>2, <4>1, <4>2 DEF Base
    <3>2. CASE gives
      <4>1. PICK c : c = GetCurrentProcess(s)
        OBVIOUS
      <4>2. /\ c \in ProcessIds /\ c # p /\ s.Status[c] = "RUNNING"
            /\ u = [s EXCEPT !.Status[c] = "READY"]
        BY <1>3, <1>5, <1>10, <2>2, <3>2, <4>1 DEF GetCurrentProcess
      <4>3. /\ u \in KernelState /\ Same(s, u, {"Status"})
            /\ u.Status = [s.Status EXCEPT ![c] = "READY"]
        BY <1>1, <4>2, SetStatusEffect DEF ProcessStates
      <4>4. /\ u.ReadyQueue = s.ReadyQueue /\ u.SleepQueue = s.SleepQueue
            /\ u.TimerRemaining = s.TimerRemaining /\ u.Call = s.Call
            /\ u.HasSavedSignalState = s.HasSavedSignalState
            /\ u.PendingSignalMask = s.PendingSignalMask
            /\ u.BlockedSignalMask = s.BlockedSignalMask
        BY <4>3, FieldNames DEF Same
      <4>5. u.Status[c] = "READY" /\ \A q \in ProcessIds \ {c} : u.Status[q] = s.Status[q]
        BY <1>3, <4>2, <4>3
      <4>6. QueueSound(u)
        BY <4>2, <4>4, <4>5 DEF Base, QueueSound
      <4>7. SleepersBlocked(u)
        <5>1. Sleepers(s.SleepQueue) \subseteq ProcessIds
          BY <1>1, SleepersAreProcesses
        <5> QED
          BY <4>2, <4>4, <4>5, <5>1 DEF Base, SleepersBlocked
      <4>8. NullAlive(u)
        BY <4>2, <4>4, <4>5, NullIsProcess DEF Base, NullAlive
      <4>9. Quiet(u)
        BY <4>4 DEF Base, Quiet, CanDispatch, Deliverable
      <4>10. \A q \in ProcessIds \ {p} : u.Status[q] # "RUNNING"
        BY <1>4, <4>2, <4>5
      <4>11. \A q \in ProcessIds : u.Status[q] = "BLOCKED" <=> s.Status[q] = "BLOCKED"
        BY <4>2, <4>5
      <4> QED
        BY <4>2, <4>3, <4>5, <4>6, <4>7, <4>8, <4>9, <4>10, <4>11
    <3> QED
      BY <3>1, <3>2
  <2>4. /\ Base(t) /\ Same(u, t, SwitchFields)
        /\ t.Status = [u.Status EXCEPT ![p] = "RUNNING"]
        /\ t.cpu = p /\ t.CurrentProcessId = p /\ t.PageTable = u.AddressSpace[p]
    <3>1. u.Status[p] \in {"READY", "RUNNING"} /\ t = SwitchTo(u, p) /\ OthersWait(u, p)
      BY <2>1, <2>2, <2>3 DEF OthersWait
    <3> QED
      BY <2>3, <3>1, SwitchBase
  <2>5. Same(s, t, SwitchFields)
    BY <2>3, <2>4 DEF Same, SwitchFields
  <2>6. /\ t.Loop = s.Loop /\ t.halted = s.halted /\ t.Call = s.Call
        /\ t.SleepQueue = s.SleepQueue /\ t.AddressSpace = u.AddressSpace
    BY <2>3, <2>4, <2>5, FieldNames DEF Same, SwitchFields
  <2>7. t.Status[p] = "RUNNING" /\ \A q \in ProcessIds \ {p} : t.Status[q] = u.Status[q]
    <3>1. u.Status \in [ProcessIds -> ProcessStates]
      BY <2>3 DEF KernelState
    <3> QED
      BY <2>4, <3>1
  <2>8. \A q \in ProcessIds : t.Status[q] = "BLOCKED" <=> s.Status[q] = "BLOCKED"
    BY <2>1, <2>3, <2>7
  <2>9. Scheduled(s, t)
    BY <2>4, <2>6, <2>7, <2>8 DEF Scheduled
  <2> QED
    BY <2>4, <2>5, <2>7, <2>9
<1> QED
  BY <1>8, <1>9, <1>10

\* Schedule makes a process of the ready queue RUNNING and switches to it.
LEMMA ScheduleBase ==
    ASSUME NEW s, Base(s), NEW t, t = Schedule(s)
    PROVE  /\ Base(t) /\ Same(s, t, SwitchFields \cup {"ReadyQueue", "CurrentProcess"})
           /\ Scheduled(s, t)
           /\ s.Status[s.cpu] # "READY" => t.Status[t.cpu] = "RUNNING"
<1>1. s \in KernelState
  BY DEF Base
<1>2. s.ReadyQueue # <<>>
  <2>1. NullProcess \in Range(s.ReadyQueue)
    BY NullIsProcess DEF Base, QueueSound, NullAlive
  <2> QED
    BY <2>1 DEF Range
<1>3. PICK u : u = SelectNextProcess(s)
  OBVIOUS
<1>4. PICK p : p = SelectedProcess(s)
  OBVIOUS
<1>5. /\ u \in KernelState /\ Same(s, u, {"ReadyQueue", "CurrentProcess"})
      /\ Range(u.ReadyQueue) = Range(s.ReadyQueue)
      /\ IsInjective(s.ReadyQueue) => IsInjective(u.ReadyQueue)
      /\ p \in Range(s.ReadyQueue)
  BY <1>1, <1>2, <1>3, <1>4, SelectNextEffect
<1>6. /\ u.Status = s.Status /\ u.cpu = s.cpu /\ u.CurrentProcessId = s.CurrentProcessId
      /\ u.SleepQueue = s.SleepQueue /\ u.TimerRemaining = s.TimerRemaining
      /\ u.Call = s.Call /\ u.HasSavedSignalState = s.HasSavedSignalState
      /\ u.PendingSignalMask = s.PendingSignalMask
      /\ u.BlockedSignalMask = s.BlockedSignalMask
      /\ u.Loop = s.Loop /\ u.halted = s.halted /\ u.PageTable = s.PageTable
      /\ u.AddressSpace = s.AddressSpace
  BY <1>5, FieldNames DEF Same
<1>7. QueueSound(u)
  BY <1>5, <1>6 DEF Base, QueueSound
<1>8. RunningOnCpu(u) /\ SleepersBlocked(u)
  BY <1>6 DEF Base, RunningOnCpu, SleepersBlocked
<1>9. NullAlive(u) /\ Quiet(u)
  BY <1>6 DEF Base, NullAlive, Quiet, CanDispatch, Deliverable
<1>10. Base(u)
  BY <1>5, <1>7, <1>8, <1>9 DEF Base
<1>11. p \in ProcessIds /\ s.Status[p] \in {"READY", "RUNNING"}
  BY <1>5 DEF Base, QueueSound
<1>12. t = RunProcess(u, p)
  BY <1>2, <1>3, <1>4 DEF Schedule
<1>13. /\ Base(t) /\ Same(u, t, SwitchFields) /\ Scheduled(u, t)
       /\ Live(u, p) /\ u.Status[u.cpu] # "READY" => t.Status[t.cpu] = "RUNNING"
  BY <1>6, <1>10, <1>11, <1>12, RunBase
<1>14. Same(s, t, SwitchFields \cup {"ReadyQueue", "CurrentProcess"})
  BY <1>5, <1>13 DEF Same
<1>15. Scheduled(s, t)
  BY <1>6, <1>13 DEF Scheduled
<1> QED
  BY <1>6, <1>11, <1>13, <1>14, <1>15 DEF Live

-----------------------------------------------------------------------------
(* Blocking                                                                *)

\* Base, but for p, which may have its sleep tag before it is BLOCKED.
BaseBut(s, p) ==
    /\ s \in KernelState
    /\ QueueSound(s) /\ RunningOnCpu(s) /\ NullAlive(s) /\ Quiet(s)
    /\ SleepOnce(s.SleepQueue)
    /\ \A q \in Sleepers(s.SleepQueue) \ {p} : s.Status[q] = "BLOCKED"

\* p is blocked in frame, and the processor executes another process.
Blocked(s, t, p, frame) ==
    /\ Same(s, t, SwitchFields \cup {"ReadyQueue", "CurrentProcess", "Call"})
    /\ t.Call = [s.Call EXCEPT ![p] = frame]
    /\ t.Status[p] = "BLOCKED"
    /\ \A q \in ProcessIds \ {p} : t.Status[q] = "BLOCKED" <=> s.Status[q] = "BLOCKED"
    /\ t.Status[t.cpu] = "RUNNING" /\ t.PageTable = t.AddressSpace[t.cpu]

\* BlockProcess takes the running process from the ready queue and switches.
LEMMA BlockBase ==
    ASSUME NEW s, NEW p \in UserIds, BaseBut(s, p), s.Status[p] = "RUNNING",
           NEW frame \in Frames, frame.call = "sigsuspend" => ~CanDispatch(s, p),
           NEW t, t = BlockProcess(s, p, frame)
    PROVE  Base(t) /\ Blocked(s, t, p, frame)
<1> DEFINE F == {"Status", "Call"}
<1>1. s \in KernelState /\ p \in ProcessIds /\ p # NullProcess
  BY NullIsProcess DEF BaseBut
<1>2. IsState(s) /\ Typed(s)
  BY <1>1, StateOf
<1>3. s.Status \in [ProcessIds -> ProcessStates] /\ s.Call \in [ProcessIds -> Frames]
  BY <1>1 DEF KernelState
<1>4. PICK u : u = [s EXCEPT !.Status[p] = "BLOCKED", !.Call[p] = frame]
  OBVIOUS
<1>5. /\ Same(s, u, F) /\ u.Status = [s.Status EXCEPT ![p] = "BLOCKED"]
      /\ u.Call = [s.Call EXCEPT ![p] = frame]
  BY <1>2, <1>4, FieldNames DEF Same, IsState
<1>6. \A f \in F : u[f] \in TypeOf(f)
  <2>1. u.Status \in [ProcessIds -> ProcessStates] /\ u.Call \in [ProcessIds -> Frames]
    BY <1>1, <1>3, <1>5, EntryWritten DEF ProcessStates
  <2> QED
    BY <2>1 DEF TypeOf
<1>7. u \in KernelState
  <2> HIDE DEF F
  <2> QED
    BY <1>2, <1>5, <1>6, SameTyped, TypedIsKernelState
<1>8. /\ u.ReadyQueue = s.ReadyQueue /\ u.SleepQueue = s.SleepQueue
      /\ u.cpu = s.cpu /\ u.CurrentProcessId = s.CurrentProcessId
      /\ u.TimerRemaining = s.TimerRemaining
      /\ u.HasSavedSignalState = s.HasSavedSignalState
      /\ u.PendingSignalMask = s.PendingSignalMask
      /\ u.BlockedSignalMask = s.BlockedSignalMask
  BY <1>5, FieldNames DEF Same
<1>9. /\ u.Status[p] = "BLOCKED" /\ u.Call[p] = frame
      /\ \A q \in ProcessIds \ {p} : u.Status[q] = s.Status[q] /\ u.Call[q] = s.Call[q]
  BY <1>1, <1>3, <1>5
<1>10. PICK v : v = RemoveFromReadyQueue(u, p)
  OBVIOUS
<1>11. /\ v \in KernelState /\ Same(u, v, {"ReadyQueue", "CurrentProcess"})
       /\ IsInjective(v.ReadyQueue) /\ Range(v.ReadyQueue) = Range(u.ReadyQueue) \ {p}
  BY <1>7, <1>8, <1>10, RemoveFromReadyQueueEffect DEF BaseBut, QueueSound
<1>12. /\ v.Status = u.Status /\ v.Call = u.Call /\ v.SleepQueue = u.SleepQueue
       /\ v.cpu = u.cpu /\ v.CurrentProcessId = u.CurrentProcessId
       /\ v.TimerRemaining = u.TimerRemaining
       /\ v.HasSavedSignalState = u.HasSavedSignalState
       /\ v.PendingSignalMask = u.PendingSignalMask
       /\ v.BlockedSignalMask = u.BlockedSignalMask
  BY <1>11, FieldNames DEF Same
<1>13. QueueSound(v)
  BY <1>8, <1>9, <1>11, <1>12 DEF BaseBut, QueueSound
<1>14. RunningOnCpu(v)
  BY <1>8, <1>9, <1>12 DEF BaseBut, RunningOnCpu
<1>15. SleepersBlocked(v)
  <2>1. Sleepers(s.SleepQueue) \subseteq ProcessIds
    BY <1>1, SleepersAreProcesses
  <2> QED
    BY <1>8, <1>9, <1>12, <2>1 DEF BaseBut, SleepersBlocked
<1>16. NullAlive(v)
  BY <1>1, <1>8, <1>9, <1>12, NullIsProcess DEF BaseBut, NullAlive
<1>17. Quiet(v)
  BY <1>8, <1>9, <1>12 DEF BaseBut, Quiet, CanDispatch, Deliverable
<1>18. Base(v)
  BY <1>11, <1>13, <1>14, <1>15, <1>16, <1>17 DEF Base
<1>19. t = Schedule(v)
  BY <1>4, <1>10 DEF BlockProcess
<1>20. /\ Base(t) /\ Same(v, t, SwitchFields \cup {"ReadyQueue", "CurrentProcess"})
       /\ Scheduled(v, t)
       /\ v.Status[v.cpu] # "READY" => t.Status[t.cpu] = "RUNNING"
  BY <1>18, <1>19, ScheduleBase
<1>21. s.cpu = p
  BY <1>1 DEF BaseBut, RunningOnCpu
<1>22. t.Status[t.cpu] = "RUNNING" /\ t.PageTable = t.AddressSpace[t.cpu]
  <2>1. v.Status[v.cpu] = "BLOCKED"
    BY <1>8, <1>9, <1>12, <1>21
  <2>2. t.Status # v.Status \/ t.cpu # v.cpu
    BY <1>20, <2>1
  <2> QED
    BY <1>20, <2>1, <2>2 DEF Scheduled
<1>23. Same(s, t, SwitchFields \cup {"ReadyQueue", "CurrentProcess", "Call"})
  BY <1>5, <1>11, <1>20 DEF Same, SwitchFields
<1>24. t.Call = [s.Call EXCEPT ![p] = frame]
  BY <1>5, <1>12, <1>20 DEF Scheduled
<1>25. /\ t.Status[p] = "BLOCKED"
       /\ \A q \in ProcessIds \ {p} : t.Status[q] = "BLOCKED" <=> s.Status[q] = "BLOCKED"
  BY <1>1, <1>9, <1>12, <1>20 DEF Scheduled
<1> QED
  BY <1>20, <1>22, <1>23, <1>24, <1>25 DEF Blocked

\* A process that does not sleep yet gets its one tag.
LEMMA SleeperAppended ==
    ASSUME NEW S, NEW q \in Seq(S), NEW tag \in S, SleepOnce(q), tag.Id \notin Sleepers(q)
    PROVE  /\ Append(q, tag) \in Seq(S)
           /\ Sleepers(Append(q, tag)) = Sleepers(q) \cup {tag.Id}
           /\ SleepOnce(Append(q, tag))
<1> DEFINE r == Append(q, tag)
<1>1. /\ r \in Seq(S) /\ Len(q) \in Nat
      /\ DOMAIN q = 1 .. Len(q) /\ DOMAIN r = 1 .. Len(q) + 1
      /\ \A i \in 1 .. Len(q) : r[i] = q[i]
      /\ r[Len(q) + 1] = tag
  OBVIOUS
<1> HIDE DEF r
<1>2. \A i \in 1 .. Len(q) + 1 : i \in 1 .. Len(q) \/ i = Len(q) + 1
  BY <1>1
<1>3. Sleepers(r) = Sleepers(q) \cup {tag.Id}
  BY <1>1, <1>2 DEF Sleepers
<1>4. \A i \in 1 .. Len(q) : r[i].Id # tag.Id
  BY <1>1 DEF Sleepers
<1>5. SleepOnce(r)
  BY <1>1, <1>2, <1>4 DEF SleepOnce
<1> QED
  BY <1>1, <1>3, <1>5 DEF r

\* A process that is about to block may enter the sleep queue.
LEMMA AddToSleepQueueBase ==
    ASSUME NEW s, Base(s), NEW p \in ProcessIds, s.Status[p] # "BLOCKED",
           NEW ticks \in 0 .. MaxTicks, NEW t, t = AddToSleepQueue(s, p, ticks)
    PROVE  /\ BaseBut(t, p) /\ Same(s, t, {"SleepQueue"})
           /\ Sleepers(t.SleepQueue) = Sleepers(s.SleepQueue) \cup {p}
<1>1. s \in KernelState
  BY DEF Base
<1>2. PICK r : r = Append(s.SleepQueue, [Id |-> p, Ticks |-> ticks])
  OBVIOUS
<1>3. s.SleepQueue \in Seq([Id : ProcessIds, Ticks : 0 .. MaxTicks])
  BY <1>1 DEF KernelState
<1>4. SleepOnce(s.SleepQueue) /\ p \notin Sleepers(s.SleepQueue)
  BY DEF Base, SleepersBlocked
<1>5. /\ r \in Seq([Id : ProcessIds, Ticks : 0 .. MaxTicks])
      /\ Sleepers(r) = Sleepers(s.SleepQueue) \cup {p} /\ SleepOnce(r)
  <2> DEFINE S == [Id : ProcessIds, Ticks : 0 .. MaxTicks]
  <2>1. PICK tag \in S : tag = [Id |-> p, Ticks |-> ticks]
    OBVIOUS
  <2>2. tag.Id = p /\ r = Append(s.SleepQueue, tag)
    BY <1>2, <2>1
  <2> HIDE DEF S
  <2>3. s.SleepQueue \in Seq(S) /\ tag \in S
    BY <1>3, <2>1 DEF S
  <2>4. SleepOnce(s.SleepQueue) /\ tag.Id \notin Sleepers(s.SleepQueue)
    BY <1>4, <2>2
  <2>5. r \in Seq(S) /\ Sleepers(r) = Sleepers(s.SleepQueue) \cup {tag.Id} /\ SleepOnce(r)
    BY <2>2, <2>3, <2>4, SleeperAppended
  <2> QED
    BY <2>2, <2>5 DEF S
<1>6. r \in TypeOf("SleepQueue") /\ "SleepQueue" \in Fields
  BY <1>5, FieldNames DEF TypeOf
<1>7. t = [s EXCEPT !.SleepQueue = r]
  BY <1>2 DEF AddToSleepQueue
<1>8. t \in KernelState /\ Same(s, t, {"SleepQueue"}) /\ t.SleepQueue = r
  BY <1>1, <1>6, <1>7, FieldReplaced
<1>9. /\ t.Status = s.Status /\ t.ReadyQueue = s.ReadyQueue /\ t.cpu = s.cpu
      /\ t.CurrentProcessId = s.CurrentProcessId
      /\ t.TimerRemaining = s.TimerRemaining /\ t.Call = s.Call
      /\ t.HasSavedSignalState = s.HasSavedSignalState
      /\ t.PendingSignalMask = s.PendingSignalMask
      /\ t.BlockedSignalMask = s.BlockedSignalMask
  BY <1>8, FieldNames DEF Same
<1>10. QueueSound(t) /\ RunningOnCpu(t)
  BY <1>9 DEF Base, QueueSound, RunningOnCpu
<1>11. NullAlive(t) /\ Quiet(t)
  BY <1>9 DEF Base, NullAlive, Quiet, CanDispatch, Deliverable
<1>12. \A q \in Sleepers(t.SleepQueue) \ {p} : t.Status[q] = "BLOCKED"
  BY <1>5, <1>8, <1>9 DEF Base, SleepersBlocked
<1> QED
  BY <1>5, <1>8, <1>10, <1>11, <1>12 DEF BaseBut

\* SleepProcess: p is blocked with its tag in the sleep queue.
LEMMA SleepBase ==
    ASSUME NEW s, Base(s), NEW p \in UserIds, s.Status[p] = "RUNNING",
           NEW ticks \in 0 .. MaxTicks, NEW frame \in Frames, frame.call # "sigsuspend",
           NEW t, t = SleepProcess(s, p, ticks, frame)
    PROVE  /\ Base(t)
           /\ \E u : /\ Same(s, u, {"SleepQueue"}) /\ Blocked(u, t, p, frame)
                     /\ Sleepers(u.SleepQueue) = Sleepers(s.SleepQueue) \cup {p}
<1>1. PICK u : u = AddToSleepQueue(s, p, ticks)
  OBVIOUS
<1>2. /\ BaseBut(u, p) /\ Same(s, u, {"SleepQueue"})
      /\ Sleepers(u.SleepQueue) = Sleepers(s.SleepQueue) \cup {p}
  BY <1>1, NullIsProcess, AddToSleepQueueBase
<1>3. u.Status = s.Status /\ t = BlockProcess(u, p, frame)
  BY <1>1, <1>2, FieldNames DEF SleepProcess, Same
<1>4. Base(t) /\ Blocked(u, t, p, frame)
  BY <1>2, <1>3, BlockBase
<1> QED
  BY <1>2, <1>4

\* Base is stronger than Base but for one process.
LEMMA BaseIsBaseBut ==
    ASSUME NEW s, Base(s), NEW p
    PROVE  BaseBut(s, p)
  BY DEF Base, BaseBut, SleepersBlocked

\* Entering the terminal's queue concerns neither status nor ready queue.
LEMMA AddToTTYBase ==
    ASSUME NEW s, Base(s), NEW p \in ProcessIds, NEW t, t = AddToTTYInputWaitQueue(s, p)
    PROVE  Base(t) /\ Kept(s, t) /\ Same(s, t, {"TTYInputWaitQueue"})
<1>1. s \in KernelState
  BY DEF Base
<1>2. PICK r : r = IF Contains(s.TTYInputWaitQueue, p) THEN s.TTYInputWaitQueue
                   ELSE Append(s.TTYInputWaitQueue, p)
  OBVIOUS
<1>3. s.TTYInputWaitQueue \in Seq(ProcessIds)
  BY <1>1 DEF KernelState
<1>4. r \in Seq(ProcessIds)
  BY <1>2, <1>3
<1>5. t \in KernelState /\ Same(s, t, {"TTYInputWaitQueue"})
  <2>1. CASE Contains(s.TTYInputWaitQueue, p)
    <3>1. t = s
      BY <2>1 DEF AddToTTYInputWaitQueue
    <3> QED
      BY <1>1, <3>1, StateOf
  <2>2. CASE ~Contains(s.TTYInputWaitQueue, p)
    <3>1. t = [s EXCEPT !.TTYInputWaitQueue = r]
      BY <1>2, <2>2 DEF AddToTTYInputWaitQueue
    <3>2. r \in TypeOf("TTYInputWaitQueue") /\ "TTYInputWaitQueue" \in Fields
      BY <1>4, FieldNames DEF TypeOf
    <3> QED
      BY <1>1, <3>1, <3>2, FieldReplaced
  <2> QED
    BY <2>1, <2>2
<1>6. {"TTYInputWaitQueue"} \cap (BaseFields \cup {"Loop", "halted"}) = {}
  BY DEF BaseFields
<1> QED
  BY <1>5, <1>6, SideFieldsBase
=============================================================================
