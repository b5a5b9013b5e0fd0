---------------------------- MODULE Kernel_proof ----------------------------
(***************************************************************************)
(* For any number of processes, any heap and any time slice, however many  *)
(* processes are inside a call, if no program sends a message to itself:   *)
(* the ready queue holds exactly the ready processes, once each, only the  *)
(* current process is running, child lists and parents agree, a zombie has *)
(* a parent that can reap it, nobody sleeps in wait beside a zombie but    *)
(* for the races Kernel names, and Lifecycle is implemented.               *)
(*                                                                         *)
(* The steps come in two kinds.  Most are calm: the scheduler and the      *)
(* mail change, the tree and the lives of the processes do not.  Six       *)
(* change the tree: Fork, ShellCreate, ShellLink, ExitReparent, ExitMark   *)
(* and WaitReap.                                                           *)
(***************************************************************************)
EXTENDS Kernel, WellFoundedInduction, TLAPS

----------------------------------------------------------------------------
(***************************************************************************)
(* The scheduler operations of Process keep SchedInv, the relation between *)
(* the states, the ready queue and current_process.                        *)
(***************************************************************************)
\* Appending a process that is not on the queue, and becomes ready, to it.
LEMMA AppendReady ==
  ASSUME NEW s, SchedInv(s), NEW t \in SchedType, NEW p \in PIDS,
         s.state[p] # "ready",
         t.ready = Append(s.ready, p),
         t.state = [s.state EXCEPT ![p] = "ready"]
  PROVE  InjectiveQueue(t) /\ QueueHoldsReady(t)
<1>1. /\ s.ready \in Seq(PIDS) /\ Len(t.ready) = Len(s.ready) + 1
      /\ t.ready[Len(s.ready) + 1] = p
      /\ \A i \in 1..Len(s.ready) : t.ready[i] = s.ready[i] /\ s.ready[i] \in PIDS
  BY DEF SchedInv, SchedType
<1>2. \A i \in 1..Len(s.ready) : s.ready[i] # p
  BY DEF SchedInv, QueueHoldsReady
<1>3. Len(s.ready) \in Nat
  BY <1>1
<1>4. InjectiveQueue(t)
  BY <1>1, <1>2, <1>3 DEF SchedInv, InjectiveQueue
<1>5. \A i \in 1..Len(t.ready) : t.state[t.ready[i]] = "ready"
  BY <1>1, <1>2, <1>3, SMTT(30) DEF SchedInv, QueueHoldsReady, SchedType
<1>6. \A q \in PIDS : t.state[q] = "ready" => \E i \in 1..Len(t.ready) : t.ready[i] = q
  BY <1>1, <1>2, <1>3, SMTT(30) DEF SchedInv, QueueHoldsReady, SchedType
<1> QED
  BY <1>4, <1>5, <1>6 DEF QueueHoldsReady

LEMMA UnblockInv ==
  ASSUME NEW s, SchedInv(s), NEW p \in PIDS, p # s.cur, s.state[p] = "blocked"
  PROVE  SchedInv(process_unblock(s, p)) /\ process_unblock(s, p).cur = s.cur
<1> DEFINE t == process_unblock(s, p)
<1>1. t \in SchedType
  <2>1. [s.state EXCEPT ![p] = "ready"] \in [PIDS -> ProcStates]
    BY DEF SchedInv, SchedType, ProcStates
  <2>2. Append(s.ready, p) \in Seq(PIDS)
    BY DEF SchedInv, SchedType
  <2> QED
    BY <2>1, <2>2 DEF SchedInv, SchedType, process_unblock
<1>2. /\ t.ready = Append(s.ready, p) /\ t.state = [s.state EXCEPT ![p] = "ready"]
      /\ t.cur = s.cur
  BY DEF process_unblock, SchedInv, SchedType
<1>3. InjectiveQueue(t) /\ QueueHoldsReady(t)
  <2> HIDE DEF t
  <2> QED BY <1>1, <1>2, AppendReady
<1> QED
  BY <1>1, <1>2, <1>3 DEF SchedInv, SchedType

LEMMA NewProcessInv ==
  ASSUME NEW s, SchedInv(s), NEW p \in PIDS, s.state[p] = "free"
  PROVE  SchedInv(process_new(s, p)) /\ process_new(s, p).cur = s.cur
<1> DEFINE t == process_new(s, p)
<1>1. t \in SchedType
  <2>1. [s.state EXCEPT ![p] = "ready"] \in [PIDS -> ProcStates]
    BY DEF SchedInv, SchedType, ProcStates
  <2>2. Append(s.ready, p) \in Seq(PIDS)
    BY DEF SchedInv, SchedType
  <2>3. [s.ctx EXCEPT ![p] = "saved"] \in [PIDS -> CtxKinds]
    BY DEF SchedInv, SchedType, CtxKinds
  <2>4. [s.ticks EXCEPT ![p] = TimeSlice] \in [PIDS -> 0..(TickMod - 1)]
    BY ProcessAssumption DEF SchedInv, SchedType
  <2> QED
    BY <2>1, <2>2, <2>3, <2>4 DEF SchedInv, SchedType, process_new
<1>2. /\ t.ready = Append(s.ready, p) /\ t.state = [s.state EXCEPT ![p] = "ready"]
      /\ t.cur = s.cur
  BY DEF process_new, SchedInv, SchedType
<1>3. InjectiveQueue(t) /\ QueueHoldsReady(t)
  <2> HIDE DEF t
  <2> QED BY <1>1, <1>2, AppendReady
<1> QED
  BY <1>1, <1>2, <1>3 DEF SchedInv, SchedType

\* A record that differs from s in ticks and contexts only.
LEMMA SameQueueInv ==
  ASSUME NEW s, SchedInv(s), NEW t \in SchedType,
         t.cur = s.cur, t.state = s.state, t.ready = s.ready
  PROVE  SchedInv(t)
BY DEF SchedInv, InjectiveQueue, QueueHoldsReady

LEMMA ScheduleInv ==
  ASSUME NEW s, SchedInv(s)
  PROVE  SchedInv(schedule(s)) /\ schedule(s).cur = s.cur
<1>1. schedule(s) \in SchedType
  <2>1. [s.ticks EXCEPT ![s.cur] = 0] \in [PIDS -> 0..(TickMod - 1)]
    BY ProcessAssumption DEF SchedInv, SchedType
  <2> QED
    BY <2>1 DEF SchedInv, SchedType, schedule
<1>2. /\ schedule(s).cur = s.cur /\ schedule(s).state = s.state
      /\ schedule(s).ready = s.ready
  BY DEF schedule, SchedInv, SchedType
<1> QED
  BY <1>1, <1>2, SameQueueInv

\* The record s with another state, but not "ready", for a process p that was
\* not "ready" either; ticks and contexts may change too.
LEMMA OtherStateInv ==
  ASSUME NEW s, SchedInv(s), NEW t \in SchedType, NEW p \in PIDS, NEW st \in ProcStates,
         s.state[p] # "ready", st \notin {"ready", "running"},
         p = s.cur => st # "free",
         p = ShellPid => st \notin {"free", "zombie"},
         t.cur = s.cur, t.ready = s.ready, t.state = [s.state EXCEPT ![p] = st]
  PROVE  SchedInv(t)
<1>1. \A i \in 1..Len(s.ready) : s.ready[i] # p /\ s.ready[i] \in PIDS
  BY DEF SchedInv, SchedType, QueueHoldsReady
<1>2. InjectiveQueue(t) /\ QueueHoldsReady(t)
  BY <1>1, SMTT(30) DEF SchedInv, SchedType, InjectiveQueue, QueueHoldsReady
<1> QED
  BY <1>2 DEF SchedInv, SchedType

LEMMA FreeInv ==
  ASSUME NEW s, SchedInv(s), NEW p \in PIDS, s.state[p] = "zombie", p # s.cur
  PROVE  SchedInv(process_free(s, p))
<1> DEFINE t == process_free(s, p)
<1>1. /\ [s.state EXCEPT ![p] = "free"] \in [PIDS -> ProcStates]
      /\ [s.ticks EXCEPT ![p] = 0] \in [PIDS -> 0..(TickMod - 1)]
      /\ [s.ctx EXCEPT ![p] = "stale"] \in [PIDS -> CtxKinds]
  BY ProcessAssumption DEF SchedInv, SchedType, ProcStates, CtxKinds
<1>2. t \in SchedType
  BY <1>1 DEF SchedInv, SchedType, process_free
<1>3. /\ t.cur = s.cur /\ t.ready = s.ready
      /\ t.state = [s.state EXCEPT ![p] = "free"]
  BY DEF SchedInv, SchedType, process_free
<1>4. "free" \in ProcStates /\ p # ShellPid
  BY DEF SchedInv, ProcStates
<1> HIDE DEF t
<1>5. SchedInv(t)
  BY <1>2, <1>3, <1>4, OtherStateInv
<1> QED
  BY <1>5 DEF t

\* The current process is not on the queue: blocking it removes nothing.
LEMMA BlockInv ==
  ASSUME NEW s, SchedInv(s), s.state[s.cur] # "zombie"
  PROVE  SchedInv(process_block(s, s.cur)) /\ process_block(s, s.cur).cur = s.cur
<1> DEFINE t == process_block(s, s.cur)
<1>1. Without(s.ready, s.cur) = s.ready
  BY DEF SchedInv, QueueHoldsReady, Without
<1>2. t \in SchedType
  BY <1>1 DEF SchedInv, SchedType, process_block, ProcStates
<1>3. /\ t.ready = s.ready /\ t.state = [s.state EXCEPT ![s.cur] = "blocked"]
      /\ t.cur = s.cur
  BY <1>1 DEF process_block, SchedInv, SchedType
<1>4. s.cur \in PIDS /\ ShellPid \in PIDS
  BY ProcessAssumption DEF SchedInv, SchedType, PIDS, ShellPid
<1> HIDE DEF t
<1>5. InjectiveQueue(t)
  BY <1>3 DEF SchedInv, InjectiveQueue
<1>6. \A x \in PIDS : t.state[x] = IF x = s.cur THEN "blocked" ELSE s.state[x]
  BY <1>3 DEF SchedInv, SchedType
<1>7. QueueHoldsReady(t)
  BY <1>3, <1>4, <1>6 DEF SchedInv, QueueHoldsReady
<1> QED
  BY <1>2, <1>3, <1>4, <1>5, <1>6, <1>7 DEF SchedInv, t

(***************************************************************************)
(* schedule_from_interrupt, the timer and the tail of a system call.       *)
(***************************************************************************)

LEMMA DispatchInv ==
  ASSUME NEW r \in SchedType, InjectiveQueue(r), QueueHoldsReady(r),
         \A p \in PIDS : r.state[p] # "running",
         r.state[ShellPid] \notin {"free", "zombie"},
         r.ready # << >>
  PROVE  SchedInv(Dispatch(r))
<1> DEFINE p == Head(r.ready)
           t == Dispatch(r)
<1>1. /\ r.ready \in Seq(PIDS) /\ Len(r.ready) \in Nat /\ Len(r.ready) >= 1
      /\ p = r.ready[1] /\ p \in PIDS
  BY DEF SchedType
<1>2. /\ Tail(r.ready) \in Seq(PIDS)
      /\ Len(Tail(r.ready)) = Len(r.ready) - 1
      /\ \A i \in 1..(Len(r.ready) - 1) : Tail(r.ready)[i] = r.ready[i + 1]
  BY <1>1
<1>3. /\ [r.state EXCEPT ![p] = "running"] \in [PIDS -> ProcStates]
      /\ [r.ctx EXCEPT ![p] = "stale"] \in [PIDS -> CtxKinds]
  BY <1>1 DEF SchedType, ProcStates, CtxKinds
<1>4. /\ t.cur = p /\ t.ready = Tail(r.ready)
      /\ t.state = [r.state EXCEPT ![p] = "running"]
  BY DEF Dispatch, SchedType
<1>5. t \in SchedType
  <2> HIDE DEF p
  <2> QED BY <1>1, <1>2, <1>3 DEF Dispatch, SchedType, p
<1> HIDE DEF t, p
<1>6. InjectiveQueue(t)
  BY <1>1, <1>2, <1>4 DEF InjectiveQueue
<1>7. \A i \in 1..Len(t.ready) : t.state[t.ready[i]] = "ready"
  <2> SUFFICES ASSUME NEW i \in 1..Len(t.ready)
               PROVE  t.state[t.ready[i]] = "ready"
    OBVIOUS
  <2>1. i + 1 \in 1..Len(r.ready) /\ t.ready[i] = r.ready[i + 1] /\ i + 1 # 1
    BY <1>1, <1>2, <1>4
  <2>2. t.ready[i] # p /\ t.ready[i] \in PIDS
    BY <1>1, <2>1 DEF InjectiveQueue
  <2>3. r.state[t.ready[i]] = "ready"
    BY <2>1 DEF QueueHoldsReady
  <2> QED
    BY <1>4, <2>2, <2>3 DEF SchedType
<1>8. \A q \in PIDS : t.state[q] = "ready" => \E i \in 1..Len(t.ready) : t.ready[i] = q
  <2> SUFFICES ASSUME NEW q \in PIDS, t.state[q] = "ready"
               PROVE  \E i \in 1..Len(t.ready) : t.ready[i] = q
    OBVIOUS
  <2>1. q # p /\ r.state[q] = "ready"
    BY <1>1, <1>4 DEF SchedType
  <2>2. PICK i \in 1..Len(r.ready) : r.ready[i] = q
    BY <2>1 DEF QueueHoldsReady
  <2>3. i # 1 /\ i - 1 \in 1..Len(t.ready) /\ t.ready[i - 1] = q
    BY <1>1, <1>2, <1>4, <2>1, <2>2
  <2> QED
    BY <2>3
<1>9. /\ \A q \in PIDS : t.state[q] = "running" => q = t.cur
      /\ t.state[t.cur] \notin {"ready", "free"}
      /\ t.state[ShellPid] \notin {"free", "zombie"}
  BY <1>1, <1>4 DEF SchedType
<1> QED
  BY <1>5, <1>6, <1>7, <1>8, <1>9 DEF SchedInv, QueueHoldsReady, t

LEMMA ScheduleFromInterruptInv ==
  ASSUME NEW s, SchedInv(s)
  PROVE  SchedInv(schedule_from_interrupt(s))
<1> DEFINE r == Requeue(s)
<1>0. s \in SchedType /\ s.cur \in PIDS
  BY DEF SchedInv, SchedType
<1>1. CASE s.state[s.cur] = "running"
  <2>1. /\ [s.state EXCEPT ![s.cur] = "ready"] \in [PIDS -> ProcStates]
        /\ [s.ctx EXCEPT ![s.cur] = "saved"] \in [PIDS -> CtxKinds]
        /\ [s.ticks EXCEPT ![s.cur] = TimeSlice] \in [PIDS -> 0..(TickMod - 1)]
        /\ Append(s.ready, s.cur) \in Seq(PIDS)
    BY <1>0, ProcessAssumption DEF SchedType, ProcStates, CtxKinds
  <2>2. r \in SchedType
    BY <1>0, <1>1, <2>1 DEF SchedType, Requeue
  <2>3. /\ r.ready = Append(s.ready, s.cur) /\ r.cur = s.cur
        /\ r.state = [s.state EXCEPT ![s.cur] = "ready"]
    BY <1>0, <1>1 DEF SchedType, Requeue
  <2> HIDE DEF r
  <2>4. InjectiveQueue(r) /\ QueueHoldsReady(r)
    BY <1>0, <1>1, <2>2, <2>3, AppendReady
  <2>5. r.ready # << >>
    BY <1>0, <2>3, SMTT(30) DEF SchedType
  <2>6. \A p \in PIDS : r.state[p] # "running"
    BY <1>0, <2>3 DEF SchedInv, SchedType
  <2>7. r.state[ShellPid] \notin {"free", "zombie"}
    BY <1>0, <2>3 DEF SchedInv, SchedType
  <2>8. SchedInv(Dispatch(r))
    BY <2>2, <2>4, <2>5, <2>6, <2>7, DispatchInv
  <2> QED
    BY <2>5, <2>8 DEF schedule_from_interrupt, r
<1>2. CASE s.state[s.cur] # "running"
  <2>1. r = s
    BY <1>2 DEF Requeue
  <2>2. CASE s.ready = << >>
    <3> DEFINE t == [s EXCEPT !.ticks[s.cur] = TimeSlice]
    <3>1. [s.ticks EXCEPT ![s.cur] = TimeSlice] \in [PIDS -> 0..(TickMod - 1)]
      BY <1>0, ProcessAssumption DEF SchedType
    <3>2. t \in SchedType /\ t.cur = s.cur /\ t.state = s.state /\ t.ready = s.ready
      BY <1>0, <3>1 DEF SchedType
    <3> HIDE DEF t
    <3>3. SchedInv(t)
      BY <3>2, SameQueueInv
    <3> QED
      BY <2>1, <2>2, <3>3 DEF schedule_from_interrupt, t
  <2>3. CASE s.ready # << >>
    <3>1. SchedInv(Dispatch(s))
      BY <1>0, <1>2, <2>3, DispatchInv DEF SchedInv
    <3> QED
      BY <2>1, <2>3, <3>1 DEF schedule_from_interrupt
  <2> QED
    BY <2>2, <2>3
<1> QED
  BY <1>1, <1>2

LEMMA SyscallTailInv ==
  ASSUME NEW s, SchedInv(s)
  PROVE  SchedInv(syscall_tail(s))
BY ScheduleFromInterruptInv DEF syscall_tail

LEMMA TimerInv ==
  ASSUME NEW s, SchedInv(s)
  PROVE  SchedInv(timer_handler(s))
<1> DEFINE t == (s.ticks[s.cur] + TickMod - 1) % TickMod
           d == [s EXCEPT !.ticks[s.cur] = t]
<1>0. s \in SchedType
  BY DEF SchedInv
<1>1. t \in 0..(TickMod - 1)
  BY <1>0, ProcessAssumption DEF SchedType
<1> HIDE DEF t
<1>2. [s.ticks EXCEPT ![s.cur] = t] \in [PIDS -> 0..(TickMod - 1)]
  BY <1>0, <1>1 DEF SchedType
<1>3. d \in SchedType /\ d.cur = s.cur /\ d.state = s.state /\ d.ready = s.ready
  BY <1>0, <1>2 DEF SchedType
<1>4. SchedInv(d)
  <2> HIDE DEF d
  <2> QED BY <1>3, SameQueueInv
<1>5. SchedInv(schedule_from_interrupt(d))
  <2> HIDE DEF d
  <2> QED BY <1>4, ScheduleFromInterruptInv
<1> QED
  BY <1>4, <1>5 DEF timer_handler, t, d

----------------------------------------------------------------------------
(***************************************************************************)
(* Sequences of PIDs: message queues and child lists.                      *)
(***************************************************************************)
\* A new sequence of PIDs, given by its length and its elements.
LEMMA SeqOfPids ==
  ASSUME NEW n \in Nat, NEW f, f = [i \in 1..n |-> f[i]], \A i \in 1..n : f[i] \in PIDS
  PROVE  f \in Seq(PIDS) /\ Len(f) = n
OBVIOUS

LEMMA DropAtType ==
  ASSUME NEW q \in Seq(PIDS), NEW k \in 1..Len(q)
  PROVE  DropAt(q, k) \in Seq(PIDS)
<1>1. Len(q) - 1 \in Nat
  OBVIOUS
<1>2. \A i \in 1..(Len(q) - 1) : DropAt(q, k)[i] \in PIDS
  BY DEF DropAt
<1>3. DropAt(q, k) = [i \in 1..(Len(q) - 1) |-> DropAt(q, k)[i]]
  BY DEF DropAt
<1> QED
  BY <1>1, <1>2, <1>3, SeqOfPids

LEMMA WithoutType ==
  ASSUME NEW q \in Seq(PIDS), NEW p
  PROVE  /\ Without(q, p) \in Seq(PIDS)
         /\ \A i \in 1..Len(Without(q, p)) : \E j \in 1..Len(q) : Without(q, p)[i] = q[j]
<1>1. CASE ~ \E i \in 1..Len(q) : q[i] = p
  BY <1>1 DEF Without
<1>2. CASE \E i \in 1..Len(q) : q[i] = p
  <2> DEFINE k == CHOOSE i \in 1..Len(q) : q[i] = p /\ \A j \in 1..(i - 1) : q[j] # p
             w == [i \in 1..(Len(q) - 1) |-> IF i < k THEN q[i] ELSE q[i + 1]]
  <2>1. Without(q, p) = w
    BY <1>2 DEF Without
  <2> HIDE DEF k
  <2>2. Len(q) - 1 \in Nat
    BY <1>2
  <2>3. \A i \in 1..(Len(q) - 1) : w[i] \in PIDS /\ \E j \in 1..Len(q) : w[i] = q[j]
    <3> TAKE i \in 1..(Len(q) - 1)
    <3>1. i \in 1..Len(q) /\ i + 1 \in 1..Len(q)
      OBVIOUS
    <3>2. w[i] = q[i] \/ w[i] = q[i + 1]
      OBVIOUS
    <3> QED
      BY <3>1, <3>2
  <2>4. w = [i \in 1..(Len(q) - 1) |-> w[i]]
    OBVIOUS
  <2> HIDE DEF w
  <2>5. w \in Seq(PIDS) /\ Len(w) = Len(q) - 1
    BY <2>2, <2>3, <2>4, SeqOfPids
  <2> QED
    BY <2>1, <2>3, <2>5
<1> QED
  BY <1>1, <1>2

LEMMA ReverseType ==
  ASSUME NEW q \in Seq(PIDS)
  PROVE  /\ Reverse(q) \in Seq(PIDS) /\ Len(Reverse(q)) = Len(q)
         /\ \A i \in 1..Len(q) : \E j \in 1..Len(q) : Reverse(q)[i] = q[j]
<1>1. \A i \in 1..Len(q) : Len(q) + 1 - i \in 1..Len(q) /\ Reverse(q)[i] = q[Len(q) + 1 - i]
  BY DEF Reverse
<1>2. \A i \in 1..Len(q) : Reverse(q)[i] \in PIDS
  BY <1>1
<1>3. Reverse(q) = [i \in 1..Len(q) |-> Reverse(q)[i]]
  BY DEF Reverse
<1>4. Len(q) \in Nat
  OBVIOUS
<1> QED
  BY <1>1, <1>2, <1>3, <1>4, SeqOfPids

Elems(q) == {q[i] : i \in 1..Len(q)}
Distinct(q) == \A i, j \in 1..Len(q) : i # j => q[i] # q[j]

LEMMA JoinElems ==
  ASSUME NEW q \in Seq(PIDS), NEW r \in Seq(PIDS), Distinct(q), Distinct(r),
         Elems(q) \cap Elems(r) = {}
  PROVE  Elems(q \o r) = Elems(q) \cup Elems(r) /\ Distinct(q \o r)
<1>1. /\ Len(q \o r) = Len(q) + Len(r) /\ Len(q) \in Nat /\ Len(r) \in Nat
      /\ \A i \in 1..Len(q) : (q \o r)[i] = q[i]
      /\ \A i \in 1..Len(r) : (q \o r)[Len(q) + i] = r[i]
  OBVIOUS
<1>2. \A i \in 1..Len(q \o r) : i \in 1..Len(q) \/ \E k \in 1..Len(r) : i = Len(q) + k
  <2> TAKE i \in 1..Len(q \o r)
  <2>1. CASE i <= Len(q)
    BY <2>1
  <2>2. CASE i > Len(q)
    <3>1. i - Len(q) \in 1..Len(r) /\ i = Len(q) + (i - Len(q))
      BY <1>1, <2>2
    <3> QED
      BY <3>1
  <2> QED
    BY <1>1, <2>1, <2>2
<1>3. Elems(q \o r) \subseteq Elems(q) \cup Elems(r)
  BY <1>1, <1>2 DEF Elems
<1>4. Elems(q) \subseteq Elems(q \o r) /\ Elems(r) \subseteq Elems(q \o r)
  <2>1. \A i \in 1..Len(q) : i \in 1..Len(q \o r)
    BY <1>1
  <2>2. \A i \in 1..Len(r) : Len(q) + i \in 1..Len(q \o r)
    BY <1>1
  <2> QED
    BY <1>1, <2>1, <2>2 DEF Elems
<1>5. Distinct(q \o r)
  <2> SUFFICES ASSUME NEW i \in 1..Len(q \o r), NEW j \in 1..Len(q \o r), i # j
               PROVE  (q \o r)[i] # (q \o r)[j]
    BY DEF Distinct
  <2>1. CASE i \in 1..Len(q) /\ j \in 1..Len(q)
    BY <1>1, <2>1 DEF Distinct
  <2>2. CASE i \in 1..Len(q) /\ j \notin 1..Len(q)
    <3>1. PICK m \in 1..Len(r) : j = Len(q) + m
      BY <1>2, <2>2
    <3>2. (q \o r)[i] \in Elems(q) /\ (q \o r)[j] \in Elems(r)
      BY <1>1, <2>2, <3>1 DEF Elems
    <3> QED
      BY <3>2
  <2>3. CASE i \notin 1..Len(q) /\ j \in 1..Len(q)
    <3>1. PICK m \in 1..Len(r) : i = Len(q) + m
      BY <1>2, <2>3
    <3>2. (q \o r)[j] \in Elems(q) /\ (q \o r)[i] \in Elems(r)
      BY <1>1, <2>3, <3>1 DEF Elems
    <3> QED
      BY <3>2
  <2>4. CASE i \notin 1..Len(q) /\ j \notin 1..Len(q)
    <3>1. PICK m \in 1..Len(r), n \in 1..Len(r) : i = Len(q) + m /\ j = Len(q) + n
      BY <1>2, <2>4
    <3>2. m # n /\ (q \o r)[i] = r[m] /\ (q \o r)[j] = r[n]
      BY <1>1, <3>1
    <3> QED
      BY <3>2 DEF Distinct
  <2> QED
    BY <2>1, <2>2, <2>3, <2>4
<1> QED
  BY <1>3, <1>4, <1>5

LEMMA PushElems ==
  ASSUME NEW q \in Seq(PIDS), NEW c \in PIDS, Distinct(q), c \notin Elems(q)
  PROVE  Elems(<< c >> \o q) = {c} \cup Elems(q) /\ Distinct(<< c >> \o q)
<1>1. << c >> \in Seq(PIDS) /\ Len(<< c >>) = 1 /\ << c >>[1] = c
  OBVIOUS
<1>2. Elems(<< c >>) = {c} /\ Distinct(<< c >>)
  BY <1>1 DEF Elems, Distinct
<1> QED
  BY <1>1, <1>2, JoinElems

LEMMA ReverseElems ==
  ASSUME NEW q \in Seq(PIDS), Distinct(q)
  PROVE  Elems(Reverse(q)) = Elems(q) /\ Distinct(Reverse(q))
<1>1. /\ Len(Reverse(q)) = Len(q) /\ Len(q) \in Nat
      /\ \A i \in 1..Len(q) : Len(q) + 1 - i \in 1..Len(q)
      /\ \A i \in 1..Len(q) : Reverse(q)[i] = q[Len(q) + 1 - i]
  BY ReverseType DEF Reverse
<1>2. \A i \in 1..Len(q) : Len(q) + 1 - (Len(q) + 1 - i) = i
  BY <1>1
<1>3. \A i \in 1..Len(q) : \E j \in 1..Len(q) : q[i] = Reverse(q)[j]
  BY <1>1, <1>2
<1>4. Elems(Reverse(q)) = Elems(q)
  <2>1. \A i \in 1..Len(q) : Reverse(q)[i] \in Elems(q)
    BY <1>1 DEF Elems
  <2>2. \A i \in 1..Len(q) : q[i] \in Elems(Reverse(q))
    BY <1>1, <1>3 DEF Elems
  <2> QED
    BY <1>1, <2>1, <2>2 DEF Elems
<1>5. Distinct(Reverse(q))
  BY <1>1, <1>2 DEF Distinct
<1> QED
  BY <1>4, <1>5

LEMMA WithoutElems ==
  ASSUME NEW q \in Seq(PIDS), NEW c \in Elems(q), Distinct(q)
  PROVE  Elems(Without(q, c)) = Elems(q) \ {c} /\ Distinct(Without(q, c))
<1> DEFINE k == CHOOSE i \in 1..Len(q) : q[i] = c /\ \A j \in 1..(i - 1) : q[j] # c
           w == Without(q, c)
<1>1. PICK m \in 1..Len(q) : q[m] = c
  BY DEF Elems
<1>2. q[m] = c /\ \A j \in 1..(m - 1) : q[j] # c
  BY <1>1 DEF Distinct
<1>3. k \in 1..Len(q) /\ q[k] = c
  BY <1>2
<1>4. w = [i \in 1..(Len(q) - 1) |-> IF i < k THEN q[i] ELSE q[i + 1]]
  BY <1>1 DEF Without
<1> HIDE DEF k, w
<1>5. w \in Seq(PIDS) /\ Len(w) = Len(q) - 1
  <2>1. Len(q) - 1 \in Nat
    BY <1>3
  <2>2. \A i \in 1..(Len(q) - 1) : w[i] \in PIDS
    BY <1>3, <1>4
  <2>3. w = [i \in 1..(Len(q) - 1) |-> w[i]]
    BY <1>4
  <2> QED
    BY <2>1, <2>2, <2>3, SeqOfPids
<1>6. \A i \in 1..Len(w) : w[i] = IF i < k THEN q[i] ELSE q[i + 1]
  BY <1>4, <1>5
<1>7. Elems(w) \subseteq Elems(q) \ {c}
  <2> SUFFICES ASSUME NEW i \in 1..Len(w) PROVE w[i] \in Elems(q) /\ w[i] # c
    BY DEF Elems
  <2>1. i \in 1..Len(q) /\ i + 1 \in 1..Len(q)
    BY <1>5
  <2> QED
    BY <1>3, <1>6, <2>1 DEF Elems, Distinct
<1>8. Elems(q) \ {c} \subseteq Elems(w)
  <2> SUFFICES ASSUME NEW i \in 1..Len(q), q[i] # c PROVE q[i] \in Elems(w)
    BY DEF Elems
  <2>1. CASE i < k
    <3>1. i \in 1..Len(w)
      BY <1>3, <1>5, <2>1
    <3> QED
      BY <1>6, <2>1, <3>1 DEF Elems
  <2>2. CASE i > k
    <3>1. i - 1 \in 1..Len(w) /\ ~ (i - 1 < k) /\ (i - 1) + 1 = i
      BY <1>3, <1>5, <2>2
    <3>2. w[i - 1] = q[i]
      BY <1>6, <3>1
    <3> QED
      BY <3>1, <3>2 DEF Elems
  <2> QED
    BY <1>3, <2>1, <2>2
<1>9. Distinct(w)
  <2> SUFFICES ASSUME NEW i \in 1..Len(w), NEW j \in 1..Len(w), i # j PROVE w[i] # w[j]
    BY DEF Distinct
  <2>1. {i, j, i + 1, j + 1} \subseteq 1..Len(q)
    BY <1>5
  <2> QED
    BY <1>3, <1>6, <2>1 DEF Distinct
<1> QED
  BY <1>7, <1>8, <1>9 DEF w

----------------------------------------------------------------------------
(***************************************************************************)
(* The invariants.  Where the model ends (broken) they hold too: the tables *)
(* are still as they were before the call went on.                         *)
(***************************************************************************)
TablesOK ==
  /\ parent \in [PIDS -> 0..NProc]
  /\ kids \in [PIDS -> Seq(PIDS)]
  /\ msgq \in [PIDS -> Seq(PIDS)]
  /\ waiting \in [PIDS -> 0..NProc]
  /\ heap \in Int
  /\ linking \in 0..NProc

KernelInv == TablesOK /\ SchedInv(sched) /\ ShellIsRoot

\* What a process that is inside a call can rely on.
PlaceOK(p) ==
  /\ at[p] = "create" => peer[p] # 0
  /\ at[p] \in {"send", "wake"} /\ peer[p] # 0 =>
       sched.state[peer[p]] # "free" /\ peer[p] # p
  /\ at[p] \in {"adopt", "mark", "exit"} => p # ShellPid /\ kids[p] = << >>
  /\ at[p] = "exit" => p = cur /\ sched.state[p] = "zombie"
  /\ sched.state[p] = "zombie" => at[p] \in {"user", "exit"}
  /\ sched.state[p] = "free" => at[p] = "user"

\* The context of the process that runs is history.
Fresh(s) == s.ctx[s.cur] # "wait"

CallInv ==
  /\ at \in [PIDS -> Places] /\ peer \in [PIDS -> 0..NProc]
  /\ \A p \in PIDS : PlaceOK(p)
  /\ Fresh(sched) \/ at[cur] = "block"

\* A child list holds those whose parent field names its owner, once each.
ListsMatchParents ==
  \A p \in PIDS : KidsOf(p) = {c \in PIDS : parent[c] = p} /\ Distinct(kids[p])

\* Only existing processes have a parent, and only one that has not exited.
ParentsAlive ==
  \A c \in PIDS :
    /\ sched.state[c] = "free" => parent[c] = 0
    /\ parent[c] # 0 => sched.state[parent[c]] \notin {"free", "zombie"}

\* Nobody can reap the process that the shell is about to link.
LinkingIsOrphan ==
  linking # 0 => parent[linking] = 0 /\ sched.state[linking] # "free"

TreeInv == ListsMatchParents /\ ParentsAlive /\ LinkingIsOrphan

\* Who sleeps in wait beside a zombie child is about to be woken.
Asleep(p) == sched.state[p] = "blocked" /\ sched.ctx[p] = "wait" /\ ~raced[p]
SleepersInv ==
  \A p, c \in PIDS :
    Asleep(p) /\ parent[c] = p /\ sched.state[c] = "zombie" => StillToWake(p, c)

LEMMA Types ==
  ASSUME KernelInv
  PROVE  /\ SchedInv(sched) /\ sched \in SchedType /\ cur \in PIDS /\ cur = sched.cur
         /\ ShellPid \in PIDS /\ 0 \notin PIDS /\ PIDS \subseteq 0..NProc
         /\ parent \in [PIDS -> 0..NProc] /\ kids \in [PIDS -> Seq(PIDS)]
         /\ \A p \in PIDS : parent[p] # 0 => parent[p] \in PIDS
         /\ \A p \in PIDS : KidsOf(p) \subseteq PIDS /\ KidsOf(p) = Elems(kids[p])
         /\ linking \in 0..NProc /\ (linking # 0 => linking \in PIDS)
         /\ sched.state \in [PIDS -> ProcStates]
         /\ sched.state[cur] \notin {"ready", "free"}
         /\ sched.state[ShellPid] \notin {"free", "zombie"}
<1>1. /\ SchedInv(sched) /\ sched \in SchedType /\ cur \in PIDS /\ cur = sched.cur
      /\ sched.state \in [PIDS -> ProcStates]
  BY DEF KernelInv, SchedInv, SchedType, cur
<1>2. /\ ShellPid \in PIDS /\ 0 \notin PIDS /\ PIDS \subseteq 0..NProc
      /\ \A x \in 0..NProc : x # 0 => x \in PIDS
  BY ProcessAssumption DEF PIDS, ShellPid
<1>3. /\ parent \in [PIDS -> 0..NProc] /\ kids \in [PIDS -> Seq(PIDS)] /\ linking \in 0..NProc
  BY DEF KernelInv, TablesOK
<1>4. \A p \in PIDS : KidsOf(p) \subseteq PIDS /\ KidsOf(p) = Elems(kids[p])
  BY <1>3 DEF KidsOf, Elems
<1>5. /\ sched.state[cur] \notin {"ready", "free"}
      /\ sched.state[ShellPid] \notin {"free", "zombie"}
  BY <1>1 DEF SchedInv
<1> QED
  BY <1>1, <1>2, <1>3, <1>4, <1>5

\* Only what is left of exit is done by a process that has exited.
LEMMA Awake ==
  ASSUME KernelInv, CallInv, Runs \/ at[cur] \notin {"user", "exit"}
  PROVE  sched.state[cur] \notin {"zombie", "ready", "free"}
BY Types DEF CallInv, PlaceOK, Runs

LEMMA InitInv == Init => KernelInv /\ TreeInv /\ CallInv /\ SleepersInv
<1> SUFFICES ASSUME Init PROVE KernelInv /\ TreeInv /\ CallInv /\ SleepersInv
  OBVIOUS
<1>1. ShellPid \in PIDS /\ 0 \in 0..NProc /\ 0 \notin PIDS
  BY ProcessAssumption DEF PIDS, ShellPid
<1>2. TablesOK
  <2>1. heap \in Int /\ linking \in 0..NProc
    BY <1>1 DEF Init
  <2>2. parent \in [PIDS -> 0..NProc] /\ waiting \in [PIDS -> 0..NProc]
    BY <1>1 DEF Init
  <2>3. kids \in [PIDS -> Seq(PIDS)] /\ msgq \in [PIDS -> Seq(PIDS)]
    BY DEF Init
  <2> QED
    BY <2>1, <2>2, <2>3 DEF TablesOK
<1>3. SchedInit \in SchedType
  BY <1>1, ProcessAssumption DEF SchedInit, SchedType, ProcStates, CtxKinds
<1>4. SchedInv(SchedInit)
  BY <1>1, <1>3 DEF SchedInit, SchedInv, InjectiveQueue, QueueHoldsReady
<1>5. ShellIsRoot
  BY <1>1 DEF Init, ShellIsRoot, ShellPid, KidsOf
<1>6. KernelInv
  BY <1>2, <1>4, <1>5 DEF Init, KernelInv
<1>7. \A p \in PIDS : KidsOf(p) = {} /\ parent[p] = 0 /\ kids[p] = << >>
  BY DEF Init, KidsOf
<1>8. TreeInv
  <2>1. ListsMatchParents
    BY <1>1, <1>7 DEF ListsMatchParents, Distinct
  <2>2. ParentsAlive /\ LinkingIsOrphan
    BY <1>7 DEF Init, ParentsAlive, LinkingIsOrphan
  <2> QED
    BY <2>1, <2>2 DEF TreeInv
<1>9. CallInv
  <2>1. at \in [PIDS -> Places] /\ peer \in [PIDS -> 0..NProc]
    BY <1>1 DEF Init, Places
  <2>2. \A p \in PIDS : PlaceOK(p)
    BY DEF Init, PlaceOK, SchedInit
  <2>3. Fresh(sched)
    BY <1>1 DEF Init, SchedInit, Fresh
  <2> QED
    BY <2>1, <2>2, <2>3 DEF CallInv
<1>10. SleepersInv
  BY <1>1, <1>7 DEF SleepersInv
<1> QED
  BY <1>6, <1>8, <1>9, <1>10

----------------------------------------------------------------------------
(***************************************************************************)
(* The scheduler operations change no life.                                *)
(***************************************************************************)
\* From s to t nobody is born, dies or is freed, nobody but the current process
\* blocks, and nobody saves the context for wait but after the search.
SameLives(s, t) ==
  \A p \in PIDS :
    /\ t.state[p] = "free" <=> s.state[p] = "free"
    /\ t.state[p] = "zombie" <=> s.state[p] = "zombie"
    /\ t.state[p] = "blocked" => s.state[p] = "blocked" \/ p = cur
    /\ t.ctx[p] = "wait" => s.ctx[p] = "wait" \/ (p = cur /\ Searched(p))

LEMMA SameLivesTrans ==
  ASSUME NEW s, NEW t, NEW u, SameLives(s, t), SameLives(t, u)
  PROVE  SameLives(s, u)
BY DEF SameLives

LEMMA UnblockLives ==
  ASSUME NEW s \in SchedType, NEW p \in PIDS, s.state[p] = "blocked"
  PROVE  /\ SameLives(s, process_unblock(s, p))
         /\ process_unblock(s, p).cur = s.cur /\ process_unblock(s, p).ctx = s.ctx
BY DEF process_unblock, SameLives, SchedType

LEMMA ScheduleLives ==
  ASSUME NEW s \in SchedType
  PROVE  /\ SameLives(s, schedule(s)) /\ schedule(s).cur = s.cur
         /\ schedule(s).ctx = s.ctx /\ schedule(s).state = s.state
BY DEF schedule, SameLives, SchedType

\* The current process blocks itself.
LEMMA BlockLives ==
  ASSUME NEW s \in SchedType, s.cur = cur, s.state[s.cur] \notin {"free", "zombie"}
  PROVE  /\ SameLives(s, process_block(s, s.cur))
         /\ process_block(s, s.cur).cur = s.cur /\ process_block(s, s.cur).ctx = s.ctx
BY DEF process_block, SameLives, SchedType

\* Whoever gets the CPU was ready, and its context becomes history.
LEMMA DispatchLives ==
  ASSUME NEW r \in SchedType, r.ready # << >>, r.state[Head(r.ready)] = "ready"
  PROVE  /\ SameLives(r, Dispatch(r)) /\ Fresh(Dispatch(r))
         /\ Dispatch(r).cur = Head(r.ready)
<1> DEFINE p == Head(r.ready)
           t == Dispatch(r)
<1>1. p \in PIDS
  BY DEF SchedType
<1>2. /\ t.cur = p /\ t.state = [r.state EXCEPT ![p] = "running"]
      /\ t.ctx = [r.ctx EXCEPT ![p] = "stale"]
  BY DEF Dispatch, SchedType
<1>3. r.state \in [PIDS -> ProcStates] /\ r.ctx \in [PIDS -> CtxKinds] /\ r.state[p] = "ready"
  BY DEF SchedType
<1> HIDE DEF p, t
<1>4. SameLives(r, t) /\ Fresh(t)
  BY <1>1, <1>2, <1>3 DEF SameLives, Fresh
<1> QED
  BY <1>2, <1>4 DEF p, t

LEMMA RequeueLives ==
  ASSUME NEW s, SchedInv(s)
  PROVE  /\ Requeue(s) \in SchedType /\ SameLives(s, Requeue(s))
         /\ Requeue(s).cur = s.cur
         /\ Requeue(s).ctx[s.cur] = s.ctx[s.cur] \/ Fresh(Requeue(s))
         /\ Requeue(s).ready # << >> => Requeue(s).state[Head(Requeue(s).ready)] = "ready"
<1>1. s \in SchedType /\ s.cur \in PIDS
  BY DEF SchedInv, SchedType
<1>2. CASE s.state[s.cur] # "running"
  <2>1. Requeue(s) = s
    BY <1>2 DEF Requeue
  <2>2. s.ready # << >> => s.state[Head(s.ready)] = "ready"
    BY <1>1 DEF SchedInv, QueueHoldsReady, SchedType
  <2> QED
    BY <1>1, <2>1, <2>2 DEF SameLives
<1>3. CASE s.state[s.cur] = "running"
  <2> DEFINE t == Requeue(s)
  <2>1. /\ t.state = [s.state EXCEPT ![s.cur] = "ready"] /\ t.cur = s.cur
        /\ t.ctx = [s.ctx EXCEPT ![s.cur] = "saved"]
        /\ t.ready = Append(s.ready, s.cur)
        /\ t = [s EXCEPT !.state = t.state, !.ctx = t.ctx, !.ready = t.ready,
                         !.ticks = [s.ticks EXCEPT ![s.cur] = TimeSlice]]
    BY <1>1, <1>3 DEF Requeue, SchedType
  <2> HIDE DEF t
  <2>2. /\ t.state \in [PIDS -> ProcStates] /\ t.ctx \in [PIDS -> CtxKinds]
        /\ t.ready \in Seq(PIDS) /\ [s.ticks EXCEPT ![s.cur] = TimeSlice] \in [PIDS -> 0..(TickMod - 1)]
    BY <1>1, <2>1, ProcessAssumption DEF SchedType, ProcStates, CtxKinds
  <2>3. t \in SchedType
    BY <1>1, <2>1, <2>2 DEF SchedType
  <2>4. SameLives(s, t) /\ Fresh(t)
    BY <1>1, <1>3, <2>1 DEF SameLives, Fresh, SchedType
  <2>5. t.state[Head(t.ready)] = "ready"
    <3>1. Head(t.ready) = IF s.ready = << >> THEN s.cur ELSE Head(s.ready)
      BY <1>1, <2>1 DEF SchedType
    <3>2. s.ready # << >> => s.state[Head(s.ready)] = "ready"
      BY <1>1 DEF SchedInv, QueueHoldsReady, SchedType
    <3> QED
      BY <1>1, <2>1, <3>1, <3>2 DEF SchedType
  <2> QED
    BY <2>1, <2>3, <2>4, <2>5 DEF t
<1> QED
  BY <1>2, <1>3

LEMMA ScheduleFromInterruptLives ==
  ASSUME NEW s, SchedInv(s)
  PROVE  /\ SameLives(s, schedule_from_interrupt(s))
         /\ Fresh(s) \/ schedule_from_interrupt(s).cur # s.cur => Fresh(schedule_from_interrupt(s))
<1> DEFINE r == Requeue(s)
           t == schedule_from_interrupt(s)
<1>1. /\ r \in SchedType /\ SameLives(s, r) /\ r.cur = s.cur
      /\ r.ctx[s.cur] = s.ctx[s.cur] \/ Fresh(r)
      /\ r.ready # << >> => r.state[Head(r.ready)] = "ready"
  BY RequeueLives
<1>2. t = IF r.ready = << >> THEN [r EXCEPT !.ticks[r.cur] = TimeSlice] ELSE Dispatch(r)
  BY DEF schedule_from_interrupt
<1> HIDE DEF r, t
<1>3. CASE r.ready = << >>
  <2>1. t.state = r.state /\ t.ctx = r.ctx /\ t.cur = r.cur
    BY <1>1, <1>2, <1>3 DEF SchedType
  <2>2. SameLives(s, t)
    BY <1>1, <2>1 DEF SameLives
  <2>3. Fresh(s) => Fresh(t)
    BY <1>1, <2>1 DEF Fresh
  <2> QED
    BY <1>1, <2>1, <2>2, <2>3 DEF t
<1>4. CASE r.ready # << >>
  BY <1>1, <1>2, <1>4, DispatchLives, SameLivesTrans DEF t
<1> QED
  BY <1>3, <1>4

LEMMA SyscallTailLives ==
  ASSUME NEW s, SchedInv(s), Fresh(s)
  PROVE  SameLives(s, syscall_tail(s)) /\ Fresh(syscall_tail(s))
BY ScheduleFromInterruptLives DEF syscall_tail, SameLives

LEMMA TimerLives ==
  ASSUME NEW s, SchedInv(s)
  PROVE  /\ SameLives(s, timer_handler(s))
         /\ Fresh(s) \/ timer_handler(s).cur # s.cur => Fresh(timer_handler(s))
<1> DEFINE n == (s.ticks[s.cur] + TickMod - 1) % TickMod
           d == [s EXCEPT !.ticks[s.cur] = n]
<1>1. s \in SchedType /\ TickMod \in Nat \ {0} /\ s.ticks[s.cur] \in Nat
  BY ProcessAssumption DEF SchedInv, SchedType
<1>2. n \in 0..(TickMod - 1)
  <2> DEFINE v == s.ticks[s.cur] + TickMod - 1
  <2>1. v \in Int
    BY <1>1
  <2> HIDE DEF v
  <2>2. v % TickMod \in 0..(TickMod - 1)
    BY <1>1, <2>1
  <2> QED
    BY <2>2 DEF v
<1>3. timer_handler(s) = IF n = 0 THEN schedule_from_interrupt(d) ELSE d
  BY DEF timer_handler
<1> HIDE DEF n
<1>4. /\ d \in SchedType /\ d.cur = s.cur /\ d.state = s.state /\ d.ready = s.ready
      /\ d.ctx = s.ctx
  <2>1. [s.ticks EXCEPT ![s.cur] = n] \in [PIDS -> 0..(TickMod - 1)]
    BY <1>1, <1>2 DEF SchedType
  <2> QED
    BY <1>1, <2>1 DEF SchedType
<1> HIDE DEF d
<1>5. SchedInv(d)
  BY <1>4, SameQueueInv
<1>6. SameLives(s, d) /\ (Fresh(s) => Fresh(d))
  BY <1>4 DEF SameLives, Fresh
<1>7. CASE n = 0
  <2> DEFINE t == schedule_from_interrupt(d)
  <2>1. SameLives(d, t) /\ (Fresh(d) \/ t.cur # d.cur => Fresh(t))
    BY <1>5, ScheduleFromInterruptLives
  <2>2. timer_handler(s) = t
    BY <1>3, <1>7
  <2> HIDE DEF t
  <2>3. SameLives(s, t)
    BY <1>6, <2>1, SameLivesTrans
  <2> QED
    BY <1>4, <1>6, <2>1, <2>2, <2>3
<1>8. CASE n # 0
  BY <1>3, <1>4, <1>6, <1>8
<1> QED
  BY <1>7, <1>8

----------------------------------------------------------------------------
(***************************************************************************)
(* Calm steps.                                                             *)
(***************************************************************************)
\* Whoever runs after the step has a context that is history, unless it is the
\* same process before its block.
Settled == Fresh(sched') \/ (sched'.cur = cur /\ at'[cur] = "block")

MailTypes ==
  /\ msgq \in [PIDS -> Seq(PIDS)] /\ waiting \in [PIDS -> 0..NProc] /\ heap \in Int

Calm ==
  /\ SchedInv(sched') /\ SameLives(sched, sched') /\ Settled
  /\ MailTypes'
  /\ UNCHANGED << parent, kids >> /\ linking' \in {0, linking}

LEMMA CalmKernel == ASSUME KernelInv, Calm PROVE KernelInv'
<1>1. TablesOK'
  BY ProcessAssumption DEF KernelInv, TablesOK, Calm, MailTypes
<1>2. ShellIsRoot'
  BY DEF KernelInv, ShellIsRoot, KidsOf, ShellPid, Calm
<1> QED
  BY <1>1, <1>2 DEF KernelInv, Calm

LEMMA CalmTree == ASSUME KernelInv, TreeInv, Calm PROVE TreeInv'
<1>1. ListsMatchParents'
  BY DEF TreeInv, ListsMatchParents, KidsOf, Calm
<1>2. ParentsAlive'
  BY Types DEF TreeInv, ParentsAlive, SameLives, Calm
<1>3. LinkingIsOrphan'
  BY Types DEF TreeInv, LinkingIsOrphan, SameLives, Calm
<1> QED
  BY <1>1, <1>2, <1>3 DEF TreeInv

\* Outside the block, the current process's context is history.
LEMMA FreshNow == ASSUME CallInv, at[cur] # "block" PROVE Fresh(sched)
BY DEF CallInv

LEMMA SameLivesRefl == ASSUME NEW s PROVE SameLives(s, s)
BY DEF SameLives

LEMMA MailUnchanged ==
  ASSUME KernelInv, UNCHANGED << msgq, waiting, heap >> PROVE MailTypes'
BY DEF KernelInv, TablesOK, MailTypes

\* A step that leaves mail and tree alone, from the place of a call where the
\* context is history.
LEMMA CalmBy ==
  ASSUME KernelInv, SchedInv(sched'), SameLives(sched, sched'), Fresh(sched'),
         UNCHANGED << parent, kids, msgq, waiting, heap, linking >>
  PROVE  Calm
BY MailUnchanged DEF Calm, Settled

LEMMA TimerCalm == ASSUME KernelInv, CallInv, Timer PROVE Calm
<1>1. SchedInv(sched) /\ cur = sched.cur
  BY Types
<1>2. /\ SchedInv(sched') /\ SameLives(sched, sched')
      /\ Fresh(sched) \/ sched'.cur # cur => Fresh(sched')
  BY <1>1, TimerInv, TimerLives DEF Timer
<1>3. Settled
  <2>1. CASE Fresh(sched) \/ sched'.cur # cur
    BY <1>2, <2>1 DEF Settled
  <2>2. CASE ~Fresh(sched) /\ sched'.cur = cur
    <3>1. at[cur] = "block"
      BY <2>2 DEF CallInv
    <3>2. at' = at
      BY <2>2 DEF Timer
    <3> QED
      BY <2>2, <3>1, <3>2 DEF Settled
  <2> QED
    BY <2>1, <2>2
<1>4. /\ UNCHANGED << parent, kids, msgq, waiting, heap >> /\ linking' \in {0, linking}
  BY DEF Timer, treeVars, mailVars
<1> QED
  BY <1>2, <1>3, <1>4, MailUnchanged DEF Calm

\* Steps of the scheduler that a call returns with.
LEMMA TailCalm ==
  ASSUME KernelInv, CallInv, PlainSyscall \/ WaitNoChild \/ CreateFails
  PROVE  Calm
<1>1. SchedInv(sched) /\ SameLives(sched, sched)
  BY Types, SameLivesRefl
<1>2. Fresh(sched)
  BY FreshNow DEF PlainSyscall, WaitNoChild, CreateFails, Runs, In
<1>3. sched' = syscall_tail(sched) \/ sched' = sched
  BY DEF PlainSyscall, WaitNoChild, CreateFails
<1>4. SchedInv(sched') /\ SameLives(sched, sched') /\ Fresh(sched')
  BY <1>1, <1>2, <1>3, SyscallTailInv, SyscallTailLives
<1>5. UNCHANGED << parent, kids, msgq, waiting, heap, linking >>
  BY DEF PlainSyscall, WaitNoChild, CreateFails, treeVars, mailVars
<1> QED
  BY <1>4, <1>5, CalmBy

LEMMA ExecCalm == ASSUME KernelInv, CallInv, Exec PROVE Calm
<1> DEFINE t == [sched EXCEPT !.ticks[cur] = TimeSlice]
<1>1. [sched.ticks EXCEPT ![cur] = TimeSlice] \in [PIDS -> 0..(TickMod - 1)]
  BY Types, ProcessAssumption DEF SchedType
<1>2. /\ t \in SchedType /\ t.cur = sched.cur /\ t.state = sched.state
      /\ t.ready = sched.ready /\ t.ctx = sched.ctx
  BY <1>1, Types DEF SchedType
<1>3. sched' = t /\ UNCHANGED << parent, kids, msgq, waiting, heap, linking >>
  BY DEF Exec, treeVars, mailVars
<1> HIDE DEF t
<1>4. SchedInv(t)
  BY <1>2, SameQueueInv, Types
<1>5. Fresh(sched)
  BY FreshNow DEF Exec, Runs
<1>6. SameLives(sched, t) /\ Fresh(t)
  BY <1>2, <1>5 DEF SameLives, Fresh
<1> QED
  BY <1>3, <1>4, <1>6, CalmBy

\* Looks that change nothing but the place.
LEMMA LookCalm ==
  ASSUME KernelInv, CallInv, ChoosePid \/ WaitSearch \/ \E t \in PIDS : SendLook(t)
  PROVE  Calm
<1>1. /\ Runs /\ sched' = sched
      /\ UNCHANGED << parent, kids, msgq, waiting, heap, linking >>
  BY DEF ChoosePid, WaitSearch, SendLook, treeVars, mailVars
<1>2. Fresh(sched) /\ SchedInv(sched) /\ SameLives(sched, sched)
  BY <1>1, FreshNow, Types, SameLivesRefl DEF Runs
<1> QED
  BY <1>1, <1>2, CalmBy

LEMMA AdoptCalm == ASSUME KernelInv, CallInv, ExitAdopt PROVE Calm
<1>1. /\ SchedInv(sched) /\ sched \in SchedType /\ ShellPid \in PIDS /\ cur = sched.cur
      /\ cur \in PIDS
  BY Types
<1>2. at[cur] = "adopt" /\ sched.state[ShellPid] = "blocked"
  BY DEF ExitAdopt, In, Outdated
<1>3. cur # ShellPid
  BY <1>1, <1>2 DEF CallInv, PlaceOK
<1>4. SchedInv(sched') /\ SameLives(sched, sched')
  BY <1>1, <1>2, <1>3, UnblockInv, UnblockLives DEF ExitAdopt
<1>5. Fresh(sched')
  <2>1. Fresh(sched)
    BY <1>2, FreshNow
  <2> QED
    BY <1>1, <1>2, <2>1, UnblockLives DEF ExitAdopt, Fresh
<1>6. UNCHANGED << parent, kids, msgq, waiting, heap, linking >>
  BY DEF ExitAdopt, treeVars, mailVars
<1> QED
  BY <1>4, <1>5, <1>6, CalmBy

\* What the exit of a process does for its parent f, if it has one.
LEMMA WakeParentLives ==
  ASSUME NEW s \in SchedType, NEW f \in 0..NProc
  PROVE  /\ WakeParent(s, f) \in SchedType /\ SameLives(s, WakeParent(s, f))
         /\ WakeParent(s, f).cur = s.cur /\ WakeParent(s, f).ctx = s.ctx
         /\ f # 0 => WakeParent(s, f).state[f] # "blocked"
<1>1. CASE f # 0 /\ s.state[f] = "blocked"
  <2> DEFINE u == process_unblock(s, f)
  <2>1. f \in PIDS /\ WakeParent(s, f) = u
    BY <1>1 DEF WakeParent, PIDS
  <2>2. u.state = [s.state EXCEPT ![f] = "ready"] /\ u \in SchedType
    <3>1. /\ [s.state EXCEPT ![f] = "ready"] \in [PIDS -> ProcStates]
          /\ Append(s.ready, f) \in Seq(PIDS)
      BY <2>1 DEF SchedType, ProcStates
    <3> QED
      BY <3>1 DEF process_unblock, SchedType
  <2>3. SameLives(s, u) /\ u.cur = s.cur /\ u.ctx = s.ctx
    BY <1>1, <2>1, UnblockLives
  <2> HIDE DEF u
  <2>4. u.state[f] = "ready"
    BY <2>1, <2>2 DEF SchedType
  <2> QED
    BY <2>1, <2>2, <2>3, <2>4
<1>2. CASE ~ (f # 0 /\ s.state[f] = "blocked")
  BY <1>2 DEF WakeParent, SameLives
<1> QED
  BY <1>1, <1>2

\* The end of sys_exit, by a process that is nobody's parent.
LEMMA ExitWakeSched ==
  ASSUME KernelInv, CallInv, ExitWake
  PROVE  /\ SchedInv(sched') /\ SameLives(sched, sched') /\ Fresh(sched')
         /\ sched'.cur = cur
         /\ parent[cur] # 0 => sched'.state[parent[cur]] # "blocked"
<1> DEFINE z == [sched EXCEPT !.ticks[cur] = 0]
           u == WakeParent(z, parent[cur])
<1>1. /\ SchedInv(sched) /\ sched \in SchedType /\ cur = sched.cur /\ cur \in PIDS
      /\ parent[cur] \in 0..NProc /\ (parent[cur] # 0 => parent[cur] \in PIDS)
      /\ parent[cur] # cur
  BY Types DEF KernelInv, ShellIsRoot
<1>2. Fresh(sched)
  BY FreshNow DEF ExitWake, In
<1>3. [sched.ticks EXCEPT ![cur] = 0] \in [PIDS -> 0..(TickMod - 1)]
  BY <1>1, ProcessAssumption DEF SchedType
<1>4. /\ z \in SchedType /\ z.cur = cur /\ z.state = sched.state /\ z.ready = sched.ready
      /\ z.ctx = sched.ctx
  BY <1>1, <1>3 DEF SchedType
<1>5. sched' = schedule(u)
  BY DEF ExitWake
<1> HIDE DEF z
<1>6. SchedInv(z) /\ SameLives(sched, z)
  <2>1. SchedInv(z)
    BY <1>1, <1>4, SameQueueInv
  <2> QED
    BY <1>4, <2>1 DEF SameLives
<1>7. PICK f \in 0..NProc : f = parent[cur]
  BY <1>1
<1>8. /\ u \in SchedType /\ SameLives(z, u) /\ u.cur = cur /\ u.ctx = sched.ctx
      /\ parent[cur] # 0 => u.state[parent[cur]] # "blocked"
  <2>1. u = WakeParent(z, f)
    BY <1>7
  <2> HIDE DEF u
  <2> QED
    BY <1>4, <1>7, <2>1, WakeParentLives
<1>9. SchedInv(u)
  <2>1. CASE parent[cur] # 0 /\ z.state[parent[cur]] = "blocked"
    BY <1>1, <1>4, <1>6, <2>1, UnblockInv DEF WakeParent
  <2> QED
    BY <1>6, <2>1 DEF WakeParent
<1> HIDE DEF u
<1>10. /\ SchedInv(sched') /\ sched'.cur = cur /\ sched'.ctx = sched.ctx
       /\ sched'.state = u.state /\ SameLives(u, sched')
  BY <1>5, <1>8, <1>9, ScheduleInv, ScheduleLives
<1>11. SameLives(sched, sched')
  BY <1>6, <1>8, <1>10, SameLivesTrans
<1>12. Fresh(sched')
  BY <1>1, <1>2, <1>10 DEF Fresh
<1> QED
  BY <1>8, <1>10, <1>11, <1>12

LEMMA ExitWakeCalm == ASSUME KernelInv, CallInv, ExitWake PROVE Calm
<1>1. UNCHANGED << parent, kids, msgq, waiting, heap, linking >>
  BY DEF ExitWake, treeVars, mailVars
<1> QED
  BY <1>1, ExitWakeSched, CalmBy

LEMMA WaitSaveCalm == ASSUME KernelInv, CallInv, WaitSave PROVE Calm
<1> DEFINE a == [sched EXCEPT !.ctx[cur] = "wait"]
<1>1. sched \in SchedType /\ cur \in PIDS /\ cur = sched.cur /\ SchedInv(sched)
  BY Types
<1>2. [sched.ctx EXCEPT ![cur] = "wait"] \in [PIDS -> CtxKinds]
  BY <1>1 DEF SchedType, CtxKinds
<1>3. /\ a \in SchedType /\ a.cur = cur /\ a.state = sched.state /\ a.ready = sched.ready
      /\ a.ctx = [sched.ctx EXCEPT ![cur] = "wait"]
  BY <1>1, <1>2 DEF SchedType
<1>4. /\ sched' = a /\ UNCHANGED << parent, kids, msgq, waiting, heap, linking >>
      /\ at[cur] = "search" /\ at' = [at EXCEPT ![cur] = "block"]
  BY DEF WaitSave, treeVars, mailVars, GoTo, In
<1> HIDE DEF a
<1>5. SchedInv(a)
  BY <1>1, <1>3, SameQueueInv
<1>6. SameLives(sched, a)
  <2>1. Searched(cur) /\ sched.ctx \in [PIDS -> CtxKinds]
    BY <1>1, <1>4 DEF Searched, SchedType
  <2> QED
    BY <1>3, <2>1 DEF SameLives
<1>7. Settled
  BY <1>1, <1>3, <1>4 DEF Settled, CallInv
<1> QED
  BY <1>4, <1>5, <1>6, <1>7, MailUnchanged DEF Calm

LEMMA WaitBlockCalm == ASSUME KernelInv, CallInv, WaitBlock PROVE Calm
<1> DEFINE b == process_block(sched, cur)
           s == schedule_from_interrupt(b)
           e == [s EXCEPT !.ctx[cur] = "stale"]
<1>1. /\ sched \in SchedType /\ cur \in PIDS /\ cur = sched.cur /\ SchedInv(sched)
      /\ sched.state[cur] \notin {"zombie", "free"}
  BY Types, Awake DEF WaitBlock, In
<1>2. /\ sched' = IF s.cur = cur THEN e ELSE s
      /\ UNCHANGED << parent, kids, msgq, waiting, heap, linking >>
  BY DEF WaitBlock, treeVars, mailVars
<1>3. SchedInv(b) /\ b.cur = cur /\ SameLives(sched, b)
  BY <1>1, BlockInv, BlockLives
<1> HIDE DEF b
<1>4. SchedInv(s) /\ SameLives(b, s) /\ (s.cur # cur => Fresh(s))
  BY <1>3, ScheduleFromInterruptInv, ScheduleFromInterruptLives
<1> HIDE DEF s
<1>5. SameLives(sched, s)
  BY <1>3, <1>4, SameLivesTrans
<1>6. s \in SchedType
  BY <1>4 DEF SchedInv
<1>7. [s.ctx EXCEPT ![cur] = "stale"] \in [PIDS -> CtxKinds]
  BY <1>1, <1>6 DEF SchedType, CtxKinds
<1>8. /\ e \in SchedType /\ e.cur = s.cur /\ e.state = s.state /\ e.ready = s.ready
      /\ e.ctx = [s.ctx EXCEPT ![cur] = "stale"] /\ s.ctx \in [PIDS -> CtxKinds]
  BY <1>6, <1>7 DEF SchedType
<1> HIDE DEF e
<1>9. SchedInv(e)
  BY <1>4, <1>8, SameQueueInv
<1>10. SameLives(sched, e)
  BY <1>5, <1>8 DEF SameLives
<1>11. s.cur = cur => Fresh(e)
  BY <1>1, <1>8 DEF Fresh
<1>12. SchedInv(sched') /\ SameLives(sched, sched') /\ Fresh(sched')
  <2>1. CASE s.cur = cur
    BY <1>2, <1>9, <1>10, <1>11, <2>1
  <2>2. CASE s.cur # cur
    BY <1>2, <1>4, <1>5, <2>2
  <2> QED
    BY <2>1, <2>2
<1> QED
  BY <1>2, <1>12, CalmBy

(***************************************************************************)
(* Message passing: every function keeps MailLives.                        *)
(***************************************************************************)
MailType ==
  [s : SchedType, q : [PIDS -> Seq(PIDS)], w : [PIDS -> 0..NProc], h : Int]

MailInv(m) ==
  /\ m \in MailType
  /\ SchedInv(m.s)
  /\ m.s.cur = cur
  /\ m.s.state[cur] # "zombie"

\* A message changes no life, and the receiver that blocks is not in wait.
MailLives(m) ==
  MailInv(m) /\ SameLives(sched, m.s) /\ Fresh(m.s)

LEMMA MailStart ==
  ASSUME KernelInv, CallInv, Runs \/ at[cur] \in {"send", "wake", "recv"}
  PROVE  MailLives(Mail) /\ cur \in PIDS
<1>1. sched \in SchedType /\ SchedInv(sched) /\ cur \in PIDS /\ sched.cur = cur
  BY Types
<1>2. sched.state[cur] # "zombie" /\ Fresh(sched)
  BY Awake, FreshNow DEF Runs
<1>3. Mail \in MailType /\ Mail.s = sched
  BY <1>1 DEF Mail, MailType, KernelInv, TablesOK
<1> QED
  BY <1>1, <1>2, <1>3, SameLivesRefl DEF MailLives, MailInv

LEMMA SetCalm ==
  ASSUME KernelInv, NEW m, MailLives(m), Set(m)
  PROVE  Calm
<1>1. /\ sched' = m.s /\ msgq' = m.q /\ waiting' = m.w /\ heap' = m.h
      /\ UNCHANGED << parent, kids, linking >>
  BY DEF Set, treeVars
<1>2. /\ SchedInv(m.s) /\ SameLives(sched, m.s) /\ Fresh(m.s)
      /\ m.q \in [PIDS -> Seq(PIDS)] /\ m.w \in [PIDS -> 0..NProc] /\ m.h \in Int
  BY DEF MailLives, MailInv, MailType
<1> QED
  BY <1>1, <1>2 DEF Calm, Settled, MailTypes

LEMMA ReturnCalm ==
  ASSUME KernelInv, NEW m, MailLives(m), NEW via \in BOOLEAN, Return(m, via)
  PROVE  Calm
<1> DEFINE s == syscall_tail(m.s)
           n == [m EXCEPT !.s = s]
<1>1. CASE ~via
  BY <1>1, SetCalm DEF Return
<1>2. CASE via
  <2>1. SchedInv(s) /\ SameLives(m.s, s) /\ Fresh(s)
    BY SyscallTailInv, SyscallTailLives DEF MailLives, MailInv
  <2>2. SameLives(sched, s) /\ s \in SchedType /\ m \in MailType
    BY <2>1, SameLivesTrans DEF MailLives, MailInv, SchedInv
  <2>3. Set(n)
    BY <1>2 DEF Return
  <2> HIDE DEF s
  <2>4. n.s = s /\ n.q = m.q /\ n.w = m.w /\ n.h = m.h
    BY <2>2 DEF MailType
  <2>5. /\ sched' = s /\ msgq' = m.q /\ waiting' = m.w /\ heap' = m.h
        /\ UNCHANGED << parent, kids, linking >>
    BY <2>3, <2>4 DEF Set, treeVars
  <2>6. m.q \in [PIDS -> Seq(PIDS)] /\ m.w \in [PIDS -> 0..NProc] /\ m.h \in Int
    BY <2>2 DEF MailType
  <2> QED
    BY <2>1, <2>2, <2>5, <2>6 DEF Calm, Settled, MailTypes
<1> QED
  BY <1>1, <1>2

LEMMA DequeueMail ==
  ASSUME NEW m, MailLives(m), cur \in PIDS, NEW from, Oldest(m.q[cur], from) # {}
  PROVE  MailLives(Dequeue(m, from)) /\ Dequeue(m, from).s = m.s
<1> DEFINE k == CHOOSE i \in Oldest(m.q[cur], from) : TRUE
           d == DropAt(m.q[cur], k)
<1>1. m \in MailType /\ m.q[cur] \in Seq(PIDS)
  BY DEF MailLives, MailInv, MailType
<1>2. k \in 1..Len(m.q[cur])
  BY DEF Oldest
<1>3. Dequeue(m, from) = [m EXCEPT !.q[cur] = d, !.h = m.h - 1]
  BY <1>1 DEF Dequeue, MailType
<1> HIDE DEF k
<1>4. d \in Seq(PIDS)
  BY <1>1, <1>2, DropAtType
<1> HIDE DEF d
<1>5. [m.q EXCEPT ![cur] = d] \in [PIDS -> Seq(PIDS)] /\ m.h - 1 \in Int
  BY <1>1, <1>4 DEF MailType
<1>6. Dequeue(m, from) \in MailType /\ Dequeue(m, from).s = m.s
  BY <1>1, <1>3, <1>5 DEF MailType
<1> QED
  BY <1>6 DEF MailLives, MailInv

LEMMA WakeMail ==
  ASSUME NEW m, MailLives(m), cur \in PIDS, NEW t \in PIDS, t # cur,
         m.s.state[t] = "blocked"
  PROVE  /\ MailLives(Wake(m, t)) /\ Wake(m, t).q = m.q /\ Wake(m, t).h = m.h
<1> DEFINE u == process_unblock(m.s, t)
<1>1. m \in MailType /\ m.s \in SchedType /\ SchedInv(m.s) /\ m.s.cur = cur
  BY DEF MailLives, MailInv, MailType
<1>2. SchedInv(u) /\ u.cur = cur
  BY <1>1, UnblockInv
<1>3. SameLives(m.s, u) /\ u.ctx = m.s.ctx
  BY <1>1, UnblockLives
<1>4. u.state[cur] # "zombie" /\ Fresh(u) /\ u \in SchedType
  <2>1. m.s.state[cur] # "zombie" /\ Fresh(m.s)
    BY DEF MailLives, MailInv
  <2> QED
    BY <1>1, <1>2, <1>3, <2>1 DEF SameLives, Fresh, SchedInv
<1>5. SameLives(sched, u)
  BY <1>3, SameLivesTrans DEF MailLives
<1>6. Wake(m, t) = [m EXCEPT !.w[t] = 0, !.s = u]
  BY <1>1 DEF Wake, MailType
<1> HIDE DEF u
<1>7. [m.w EXCEPT ![t] = 0] \in [PIDS -> 0..NProc]
  BY <1>1, ProcessAssumption DEF MailType
<1>8. /\ Wake(m, t) \in MailType /\ Wake(m, t).s = u
      /\ Wake(m, t).q = m.q /\ Wake(m, t).h = m.h
  BY <1>1, <1>4, <1>6, <1>7 DEF MailType
<1> QED
  BY <1>2, <1>4, <1>5, <1>8 DEF MailLives, MailInv

\* The mail once the send is done; the receiver t still exists if it gets it.
LEMMA SentMail ==
  ASSUME SelfSend = FALSE, KernelInv, CallInv, Sends
  PROVE  /\ MailLives(Sent) /\ cur \in PIDS
         /\ CanAlloc => /\ peer[cur] \in Live
                        /\ Sent.q = [msgq EXCEPT ![peer[cur]] = Append(@, cur)]
                        /\ Sent.h = heap + 1
         /\ ~CanAlloc => Sent.q = msgq /\ Sent.h = heap
<1> DEFINE t == peer[cur]
           m == IF at[cur] = "wake" THEN Wake(Mail, t) ELSE Mail
<1>1. at[cur] \in {"send", "wake"} /\ ~Outdated
  BY DEF Sends, In
<1>2. MailLives(Mail) /\ cur \in PIDS
  BY <1>1, MailStart
<1>3. /\ t # 0 => t \in PIDS /\ sched.state[t] # "free" /\ t # cur
      /\ peer[cur] \in 0..NProc
  <2>1. PlaceOK(cur) /\ t \in 0..NProc
    BY <1>2 DEF CallInv
  <2> QED
    BY <1>1, <2>1 DEF PlaceOK, PIDS
<1>4. at[cur] = "wake" => t # 0 /\ sched.state[t] = "blocked"
  BY <1>1 DEF Outdated
<1>5. at[cur] = "send" /\ CanAlloc => t # 0
  BY <1>1 DEF Outdated
<1>6. MailLives(m) /\ m.q = msgq /\ m.h = heap
  <2>1. Mail.s = sched /\ Mail.q = msgq /\ Mail.h = heap
    BY DEF Mail
  <2>2. CASE at[cur] = "wake"
    BY <1>2, <1>3, <1>4, <2>1, <2>2, WakeMail
  <2>3. CASE at[cur] # "wake"
    BY <1>2, <2>1, <2>3
  <2> QED
    BY <2>2, <2>3
<1>7. Sent = IF CanAlloc THEN [m EXCEPT !.q[t] = Append(@, cur), !.h = @ + 1] ELSE m
  BY DEF Sent
<1> HIDE DEF m
<1>8. CASE CanAlloc
  <2>1. t \in PIDS /\ t \in Live
    BY <1>1, <1>3, <1>4, <1>5, <1>8 DEF Live
  <2>2. m \in MailType /\ m.q \in [PIDS -> Seq(PIDS)] /\ m.h \in Int
    BY <1>6 DEF MailLives, MailInv, MailType
  <2>3. PICK q : q = [m.q EXCEPT ![t] = Append(m.q[t], cur)]
    OBVIOUS
  <2>4. q \in [PIDS -> Seq(PIDS)]
    <3>1. Append(m.q[t], cur) \in Seq(PIDS)
      BY <1>2, <2>1, <2>2
    <3> QED
      BY <2>2, <2>3, <3>1
  <2>5. Sent = [m EXCEPT !.q = q, !.h = m.h + 1]
    BY <1>7, <1>8, <2>2, <2>3 DEF MailType
  <2>6. Sent \in MailType /\ Sent.s = m.s /\ Sent.q = q /\ Sent.h = heap + 1
    <3>1. PICK h \in Int : h = m.h + 1
      BY <2>2
    <3>2. Sent = [m EXCEPT !.q = q, !.h = h]
      BY <2>5, <3>1
    <3>3. Sent \in MailType /\ Sent.s = m.s /\ Sent.q = q /\ Sent.h = h
      BY <2>2, <2>4, <3>2 DEF MailType
    <3> QED
      BY <1>6, <3>1, <3>3
  <2>7. MailLives(Sent)
    BY <1>6, <2>6 DEF MailLives, MailInv
  <2> QED
    BY <1>2, <1>6, <1>8, <2>1, <2>3, <2>6, <2>7
<1>9. CASE ~CanAlloc
  BY <1>2, <1>6, <1>7, <1>9
<1> QED
  BY <1>8, <1>9

LEMMA RecvNonblockMail ==
  ASSUME NEW m, MailLives(m), cur \in PIDS, NEW from
  PROVE  MailLives(ipc_recv_nonblock(m, from))
BY DequeueMail DEF ipc_recv_nonblock

\* The mail after the receiver has blocked.
Blocked == [Mail EXCEPT !.w[cur] = peer[cur], !.s = schedule(process_block(@, cur))]

LEMMA BlockedMail ==
  ASSUME KernelInv, CallInv, at[cur] = "recv"
  PROVE  /\ MailLives(Blocked) /\ cur \in PIDS
         /\ Blocked.q = msgq /\ Blocked.h = heap
<1> DEFINE b == process_block(sched, cur)
           u == schedule(b)
<1>1. MailLives(Mail) /\ cur \in PIDS
  BY MailStart
<1>2. /\ sched \in SchedType /\ SchedInv(sched) /\ sched.cur = cur
      /\ sched.state[cur] \notin {"zombie", "ready", "free"} /\ Fresh(sched)
  BY Types, Awake, FreshNow
<1>3. SchedInv(b) /\ b.cur = cur /\ SameLives(sched, b) /\ b.ctx = sched.ctx
  BY <1>2, BlockInv, BlockLives
<1> HIDE DEF b
<1>4. SchedInv(u) /\ u.cur = cur /\ SameLives(b, u) /\ u.ctx = sched.ctx
  BY <1>3, ScheduleInv, ScheduleLives DEF SchedInv
<1> HIDE DEF u
<1>5. SameLives(sched, u) /\ Fresh(u) /\ u \in SchedType
  BY <1>2, <1>3, <1>4, SameLivesTrans DEF Fresh, SchedInv
<1>6. u.state[cur] # "zombie"
  BY <1>1, <1>2, <1>5 DEF SameLives
<1>7. Mail \in MailType /\ Mail.s = sched /\ Mail.q = msgq /\ Mail.h = heap
  BY <1>1 DEF MailLives, MailInv, Mail
<1>8. [waiting EXCEPT ![cur] = peer[cur]] \in [PIDS -> 0..NProc]
  BY <1>1 DEF KernelInv, TablesOK, CallInv
<1>9. Blocked = [Mail EXCEPT !.w = [waiting EXCEPT ![cur] = peer[cur]], !.s = u]
  BY DEF Blocked, Mail, u, b
<1>10. Blocked \in MailType /\ Blocked.s = u /\ Blocked.q = msgq /\ Blocked.h = heap
  BY <1>5, <1>7, <1>8, <1>9 DEF MailType
<1> QED
  BY <1>1, <1>4, <1>5, <1>6, <1>10 DEF MailLives, MailInv

\* The steps of the message functions that do more than look.
Messages ==
  \E via \in BOOLEAN :
    \/ IpcSend(via) \/ CallReceives(via) \/ RecvBlock(via)
    \/ \E from \in Froms : IpcRecv(from, via) \/ IpcRecvNonblock(from, via)

LEMMA MessagesCalm ==
  ASSUME SelfSend = FALSE, KernelInv, CallInv, Messages
  PROVE  Calm
<1>1. PICK via \in BOOLEAN :
        \/ IpcSend(via) \/ CallReceives(via) \/ RecvBlock(via)
        \/ \E from \in Froms : IpcRecv(from, via) \/ IpcRecvNonblock(from, via)
  BY DEF Messages
<1>2. CASE IpcSend(via)
  BY <1>2, SentMail, ReturnCalm DEF IpcSend
<1>3. CASE CallReceives(via)
  <2>1. MailLives(Sent) /\ cur \in PIDS
    BY <1>3, SentMail DEF CallReceives
  <2>2. CASE Oldest(Sent.q[cur], peer[cur]) # {}
    <3>1. Return(Dequeue(Sent, peer[cur]), via)
      BY <1>3, <2>2 DEF CallReceives
    <3> QED
      BY <2>1, <2>2, <3>1, DequeueMail, ReturnCalm
  <2>3. CASE Oldest(Sent.q[cur], peer[cur]) = {}
    <3>1. Set(Sent)
      BY <1>3, <2>3 DEF CallReceives
    <3> QED
      BY <2>1, <3>1, SetCalm
  <2> QED
    BY <2>2, <2>3
<1>4. CASE RecvBlock(via)
  <2>1. at[cur] = "recv" /\ Return(ipc_recv_nonblock(Blocked, peer[cur]), via)
    BY <1>4 DEF RecvBlock, Blocked, In
  <2> QED
    BY <2>1, BlockedMail, RecvNonblockMail, ReturnCalm
<1>5. ASSUME NEW from \in Froms, IpcRecv(from, via) \/ IpcRecvNonblock(from, via)
      PROVE  Calm
  <2>1. MailLives(Mail) /\ cur \in PIDS
    BY <1>5, MailStart DEF IpcRecv, IpcRecvNonblock
  <2>2. CASE IpcRecvNonblock(from, via)
    BY <2>1, <2>2, RecvNonblockMail, ReturnCalm DEF IpcRecvNonblock
  <2>3. CASE IpcRecv(from, via) /\ Oldest(msgq[cur], from) # {}
    <3>1. Return(Dequeue(Mail, from), via)
      BY <2>3 DEF IpcRecv
    <3>2. Oldest(Mail.q[cur], from) # {}
      BY <2>3 DEF Mail
    <3> QED
      BY <2>1, <3>1, <3>2, DequeueMail, ReturnCalm
  <2>4. CASE IpcRecv(from, via) /\ Oldest(msgq[cur], from) = {}
    BY <2>1, <2>4, SetCalm DEF IpcRecv
  <2> QED
    BY <1>5, <2>2, <2>3, <2>4
<1> QED
  BY <1>1, <1>2, <1>3, <1>4, <1>5

CalmStep ==
  \/ Timer \/ PlainSyscall \/ Exec \/ ChoosePid \/ CreateFails
  \/ ExitAdopt \/ ExitWake \/ WaitNoChild \/ WaitSearch \/ WaitSave \/ WaitBlock
  \/ (\E t \in PIDS : SendLook(t)) \/ Messages

LEMMA StepsAreCalm ==
  ASSUME SelfSend = FALSE, KernelInv, CallInv, CalmStep
  PROVE  Calm
BY TimerCalm, TailCalm, ExecCalm, LookCalm, AdoptCalm, ExitWakeCalm, WaitSaveCalm,
   WaitBlockCalm, MessagesCalm DEF CalmStep

----------------------------------------------------------------------------
(***************************************************************************)
(* Steps that change the tree.  Each is also a step of Lifecycle.          *)
(***************************************************************************)
\* What LC has for life.
Life(s) == [p \in PIDS |-> CASE s.state[p] = "free"   -> "free"
                             [] s.state[p] = "zombie" -> "zombie"
                             [] OTHER                 -> "alive"]

LEMMA LifeIs ==
  ASSUME NEW s, NEW p \in PIDS
  PROVE  /\ s.state[p] = "free" <=> Life(s)[p] = "free"
         /\ s.state[p] = "zombie" <=> Life(s)[p] = "zombie"
         /\ s.state[p] \notin {"free", "zombie"} <=> Life(s)[p] = "alive"
BY DEF Life

LEMMA StartLives ==
  ASSUME NEW s \in SchedType, NEW c \in PIDS
  PROVE  /\ process_new(s, c).state = [s.state EXCEPT ![c] = "ready"]
         /\ process_new(s, c).cur = s.cur
         /\ process_new(s, c).ctx = [s.ctx EXCEPT ![c] = "saved"]
         /\ c # s.cur /\ Fresh(s) => Fresh(process_new(s, c))
BY DEF process_new, SchedType, Fresh

\* The chosen PID is still free; nobody has it for a parent.
LEMMA Chosen ==
  ASSUME KernelInv, TreeInv, CallInv, Creates, NEW c, c = peer[cur]
  PROVE  /\ c \in PIDS /\ sched.state[c] = "free" /\ parent[c] = 0 /\ c # cur
         /\ KidsOf(c) = {} /\ Fresh(sched) /\ CanAlloc
         /\ sched.state[cur] \notin {"zombie", "ready", "free"}
         /\ Fresh(process_new(sched, c)) /\ SchedInv(process_new(sched, c))
<1>1. at[cur] = "create" /\ CanAlloc /\ ~Outdated
  BY DEF Creates, In
<1>2. c \in PIDS
  BY <1>1, Types DEF CallInv, PlaceOK, PIDS
<1>3. sched.state[c] = "free" /\ parent[c] = 0
  BY <1>1, <1>2 DEF Outdated, TreeInv, ParentsAlive
<1>4. c # cur /\ SchedInv(process_new(sched, c))
  BY <1>2, <1>3, Types, NewProcessInv
<1>5. KidsOf(c) = {}
  BY <1>2, <1>3, Types DEF TreeInv, ListsMatchParents, ParentsAlive
<1>6. Fresh(sched) /\ sched.state[cur] \notin {"zombie", "ready", "free"}
  BY <1>1, FreshNow, Awake
<1>7. Fresh(process_new(sched, c))
  BY <1>2, <1>4, <1>6, StartLives, Types
<1> QED
  BY <1>1, <1>2, <1>3, <1>4, <1>5, <1>6, <1>7

\* A new process c with parent f, which is 0 or the running process.
LEMMA NewProcessTables ==
  ASSUME KernelInv, NEW c \in PIDS, sched.state[c] = "free", NEW f \in {0, cur},
         NewProcess(c, f), linking' \in {linking, c}
  PROVE  TablesOK' /\ ShellIsRoot'
<1>1. /\ cur \in PIDS /\ c # cur /\ c # ShellPid /\ f # c
      /\ f \in 0..NProc /\ c \in 0..NProc /\ 0 \in 0..NProc
  BY ProcessAssumption DEF KernelInv, SchedInv, SchedType, cur, PIDS
<1>2. << c >> \in Seq(PIDS) /\ << >> \in Seq(PIDS) /\ \A q \in PIDS : kids[q] \in Seq(PIDS)
  BY DEF KernelInv, TablesOK
<1>3. kids' \in [PIDS -> Seq(PIDS)]
  <2>1. \A q \in PIDS : << c >> \o kids[q] \in Seq(PIDS)
    BY <1>2
  <2> QED
    BY <1>2, <2>1 DEF NewProcess
<1>4. TablesOK'
  <2>1. parent' \in [PIDS -> 0..NProc] /\ waiting' \in [PIDS -> 0..NProc]
    BY <1>1 DEF KernelInv, TablesOK, NewProcess
  <2>2. msgq' \in [PIDS -> Seq(PIDS)]
    BY <1>2 DEF KernelInv, TablesOK, NewProcess
  <2>3. heap' \in Int
    BY DEF KernelInv, TablesOK, NewProcess
  <2>4. linking' \in 0..NProc
    BY <1>1 DEF KernelInv, TablesOK
  <2> QED
    BY <1>3, <2>1, <2>2, <2>3, <2>4 DEF TablesOK
<1>5. \A p \in PIDS : parent'[p] # p
  BY <1>1 DEF KernelInv, TablesOK, ShellIsRoot, NewProcess
<1>6. \A p \in PIDS : \A i \in 1..Len(kids'[p]) : kids'[p][i] # ShellPid
  <2> TAKE p \in PIDS
  <2> TAKE i \in 1..Len(kids'[p])
  <2>1. \A j \in 1..Len(kids[p]) : kids[p][j] # ShellPid
    BY DEF KernelInv, ShellIsRoot, KidsOf
  <2>2. CASE p = c
    BY <1>1, <2>2 DEF NewProcess
  <2>3. CASE p # c /\ p = f
    <3>1. kids'[p] = << c >> \o kids[p]
      BY <2>3 DEF NewProcess
    <3>2. i = 1 \/ (i - 1 \in 1..Len(kids[p]) /\ kids'[p][i] = kids[p][i - 1])
      BY <1>2, <3>1
    <3>3. i = 1 => kids'[p][i] = c
      BY <1>2, <3>1
    <3> QED
      BY <1>1, <2>1, <3>2, <3>3
  <2>4. CASE p # c /\ p # f
    BY <2>1, <2>4 DEF NewProcess
  <2> QED
    BY <2>2, <2>3, <2>4
<1>7. linking' # ShellPid
  BY <1>1 DEF KernelInv, ShellIsRoot
<1> QED
  BY <1>4, <1>5, <1>6, <1>7 DEF ShellIsRoot, KidsOf

\* A process c with parent f, who runs, or without parent.
LEMMA SpawnTree ==
  ASSUME KernelInv, TreeInv, CallInv, Creates, NEW c \in PIDS, c = peer[cur],
         NEW f \in {0, cur}, NewProcess(c, f),
         SameLives(process_new(sched, c), sched'),
         linking' = linking \/ (linking' = c /\ f = 0)
  PROVE  TreeInv' /\ LC!Spawn(c, f)
<1> DEFINE t == process_new(sched, c)
<1>1. /\ t.state = [sched.state EXCEPT ![c] = "ready"] /\ t.cur = sched.cur
      /\ t.ctx = [sched.ctx EXCEPT ![c] = "saved"]
  BY Types, StartLives
<1>2. SameLives(t, sched')
  OBVIOUS
<1> HIDE DEF t
<1>3. sched.state[c] = "free" /\ parent[c] = 0 /\ c # cur /\ c # f /\ KidsOf(c) = {}
  BY Chosen, Types
<1>4. sched.ctx \in [PIDS -> CtxKinds]
  BY Types DEF SchedType
<1>5. \A p \in PIDS :
        /\ sched'.state[p] = "free" <=> p # c /\ sched.state[p] = "free"
        /\ sched'.state[p] = "zombie" <=> p # c /\ sched.state[p] = "zombie"
  BY <1>1, <1>2, <1>4, Types, SMTT(30) DEF SameLives
<1>6. /\ parent' = [parent EXCEPT ![c] = f]
      /\ kids' = [q \in PIDS |-> IF q = c THEN << >>
                                 ELSE IF q = f THEN << c >> \o kids[q] ELSE kids[q]]
  BY DEF NewProcess
<1>7. ListsMatchParents'
  <2> SUFFICES ASSUME NEW p \in PIDS
               PROVE  Elems(kids'[p]) = {d \in PIDS : parent'[d] = p} /\ Distinct(kids'[p])
    BY DEF ListsMatchParents, KidsOf, Elems
  <2>1. Elems(kids[p]) = {d \in PIDS : parent[d] = p} /\ Distinct(kids[p])
    BY Types DEF TreeInv, ListsMatchParents
  <2>2. \A d \in PIDS : parent'[d] = IF d = c THEN f ELSE parent[d]
    BY <1>6, Types
  <2>3. CASE p = c
    <3>1. Elems(kids'[p]) = {} /\ Distinct(kids'[p])
      BY <1>6, <2>3 DEF Elems, Distinct
    <3>2. Elems(kids[p]) = {}
      BY <1>3, <2>3, Types
    <3> QED
      BY <1>3, <2>1, <2>2, <2>3, <3>1, <3>2
  <2>4. CASE p # c /\ p = f
    <3>1. kids'[p] = << c >> \o kids[p] /\ kids[p] \in Seq(PIDS) /\ c \notin Elems(kids[p])
      BY <1>3, <1>6, <2>1, <2>4, Types
    <3>2. Elems(kids'[p]) = {c} \cup Elems(kids[p]) /\ Distinct(kids'[p])
      BY <2>1, <3>1, PushElems
    <3> QED
      BY <2>1, <2>2, <2>4, <3>2
  <2>5. CASE p # c /\ p # f
    <3>1. kids'[p] = kids[p]
      BY <1>6, <2>5
    <3>2. {d \in PIDS : parent'[d] = p} = {d \in PIDS : parent[d] = p}
      BY <1>3, <2>2, <2>5, Types
    <3> QED
      BY <2>1, <3>1, <3>2
  <2> QED
    BY <2>3, <2>4, <2>5
<1>8. f # 0 => sched.state[f] \notin {"free", "zombie"}
  BY Chosen
<1>9. ParentsAlive'
  <2> SUFFICES ASSUME NEW d \in PIDS
               PROVE  /\ sched'.state[d] = "free" => parent'[d] = 0
                      /\ parent'[d] # 0 => sched'.state[parent'[d]] \notin {"free", "zombie"}
    BY DEF ParentsAlive
  <2>1. CASE d = c
    BY <1>3, <1>5, <1>6, <1>8, <2>1, Types
  <2>2. CASE d # c
    <3>1. parent'[d] = parent[d] /\ (parent[d] # 0 => parent[d] \in PIDS)
      BY <1>6, <2>2, Types
    <3> QED
      BY <1>5, <2>2, <3>1 DEF TreeInv, ParentsAlive
  <2> QED
    BY <2>1, <2>2
<1>10. LinkingIsOrphan'
  <2>1. CASE linking' = c /\ f = 0
    BY <1>5, <1>6, <2>1, Types DEF LinkingIsOrphan
  <2>2. CASE linking' = linking /\ linking # 0
    <3>1. linking \in PIDS /\ parent[linking] = 0 /\ sched.state[linking] # "free"
      BY <2>2, Types DEF TreeInv, LinkingIsOrphan
    <3> QED
      BY <1>3, <1>5, <1>6, <2>2, <3>1, Types DEF LinkingIsOrphan
  <2> QED
    BY <2>1, <2>2 DEF LinkingIsOrphan
<1>11. LC!Spawn(c, f)
  <2>1. \A p \in PIDS : Life(sched')[p] = IF p = c THEN "alive" ELSE Life(sched)[p]
    BY <1>3, <1>5, LifeIs
  <2>2. Life(sched') = [Life(sched) EXCEPT ![c] = "alive"]
    BY <2>1 DEF Life
  <2>3. Life(sched)[c] = "free"
    BY <1>3, LifeIs
  <2>4. f # 0 => Life(sched)[f] = "alive"
    BY <1>8, LifeIs, Types
  <2> QED
    BY <1>6, <2>2, <2>3, <2>4 DEF LC!Spawn, LC!LifePids, PIDS, Life
<1> QED
  BY <1>7, <1>9, <1>10, <1>11 DEF TreeInv

\* What both ways of creating a process do to the scheduler.
LEMMA Born ==
  ASSUME KernelInv, TreeInv, CallInv, Fork \/ ShellCreate, NEW c, c = peer[cur]
  PROVE  /\ Creates /\ SchedInv(sched') /\ Fresh(sched')
         /\ SameLives(process_new(sched, c), sched')
<1>1. Creates /\ (sched' = syscall_tail(process_new(sched, c)) \/ sched' = process_new(sched, c))
  BY DEF Fork, ShellCreate
<1>2. SchedInv(process_new(sched, c)) /\ Fresh(process_new(sched, c))
  BY <1>1, Chosen
<1> QED
  BY <1>1, <1>2, SyscallTailInv, SyscallTailLives, SameLivesRefl

LEMMA BornTree ==
  ASSUME KernelInv, TreeInv, CallInv, Fork \/ ShellCreate
  PROVE  KernelInv' /\ TreeInv' /\ LC!LifeNext
<1>1. PICK c \in PIDS : c = peer[cur] /\ sched.state[c] = "free"
  <2>1. Creates
    BY Born
  <2> QED
    BY <2>1, Chosen
<1>2. Creates /\ SchedInv(sched') /\ SameLives(process_new(sched, c), sched')
  BY <1>1, Born
<1>3. 0 \in 0..NProc /\ cur \in 0..NProc /\ c \in LC!LifePids
  BY Types, ProcessAssumption DEF LC!LifePids, PIDS
<1>4. CASE Fork
  <2>1. PICK f \in {0, cur} : f = cur
    OBVIOUS
  <2>2. NewProcess(c, f) /\ linking' = linking
    BY <1>1, <1>4, <2>1 DEF Fork, NewProcess
  <2>3. TablesOK' /\ ShellIsRoot'
    BY <1>1, <2>2, NewProcessTables
  <2>4. TreeInv' /\ LC!Spawn(c, f)
    BY <1>1, <1>2, <2>2, SpawnTree
  <2> QED
    BY <1>2, <1>3, <2>1, <2>3, <2>4 DEF KernelInv, LC!LifeNext
<1>5. CASE ShellCreate
  <2>1. NewProcess(c, 0) /\ linking' = c
    BY <1>1, <1>5 DEF ShellCreate
  <2>2. TablesOK' /\ ShellIsRoot'
    BY <1>1, <2>1, NewProcessTables
  <2>3. TreeInv' /\ LC!Spawn(c, 0)
    BY <1>1, <1>2, <2>1, SpawnTree
  <2> QED
    BY <1>2, <1>3, <2>2, <2>3 DEF KernelInv, LC!LifeNext
<1> QED
  BY <1>4, <1>5

\* A step that gives the same lives and parents.
LEMMA SameLife ==
  ASSUME NEW s, NEW t, SameLives(s, t) PROVE Life(t) = Life(s)
BY DEF SameLives, Life

LEMMA ShellLinkKernel == ASSUME KernelInv, ShellLink PROVE KernelInv'
<1>1. /\ linking \in PIDS /\ linking # ShellPid /\ ShellPid \in PIDS
      /\ ShellPid \in 0..NProc /\ 0 \in 0..NProc
  BY ProcessAssumption DEF KernelInv, TablesOK, ShellIsRoot, ShellLink, PIDS, ShellPid
<1>2. kids[ShellPid] \in Seq(PIDS) /\ << linking >> \in Seq(PIDS)
  BY <1>1 DEF KernelInv, TablesOK
<1>3. << linking >> \o kids[ShellPid] \in Seq(PIDS)
  BY <1>2
<1>4. /\ kids' = [kids EXCEPT ![ShellPid] = << linking >> \o kids[ShellPid]]
      /\ parent' = [parent EXCEPT ![linking] = ShellPid]
      /\ linking' = 0 /\ sched' = sched /\ heap' = heap
  BY DEF ShellLink, treeVars, mailVars
<1>5. msgq' \in [PIDS -> Seq(PIDS)] /\ waiting' \in [PIDS -> 0..NProc]
  <2>1. /\ msgq \in [PIDS -> Seq(PIDS)] /\ waiting \in [PIDS -> 0..NProc]
        /\ << >> \in Seq(PIDS)
    BY DEF KernelInv, TablesOK
  <2>2. CASE UNCHANGED << msgq, waiting >>
    BY <2>1, <2>2
  <2>3. CASE /\ msgq' = [msgq EXCEPT ![linking] = << >>]
             /\ waiting' = [waiting EXCEPT ![linking] = 0]
    BY <1>1, <2>1, <2>3
  <2> QED
    BY <2>2, <2>3 DEF ShellLink, mailVars
<1>6. TablesOK'
  BY <1>1, <1>3, <1>4, <1>5 DEF KernelInv, TablesOK
<1>7. \A p \in PIDS : \A i \in 1..Len(kids'[p]) : kids'[p][i] # ShellPid
  <2> TAKE p \in PIDS
  <2> TAKE i \in 1..Len(kids'[p])
  <2>1. \A j \in 1..Len(kids[p]) : kids[p][j] # ShellPid
    BY DEF KernelInv, ShellIsRoot, KidsOf
  <2>2. CASE p # ShellPid
    BY <1>4, <2>1, <2>2 DEF KernelInv, TablesOK
  <2>3. CASE p = ShellPid
    <3>1. kids'[p] = << linking >> \o kids[p]
      BY <1>1, <1>4, <2>3 DEF KernelInv, TablesOK
    <3>2. \/ i = 1 /\ kids'[p][i] = linking
          \/ i - 1 \in 1..Len(kids[p]) /\ kids'[p][i] = kids[p][i - 1]
      BY <1>2, <2>3, <3>1
    <3> QED
      BY <1>1, <2>1, <3>2
  <2> QED
    BY <2>2, <2>3
<1>8. \A p \in PIDS : parent'[p] # p
  BY <1>1, <1>4 DEF KernelInv, TablesOK, ShellIsRoot
<1>9. ShellIsRoot'
  BY <1>4, <1>7, <1>8 DEF ShellIsRoot, KidsOf, ShellPid
<1> QED
  BY <1>4, <1>6, <1>9 DEF KernelInv

LEMMA ShellLinkTree == ASSUME KernelInv, TreeInv, ShellLink PROVE TreeInv' /\ LC!LifeNext
<1>1. /\ linking \in PIDS /\ linking # ShellPid /\ parent[linking] = 0
      /\ sched.state[linking] # "free" /\ cur = ShellPid /\ linking \notin KidsOf(ShellPid)
  <2>1. linking \in PIDS /\ parent[linking] = 0 /\ sched.state[linking] # "free"
    BY Types DEF ShellLink, TreeInv, LinkingIsOrphan
  <2>2. linking # ShellPid /\ cur = ShellPid
    BY DEF KernelInv, ShellIsRoot, ShellLink
  <2> QED
    BY <2>1, <2>2, Types DEF TreeInv, ListsMatchParents
<1>2. /\ parent' = [parent EXCEPT ![linking] = ShellPid]
      /\ kids' = [kids EXCEPT ![ShellPid] = << linking >> \o kids[ShellPid]]
      /\ linking' = 0 /\ sched' = sched
  BY DEF ShellLink
<1>3. \A d \in PIDS : parent'[d] = IF d = linking THEN ShellPid ELSE parent[d]
  BY <1>1, <1>2, Types
<1>4. ListsMatchParents'
  <2> SUFFICES ASSUME NEW p \in PIDS
               PROVE  Elems(kids'[p]) = {d \in PIDS : parent'[d] = p} /\ Distinct(kids'[p])
    BY DEF ListsMatchParents, KidsOf, Elems
  <2>1. Elems(kids[p]) = {d \in PIDS : parent[d] = p} /\ Distinct(kids[p])
    BY Types DEF TreeInv, ListsMatchParents
  <2>2. CASE p = ShellPid
    <3>1. kids'[p] = << linking >> \o kids[p] /\ kids[p] \in Seq(PIDS) /\ linking \notin Elems(kids[p])
      BY <1>1, <1>2, <2>1, <2>2, Types
    <3>2. Elems(kids'[p]) = {linking} \cup Elems(kids[p]) /\ Distinct(kids'[p])
      BY <1>1, <2>1, <3>1, PushElems
    <3> QED
      BY <1>1, <1>3, <2>1, <2>2, <3>2
  <2>3. CASE p # ShellPid
    <3>1. kids'[p] = kids[p]
      BY <1>2, <2>3, Types
    <3>2. {d \in PIDS : parent'[d] = p} = {d \in PIDS : parent[d] = p}
      BY <1>1, <1>3, <2>3, Types
    <3> QED
      BY <2>1, <3>1, <3>2
  <2> QED
    BY <2>2, <2>3
<1>5. ParentsAlive'
  BY <1>1, <1>2, <1>3, Types DEF TreeInv, ParentsAlive
<1>6. LinkingIsOrphan'
  BY <1>2 DEF LinkingIsOrphan
<1>7. LC!Adopt(linking)
  <2>1. Life(sched)[linking] # "free" /\ Life(sched') = Life(sched)
    BY <1>1, <1>2, LifeIs
  <2> QED
    BY <1>1, <1>2, <2>1 DEF LC!Adopt, LC!LifePids, LC!InitPid, PIDS, Life, ShellPid
<1>8. LC!LifeNext
  <2>1. PICK d \in LC!LifePids : d = linking
    BY <1>1 DEF LC!LifePids, PIDS
  <2>2. LC!Adopt(d)
    BY <1>7, <2>1 DEF LC!Adopt
  <2> QED
    BY <2>2 DEF LC!LifeNext
<1> QED
  BY <1>4, <1>5, <1>6, <1>8 DEF TreeInv

\* The first part of exit hands the children to init.
LEMMA ReparentTree ==
  ASSUME KernelInv, TreeInv, CallInv, ExitReparent
  PROVE  KernelInv' /\ TreeInv' /\ LC!LifeNext
<1>1. /\ SchedInv(sched) /\ cur \in PIDS /\ ShellPid \in PIDS /\ ShellPid \in 0..NProc
      /\ 0 \notin PIDS /\ cur # ShellPid
      /\ sched.state[cur] \notin {"zombie", "ready", "free"}
      /\ sched.state[ShellPid] \notin {"zombie", "free"}
  BY Types, Awake DEF ExitReparent
<1>2. /\ sched' = sched /\ heap' = heap /\ linking' = linking
      /\ msgq' = msgq /\ waiting' = waiting
      /\ parent' = [q \in PIDS |-> IF q \in KidsOf(cur) THEN ShellPid ELSE parent[q]]
      /\ kids' = [kids EXCEPT ![ShellPid] = Reverse(kids[cur]) \o kids[ShellPid], ![cur] = << >>]
  BY DEF ExitReparent, mailVars
<1>3. \A d \in PIDS : /\ d \in KidsOf(cur) <=> parent[d] = cur
                      /\ parent'[d] = IF parent[d] = cur THEN ShellPid ELSE parent[d]
  BY <1>1, <1>2 DEF TreeInv, ListsMatchParents
<1>4. ASSUME NEW p \in PIDS
      PROVE  /\ kids[p] \in Seq(PIDS) /\ Distinct(kids[p])
             /\ Elems(kids[p]) = {d \in PIDS : parent[d] = p}
             /\ ShellPid \notin Elems(kids[p])
  BY Types DEF TreeInv, ListsMatchParents, KernelInv, ShellIsRoot
<1> DEFINE k == Reverse(kids[cur]) \o kids[ShellPid]
<1>5. /\ k \in Seq(PIDS) /\ Distinct(k) /\ Elems(k) = Elems(kids[cur]) \cup Elems(kids[ShellPid])
  <2>1. /\ Reverse(kids[cur]) \in Seq(PIDS) /\ Distinct(Reverse(kids[cur]))
        /\ Elems(Reverse(kids[cur])) = Elems(kids[cur])
    BY <1>1, <1>4, ReverseElems, ReverseType
  <2>2. Elems(kids[cur]) \cap Elems(kids[ShellPid]) = {}
    BY <1>1, <1>4
  <2>3. kids[ShellPid] \in Seq(PIDS) /\ Distinct(kids[ShellPid])
    BY <1>1, <1>4
  <2> QED
    BY <2>1, <2>2, <2>3, JoinElems
<1>6. kids' = [kids EXCEPT ![ShellPid] = k, ![cur] = << >>]
  BY <1>2
<1> HIDE DEF k
<1>7. /\ kids'[cur] = << >> /\ kids'[ShellPid] = k
      /\ \A p \in PIDS : p # cur /\ p # ShellPid => kids'[p] = kids[p]
      /\ kids' \in [PIDS -> Seq(PIDS)]
  <2>1. << >> \in Seq(PIDS)
    OBVIOUS
  <2> QED
    BY <1>1, <1>5, <1>6, <2>1, Types
<1>8. ListsMatchParents'
  <2> SUFFICES ASSUME NEW p \in PIDS
               PROVE  Elems(kids'[p]) = {d \in PIDS : parent'[d] = p} /\ Distinct(kids'[p])
    BY DEF ListsMatchParents, KidsOf, Elems
  <2>1. CASE p = cur
    <3>1. Elems(kids'[p]) = {} /\ Distinct(kids'[p])
      BY <1>7, <2>1 DEF Elems, Distinct
    <3> QED
      BY <1>1, <1>3, <2>1, <3>1
  <2>2. CASE p = ShellPid
    BY <1>1, <1>3, <1>4, <1>5, <1>7, <2>2
  <2>3. CASE p # cur /\ p # ShellPid
    <3>1. {d \in PIDS : parent'[d] = p} = {d \in PIDS : parent[d] = p}
      BY <1>3, <2>3
    <3> QED
      BY <1>4, <1>7, <2>3, <3>1
  <2> QED
    BY <2>1, <2>2, <2>3
<1>9. ParentsAlive' /\ LinkingIsOrphan'
  BY <1>1, <1>2, <1>3, Types DEF TreeInv, ParentsAlive, LinkingIsOrphan
<1>10. ShellIsRoot'
  <2>1. \A p \in PIDS : parent'[p] # p
    BY <1>1, <1>3, <1>4, Types DEF KernelInv, ShellIsRoot
  <2>2. \A p \in PIDS : ShellPid \notin Elems(kids'[p])
    <3>1. Elems(<< >>) = {}
      BY DEF Elems
    <3>2. ShellPid \notin Elems(k)
      BY <1>1, <1>4, <1>5
    <3> QED
      BY <1>4, <1>7, <3>1, <3>2
  <2> QED
    BY <1>2, <2>1, <2>2 DEF KernelInv, ShellIsRoot, KidsOf, Elems
<1>11. TablesOK'
  BY <1>1, <1>2, <1>7 DEF KernelInv, TablesOK
<1>12. LC!HandOver(cur)
  <2>1. parent' = [q \in PIDS |-> IF parent[q] = cur THEN ShellPid ELSE parent[q]]
    BY <1>2, <1>3
  <2>2. Life(sched)[cur] = "alive" /\ Life(sched') = Life(sched)
    BY <1>1, <1>2, LifeIs
  <2> QED
    BY <1>1, <2>1, <2>2 DEF LC!HandOver, LC!LifePids, LC!InitPid, PIDS, Life, ShellPid
<1>13. LC!LifeNext
  <2>1. PICK d \in LC!LifePids : d = cur
    BY <1>1 DEF LC!LifePids, PIDS
  <2>2. LC!HandOver(d)
    BY <1>12, <2>1 DEF LC!HandOver
  <2> QED
    BY <2>2 DEF LC!LifeNext
<1> QED
  BY <1>1, <1>2, <1>8, <1>9, <1>10, <1>11, <1>13 DEF KernelInv, TreeInv

\* The scheduler's part of becoming a zombie.
LEMMA MarkLives ==
  ASSUME KernelInv, CallInv, ExitMark
  PROVE  /\ SchedInv(sched') /\ Fresh(sched') /\ cur \in PIDS /\ sched'.cur = cur
         /\ sched'.ctx = sched.ctx
         /\ cur # ShellPid /\ sched.state[cur] \notin {"zombie", "ready", "free"}
         /\ \A q \in PIDS : sched'.state[q] = IF q = cur THEN "zombie" ELSE sched.state[q]
<1>1. /\ SchedInv(sched) /\ sched \in SchedType /\ cur \in PIDS /\ cur = sched.cur
      /\ at[cur] = "mark"
  BY Types DEF ExitMark, In
<1>2. /\ cur # ShellPid /\ sched.state[cur] \notin {"zombie", "ready", "free"}
      /\ Fresh(sched)
  BY <1>1, Awake, FreshNow DEF CallInv, PlaceOK
<1> DEFINE z == [sched EXCEPT !.state[cur] = "zombie"]
<1>3. [sched.state EXCEPT ![cur] = "zombie"] \in [PIDS -> ProcStates]
  BY <1>1 DEF SchedType, ProcStates
<1>4. /\ z \in SchedType /\ z.cur = cur /\ z.ready = sched.ready /\ z.ctx = sched.ctx
      /\ z.state = [sched.state EXCEPT ![cur] = "zombie"]
  BY <1>1, <1>3 DEF SchedType
<1>5. sched' = z
  BY DEF ExitMark
<1> HIDE DEF z
<1>6. SchedInv(z)
  <2>1. "zombie" \in ProcStates
    BY DEF ProcStates
  <2> QED
    BY <1>1, <1>2, <1>4, <2>1, OtherStateInv
<1>7. Fresh(z)
  BY <1>1, <1>2, <1>4 DEF Fresh
<1> QED
  BY <1>1, <1>2, <1>4, <1>5, <1>6, <1>7, Types

LEMMA MarkTree ==
  ASSUME KernelInv, TreeInv, CallInv, ExitMark
  PROVE  KernelInv' /\ TreeInv' /\ LC!LifeNext
<1>1. /\ SchedInv(sched') /\ cur \in PIDS /\ cur # ShellPid
      /\ sched.state[cur] \notin {"zombie", "ready", "free"}
      /\ \A q \in PIDS : sched'.state[q] = IF q = cur THEN "zombie" ELSE sched.state[q]
  BY MarkLives
<1>2. UNCHANGED << parent, kids, msgq, waiting, heap, linking >>
  BY DEF ExitMark, treeVars, mailVars
<1>3. KernelInv'
  BY <1>1, <1>2 DEF KernelInv, TablesOK, ShellIsRoot, KidsOf, ShellPid
<1>4. \A q \in PIDS : parent[q] # cur
  <2>1. kids[cur] = << >>
    BY <1>1 DEF ExitMark, In, CallInv, PlaceOK
  <2>2. KidsOf(cur) = {}
    BY <2>1 DEF KidsOf
  <2> QED
    BY <1>1, <2>2 DEF TreeInv, ListsMatchParents
<1>5. ListsMatchParents'
  BY <1>2 DEF TreeInv, ListsMatchParents, KidsOf
<1>6. ParentsAlive' /\ LinkingIsOrphan'
  BY <1>1, <1>2, <1>4, Types DEF TreeInv, ParentsAlive, LinkingIsOrphan
<1>7. LC!Die(cur)
  <2>1. \A p \in PIDS : Life(sched')[p] = IF p = cur THEN "zombie" ELSE Life(sched)[p]
    BY <1>1, LifeIs
  <2>2. Life(sched') = [Life(sched) EXCEPT ![cur] = "zombie"]
    BY <2>1 DEF Life
  <2>3. Life(sched)[cur] = "alive"
    BY <1>1, LifeIs
  <2> QED
    BY <1>1, <1>2, <1>4, <2>2, <2>3 DEF LC!Die, LC!LifePids, LC!InitPid, PIDS, Life, ShellPid
<1>8. LC!LifeNext
  <2>1. PICK d \in LC!LifePids : d = cur
    BY <1>1 DEF LC!LifePids, PIDS
  <2>2. LC!Die(d)
    BY <1>7, <2>1 DEF LC!Die
  <2> QED
    BY <2>2 DEF LC!LifeNext
<1> QED
  BY <1>3, <1>5, <1>6, <1>8 DEF TreeInv

LEMMA ReapKernel == ASSUME KernelInv, WaitReap PROVE KernelInv'
<1>1. PICK c \in KidsOf(cur) :
        /\ FirstZombie(c)
        /\ kids' = [kids EXCEPT ![cur] = Without(@, c)]
        /\ parent' = [parent EXCEPT ![c] = 0]
        /\ msgq' = [msgq EXCEPT ![c] = << >>]
        /\ waiting' = [waiting EXCEPT ![c] = 0]
        /\ sched' = syscall_tail(process_free(sched, c))
  BY DEF WaitReap
<1>2. /\ cur \in PIDS /\ sched.state[cur] # "zombie" /\ 0 \in 0..NProc
      /\ kids \in [PIDS -> Seq(PIDS)] /\ kids[cur] \in Seq(PIDS) /\ << >> \in Seq(PIDS)
  BY ProcessAssumption
     DEF KernelInv, SchedInv, SchedType, TablesOK, WaitReap, Runs, cur
<1>3. c \in PIDS
  BY <1>2 DEF KidsOf
<1>4. sched.state[c] = "zombie" /\ c # cur
  BY <1>1, <1>2 DEF FirstZombie
<1>5. SchedInv(sched')
  <2>1. SchedInv(process_free(sched, c))
    BY <1>3, <1>4, FreeInv DEF KernelInv, cur
  <2> QED
    BY <1>1, <2>1, SyscallTailInv
<1> DEFINE k == Without(kids[cur], c)
<1>6. k \in Seq(PIDS) /\ \A i \in 1..Len(k) : \E j \in 1..Len(kids[cur]) : k[i] = kids[cur][j]
  BY <1>2, WithoutType
<1>7. kids' = [kids EXCEPT ![cur] = k]
  BY <1>1
<1> HIDE DEF k
<1>8. kids' \in [PIDS -> Seq(PIDS)]
  BY <1>2, <1>6, <1>7
<1>9. TablesOK'
  <2>1. /\ parent' \in [PIDS -> 0..NProc] /\ waiting' \in [PIDS -> 0..NProc]
        /\ msgq' \in [PIDS -> Seq(PIDS)]
    BY <1>1, <1>2, <1>3 DEF KernelInv, TablesOK
  <2>2. heap' \in Int /\ linking' \in 0..NProc
    BY DEF KernelInv, TablesOK, WaitReap
  <2> QED
    BY <1>8, <2>1, <2>2 DEF TablesOK
<1>10. \A p \in PIDS : parent'[p] # p
  BY <1>1, <1>3 DEF KernelInv, TablesOK, ShellIsRoot, PIDS
<1>11. \A p \in PIDS : \A i \in 1..Len(kids'[p]) : kids'[p][i] # ShellPid
  <2> TAKE p \in PIDS
  <2> TAKE i \in 1..Len(kids'[p])
  <2>1. \A j \in 1..Len(kids[p]) : kids[p][j] # ShellPid
    BY DEF KernelInv, ShellIsRoot, KidsOf
  <2>2. CASE p = cur
    BY <1>2, <1>6, <1>7, <2>1, <2>2
  <2>3. CASE p # cur
    BY <1>2, <1>7, <2>1, <2>3
  <2> QED
    BY <2>2, <2>3
<1>12. ShellIsRoot'
  BY <1>10, <1>11 DEF KernelInv, ShellIsRoot, KidsOf, WaitReap
<1> QED
  BY <1>5, <1>9, <1>12 DEF KernelInv

\* The scheduler's part of reaping c.
LEMMA ReapLives ==
  ASSUME KernelInv, TreeInv, CallInv, Runs, NEW c \in KidsOf(cur), FirstZombie(c),
         sched' = syscall_tail(process_free(sched, c))
  PROVE  /\ Fresh(sched')
         /\ \A q \in PIDS :
              /\ sched'.state[q] = "free" <=> q = c \/ sched.state[q] = "free"
              /\ sched'.state[q] = "zombie" <=> q # c /\ sched.state[q] = "zombie"
              /\ sched'.state[q] = "blocked" => sched.state[q] = "blocked" \/ q = cur
              /\ sched'.ctx[q] = "wait" => sched.ctx[q] = "wait"
<1>1. /\ cur \in PIDS /\ c \in PIDS /\ 0 \notin PIDS /\ c \in Elems(kids[cur])
      /\ parent[c] = cur /\ sched.state[c] = "zombie" /\ c # cur
      /\ sched.state[cur] \notin {"zombie", "free"}
  <2>1. cur \in PIDS /\ c \in PIDS /\ 0 \notin PIDS /\ c \in Elems(kids[cur])
    BY Types
  <2>2. parent[c] = cur
    BY <2>1 DEF TreeInv, ListsMatchParents
  <2>3. sched.state[c] = "zombie"
    BY DEF FirstZombie
  <2>4. sched.state[cur] \notin {"zombie", "free"}
    BY Types DEF Runs
  <2> QED
    BY <2>1, <2>2, <2>3, <2>4
<1> DEFINE r == process_free(sched, c)
<1>2. SchedInv(r)
  BY <1>1, FreeInv, Types
<1>3. /\ r.state = [sched.state EXCEPT ![c] = "free"] /\ r.cur = cur
      /\ r.ctx = [sched.ctx EXCEPT ![c] = "stale"]
  BY Types DEF process_free, SchedType
<1>4. sched' = syscall_tail(r)
  OBVIOUS
<1> HIDE DEF r
<1>5. Fresh(sched) /\ sched.ctx \in [PIDS -> CtxKinds]
  BY Types, FreshNow DEF SchedType, Runs
<1>6. Fresh(r)
  BY <1>1, <1>3, <1>5, Types DEF Fresh
<1>7. SameLives(r, sched') /\ Fresh(sched')
  BY <1>2, <1>4, <1>6, SyscallTailLives
<1>8. ASSUME NEW q \in PIDS
      PROVE  /\ sched'.state[q] = "free" <=> r.state[q] = "free"
             /\ sched'.state[q] = "zombie" <=> r.state[q] = "zombie"
             /\ sched'.state[q] = "blocked" => r.state[q] = "blocked" \/ q = cur
             /\ sched'.ctx[q] = "wait" => r.ctx[q] = "wait"
  BY <1>7 DEF SameLives, Searched, Runs
<1>9. ASSUME NEW q \in PIDS
      PROVE  /\ r.state[q] = IF q = c THEN "free" ELSE sched.state[q]
             /\ r.ctx[q] = IF q = c THEN "stale" ELSE sched.ctx[q]
  BY <1>1, <1>3, <1>5, Types
<1> QED
  BY <1>7, <1>8, <1>9

LEMMA WaitReapTree == ASSUME KernelInv, TreeInv, CallInv, WaitReap PROVE TreeInv' /\ LC!LifeNext
<1>1. PICK c \in KidsOf(cur) :
        /\ FirstZombie(c)
        /\ kids' = [kids EXCEPT ![cur] = Without(kids[cur], c)]
        /\ parent' = [parent EXCEPT ![c] = 0]
        /\ sched' = syscall_tail(process_free(sched, c))
  BY DEF WaitReap
<1>2. /\ cur \in PIDS /\ c \in PIDS /\ 0 \notin PIDS /\ c \in Elems(kids[cur])
      /\ parent[c] = cur /\ sched.state[c] = "zombie" /\ c # cur
      /\ sched.state[cur] \notin {"zombie", "free"} /\ linking' = linking
  <2>1. cur \in PIDS /\ c \in PIDS /\ 0 \notin PIDS /\ c \in Elems(kids[cur])
    BY Types
  <2>2. parent[c] = cur
    BY <2>1 DEF TreeInv, ListsMatchParents
  <2>3. sched.state[c] = "zombie"
    BY <1>1 DEF FirstZombie
  <2>4. sched.state[cur] \notin {"zombie", "free"} /\ linking' = linking
    BY Types DEF WaitReap, Runs
  <2> QED
    BY <2>1, <2>2, <2>3, <2>4
<1>3. \A q \in PIDS :
        /\ sched'.state[q] = "free" <=> q = c \/ sched.state[q] = "free"
        /\ sched'.state[q] = "zombie" <=> q # c /\ sched.state[q] = "zombie"
  BY <1>1, ReapLives DEF WaitReap
<1>4. \A d \in PIDS : parent'[d] = IF d = c THEN 0 ELSE parent[d]
  BY <1>1, Types
<1>5. ListsMatchParents'
  <2> SUFFICES ASSUME NEW p \in PIDS
               PROVE  Elems(kids'[p]) = {d \in PIDS : parent'[d] = p} /\ Distinct(kids'[p])
    BY DEF ListsMatchParents, KidsOf, Elems
  <2>1. /\ Elems(kids[p]) = {d \in PIDS : parent[d] = p}
        /\ Distinct(kids[p]) /\ kids[p] \in Seq(PIDS)
    BY Types DEF TreeInv, ListsMatchParents
  <2>2. CASE p = cur
    <3>1. kids'[p] = Without(kids[p], c)
      BY <1>1, <1>2, <2>2, Types
    <3>2. Elems(kids'[p]) = Elems(kids[p]) \ {c} /\ Distinct(kids'[p])
      BY <1>2, <2>1, <2>2, <3>1, WithoutElems
    <3> QED
      BY <1>2, <1>4, <2>1, <2>2, <3>2
  <2>3. CASE p # cur
    <3>1. kids'[p] = kids[p]
      BY <1>1, <2>3, Types
    <3>2. {d \in PIDS : parent'[d] = p} = {d \in PIDS : parent[d] = p}
      BY <1>2, <1>4, <2>3
    <3> QED
      BY <2>1, <3>1, <3>2
  <2> QED
    BY <2>2, <2>3
<1>6. ParentsAlive'
  <2> SUFFICES ASSUME NEW d \in PIDS
               PROVE  /\ sched'.state[d] = "free" => parent'[d] = 0
                      /\ parent'[d] # 0 => sched'.state[parent'[d]] \notin {"free", "zombie"}
    BY DEF ParentsAlive
  <2>1. /\ sched.state[d] = "free" => parent[d] = 0
        /\ parent[d] # 0 => parent[d] \in PIDS /\ sched.state[parent[d]] \notin {"free", "zombie"}
    BY Types DEF TreeInv, ParentsAlive
  <2> QED
    BY <1>2, <1>3, <1>4, <2>1
<1>7. LinkingIsOrphan'
  BY <1>2, <1>3, <1>4, Types DEF TreeInv, LinkingIsOrphan
<1>8. LC!Reap(c)
  <2>1. \A p \in PIDS : Life(sched')[p] = IF p = c THEN "free" ELSE Life(sched)[p]
    BY <1>2, <1>3, LifeIs
  <2>2. Life(sched') = [Life(sched) EXCEPT ![c] = "free"]
    BY <2>1 DEF Life
  <2>3. Life(sched)[c] = "zombie" /\ Life(sched)[parent[c]] = "alive" /\ parent[c] # 0
    BY <1>2, LifeIs
  <2> QED
    BY <1>1, <2>2, <2>3 DEF LC!Reap, LC!LifePids, PIDS, Life
<1>9. c \in LC!LifePids
  BY <1>2 DEF LC!LifePids, PIDS
<1> QED
  BY <1>5, <1>6, <1>7, <1>8, <1>9 DEF TreeInv, LC!LifeNext

----------------------------------------------------------------------------
(***************************************************************************)
(* The places in calls.                                                    *)
(***************************************************************************)
\* The current process may go to the place with q in hand.
Allowed(place, q) ==
  /\ place = "create" => q # 0
  /\ place \in {"send", "wake"} /\ q # 0 => sched.state[q] # "free" /\ q # cur
  /\ place \in {"adopt", "mark", "exit"} => cur # ShellPid /\ kids[cur] = << >>
  /\ place # "exit"
  /\ place # "user" => sched.state[cur] # "zombie"

LEMMA GoToIs ==
  ASSUME KernelInv, CallInv, NEW place \in Places, NEW q \in 0..NProc, GoTo(place, q)
  PROVE  /\ at' \in [PIDS -> Places] /\ peer' \in [PIDS -> 0..NProc]
         /\ at'[cur] = place /\ peer'[cur] = q
         /\ \A p \in PIDS : p # cur => at'[p] = at[p] /\ peer'[p] = peer[p]
BY Types DEF GoTo, CallInv

LEMMA LeaveIs ==
  ASSUME KernelInv, CallInv, Leave
  PROVE  /\ at' \in [PIDS -> Places] /\ peer' \in [PIDS -> 0..NProc]
         /\ at'[cur] = "user" /\ peer'[cur] = 0
         /\ \A p \in PIDS : p # cur => at'[p] = at[p] /\ peer'[p] = peer[p]
<1>1. "user" \in Places /\ 0 \in 0..NProc
  BY ProcessAssumption DEF Places
<1> QED
  BY <1>1, GoToIs DEF Leave

\* A calm step in which the current process goes to an allowed place.
LEMMA CallGoes ==
  ASSUME KernelInv, CallInv, Calm, NEW place \in Places, NEW q \in 0..NProc,
         GoTo(place, q), Allowed(place, q)
  PROVE  CallInv'
<1>1. /\ at' \in [PIDS -> Places] /\ peer' \in [PIDS -> 0..NProc]
      /\ at'[cur] = place /\ peer'[cur] = q
      /\ \A p \in PIDS : p # cur => at'[p] = at[p] /\ peer'[p] = peer[p]
  BY GoToIs
<1>2. kids' = kids /\ SameLives(sched, sched') /\ Settled
  BY DEF Calm
<1>3. ASSUME NEW p \in PIDS PROVE PlaceOK(p)'
  <2>1. \A x \in PIDS : /\ sched'.state[x] = "free" <=> sched.state[x] = "free"
                        /\ sched'.state[x] = "zombie" <=> sched.state[x] = "zombie"
    BY <1>2 DEF SameLives
  <2>2. \A x \in 0..NProc : x # 0 => x \in PIDS
    BY ProcessAssumption DEF PIDS
  <2>3. CASE p = cur
    <3>1. sched.state[cur] # "free"
      BY Types
    <3> QED
      BY <1>1, <1>2, <2>1, <2>2, <2>3, <3>1 DEF PlaceOK, Allowed
  <2>4. CASE p # cur
    <3>1. PlaceOK(p) /\ peer[p] \in 0..NProc
      BY DEF CallInv
    <3> QED
      BY <1>1, <1>2, <2>1, <2>2, <2>4, <3>1 DEF PlaceOK
  <2> QED
    BY <2>3, <2>4
<1>4. Fresh(sched)' \/ at'[sched'.cur] = "block"
  BY <1>2 DEF Settled, Fresh
<1> QED
  BY <1>1, <1>3, <1>4 DEF CallInv, cur

LEMMA CallLeaves ==
  ASSUME KernelInv, CallInv, Calm, Leave
  PROVE  CallInv'
<1>1. "user" \in Places /\ 0 \in 0..NProc
  BY ProcessAssumption DEF Places
<1> QED
  BY <1>1, CallGoes DEF Leave, Allowed

LEMMA CallStays ==
  ASSUME KernelInv, CallInv, Calm, UNCHANGED << at, peer >>,
         at[cur] = "exit" => sched'.cur = cur
  PROVE  CallInv'
<1>1. kids' = kids /\ SameLives(sched, sched') /\ Settled
  BY DEF Calm
<1>2. ASSUME NEW p \in PIDS PROVE PlaceOK(p)'
  <2>1. \A x \in PIDS : /\ sched'.state[x] = "free" <=> sched.state[x] = "free"
                        /\ sched'.state[x] = "zombie" <=> sched.state[x] = "zombie"
    BY <1>1 DEF SameLives
  <2>2. \A x \in 0..NProc : x # 0 => x \in PIDS
    BY ProcessAssumption DEF PIDS
  <2>3. PlaceOK(p) /\ peer[p] \in 0..NProc
    BY DEF CallInv
  <2> QED
    BY <1>1, <2>1, <2>2, <2>3 DEF PlaceOK, cur
<1>3. Fresh(sched)' \/ at'[sched'.cur] = "block"
  BY <1>1 DEF Settled, Fresh
<1> QED
  BY <1>2, <1>3 DEF CallInv, cur

LEMMA CalmCalls ==
  ASSUME SelfSend = FALSE, KernelInv, CallInv, CalmStep
  PROVE  CallInv'
<1>1. Calm
  BY StepsAreCalm
<1>2. /\ cur \in PIDS /\ PlaceOK(cur) /\ 0 \in 0..NProc /\ PIDS \subseteq 0..NProc
      /\ 0 \notin PIDS /\ peer[cur] \in 0..NProc
      /\ {"create", "search", "block", "send", "wake", "recv", "adopt", "mark"} \subseteq Places
  BY Types, ProcessAssumption DEF CallInv, Places
<1>3. CASE Timer
  <2>1. CASE Leave
    BY <1>1, <2>1, CallLeaves
  <2>2. CASE UNCHANGED << at, peer >> /\ (sched'.cur = cur \/ sched.state[cur] = "running")
    <3>1. at[cur] = "exit" => sched'.cur = cur
      BY <1>2, <2>2 DEF PlaceOK
    <3> QED
      BY <1>1, <2>2, <3>1, CallStays
  <2> QED
    BY <1>3, <2>1, <2>2 DEF Timer
<1>4. CASE PlainSyscall \/ Exec \/ WaitNoChild
  <2>1. UNCHANGED << at, peer >> /\ at[cur] = "user"
    BY <1>4 DEF PlainSyscall, Exec, WaitNoChild, Runs, callVars
  <2> QED
    BY <1>1, <2>1, CallStays
<1>5. CASE CreateFails \/ ExitWake
  BY <1>1, <1>5, CallLeaves DEF CreateFails, ExitWake
<1>6. CASE ChoosePid
  <2>1. PICK c \in PIDS : GoTo("create", c)
    BY <1>6 DEF ChoosePid, Enter
  <2>2. sched.state[cur] # "zombie"
    BY <1>6 DEF ChoosePid, Runs
  <2>3. Allowed("create", c) /\ c \in 0..NProc
    BY <1>2, <2>2 DEF Allowed
  <2> QED
    BY <1>1, <1>2, <2>1, <2>3, CallGoes
<1>7. CASE ExitAdopt
  <2>1. GoTo("mark", 0) /\ at[cur] = "adopt"
    BY <1>7 DEF ExitAdopt, In
  <2>2. Allowed("mark", 0)
    BY <1>2, <2>1, Awake DEF Allowed, PlaceOK
  <2> QED
    BY <1>1, <1>2, <2>1, <2>2, CallGoes
<1>8. CASE WaitSearch
  <2>1. GoTo("search", 0) /\ sched.state[cur] # "zombie"
    BY <1>8 DEF WaitSearch, Enter, Runs
  <2>2. Allowed("search", 0)
    BY <2>1 DEF Allowed
  <2> QED
    BY <1>1, <1>2, <2>1, <2>2, CallGoes
<1>9. CASE WaitSave
  <2>1. GoTo("block", 0) /\ at[cur] = "search"
    BY <1>9 DEF WaitSave, In
  <2>2. Allowed("block", 0)
    BY <2>1, Awake DEF Allowed
  <2> QED
    BY <1>1, <1>2, <2>1, <2>2, CallGoes
<1>10. CASE WaitBlock
  <2>1. at[cur] = "block" /\ (Leave \/ UNCHANGED << at, peer >>)
    BY <1>10 DEF WaitBlock, In
  <2> QED
    BY <1>1, <2>1, CallLeaves, CallStays
<1>11. ASSUME NEW t \in PIDS, SendLook(t) PROVE CallInv'
  <2>1. /\ GoTo("wake", t) \/ GoTo("send", t)
        /\ t \in Live /\ t # cur /\ sched.state[cur] # "zombie"
    BY <1>11 DEF SendLook, Enter, MaySend, Runs
  <2>2. Allowed("wake", t) /\ Allowed("send", t) /\ t \in 0..NProc
    BY <1>2, <2>1 DEF Allowed, Live
  <2> QED
    BY <1>1, <1>2, <2>1, <2>2, CallGoes
<1>12. CASE Messages
  <2>1. \/ Leave
        \/ \E q \in 0..NProc : GoTo("recv", q) /\ sched.state[cur] # "zombie"
    <3>1. PICK via \in BOOLEAN :
            \/ IpcSend(via) \/ CallReceives(via) \/ RecvBlock(via)
            \/ \E from \in Froms : IpcRecv(from, via) \/ IpcRecvNonblock(from, via)
      BY <1>12 DEF Messages
    <3>2. CASE IpcSend(via) \/ RecvBlock(via)
      BY <3>2 DEF IpcSend, RecvBlock, Return
    <3>3. CASE CallReceives(via)
      <4>1. Leave \/ GoTo("recv", peer[cur])
        BY <3>3 DEF CallReceives, Return
      <4>2. at[cur] \notin {"user", "exit"}
        BY <3>3 DEF CallReceives, Sends, In
      <4> QED
        BY <1>2, <4>1, <4>2, Awake
    <3>4. ASSUME NEW from \in Froms, IpcRecv(from, via) \/ IpcRecvNonblock(from, via)
          PROVE  Leave \/ (GoTo("recv", from) /\ sched.state[cur] # "zombie")
      BY <3>4 DEF IpcRecv, IpcRecvNonblock, Return, Enter, Runs
    <3> QED
      BY <3>1, <3>2, <3>3, <3>4, KernelAssumption
  <2>2. CASE Leave
    BY <1>1, <2>2, CallLeaves
  <2>3. ASSUME NEW q \in 0..NProc, GoTo("recv", q), sched.state[cur] # "zombie"
        PROVE  CallInv'
    <3>1. Allowed("recv", q)
      BY <2>3 DEF Allowed
    <3> QED
      BY <1>1, <1>2, <2>3, <3>1, CallGoes
  <2> QED
    BY <2>1, <2>2, <2>3
<1> QED
  BY <1>3, <1>4, <1>5, <1>6, <1>7, <1>8, <1>9, <1>10, <1>11, <1>12 DEF CalmStep


\* Steps that change the tree and leave no process but the current one, and a
\* new process c, in another place.
LEMMA BornCalls ==
  ASSUME KernelInv, TreeInv, CallInv, Fork \/ ShellCreate
  PROVE  CallInv'
<1>1. PICK c \in PIDS : c = peer[cur]
  <2>1. Creates
    BY Born
  <2> QED
    BY <2>1, Chosen
<1>2. /\ Creates /\ Fresh(sched') /\ SameLives(process_new(sched, c), sched')
      /\ sched.state[c] = "free" /\ at[cur] = "create" /\ c # cur
  BY <1>1, Born, Chosen DEF Creates, In
<1>3. \A p \in PIDS :
        /\ sched'.state[p] = "free" <=> p # c /\ sched.state[p] = "free"
        /\ sched'.state[p] = "zombie" <=> p # c /\ sched.state[p] = "zombie"
  <2>1. process_new(sched, c).state = [sched.state EXCEPT ![c] = "ready"]
    BY Types, StartLives
  <2> QED
    BY <1>2, <2>1, Types DEF SameLives
<1>4. /\ at' \in [PIDS -> Places] /\ peer' \in [PIDS -> 0..NProc]
      /\ at'[cur] = "user" /\ peer'[cur] = 0
      /\ \A p \in PIDS : p # cur => at'[p] = at[p] /\ peer'[p] = peer[p]
  <2>1. Leave
    BY DEF Fork, ShellCreate
  <2> QED
    BY <2>1, LeaveIs
<1>5. \A p \in PIDS : p # c /\ p # cur => kids'[p] = kids[p]
  BY <1>1, Types DEF Fork, ShellCreate, NewProcess
<1>6. ASSUME NEW p \in PIDS PROVE PlaceOK(p)'
  <2>1. PlaceOK(p) /\ peer[p] \in 0..NProc /\ \A x \in 0..NProc : x # 0 => x \in PIDS
    BY DEF CallInv, PIDS
  <2>2. CASE p = c
    <3>1. at'[p] = "user" /\ sched'.state[p] \notin {"free", "zombie"}
      BY <1>2, <1>3, <1>4, <2>1, <2>2 DEF PlaceOK
    <3> QED
      BY <3>1 DEF PlaceOK
  <2>3. CASE p = cur
    <3>1. at'[p] = "user" /\ sched'.state[p] \notin {"free", "zombie"}
      BY <1>2, <1>3, <1>4, <2>3, Types, Chosen, <1>1
    <3> QED
      BY <3>1 DEF PlaceOK
  <2>4. CASE p # c /\ p # cur
    <3>1. at'[p] = at[p] /\ peer'[p] = peer[p] /\ kids'[p] = kids[p] /\ at[p] # "exit"
      BY <1>4, <1>5, <2>1, <2>4 DEF PlaceOK
    <3>2. peer[p] # 0 => (sched'.state[peer[p]] = "free" => sched.state[peer[p]] = "free")
      BY <1>3, <2>1
    <3>3. /\ sched'.state[p] = "free" <=> sched.state[p] = "free"
          /\ sched'.state[p] = "zombie" <=> sched.state[p] = "zombie"
      BY <1>3, <2>4
    <3> QED
      BY <2>1, <3>1, <3>2, <3>3 DEF PlaceOK
  <2> QED
    BY <2>2, <2>3, <2>4
<1> QED
  BY <1>2, <1>4, <1>6 DEF CallInv, Fresh, cur

LEMMA LinkCalls ==
  ASSUME KernelInv, CallInv, ShellLink
  PROVE  CallInv'
<1>1. UNCHANGED << sched, at, peer >>
  BY DEF ShellLink, callVars
<1>2. \A p \in PIDS : p # ShellPid => kids'[p] = kids[p]
  BY Types DEF ShellLink
<1>3. \A p \in PIDS : PlaceOK(p)'
  BY <1>1, <1>2 DEF CallInv, PlaceOK, cur
<1> QED
  BY <1>1, <1>3 DEF CallInv, Fresh, cur

\* A step in which the current process goes on in sys_exit, to the given place.
LEMMA ReparentCalls ==
  ASSUME KernelInv, CallInv, ExitReparent
  PROVE  CallInv'
<1>1. /\ cur \in PIDS /\ cur # ShellPid /\ Runs /\ sched' = sched /\ ShellPid \in PIDS
      /\ kids' = [kids EXCEPT ![ShellPid] = Reverse(kids[cur]) \o @, ![cur] = << >>]
      /\ sched.state[cur] \notin {"zombie", "ready", "free"}
  BY Types, Awake DEF ExitReparent
<1>2. "adopt" \in Places /\ "mark" \in Places /\ 0 \in 0..NProc /\ ShellPid \in 0..NProc
  BY ProcessAssumption DEF Places, ShellPid
<1>3. PICK place \in {"adopt", "mark"}, f \in 0..NProc : GoTo(place, f)
  BY <1>2 DEF ExitReparent, Enter
<1>4. /\ at' \in [PIDS -> Places] /\ peer' \in [PIDS -> 0..NProc]
      /\ at'[cur] = place
      /\ \A p \in PIDS : p # cur => at'[p] = at[p] /\ peer'[p] = peer[p]
  BY <1>2, <1>3, GoToIs
<1>5. kids'[cur] = << >> /\ \A p \in PIDS : p \notin {cur, ShellPid} => kids'[p] = kids[p]
  BY <1>1, Types
<1>6. ASSUME NEW p \in PIDS PROVE PlaceOK(p)'
  <2>1. PlaceOK(p)
    BY DEF CallInv
  <2>2. CASE p = cur
    BY <1>1, <1>3, <1>4, <1>5, <2>2 DEF PlaceOK
  <2>3. CASE p # cur
    BY <1>1, <1>4, <1>5, <2>1, <2>3 DEF PlaceOK, cur
  <2> QED
    BY <2>2, <2>3
<1>7. Fresh(sched)
  BY <1>1, FreshNow DEF Runs
<1> QED
  BY <1>1, <1>4, <1>6, <1>7 DEF CallInv, Fresh, cur

LEMMA MarkCalls ==
  ASSUME KernelInv, CallInv, ExitMark
  PROVE  CallInv'
<1>1. /\ Fresh(sched') /\ cur \in PIDS /\ sched'.cur = cur /\ cur # ShellPid
      /\ \A q \in PIDS : sched'.state[q] = IF q = cur THEN "zombie" ELSE sched.state[q]
  BY MarkLives
<1>2. /\ at[cur] = "mark" /\ GoTo("exit", 0) /\ kids' = kids
  BY DEF ExitMark, In, treeVars
<1>3. "exit" \in Places /\ 0 \in 0..NProc
  BY ProcessAssumption DEF Places
<1>4. /\ at' \in [PIDS -> Places] /\ peer' \in [PIDS -> 0..NProc]
      /\ at'[cur] = "exit" /\ peer'[cur] = 0
      /\ \A p \in PIDS : p # cur => at'[p] = at[p] /\ peer'[p] = peer[p]
  BY <1>2, <1>3, GoToIs
<1>5. kids[cur] = << >>
  BY <1>1, <1>2 DEF CallInv, PlaceOK
<1>6. ASSUME NEW p \in PIDS PROVE PlaceOK(p)'
  <2>1. PlaceOK(p) /\ peer[p] \in 0..NProc /\ \A x \in 0..NProc : x # 0 => x \in PIDS
    BY DEF CallInv, PIDS
  <2>2. CASE p = cur
    BY <1>1, <1>2, <1>4, <1>5, <2>2 DEF PlaceOK, cur
  <2>3. CASE p # cur
    <3>1. at'[p] = at[p] /\ peer'[p] = peer[p] /\ kids'[p] = kids[p] /\ at[p] # "exit"
      BY <1>2, <1>4, <2>1, <2>3 DEF PlaceOK
    <3>2. peer[p] # 0 => (sched'.state[peer[p]] = "free" => sched.state[peer[p]] = "free")
      BY <1>1, <2>1
    <3>3. sched'.state[p] = sched.state[p]
      BY <1>1, <2>3
    <3> QED
      BY <2>1, <3>1, <3>2, <3>3 DEF PlaceOK
  <2> QED
    BY <2>2, <2>3
<1> QED
  BY <1>1, <1>4, <1>6 DEF CallInv, Fresh, cur

\* A send keeps no pointer to the PCB that is freed.
LEMMA ReapCalls ==
  ASSUME KernelInv, TreeInv, CallInv, WaitReap
  PROVE  CallInv'
<1>1. PICK c \in KidsOf(cur) :
        /\ FirstZombie(c)
        /\ kids' = [kids EXCEPT ![cur] = Without(kids[cur], c)]
        /\ sched' = syscall_tail(process_free(sched, c))
        /\ peer' = [p \in PIDS |-> IF at[p] \in {"send", "wake"} /\ peer[p] = c
                                   THEN 0 ELSE peer[p]]
  BY DEF WaitReap
<1>2. /\ cur \in PIDS /\ c \in PIDS /\ 0 \in 0..NProc /\ Runs /\ at' = at
      /\ sched.state[c] = "zombie" /\ at[cur] = "user"
      /\ sched.state[cur] \notin {"zombie", "free"}
  <2>1. cur \in PIDS /\ c \in PIDS /\ 0 \in 0..NProc /\ sched.state[cur] # "free"
    BY Types, ProcessAssumption
  <2>2. Runs /\ at' = at /\ at[cur] = "user" /\ sched.state[cur] # "zombie"
    BY DEF WaitReap, Runs
  <2>3. sched.state[c] = "zombie"
    BY <1>1 DEF FirstZombie
  <2> QED
    BY <2>1, <2>2, <2>3
<1>3. /\ Fresh(sched')
      /\ \A q \in PIDS :
           /\ sched'.state[q] = "free" <=> q = c \/ sched.state[q] = "free"
           /\ sched'.state[q] = "zombie" <=> q # c /\ sched.state[q] = "zombie"
  BY <1>1, <1>2, ReapLives
<1>4. peer' \in [PIDS -> 0..NProc] /\ at' \in [PIDS -> Places]
  BY <1>1, <1>2 DEF CallInv
<1>5. \A p \in PIDS : p # cur => kids'[p] = kids[p]
  BY <1>1, Types
<1>6. \A p \in PIDS : at[p] # "exit"
  BY <1>2 DEF CallInv, PlaceOK
<1>7. ASSUME NEW p \in PIDS PROVE PlaceOK(p)'
  <2>1. PlaceOK(p) /\ peer[p] \in 0..NProc /\ \A x \in 0..NProc : x # 0 => x \in PIDS
    BY DEF CallInv, PIDS
  <2>2. /\ peer'[p] = IF at[p] \in {"send", "wake"} /\ peer[p] = c THEN 0 ELSE peer[p]
        /\ at'[p] = at[p]
    BY <1>1, <1>2
  <2>3. at[c] = "user"
    BY <1>2, <1>6 DEF CallInv, PlaceOK
  <2>4. (p = c \/ p = cur) => at[p] = "user"
    BY <1>2, <2>3
  <2>5. peer'[p] # 0 /\ at[p] \in {"send", "wake"} /\ sched.state[peer'[p]] # "free"
          => sched'.state[peer'[p]] # "free"
    BY <1>3, <2>1, <2>2
  <2>6. CASE p = c \/ p = cur
    <3>1. at'[p] = "user"
      BY <2>2, <2>4, <2>6
    <3> QED
      BY <1>2, <1>3, <2>6, <3>1 DEF PlaceOK
  <2>7. CASE p # c /\ p # cur
    <3>1. kids'[p] = kids[p] /\ at[p] # "exit"
      BY <1>5, <1>6, <2>7
    <3>2. /\ sched'.state[p] = "free" <=> sched.state[p] = "free"
          /\ sched'.state[p] = "zombie" <=> sched.state[p] = "zombie"
      BY <1>3, <2>7
    <3> QED
      BY <2>1, <2>2, <2>5, <3>1, <3>2 DEF PlaceOK
  <2> QED
    BY <2>6, <2>7
<1> QED
  BY <1>3, <1>4, <1>7 DEF CallInv, Fresh, cur

----------------------------------------------------------------------------
(***************************************************************************)
(* Who sleeps in wait.                                                     *)
(***************************************************************************)
\* Whoever sleeps beside a zombie child after a step, and whose history is
\* clean, did so before, and is not whom a process that loses the CPU was to wake.
LEMMA Sleeper ==
  ASSUME KernelInv, CallInv, Races, NEW p \in PIDS, NEW c \in PIDS,
         Asleep(p)', c \in KidsOf(p)', sched'.state[c] = "zombie",
         sched.ctx[p] = "wait" \/ Searched(p),
         sched.state[p] = "blocked" \/ p = cur
  PROVE  /\ p # cur /\ Asleep(p)
         /\ ~(p = Owed /\ sched'.cur # cur /\ sched.state[cur] # "running")
<1>1. sched'.ctx[p] = "wait" /\ ~raced'[p]
  BY DEF Asleep
<1>2. Waits(p)'
  BY <1>1 DEF Waits
<1>3. /\ ~raced[p] /\ ~Searched(p)
      /\ ~(p = Owed /\ sched'.cur # cur /\ sched.state[cur] # "running")
  BY <1>1, <1>2 DEF Races
<1>4. p # cur
  BY <1>3 DEF CallInv, Fresh, Searched, cur
<1> QED
  BY <1>3, <1>4 DEF Asleep

\* The wake-up for p is still to come after a step, unless it was the current
\* process that owed it and has left its place.
LEMMA StillKept ==
  ASSUME KernelInv, CallInv, SleepersInv, NEW p \in PIDS, NEW c \in PIDS,
         Asleep(p), parent[c] = p, sched.state[c] = "zombie",
         \A q \in PIDS : q # cur => at'[q] = at[q],
         p = Owed => at'[cur] = at[cur]
  PROVE  StillToWake(p, c)'
<1>1. StillToWake(p, c) /\ PlaceOK(c)
  BY DEF SleepersInv, CallInv
<1>2. CASE at[c] = "exit"
  <2>1. c = cur
    BY <1>1, <1>2 DEF PlaceOK
  <2>2. p = Owed
    BY <1>2, <2>1 DEF Owed
  <2> QED
    BY <1>2, <2>1, <2>2 DEF StillToWake
<1>3. CASE p = ShellPid /\ \E q \in PIDS : at[q] = "adopt"
  <2>1. PICK q \in PIDS : at[q] = "adopt"
    BY <1>3
  <2>2. q = cur => p = Owed
    BY <1>3, <2>1 DEF Owed
  <2>3. at'[q] = "adopt"
    BY <2>1, <2>2
  <2> QED
    BY <1>3, <2>3 DEF StillToWake, ShellPid
<1> QED
  BY <1>1, <1>2, <1>3 DEF StillToWake

\* Only exit wakes a waiting parent.
LEMMA NothingOwed ==
  ASSUME at[cur] \notin {"exit", "adopt"}, NEW p \in PIDS
  PROVE  p # Owed
BY ProcessAssumption DEF Owed, PIDS

\* A calm step leaves everybody but the current process where they are.
LEMMA PlacesKept ==
  ASSUME KernelInv, CallInv, CalmStep, NEW q \in PIDS, q # cur
  PROVE  at'[q] = at[q]
<1>1. at \in [PIDS -> Places]
  BY DEF CallInv
<1>2. ASSUME NEW place, NEW p, GoTo(place, p) PROVE at'[q] = at[q]
  BY <1>1, <1>2 DEF GoTo
<1>3. ASSUME NEW place, NEW p, Enter(place, p) PROVE at'[q] = at[q]
  BY <1>2, <1>3 DEF Enter
<1>4. ASSUME Leave PROVE at'[q] = at[q]
  BY <1>2, <1>4 DEF Leave
<1>5. CASE Timer \/ CreateFails \/ ExitWake
  BY <1>4, <1>5 DEF Timer, CreateFails, ExitWake
<1>6. CASE PlainSyscall \/ Exec \/ WaitNoChild
  BY <1>6 DEF PlainSyscall, Exec, WaitNoChild, callVars
<1>7. CASE ChoosePid
  BY <1>3, <1>7 DEF ChoosePid
<1>8. CASE ExitAdopt \/ WaitSave
  BY <1>2, <1>8 DEF ExitAdopt, WaitSave
<1>9. CASE WaitSearch
  BY <1>3, <1>9 DEF WaitSearch
<1>10. CASE WaitBlock
  BY <1>4, <1>10 DEF WaitBlock
<1>11. ASSUME NEW t \in PIDS, SendLook(t) PROVE at'[q] = at[q]
  <2>1. Enter("wake", t) \/ Enter("send", t)
    BY <1>11 DEF SendLook
  <2> QED
    BY <1>3, <2>1
<1>12. CASE Messages
  <2>1. PICK via \in BOOLEAN :
          \/ IpcSend(via) \/ CallReceives(via) \/ RecvBlock(via)
          \/ \E from \in Froms : IpcRecv(from, via) \/ IpcRecvNonblock(from, via)
    BY <1>12 DEF Messages
  <2>2. CASE IpcSend(via) \/ RecvBlock(via)
    BY <1>4, <2>2 DEF IpcSend, RecvBlock, Return
  <2>3. CASE CallReceives(via)
    BY <1>2, <1>4, <2>3 DEF CallReceives, Return
  <2>4. ASSUME NEW from \in Froms, IpcRecv(from, via) \/ IpcRecvNonblock(from, via)
        PROVE  at'[q] = at[q]
    BY <1>3, <1>4, <2>4 DEF IpcRecv, IpcRecvNonblock, Return
  <2> QED
    BY <2>1, <2>2, <2>3, <2>4
<1> QED
  BY <1>5, <1>6, <1>7, <1>8, <1>9, <1>10, <1>11, <1>12 DEF CalmStep

\* Timer, ExitAdopt and ExitWake apart, a calm step owes nothing.
LEMMA OwesAt ==
  ASSUME CalmStep, at[cur] \in {"exit", "adopt"}
  PROVE  Timer \/ ExitAdopt \/ ExitWake
BY DEF CalmStep, PlainSyscall, Exec, ChoosePid, CreateFails, WaitNoChild, WaitSearch,
       WaitSave, WaitBlock, SendLook, Messages, IpcSend, CallReceives, RecvBlock,
       IpcRecv, IpcRecvNonblock, Sends, Runs, In

LEMMA CalmRaces == ASSUME CalmStep PROVE Races
BY DEF CalmStep, Timer, ExitAdopt, ExitWake, PlainSyscall, Exec, ChoosePid, CreateFails,
       WaitNoChild, WaitSearch, WaitSave, WaitBlock, SendLook, Messages, IpcSend,
       CallReceives, RecvBlock, IpcRecv, IpcRecvNonblock

LEMMA CalmSleepers ==
  ASSUME SelfSend = FALSE, KernelInv, TreeInv, CallInv, SleepersInv, CalmStep
  PROVE  SleepersInv'
<1>1. Calm /\ Races
  BY StepsAreCalm, CalmRaces
<1>2. /\ UNCHANGED << parent, kids >> /\ SameLives(sched, sched') /\ cur \in PIDS
      /\ \A q \in PIDS : q # cur => at'[q] = at[q]
  BY <1>1, Types, PlacesKept DEF Calm
<1> SUFFICES ASSUME NEW p \in PIDS, NEW c \in PIDS,
                    Asleep(p)', parent'[c] = p, sched'.state[c] = "zombie"
             PROVE  StillToWake(p, c)'
  BY DEF SleepersInv
<1>3. parent[c] = p /\ sched.state[c] = "zombie" /\ c \in KidsOf(p)'
  <2>1. c \in KidsOf(p)
    BY <1>2 DEF TreeInv, ListsMatchParents
  <2> QED
    BY <1>2, <2>1 DEF SameLives, KidsOf
<1>4. /\ sched.ctx[p] = "wait" \/ Searched(p)
      /\ sched.state[p] = "blocked" \/ p = cur
  BY <1>2 DEF SameLives, Asleep
<1>5. /\ p # cur /\ Asleep(p)
      /\ ~(p = Owed /\ sched'.cur # cur /\ sched.state[cur] # "running")
  BY <1>1, <1>3, <1>4, Sleeper
<1>6. p = Owed => at'[cur] = at[cur]
  <2> SUFFICES ASSUME p = Owed PROVE at'[cur] = at[cur]
    OBVIOUS
  <2>1. at[cur] \in {"exit", "adopt"}
    BY NothingOwed
  <2>2. CASE Timer
    BY <1>5, <2>2 DEF Timer
  <2>3. CASE ExitAdopt
    <3>1. p = ShellPid /\ sched.state[p] = "blocked"
      BY <1>5, <2>3 DEF ExitAdopt, In, Owed, Asleep
    <3>2. sched'.state = [sched.state EXCEPT ![p] = "ready"]
      BY <2>3, <3>1, Types DEF ExitAdopt, process_unblock, SchedType
    <3> QED
      BY <3>2, Types DEF Asleep
  <2>4. CASE ExitWake
    <3>1. p = parent[cur] /\ p # 0
      BY <2>4, ProcessAssumption DEF ExitWake, In, Owed, PIDS
    <3> QED
      BY <2>4, <3>1, ExitWakeSched DEF Asleep
  <2> QED
    BY <2>1, <2>2, <2>3, <2>4, OwesAt
<1> QED
  BY <1>2, <1>3, <1>5, <1>6, StillKept

LEMMA BornSleepers ==
  ASSUME KernelInv, TreeInv, CallInv, SleepersInv, Fork \/ ShellCreate, TreeInv'
  PROVE  SleepersInv'
<1>1. PICK c \in PIDS : c = peer[cur]
  <2>1. Creates
    BY Born
  <2> QED
    BY <2>1, Chosen
<1>2. /\ Creates /\ SameLives(process_new(sched, c), sched')
      /\ at[cur] = "create" /\ c # cur
  BY <1>1, Born, Chosen DEF Creates, In
<1>3. /\ process_new(sched, c).state = [sched.state EXCEPT ![c] = "ready"]
      /\ process_new(sched, c).ctx = [sched.ctx EXCEPT ![c] = "saved"]
  BY Types, StartLives
<1>4. ASSUME NEW p \in PIDS
      PROVE  /\ sched'.state[p] = "zombie" => p # c /\ sched.state[p] = "zombie"
             /\ sched'.state[p] = "blocked" => sched.state[p] = "blocked" \/ p = cur
             /\ sched'.ctx[p] = "wait" => sched.ctx[p] = "wait" \/ Searched(p)
  <2>1. sched.ctx \in [PIDS -> CtxKinds] /\ sched.state \in [PIDS -> ProcStates]
    BY Types DEF SchedType
  <2> QED
    BY <1>2, <1>3, <2>1 DEF SameLives
<1>5. Races /\ \A q \in PIDS : q # cur => at'[q] = at[q]
  BY LeaveIs DEF Fork, ShellCreate
<1>6. \A d \in PIDS : d # c => parent'[d] = parent[d]
  BY <1>1, Types DEF Fork, ShellCreate, NewProcess
<1> SUFFICES ASSUME NEW p \in PIDS, NEW d \in PIDS,
                    Asleep(p)', parent'[d] = p, sched'.state[d] = "zombie"
             PROVE  StillToWake(p, d)'
  BY DEF SleepersInv
<1>7. parent[d] = p /\ sched.state[d] = "zombie" /\ d \in KidsOf(p)'
  BY <1>4, <1>6 DEF TreeInv, ListsMatchParents
<1>8. Asleep(p)
  BY <1>4, <1>5, <1>7, Sleeper DEF Asleep
<1>9. p # Owed
  BY <1>2, NothingOwed
<1> QED
  BY <1>5, <1>7, <1>8, <1>9, StillKept

LEMMA LinkSleepers ==
  ASSUME KernelInv, CallInv, SleepersInv, ShellLink, TreeInv'
  PROVE  SleepersInv'
<1>1. UNCHANGED << sched, at >> /\ Races /\ cur = ShellPid /\ linking \in PIDS
  BY Types DEF ShellLink, callVars
<1>2. \A d \in PIDS : parent'[d] = IF d = linking THEN cur ELSE parent[d]
  BY <1>1, Types DEF ShellLink
<1> SUFFICES ASSUME NEW p \in PIDS, NEW c \in PIDS,
                    Asleep(p)', parent'[c] = p, sched'.state[c] = "zombie"
             PROVE  StillToWake(p, c)'
  BY DEF SleepersInv
<1>3. c \in KidsOf(p)'
  BY DEF TreeInv, ListsMatchParents
<1>4. p # cur /\ Asleep(p)
  BY <1>1, <1>3, Sleeper DEF Asleep
<1> QED
  BY <1>1, <1>2, <1>4, StillKept

LEMMA ReparentSleepers ==
  ASSUME KernelInv, TreeInv, CallInv, SleepersInv, ExitReparent, TreeInv'
  PROVE  SleepersInv'
<1>1. /\ sched' = sched /\ Races /\ at[cur] = "user" /\ cur \in PIDS
      /\ parent' = [q \in PIDS |-> IF q \in KidsOf(cur) THEN ShellPid ELSE parent[q]]
  BY Types DEF ExitReparent, Runs
<1>2. \A q \in PIDS : q # cur => at'[q] = at[q]
  BY DEF ExitReparent, Enter, GoTo, CallInv
<1> SUFFICES ASSUME NEW p \in PIDS, NEW c \in PIDS,
                    Asleep(p)', parent'[c] = p, sched'.state[c] = "zombie"
             PROVE  StillToWake(p, c)'
  BY DEF SleepersInv
<1>3. c \in KidsOf(p)' /\ Asleep(p)
  <2>1. c \in KidsOf(p)'
    BY DEF TreeInv, ListsMatchParents
  <2> QED
    BY <1>1, <2>1, Sleeper DEF Asleep
<1>4. CASE c \in KidsOf(cur)
  <2>1. p = ShellPid /\ sched.state[p] = "blocked" /\ HasZombieKid
    BY <1>1, <1>3, <1>4 DEF HasZombieKid, Asleep
  <2>2. at'[cur] = "adopt"
    BY <1>1, <2>1 DEF ExitReparent, Enter, GoTo, CallInv
  <2> QED
    BY <1>1, <2>1, <2>2 DEF StillToWake, ShellPid
<1>5. CASE c \notin KidsOf(cur)
  <2>1. parent[c] = p /\ sched.state[c] = "zombie" /\ p # Owed
    BY <1>1, <1>5, NothingOwed
  <2> QED
    BY <1>2, <1>3, <2>1, StillKept
<1> QED
  BY <1>4, <1>5

LEMMA MarkSleepers ==
  ASSUME KernelInv, TreeInv, CallInv, SleepersInv, ExitMark, TreeInv'
  PROVE  SleepersInv'
<1>1. /\ sched'.ctx = sched.ctx /\ cur \in PIDS
      /\ \A q \in PIDS : sched'.state[q] = IF q = cur THEN "zombie" ELSE sched.state[q]
  BY MarkLives
<1>2. /\ at' = [at EXCEPT ![cur] = "exit"] /\ parent' = parent /\ Races /\ at[cur] = "mark"
  BY DEF ExitMark, GoTo, treeVars, In
<1> SUFFICES ASSUME NEW p \in PIDS, NEW c \in PIDS,
                    Asleep(p)', parent'[c] = p, sched'.state[c] = "zombie"
             PROVE  StillToWake(p, c)'
  BY DEF SleepersInv
<1>3. CASE c = cur
  BY <1>1, <1>2, <1>3 DEF StillToWake, CallInv
<1>4. CASE c # cur
  <2>1. c \in KidsOf(p)'
    BY DEF TreeInv, ListsMatchParents
  <2>2. Asleep(p)
    BY <1>1, <1>2, <2>1, Sleeper DEF Asleep
  <2>3. \A q \in PIDS : q # cur => at'[q] = at[q]
    BY <1>2 DEF CallInv
  <2> QED
    BY <1>1, <1>2, <1>4, <2>2, <2>3, NothingOwed, StillKept
<1> QED
  BY <1>3, <1>4

LEMMA ReapSleepers ==
  ASSUME KernelInv, TreeInv, CallInv, SleepersInv, WaitReap, TreeInv'
  PROVE  SleepersInv'
<1>1. PICK c \in KidsOf(cur) :
        /\ FirstZombie(c)
        /\ parent' = [parent EXCEPT ![c] = 0]
        /\ sched' = syscall_tail(process_free(sched, c))
  BY DEF WaitReap
<1>2. c \in PIDS /\ 0 \notin PIDS /\ Runs /\ at[cur] = "user" /\ at' = at /\ Races
  BY <1>1, Types DEF WaitReap, Runs
<1>3. \A q \in PIDS :
        /\ sched'.state[q] = "zombie" <=> q # c /\ sched.state[q] = "zombie"
        /\ sched'.state[q] = "blocked" => sched.state[q] = "blocked" \/ q = cur
        /\ sched'.ctx[q] = "wait" => sched.ctx[q] = "wait"
  BY <1>1, <1>2, ReapLives
<1> SUFFICES ASSUME NEW p \in PIDS, NEW d \in PIDS,
                    Asleep(p)', parent'[d] = p, sched'.state[d] = "zombie"
             PROVE  StillToWake(p, d)'
  BY DEF SleepersInv
<1>4. d \in KidsOf(p)' /\ parent[d] = p /\ sched.state[d] = "zombie"
  BY <1>1, <1>2, <1>3, Types DEF TreeInv, ListsMatchParents
<1>5. Asleep(p)
  BY <1>2, <1>3, <1>4, Sleeper DEF Asleep
<1> QED
  BY <1>2, <1>4, <1>5, NothingOwed, StillKept

----------------------------------------------------------------------------
(***************************************************************************)
(* The theorems.                                                           *)
(***************************************************************************)
TreeStep ==
  Fork \/ ShellCreate \/ ShellLink \/ ExitReparent \/ ExitMark \/ WaitReap

LEMMA TwoKinds ==
  ASSUME Next
  PROVE  CalmStep \/ TreeStep \/ Break \/ Ended
BY DEF Next, CalmStep, TreeStep, Messages

LEMMA TreeStepInv ==
  ASSUME KernelInv, TreeInv, CallInv, SleepersInv, TreeStep
  PROVE  KernelInv' /\ TreeInv' /\ CallInv' /\ SleepersInv' /\ LC!LifeNext
<1>1. CASE Fork \/ ShellCreate
  BY <1>1, BornTree, BornCalls, BornSleepers
<1>2. CASE ShellLink
  BY <1>2, ShellLinkKernel, ShellLinkTree, LinkCalls, LinkSleepers
<1>3. CASE ExitReparent
  BY <1>3, ReparentTree, ReparentCalls, ReparentSleepers
<1>4. CASE ExitMark
  BY <1>4, MarkTree, MarkCalls, MarkSleepers
<1>5. CASE WaitReap
  BY <1>5, ReapKernel, WaitReapTree, ReapCalls, ReapSleepers
<1> QED
  BY <1>1, <1>2, <1>3, <1>4, <1>5 DEF TreeStep

\* Nothing the invariants speak of changes where the model ends.
LEMMA StillInv ==
  ASSUME KernelInv, TreeInv, CallInv, SleepersInv,
         UNCHANGED << sched, parent, kids, msgq, waiting, heap, linking, at, peer, raced >>
  PROVE  KernelInv' /\ TreeInv' /\ CallInv' /\ SleepersInv'
<1>1. KernelInv'
  BY DEF KernelInv, TablesOK, ShellIsRoot, KidsOf
<1>2. TreeInv'
  BY DEF TreeInv, ListsMatchParents, ParentsAlive, LinkingIsOrphan, KidsOf
<1>3. CallInv'
  BY DEF CallInv, PlaceOK, Fresh, cur
<1>4. SleepersInv'
  BY DEF SleepersInv, Asleep, StillToWake
<1> QED
  BY <1>1, <1>2, <1>3, <1>4

LEMMA BreakKeeps ==
  ASSUME Break \/ Ended \/ UNCHANGED vars
  PROVE  UNCHANGED << sched, parent, kids, msgq, waiting, heap, linking, at, peer, raced >>
BY DEF Break, Ended, vars, treeVars, mailVars, callVars

AllInv == KernelInv /\ TreeInv /\ CallInv /\ SleepersInv

LEMMA NextInv ==
  ASSUME SelfSend = FALSE, AllInv, [Next]_vars
  PROVE  AllInv'
<1>1. CASE CalmStep
  BY <1>1, StepsAreCalm, CalmKernel, CalmTree, CalmCalls, CalmSleepers DEF AllInv
<1>2. CASE TreeStep
  BY <1>2, TreeStepInv DEF AllInv
<1>3. CASE Break \/ Ended \/ UNCHANGED vars
  BY <1>3, BreakKeeps, StillInv DEF AllInv
<1> QED
  BY <1>1, <1>2, <1>3, TwoKinds

\* Whatever calls the programs make and wherever ticks fall in them, the tables
\* of the kernel stay as the invariants say: those of the scheduler and of the
\* process tree, what each process inside a call relies on, and who sleeps.
THEOREM Consistent ==
  ASSUME SelfSend = FALSE
  PROVE  Spec => [](KernelInv /\ TreeInv /\ CallInv /\ SleepersInv)
<1>1. Init => AllInv
  BY InitInv DEF AllInv
<1>2. AllInv /\ [Next]_vars => AllInv'
  BY NextInv
<1>3. AllInv => KernelInv /\ TreeInv /\ CallInv /\ SleepersInv
  BY DEF AllInv
<1> QED
  BY <1>1, <1>2, <1>3, PTL DEF Spec

\* No operation of process.c, alone or as the code combines them, loses a ready
\* process from the ready queue, queues one twice, or queues one that is not
\* ready.
THEOREM ReadyQueueExact == ASSUME SelfSend = FALSE PROVE Spec => []QueueIsReadySet
<1>1. KernelInv => QueueIsReadySet
  BY DEF KernelInv, SchedInv, QueueIsReadySet
<1> QED
  BY <1>1, Consistent, PTL

\* Two processes are never marked running, and current_process is never a PCB
\* that sys_wait has freed.
THEOREM OneRunning == ASSUME SelfSend = FALSE PROVE Spec => []RunningIsCurrent
<1>1. KernelInv => RunningIsCurrent
  BY DEF KernelInv, SchedInv, SchedType, RunningIsCurrent, Live, cur
<1> QED
  BY <1>1, Consistent, PTL

\* first_child/next_sibling and parent name the same tree, whatever is forked,
\* linked late by the shell, handed to PID 1 on exit, and reaped.
THEOREM TreeAgrees == ASSUME SelfSend = FALSE PROVE Spec => []TreeConsistent
<1>1. KernelInv /\ TreeInv => TreeConsistent
  <2> SUFFICES ASSUME KernelInv, TreeInv PROVE TreeConsistent
    OBVIOUS
  <2>1. \A p \in PIDS : KidsOf(p) = {c \in PIDS : parent[c] = p} /\ Distinct(kids[p])
    BY DEF TreeInv, ListsMatchParents
  <2>2. \A c \in PIDS : parent[c] # 0 => parent[c] \in PIDS /\ sched.state[parent[c]] # "free"
    BY Types DEF TreeInv, ParentsAlive
  <2>3. \A c \in PIDS : sched.state[c] = "free" => parent[c] = 0
    BY DEF TreeInv, ParentsAlive
  <2>4. \A p \in Live : p \in PIDS /\ sched.state[p] # "free" /\ p # 0
    BY Types DEF Live
  <2> QED
    BY <2>1, <2>2, <2>3, <2>4 DEF TreeConsistent, Distinct, Live
<1> QED
  BY <1>1, Consistent, PTL

\* Exit hands every child to PID 1 before the parent becomes a zombie, so a
\* zombie's parent can always call wait.
THEOREM ZombiesHaveReaper == ASSUME SelfSend = FALSE PROVE Spec => []ZombiesReapable
<1>1. KernelInv /\ TreeInv => ZombiesReapable
  BY DEF TreeInv, ParentsAlive, ZombiesReapable, Live
<1> QED
  BY <1>1, Consistent, PTL

\* The exit of a child and the adoption of a zombie wake a parent in wait, but
\* for the two races the property names.
THEOREM WaitersWoken == ASSUME SelfSend = FALSE PROVE Spec => []WaiterNotStranded
<1>1. KernelInv /\ TreeInv /\ SleepersInv => WaiterNotStranded
  <2> SUFFICES ASSUME KernelInv, TreeInv, SleepersInv,
                      NEW p \in PIDS, Asleep(p), NEW c \in KidsOf(p),
                      sched.state[c] = "zombie"
               PROVE  StillToWake(p, c)
    BY DEF WaiterNotStranded, Asleep, Live
  <2>1. c \in PIDS /\ parent[c] = p
    BY DEF TreeInv, ListsMatchParents
  <2> QED
    BY <2>1 DEF SleepersInv
<1> QED
  BY <1>1, Consistent, PTL

\* Whatever the scheduler and the messages do, the kernel only does to a PID
\* what Lifecycle allows until a call goes on with what a tick has made untrue:
\* nobody runs again after exit, and a PID is used again only after its parent
\* has reaped it.
THEOREM RefinesLifecycle == ASSUME SelfSend = FALSE PROVE Spec => ImplementsLifecycle
<1>1. Init => LC!LifeInit
  <2> SUFFICES ASSUME Init PROVE LC!LifeInit
    OBVIOUS
  <2>1. \A p \in PIDS : Life(sched)[p] = IF p = ShellPid THEN "alive" ELSE "free"
    BY DEF Life, Init, SchedInit
  <2> QED
    BY <2>1 DEF LC!LifeInit, LC!LifePids, LC!InitPid, Life, Init, PIDS, ShellPid
<1>2. AllInv /\ [Next]_vars => (broken' \/ UNCHANGED LC!lifeVars \/ LC!LifeNext)
  <2> SUFFICES ASSUME AllInv, [Next]_vars
               PROVE  broken' \/ UNCHANGED LC!lifeVars \/ LC!LifeNext
    OBVIOUS
  <2>1. CASE CalmStep
    <3>1. SameLives(sched, sched') /\ parent' = parent
      BY <2>1, StepsAreCalm DEF AllInv, Calm
    <3>2. Life(sched') = Life(sched)
      BY <3>1, SameLife
    <3> QED
      BY <3>1, <3>2 DEF LC!lifeVars, Life
  <2>2. CASE TreeStep
    BY <2>2, TreeStepInv DEF AllInv
  <2>3. CASE Break \/ Ended \/ UNCHANGED vars
    <3>1. sched' = sched /\ parent' = parent
      BY <2>3, BreakKeeps
    <3> QED
      BY <3>1 DEF LC!lifeVars
  <2> QED
    BY <2>1, <2>2, <2>3, TwoKinds
<1>3. Spec => []AllInv
  BY Consistent, PTL DEF AllInv
<1>4. AllInv /\ [Next]_vars => [broken' \/ UNCHANGED LC!lifeVars \/ LC!LifeNext]_vars
  BY <1>2
<1> QED
  BY <1>1, <1>3, <1>4, PTL DEF Spec, ImplementsLifecycle

----------------------------------------------------------------------------
(***************************************************************************)
(* kmalloc's blocks: Needed adds up over the processes what each needs.    *)
(***************************************************************************)
BlocksOf(L, q, p) == IF p \in L THEN 1 + Len(q[p]) ELSE 0

LEMMA LeastNat ==
  ASSUME NEW T \in SUBSET Nat, T # {}
  PROVE  \E i \in T : \A j \in T : i <= j
<1> DEFINE R == OpToRel(<, Nat)
<1>1. IsWellFoundedOn(R, Nat)
  BY NatLessThanWellFounded
<1>2. \A x, y \in Nat : << x, y >> \in R <=> x < y
  BY DEF OpToRel
<1> HIDE DEF R
<1>3. PICK i \in T : \A j \in T : ~ << j, i >> \in R
  BY <1>1, WFMin
<1>4. i \in Nat /\ \A j \in T : j \in Nat /\ ~ j < i
  BY <1>2, <1>3
<1>5. \A j \in T : i <= j
  BY <1>4
<1> QED
  BY <1>5

\* f[p] is what the processes up to p need.
IsTotal(f, L, q, n) ==
  f = [p \in 0..n |-> IF p = 0 THEN 0 ELSE f[p - 1] + BlocksOf(L, q, p)]

LEMMA TotalExists ==
  ASSUME NEW L, NEW q, NEW n \in Nat
  PROVE  \E f : IsTotal(f, L, q, n)
<1> DEFINE T == {i \in Nat : ~ \E f : IsTotal(f, L, q, i)}
<1>1. SUFFICES ASSUME T # {} PROVE FALSE
  OBVIOUS
<1>2. PICK i \in T : \A j \in T : i <= j
  BY <1>1, LeastNat
<1>3. i # 0
  <2>1. IsTotal([p \in 0..0 |-> 0], L, q, 0)
    BY DEF IsTotal
  <2> QED
    BY <1>2, <2>1
<1>4. i - 1 \in Nat /\ i - 1 \notin T
  BY <1>2, <1>3
<1>5. PICK f : IsTotal(f, L, q, i - 1)
  BY <1>4
<1> DEFINE g == [p \in 0..i |-> IF p = i THEN f[i - 1] + BlocksOf(L, q, i) ELSE f[p]]
<1>6. \A p \in 0..(i - 1) : f[p] = IF p = 0 THEN 0 ELSE f[p - 1] + BlocksOf(L, q, p)
  BY <1>5 DEF IsTotal
<1>7. ASSUME NEW p \in 0..i
      PROVE  g[p] = IF p = 0 THEN 0 ELSE g[p - 1] + BlocksOf(L, q, p)
  <2>1. CASE p = i
    <3>1. g[p - 1] = f[i - 1]
      BY <1>2, <1>4, <2>1
    <3> QED
      BY <1>3, <2>1, <3>1
  <2>2. CASE p # i
    <3>1. p \in 0..(i - 1) /\ (p # 0 => p - 1 \in 0..(i - 1) /\ p - 1 \in 0..i /\ p - 1 # i)
      BY <1>2, <2>2
    <3> QED
      BY <1>6, <2>2, <3>1
  <2> QED
    BY <2>1, <2>2
<1>8. IsTotal(g, L, q, i)
  BY <1>7 DEF IsTotal
<1> QED
  BY <1>2, <1>8

LEMMA NeededIsTotal ==
  ASSUME NEW L, NEW q
  PROVE  \E f : IsTotal(f, L, q, NProc) /\ Needed(L, q) = f[NProc]
<1> DEFINE f == CHOOSE g : IsTotal(g, L, q, NProc)
<1>1. IsTotal(f, L, q, NProc)
  BY TotalExists, ProcessAssumption
<1>2. Needed(L, q) = f[NProc]
  BY DEF Needed, IsTotal, BlocksOf
<1> QED
  BY <1>1, <1>2

\* Only c needs more, and at most d more.
AtMost(L, q, M, r, c, d) ==
  \A p \in PIDS : BlocksOf(M, r, p) <= BlocksOf(L, q, p) + (IF p = c THEN d ELSE 0)

LEMMA BlocksType ==
  ASSUME NEW L, NEW q \in [PIDS -> Seq(PIDS)], NEW p \in PIDS
  PROVE  BlocksOf(L, q, p) \in Nat
BY DEF BlocksOf

LEMMA TotalGrows ==
  ASSUME NEW L, NEW q \in [PIDS -> Seq(PIDS)], NEW M, NEW r \in [PIDS -> Seq(PIDS)],
         NEW c \in PIDS, NEW d \in Int, NEW f, NEW g, AtMost(L, q, M, r, c, d),
         IsTotal(f, L, q, NProc), IsTotal(g, M, r, NProc)
  PROVE  f[NProc] \in Nat /\ g[NProc] <= f[NProc] + d
<1> DEFINE Good(p) == /\ f[p] \in Nat /\ g[p] \in Nat
                      /\ g[p] <= f[p] + (IF c <= p THEN d ELSE 0)
           T == {p \in 0..NProc : ~ Good(p)}
<1>1. T = {}
  <2> SUFFICES ASSUME T # {} PROVE FALSE
    OBVIOUS
  <2>1. T \in SUBSET Nat
    OBVIOUS
  <2>2. PICK p \in T : \A j \in T : p <= j
    BY <2>1, LeastNat
  <2>3. /\ f[p] = IF p = 0 THEN 0 ELSE f[p - 1] + BlocksOf(L, q, p)
        /\ g[p] = IF p = 0 THEN 0 ELSE g[p - 1] + BlocksOf(M, r, p)
    BY <2>2 DEF IsTotal
  <2>4. c \in Nat /\ 1 <= c
    BY DEF PIDS
  <2>5. p # 0
    BY <2>2, <2>3, <2>4
  <2>6. p \in PIDS /\ p - 1 \in 0..NProc /\ p \in Nat
    <3>1. NProc \in Nat /\ p \in 0..NProc
      BY <2>2, ProcessAssumption
    <3> QED
      BY <2>5, <3>1 DEF PIDS
  <2>7. Good(p - 1)
    <3>1. p - 1 \notin T
      BY <2>2, <2>6
    <3> QED
      BY <2>6, <3>1
  <2>8. /\ BlocksOf(L, q, p) \in Nat /\ BlocksOf(M, r, p) \in Nat
        /\ BlocksOf(M, r, p) <= BlocksOf(L, q, p) + (IF p = c THEN d ELSE 0)
    BY <2>6, BlocksType DEF AtMost
  <2>9. Good(p)
    <3>1. /\ f[p] = f[p - 1] + BlocksOf(L, q, p) /\ g[p] = g[p - 1] + BlocksOf(M, r, p)
          /\ f[p - 1] \in Nat /\ g[p - 1] \in Nat
          /\ g[p - 1] <= f[p - 1] + (IF c <= p - 1 THEN d ELSE 0)
      BY <2>3, <2>5, <2>7
    <3> HIDE DEF T
    <3>2. f[p] \in Nat /\ g[p] \in Nat
      <4>1. PICK a \in Nat, b \in Nat : a = f[p - 1] /\ b = g[p - 1]
        BY <3>1
      <4>2. PICK x \in Nat, y \in Nat : x = BlocksOf(L, q, p) /\ y = BlocksOf(M, r, p)
        BY <2>8
      <4>3. f[p] = a + x /\ g[p] = b + y
        BY <3>1, <4>1, <4>2
      <4> QED
        BY <4>3
    <3>3. CASE c <= p - 1
      <4>1. c <= p /\ p # c
        BY <2>4, <2>6, <3>3
      <4> HIDE DEF T
      <4>2. g[p] <= f[p] + d
        BY <2>8, <3>1, <3>3, <4>1
      <4> QED
        BY <3>2, <4>1, <4>2
    <3>4. CASE p = c
      <4>1. c <= p /\ ~ c <= p - 1
        BY <2>4, <2>6, <3>4
      <4>2. g[p] <= f[p] + d
        <5>1. PICK a \in Nat, b \in Nat : a = f[p - 1] /\ b = g[p - 1]
          BY <3>1
        <5>2. PICK x \in Nat, y \in Nat : x = BlocksOf(L, q, p) /\ y = BlocksOf(M, r, p)
          BY <2>8
        <5>3. b <= a + 0 /\ y <= x + d /\ f[p] = a + x /\ g[p] = b + y
          BY <2>8, <3>1, <3>4, <4>1, <5>1, <5>2
        <5> QED
          BY <5>3
      <4> QED
        BY <3>2, <4>1, <4>2
    <3>5. CASE ~ c <= p
      <4>1. p # c /\ ~ c <= p - 1
        BY <2>4, <2>6, <3>5
      <4>2. g[p] <= f[p]
        BY <2>8, <3>1, <4>1
      <4> QED
        BY <3>2, <3>5, <4>2
    <3> QED
      BY <2>4, <2>6, <3>3, <3>4, <3>5
  <2> QED
    BY <2>2, <2>9
<1>2. NProc \in 0..NProc /\ c <= NProc
  BY ProcessAssumption DEF PIDS
<1> QED
  BY <1>1, <1>2

LEMMA NeededGrows ==
  ASSUME NEW L, NEW q \in [PIDS -> Seq(PIDS)], NEW M, NEW r \in [PIDS -> Seq(PIDS)],
         NEW c \in PIDS, NEW d \in Int, AtMost(L, q, M, r, c, d)
  PROVE  Needed(L, q) \in Nat /\ Needed(M, r) \in Nat /\ Needed(M, r) <= Needed(L, q) + d
<1>1. PICK f : IsTotal(f, L, q, NProc) /\ Needed(L, q) = f[NProc]
  BY NeededIsTotal
<1>2. PICK g : IsTotal(g, M, r, NProc) /\ Needed(M, r) = g[NProc]
  BY NeededIsTotal
<1>3. f[NProc] \in Nat /\ g[NProc] <= f[NProc] + d
  BY <1>1, <1>2, TotalGrows
<1>4. AtMost(M, r, M, r, c, 0)
  <2>1. ASSUME NEW p \in PIDS
        PROVE  BlocksOf(M, r, p) <= BlocksOf(M, r, p) + (IF p = c THEN 0 ELSE 0)
    <3>1. BlocksOf(M, r, p) \in Nat
      BY BlocksType
    <3> QED
      BY <3>1
  <2> QED
    BY <2>1 DEF AtMost
<1>5. g[NProc] \in Nat
  <2>1. 0 \in Int
    OBVIOUS
  <2> QED
    BY <1>2, <1>4, <2>1, TotalGrows
<1> QED
  BY <1>1, <1>2, <1>3, <1>5

\* Nothing in use is freed, and kmalloc gives no more than it has.
Enough(L, q, h) == Needed(L, q) <= h /\ h <= HeapSlots

HeapInv == Enough(Live, msgq, heap)

LEMMA EnoughAfter ==
  ASSUME NEW L, NEW q \in [PIDS -> Seq(PIDS)], NEW h \in Int,
         NEW M, NEW r \in [PIDS -> Seq(PIDS)], NEW k \in Int,
         NEW c \in PIDS, AtMost(L, q, M, r, c, k - h), Enough(L, q, h), k <= HeapSlots
  PROVE  Enough(M, r, k)
<1>1. k - h \in Int
  OBVIOUS
<1>2. Needed(L, q) \in Nat /\ Needed(M, r) \in Nat /\ Needed(M, r) <= Needed(L, q) + (k - h)
  BY <1>1, NeededGrows
<1> QED
  BY <1>2 DEF Enough

LEMMA SameLive ==
  ASSUME \A q \in PIDS : sched'.state[q] = "free" <=> sched.state[q] = "free"
  PROVE  Live' = Live
BY DEF Live

LEMMA QuietHeap ==
  ASSUME HeapInv, UNCHANGED << msgq, heap >>, Live' = Live
  PROVE  HeapInv'
BY DEF HeapInv

\* A birth takes a block for the PCB; its queue is empty.
LEMMA SpawnHeap ==
  ASSUME KernelInv, TreeInv, HeapInv, CanAlloc, NEW c \in PIDS,
         sched.state[c] = "free", NEW f, NewProcess(c, f), SameLives(process_new(sched, c), sched')
  PROVE  HeapInv'
<1>1. sched.state[c] = "free"
  OBVIOUS
<1>2. \A q \in PIDS : process_new(sched, c).state[q] = IF q = c THEN "ready" ELSE sched.state[q]
  <2>1. process_new(sched, c).state = [sched.state EXCEPT ![c] = "ready"]
    BY StartLives, Types
  <2> QED
    BY <2>1, Types
<1>3. \A q \in PIDS : sched'.state[q] = "free" <=> q # c /\ sched.state[q] = "free"
  BY <1>2 DEF SameLives
<1>4. Live' = Live \cup {c} /\ c \notin Live
  BY <1>1, <1>3 DEF Live
<1>5. /\ msgq \in [PIDS -> Seq(PIDS)] /\ heap \in Int /\ heap' = heap + 1
      /\ msgq' = [msgq EXCEPT ![c] = << >>] /\ heap + 1 <= HeapSlots
  BY KernelAssumption DEF NewProcess, KernelInv, TablesOK, CanAlloc
<1>6. PICK M, r, L : M = Live' /\ r = msgq' /\ L = Live
  OBVIOUS
<1>7. r \in [PIDS -> Seq(PIDS)]
  BY <1>5, <1>6
<1>8. ASSUME NEW q \in PIDS
      PROVE  BlocksOf(M, r, q) <= BlocksOf(L, msgq, q) + (IF q = c THEN 1 ELSE 0)
  <2>1. CASE q = c
    BY <1>4, <1>5, <1>6, <2>1 DEF BlocksOf
  <2>2. CASE q # c
    <3>1. BlocksOf(M, r, q) = BlocksOf(L, msgq, q)
      BY <1>4, <1>5, <1>6, <2>2 DEF BlocksOf
    <3>2. BlocksOf(L, msgq, q) \in Nat
      BY <1>5, BlocksType
    <3> QED
      BY <2>2, <3>1, <3>2
  <2> QED
    BY <2>1, <2>2
<1>9. AtMost(L, msgq, M, r, c, (heap + 1) - heap)
  <2>1. (heap + 1) - heap = 1
    BY <1>5
  <2> QED
    BY <1>8, <2>1 DEF AtMost
<1>10. Enough(L, msgq, heap) /\ heap + 1 \in Int
  BY <1>5, <1>6 DEF HeapInv
<1>11. Enough(M, r, heap + 1)
  BY <1>5, <1>7, <1>9, <1>10, EnoughAfter
<1> QED
  BY <1>5, <1>6, <1>11 DEF HeapInv

LEMMA BirthHeap ==
  ASSUME KernelInv, TreeInv, CallInv, HeapInv, Fork \/ ShellCreate
  PROVE  HeapInv'
<1>1. PICK c \in PIDS : c = peer[cur] /\ sched.state[c] = "free" /\ CanAlloc
  <2>1. Creates
    BY Born
  <2> QED
    BY <2>1, Chosen
<1>2. SameLives(process_new(sched, c), sched')
  BY <1>1, Born
<1>3. NewProcess(c, cur) \/ NewProcess(c, 0)
  BY <1>1 DEF Fork, ShellCreate
<1> QED
  BY <1>1, <1>2, <1>3, SpawnHeap

\* ipc_test drops the queue of the new child, whose messages stay allocated.
LEMMA LinkHeap == ASSUME KernelInv, HeapInv, ShellLink PROVE HeapInv'
<1>1. /\ heap' = heap /\ heap \in Int /\ Live' = Live /\ linking \in PIDS
      /\ msgq \in [PIDS -> Seq(PIDS)] /\ heap <= HeapSlots
      /\ msgq' = msgq \/ msgq' = [msgq EXCEPT ![linking] = << >>]
  <2>1. heap \in Int /\ msgq \in [PIDS -> Seq(PIDS)] /\ heap <= HeapSlots
    BY DEF KernelInv, TablesOK, HeapInv, Enough
  <2>2. linking \in PIDS /\ heap' = heap /\ sched' = sched
    BY Types DEF ShellLink
  <2>3. msgq' = msgq \/ msgq' = [msgq EXCEPT ![linking] = << >>]
    BY DEF ShellLink, mailVars
  <2> QED
    BY <2>1, <2>2, <2>3 DEF Live
<1>2. CASE msgq' = msgq
  BY <1>1, <1>2, QuietHeap
<1>3. CASE msgq' = [msgq EXCEPT ![linking] = << >>]
  <2>1. PICK r, c, L : r = msgq' /\ c = linking /\ L = Live
    OBVIOUS
  <2>2. r \in [PIDS -> Seq(PIDS)] /\ c \in PIDS
    BY <1>1, <1>3, <2>1
  <2>3. ASSUME NEW q \in PIDS
        PROVE  BlocksOf(L, r, q) <= BlocksOf(L, msgq, q) + (IF q = c THEN 0 ELSE 0)
    <3>1. BlocksOf(L, msgq, q) \in Nat
      BY <1>1, BlocksType
    <3>2. CASE q = c
      BY <1>1, <1>3, <2>1, <3>2 DEF BlocksOf
    <3>3. CASE q # c
      <4>1. BlocksOf(L, r, q) = BlocksOf(L, msgq, q)
        BY <1>1, <1>3, <2>1, <3>3 DEF BlocksOf
      <4> QED
        BY <3>1, <3>3, <4>1
    <3> QED
      BY <3>2, <3>3
  <2>4. AtMost(L, msgq, L, r, c, heap - heap)
    <3>1. heap - heap = 0
      BY <1>1
    <3> QED
      BY <2>3, <3>1 DEF AtMost
  <2>5. Enough(L, r, heap)
    BY <1>1, <2>1, <2>2, <2>4, EnoughAfter DEF HeapInv
  <2> QED
    BY <1>1, <2>1, <2>5 DEF HeapInv
<1> QED
  BY <1>1, <1>2, <1>3


\* Reaping gives back the PCB's block; messages on its queue stay allocated.
LEMMA ReapHeap == 
  ASSUME KernelInv, TreeInv, CallInv, HeapInv, WaitReap PROVE HeapInv'
<1>1. PICK c \in KidsOf(cur) :
        /\ FirstZombie(c) /\ msgq' = [msgq EXCEPT ![c] = << >>]
        /\ sched' = syscall_tail(process_free(sched, c))
  BY DEF WaitReap
<1>2. /\ c \in PIDS /\ sched.state[c] = "zombie" /\ Runs /\ heap' = heap - 1
      /\ heap \in Int /\ heap <= HeapSlots /\ msgq \in [PIDS -> Seq(PIDS)]
  BY <1>1, Types DEF FirstZombie, WaitReap, KernelInv, TablesOK, HeapInv, Enough
<1>3. \A q \in PIDS : sched'.state[q] = "free" <=> q = c \/ sched.state[q] = "free"
  BY <1>1, <1>2, ReapLives
<1>4. Live' = Live \ {c} /\ c \in Live
  BY <1>2, <1>3 DEF Live
<1>5. PICK M, r, L : M = Live' /\ r = msgq' /\ L = Live
  OBVIOUS
<1>6. r \in [PIDS -> Seq(PIDS)]
  BY <1>1, <1>2, <1>5
<1>7. ASSUME NEW q \in PIDS
      PROVE  BlocksOf(M, r, q) <= BlocksOf(L, msgq, q) + (IF q = c THEN -1 ELSE 0)
  <2>1. BlocksOf(L, msgq, q) \in Nat
    BY <1>2, BlocksType
  <2>2. CASE q = c
    <3>1. BlocksOf(M, r, q) = 0
      BY <1>4, <1>5, <2>2 DEF BlocksOf
    <3>2. BlocksOf(L, msgq, q) = 1 + Len(msgq[q]) /\ Len(msgq[q]) \in Nat
      BY <1>2, <1>4, <1>5, <2>2 DEF BlocksOf
    <3> QED
      BY <2>2, <3>1, <3>2
  <2>3. CASE q # c
    <3>1. BlocksOf(M, r, q) = BlocksOf(L, msgq, q)
      BY <1>1, <1>2, <1>4, <1>5, <2>3 DEF BlocksOf
    <3> QED
      BY <2>1, <2>3, <3>1
  <2> QED
    BY <2>2, <2>3
<1>8. PICK k : k = heap - 1
  OBVIOUS
<1>9. k \in Int /\ k <= HeapSlots /\ k - heap = -1
  BY <1>2, <1>8, KernelAssumption
<1>10. AtMost(L, msgq, M, r, c, k - heap)
  BY <1>7, <1>9 DEF AtMost
<1>11. Enough(L, msgq, heap)
  BY <1>5 DEF HeapInv
<1>12. Enough(M, r, k)
  BY <1>2, <1>6, <1>9, <1>10, <1>11, EnoughAfter
<1> QED
  BY <1>2, <1>5, <1>8, <1>12 DEF HeapInv

\* The heap in the middle of a message call, where no process comes or goes.
EnoughMail(m) == Enough(Live, m.q, m.h)

\* One queue and the count of blocks change together.
LEMMA QueueHeap ==
  ASSUME NEW m \in MailType, EnoughMail(m), NEW c \in PIDS, c \in Live,
         NEW q \in Seq(PIDS), NEW h \in Int, Len(q) - Len(m.q[c]) = h - m.h, h <= HeapSlots
  PROVE  Enough(Live, [m.q EXCEPT ![c] = q], h)
<1> DEFINE r == [m.q EXCEPT ![c] = q]
<1>1. m.q \in [PIDS -> Seq(PIDS)] /\ m.h \in Int /\ r \in [PIDS -> Seq(PIDS)]
  BY DEF MailType
<1>2. \A p \in PIDS : r[p] = IF p = c THEN q ELSE m.q[p]
  BY <1>1
<1> HIDE DEF r
<1>3. PICK L, d : L = Live /\ d = h - m.h
  OBVIOUS
<1>4. c \in L
  BY <1>3
<1>5. ASSUME NEW p \in PIDS
      PROVE  BlocksOf(L, r, p) <= BlocksOf(L, m.q, p) + (IF p = c THEN d ELSE 0)
  <2>1. BlocksOf(L, m.q, p) \in Nat
    BY <1>1, BlocksType
  <2>2. CASE p = c
    <3>1. BlocksOf(L, r, p) = 1 + Len(q) /\ BlocksOf(L, m.q, p) = 1 + Len(m.q[c])
      BY <1>2, <1>3, <1>4, <2>2 DEF BlocksOf
    <3>2. Len(q) \in Nat /\ Len(m.q[c]) \in Nat /\ Len(q) - Len(m.q[c]) = d
      BY <1>1, <1>3
    <3> QED
      BY <1>1, <1>3, <2>2, <3>1, <3>2
  <2>3. CASE p # c
    <3>1. BlocksOf(L, r, p) = BlocksOf(L, m.q, p)
      BY <1>2, <2>3 DEF BlocksOf
    <3> QED
      BY <2>1, <2>3, <3>1
  <2> QED
    BY <2>2, <2>3
<1>6. AtMost(L, m.q, L, r, c, h - m.h)
  BY <1>3, <1>5 DEF AtMost
<1>7. Enough(L, r, h)
  BY <1>1, <1>3, <1>6, EnoughAfter DEF EnoughMail
<1> QED
  BY <1>3, <1>7 DEF r

\* A send takes a block for the message it queues, or takes none.
LEMMA SentHeap ==
  ASSUME SelfSend = FALSE, KernelInv, CallInv, HeapInv, Sends
  PROVE  EnoughMail(Sent)
<1>1. /\ cur \in PIDS /\ msgq \in [PIDS -> Seq(PIDS)] /\ heap \in Int
      /\ MailLives(Mail) /\ EnoughMail(Mail)
  <2>1. MailLives(Mail) /\ cur \in PIDS
    BY MailStart DEF Sends, In
  <2> QED
    BY <2>1 DEF KernelInv, TablesOK, HeapInv, EnoughMail, Mail
<1>2. CASE CanAlloc
  <2>1. PICK t : t = peer[cur] /\ t \in Live /\ t \in PIDS
    BY <1>2, SentMail DEF Live
  <2>2. Sent.q = [msgq EXCEPT ![t] = Append(msgq[t], cur)] /\ Sent.h = heap + 1
    BY <1>2, <2>1, SentMail
  <2>3. PICK q : q = Append(msgq[t], cur)
    OBVIOUS
  <2>4. q \in Seq(PIDS) /\ Len(q) = Len(msgq[t]) + 1 /\ Len(msgq[t]) \in Nat
    BY <1>1, <2>1, <2>3
  <2>5. Len(q) - Len(msgq[t]) = (heap + 1) - heap /\ heap + 1 \in Int /\ heap + 1 <= HeapSlots
    BY <1>1, <1>2, <2>4, KernelAssumption DEF CanAlloc
  <2>6. Mail \in MailType /\ Mail.q = msgq /\ Mail.h = heap
    BY <1>1 DEF MailLives, MailInv, Mail
  <2>7. Enough(Live, [msgq EXCEPT ![t] = q], heap + 1)
    BY <1>1, <2>1, <2>4, <2>5, <2>6, QueueHeap
  <2> QED
    BY <2>2, <2>3, <2>7 DEF EnoughMail
<1>3. CASE ~CanAlloc
  BY <1>3, SentMail DEF EnoughMail, HeapInv
<1> QED
  BY <1>2, <1>3

\* A receive gives back the block of the message it takes off the queue.
LEMMA DequeueHeap ==
  ASSUME NEW m, MailInv(m), EnoughMail(m), cur \in PIDS, cur \in Live, NEW from,
         Oldest(m.q[cur], from) # {}
  PROVE  EnoughMail(Dequeue(m, from))
<1> DEFINE k == CHOOSE i \in Oldest(m.q[cur], from) : TRUE
           q == DropAt(m.q[cur], k)
<1>1. m \in MailType /\ m.q[cur] \in Seq(PIDS) /\ m.h \in Int
  BY DEF MailInv, MailType
<1>2. k \in 1..Len(m.q[cur])
  BY DEF Oldest
<1>3. Dequeue(m, from).q = [m.q EXCEPT ![cur] = q] /\ Dequeue(m, from).h = m.h - 1
  BY <1>1 DEF Dequeue, MailType
<1> HIDE DEF k
<1>4. q \in Seq(PIDS)
  BY <1>1, <1>2, DropAtType
<1>5. Len(m.q[cur]) \in Nat /\ Len(m.q[cur]) # 0
  BY <1>1, <1>2
<1>6. Len(q) = Len(m.q[cur]) - 1
  BY <1>5 DEF DropAt
<1> HIDE DEF q
<1>7. Len(q) - Len(m.q[cur]) = (m.h - 1) - m.h /\ m.h - 1 \in Int /\ m.h - 1 <= HeapSlots
  BY <1>1, <1>5, <1>6, KernelAssumption DEF EnoughMail, Enough
<1>8. Enough(Live, [m.q EXCEPT ![cur] = q], m.h - 1)
  BY <1>1, <1>4, <1>7, QueueHeap
<1> QED
  BY <1>3, <1>8 DEF EnoughMail

LEMMA RecvHeap ==
  ASSUME NEW m, MailInv(m), EnoughMail(m), cur \in PIDS, cur \in Live, NEW from
  PROVE  EnoughMail(ipc_recv_nonblock(m, from))
BY DequeueHeap DEF ipc_recv_nonblock

\* What a call sets, with or without the tail of syscall_handler.
LEMMA SetHeap ==
  ASSUME NEW m, MailInv(m), EnoughMail(m), Live' = Live,
         Set(m) \/ \E via \in BOOLEAN : Return(m, via)
  PROVE  HeapInv'
<1>1. msgq' = m.q /\ heap' = m.h
  <2>1. CASE Set(m)
    BY <2>1 DEF Set
  <2>2. ASSUME NEW via \in BOOLEAN, Return(m, via)
        PROVE  msgq' = m.q /\ heap' = m.h
    <3>1. m \in MailType
      BY DEF MailInv
    <3>2. PICK s : s = syscall_tail(m.s)
      OBVIOUS
    <3>3. Set(m) \/ Set([m EXCEPT !.s = s])
      BY <2>2, <3>2 DEF Return
    <3>4. [m EXCEPT !.s = s].q = m.q /\ [m EXCEPT !.s = s].h = m.h
      BY <3>1 DEF MailType
    <3> QED
      BY <3>3, <3>4 DEF Set
  <2> QED
    BY <2>1, <2>2
<1> QED
  BY <1>1 DEF HeapInv, EnoughMail

LEMMA MessagesHeap ==
  ASSUME SelfSend = FALSE, KernelInv, CallInv, HeapInv, Messages
  PROVE  HeapInv'
<1>1. Live' = Live
  BY MessagesCalm, SameLive DEF Calm, SameLives
<1>2. cur \in Live
  BY Types DEF Live
<1>3. ASSUME NEW m, MailLives(m) PROVE MailInv(m)
  BY <1>3 DEF MailLives
<1>4. PICK via \in BOOLEAN :
        \/ IpcSend(via) \/ CallReceives(via) \/ RecvBlock(via)
        \/ \E from \in Froms : IpcRecv(from, via) \/ IpcRecvNonblock(from, via)
  BY DEF Messages
<1>5. CASE IpcSend(via)
  <2>1. MailInv(Sent) /\ EnoughMail(Sent)
    BY <1>3, <1>5, SentMail, SentHeap DEF IpcSend
  <2> QED
    BY <1>1, <1>5, <2>1, SetHeap DEF IpcSend
<1>6. CASE CallReceives(via)
  <2>1. Sends
    BY <1>6 DEF CallReceives
  <2>2. MailLives(Sent) /\ MailInv(Sent) /\ EnoughMail(Sent) /\ cur \in PIDS
    BY <1>3, <2>1, SentMail, SentHeap
  <2>3. CASE Oldest(Sent.q[cur], peer[cur]) # {}
    <3>1. Return(Dequeue(Sent, peer[cur]), via)
      BY <1>6, <2>3 DEF CallReceives
    <3>2. MailInv(Dequeue(Sent, peer[cur])) /\ EnoughMail(Dequeue(Sent, peer[cur]))
      BY <1>2, <1>3, <2>2, <2>3, DequeueMail, DequeueHeap
    <3> QED
      BY <1>1, <3>1, <3>2, SetHeap
  <2>4. CASE Oldest(Sent.q[cur], peer[cur]) = {}
    <3>1. Set(Sent)
      BY <1>6, <2>4 DEF CallReceives
    <3> QED
      BY <1>1, <2>2, <3>1, SetHeap
  <2> QED
    BY <2>3, <2>4
<1>7. CASE RecvBlock(via)
  <2>1. at[cur] = "recv" /\ Return(ipc_recv_nonblock(Blocked, peer[cur]), via)
    BY <1>7 DEF RecvBlock, Blocked, In
  <2>2. MailLives(Blocked) /\ cur \in PIDS /\ EnoughMail(Blocked)
    BY <2>1, BlockedMail DEF EnoughMail, HeapInv
  <2>3. /\ MailInv(ipc_recv_nonblock(Blocked, peer[cur]))
        /\ EnoughMail(ipc_recv_nonblock(Blocked, peer[cur]))
    BY <1>2, <1>3, <2>2, RecvNonblockMail, RecvHeap
  <2> QED
    BY <1>1, <2>1, <2>3, SetHeap
<1>8. ASSUME NEW from \in Froms, IpcRecv(from, via) \/ IpcRecvNonblock(from, via)
      PROVE  HeapInv'
  <2>1. MailLives(Mail) /\ cur \in PIDS /\ EnoughMail(Mail) /\ Mail.q = msgq
    BY <1>8, MailStart DEF IpcRecv, IpcRecvNonblock, EnoughMail, HeapInv, Mail
  <2>2. CASE IpcRecvNonblock(from, via)
    <3>1. /\ MailInv(ipc_recv_nonblock(Mail, from))
          /\ EnoughMail(ipc_recv_nonblock(Mail, from))
      BY <1>2, <1>3, <2>1, RecvNonblockMail, RecvHeap
    <3> QED
      BY <1>1, <2>2, <3>1, SetHeap DEF IpcRecvNonblock
  <2>3. CASE IpcRecv(from, via) /\ Oldest(msgq[cur], from) # {}
    <3>1. Return(Dequeue(Mail, from), via)
      BY <2>3 DEF IpcRecv
    <3>2. MailInv(Dequeue(Mail, from)) /\ EnoughMail(Dequeue(Mail, from))
      BY <1>2, <1>3, <2>1, <2>3, DequeueMail, DequeueHeap
    <3> QED
      BY <1>1, <3>1, <3>2, SetHeap
  <2>4. CASE IpcRecv(from, via) /\ Oldest(msgq[cur], from) = {}
    <3>1. Set(Mail)
      BY <2>4 DEF IpcRecv
    <3> QED
      BY <1>1, <1>3, <2>1, <3>1, SetHeap
  <2> QED
    BY <1>8, <2>2, <2>3, <2>4
<1> QED
  BY <1>4, <1>5, <1>6, <1>7, <1>8

LEMMA HeapInit == Init => HeapInv
<1> SUFFICES ASSUME Init PROVE HeapInv
  OBVIOUS
<1> DEFINE q == [p \in PIDS |-> << >>]
<1>1. Live = {ShellPid} /\ msgq = q /\ heap = 1 /\ ShellPid \in PIDS
  BY ProcessAssumption DEF Init, SchedInit, Live, PIDS, ShellPid
<1>2. q \in [PIDS -> Seq(PIDS)] /\ \A p \in PIDS : q[p] = << >>
  OBVIOUS
<1> HIDE DEF q
<1>3. PICK f : IsTotal(f, {}, q, NProc) /\ Needed({}, q) = f[NProc]
  BY NeededIsTotal
<1> DEFINE T == {p \in 0..NProc : f[p] # 0}
<1>4. T = {}
  <2> SUFFICES ASSUME T # {} PROVE FALSE
    OBVIOUS
  <2>1. T \in SUBSET Nat
    OBVIOUS
  <2>2. PICK p \in T : \A j \in T : p <= j
    BY <2>1, LeastNat
  <2>3. f[p] = IF p = 0 THEN 0 ELSE f[p - 1] + 0
    BY <1>3, <2>2 DEF IsTotal, BlocksOf
  <2>4. p # 0
    BY <2>2, <2>3
  <2>5. p - 1 \in 0..NProc /\ p - 1 \notin T
    BY <2>2, <2>4, ProcessAssumption
  <2> QED
    BY <2>2, <2>3, <2>4, <2>5
<1>5. Needed({}, q) = 0
  BY <1>3, <1>4, ProcessAssumption
<1>6. ASSUME NEW p \in PIDS
      PROVE  BlocksOf({ShellPid}, q, p) <= BlocksOf({}, q, p) + (IF p = ShellPid THEN 1 ELSE 0)
  BY <1>2 DEF BlocksOf
<1>7. AtMost({}, q, {ShellPid}, q, ShellPid, 1)
  BY <1>6 DEF AtMost
<1>8. Needed({ShellPid}, q) <= 1
  BY <1>1, <1>2, <1>5, <1>7, NeededGrows
<1>9. 1 <= HeapSlots
  BY KernelAssumption
<1> QED
  BY <1>1, <1>8, <1>9 DEF HeapInv, Enough

\* The heap's share of a step.
LEMMA HeapNext ==
  ASSUME SelfSend = FALSE, AllInv, HeapInv, [Next]_vars
  PROVE  HeapInv'
<1>1. KernelInv /\ TreeInv /\ CallInv
  BY DEF AllInv
<1>2. CASE CalmStep
  <2>1. Live' = Live
    BY <1>1, <1>2, StepsAreCalm, SameLive DEF Calm, SameLives
  <2>2. CASE Messages
    BY <1>1, <2>2, MessagesHeap
  <2>3. CASE ~Messages
    <3>1. UNCHANGED << msgq, heap >>
      BY <1>2, <2>3 DEF CalmStep, Timer, PlainSyscall, Exec, ChoosePid, CreateFails,
                        ExitAdopt, ExitWake, WaitNoChild, WaitSearch, WaitSave,
                        WaitBlock, SendLook, mailVars
    <3> QED
      BY <2>1, <3>1, QuietHeap
  <2> QED
    BY <2>2, <2>3
<1>3. CASE TreeStep
  <2>1. CASE ExitReparent
    <3>1. sched' = sched /\ UNCHANGED << msgq, heap >>
      BY <2>1 DEF ExitReparent, mailVars
    <3> QED
      BY <3>1, QuietHeap DEF Live
  <2>2. CASE ExitMark
    <3>1. \A q \in PIDS : sched'.state[q] = "free" <=> sched.state[q] = "free"
      BY <1>1, <2>2, MarkLives
    <3>2. UNCHANGED << msgq, heap >>
      BY <2>2 DEF ExitMark, mailVars
    <3> QED
      BY <3>1, <3>2, SameLive, QuietHeap
  <2> QED
    BY <1>1, <1>3, <2>1, <2>2, BirthHeap, LinkHeap, ReapHeap DEF TreeStep
<1>4. CASE Break \/ Ended \/ UNCHANGED vars
  <2>1. sched' = sched /\ UNCHANGED << msgq, heap >>
    BY <1>4, BreakKeeps
  <2> QED
    BY <2>1, QuietHeap DEF Live
<1> QED
  BY <1>2, <1>3, <1>4, TwoKinds

\* fork, exit, wait and the message functions free no block that is in use and
\* free none twice, wherever ticks fall in them: kmalloc's blocks always cover
\* every PCB and every queued message, whatever the number of processes and the
\* size of the heap.
THEOREM BlocksCovered == ASSUME SelfSend = FALSE PROVE Spec => []NothingFreedInUse
<1>1. Init => AllInv /\ HeapInv
  BY InitInv, HeapInit DEF AllInv
<1>2. AllInv /\ HeapInv /\ [Next]_vars => (AllInv /\ HeapInv)'
  BY NextInv, HeapNext
<1>3. AllInv /\ HeapInv => NothingFreedInUse
  <2> SUFFICES ASSUME AllInv, HeapInv PROVE heap >= Needed(Live, msgq)
    BY DEF NothingFreedInUse
  <2>1. msgq \in [PIDS -> Seq(PIDS)] /\ heap \in Int
    BY DEF AllInv, KernelInv, TablesOK
  <2> QED
    BY <2>1 DEF HeapInv, Enough
<1> QED
  BY <1>1, <1>2, <1>3, PTL DEF Spec

=============================================================================
