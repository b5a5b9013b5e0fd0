------------------------------ MODULE Process ------------------------------
(***************************************************************************)
(* The scheduler of process.c (stage 13_disk_driver) as operators on a     *)
(* scheduler record s:                                                     *)
(*   s.cur    current_process (kernel_main installs PID 1 before anything  *)
(*            else runs, so it is never NULL here)                         *)
(*   s.state  the state field of every PCB; "free" when the table slot is  *)
(*            NULL                                                         *)
(*   s.ready  the list that starts at ready_queue and follows next, as a   *)
(*            sequence                                                     *)
(*   s.ticks  ticks_remaining, a TickMod-valued unsigned counter           *)
(*   s.ctx    what the PCB's context field holds relative to the place     *)
(*            where the process last stopped running:                      *)
(*              "saved"  that very place                                   *)
(*              "wait"   that place, with eax = SYS_WAIT (a blocked wait)  *)
(*              "stale"  an earlier place                                  *)
(* A PCB is named by its PID.                                              *)
(***************************************************************************)
EXTENDS Integers, Sequences, FiniteSets

CONSTANTS
  NProc,      \* number of usable PIDs: MAX_PROCESSES - 1
  TimeSlice,  \* DEFAULT_TIME_SLICE
  TickMod     \* number of values of ticks_remaining (2^32 in the code)

ASSUME ProcessAssumption ==
  /\ NProc \in Nat \ {0}
  /\ TimeSlice \in Nat \ {0}
  /\ TickMod \in Nat
  /\ TimeSlice < TickMod

PIDS == 1..NProc

\* kernel_main's init_proc, the shell.
ShellPid == 1

ProcStates == {"free", "ready", "running", "blocked", "zombie"}
CtxKinds == {"saved", "wait", "stale"}

SchedType ==
  [cur   : PIDS,
   state : [PIDS -> ProcStates],
   ready : Seq(PIDS),
   ticks : [PIDS -> 0..(TickMod - 1)],
   ctx   : [PIDS -> CtxKinds]]

\* The list q without its first occurrence of p.
Without(q, p) ==
  IF \E i \in 1..Len(q) : q[i] = p
  THEN LET k == CHOOSE i \in 1..Len(q) : q[i] = p /\ \A j \in 1..(i - 1) : q[j] # p
       IN [i \in 1..(Len(q) - 1) |-> IF i < k THEN q[i] ELSE q[i + 1]]
  ELSE q

(***************************************************************************)
(* Scheduler operations.                                                   *)
(***************************************************************************)

\* The state kernel_main leaves behind: only the shell, running.
SchedInit ==
  [cur   |-> ShellPid,
   state |-> [p \in PIDS |-> IF p = ShellPid THEN "running" ELSE "free"],
   ready |-> << >>,
   ticks |-> [p \in PIDS |-> IF p = ShellPid THEN TimeSlice ELSE 0],
   ctx   |-> [p \in PIDS |-> "stale"]]

\* allocate_pid and the search in SYS_FORK: p is the lowest free PID.
allocate_pid(s, p) ==
  /\ s.state[p] = "free"
  /\ \A q \in PIDS : s.state[q] = "free" => p <= q

\* A new PCB p, runnable from its initial context, at the end of the list.
process_new(s, p) ==
  [s EXCEPT !.state[p] = "ready",
            !.ticks[p] = TimeSlice,
            !.ctx[p] = "saved",
            !.ready = Append(@, p)]

\* sys_wait: the PCB leaves the table and is freed.  Its fields are never read
\* again (a new process assigns them all): they get a fixed value here.
process_free(s, p) ==
  [s EXCEPT !.state[p] = "free", !.ticks[p] = 0, !.ctx[p] = "stale"]

\* Used on the current process only, which the list seldom holds.
process_block(s, p) ==
  [s EXCEPT !.state[p] = "blocked", !.ready = Without(@, p)]

\* Every caller has found p "blocked", hence in no list (BlockedNotQueued).
process_unblock(s, p) ==
  [s EXCEPT !.state[p] = "ready", !.ready = Append(@, p)]

\* Give up the rest of the time slice; no switch happens here.
schedule(s) == [s EXCEPT !.ticks[s.cur] = 0]

\* Faulty variant: the process is queued and still marked running.
RequeueStillRunning(s) ==
  IF s.state[s.cur] = "running"
  THEN [s EXCEPT !.ticks[s.cur] = TimeSlice, !.ctx[s.cur] = "saved",
                 !.ready = Append(@, s.cur)]
  ELSE s

\* A running current process is saved and queued; any other is dropped.
Requeue(s) ==
  IF s.state[s.cur] = "running"
  THEN [s EXCEPT !.state[s.cur] = "ready",
                 !.ticks[s.cur] = TimeSlice,
                 !.ctx[s.cur] = "saved",
                 !.ready = Append(@, s.cur)]
  ELSE s

\* The head of the list gets the CPU with the context its PCB holds; from
\* then on that context is history.
Dispatch(s) ==
  LET p == Head(s.ready)
  IN [s EXCEPT !.cur = p,
               !.ready = Tail(@),
               !.state[p] = "running",
               !.ctx[p] = "stale"]

schedule_from_interrupt(s) ==
  LET r == Requeue(s)
  IN IF r.ready = << >>
     THEN [r EXCEPT !.ticks[r.cur] = TimeSlice]
     ELSE Dispatch(r)

\* Faulty variant: the counter stops at zero.
timer_handler_saturating(s) ==
  IF s.ticks[s.cur] = 1
  THEN schedule_from_interrupt([s EXCEPT !.ticks[s.cur] = 0])
  ELSE [s EXCEPT !.ticks[s.cur] = IF @ = 0 THEN 0 ELSE @ - 1]

\* timer_handler: the decrement wraps, and only an exact zero reschedules.
timer_handler(s) ==
  LET t == (s.ticks[s.cur] + TickMod - 1) % TickMod
      d == [s EXCEPT !.ticks[s.cur] = t]
  IN IF t = 0 THEN schedule_from_interrupt(d) ELSE d

\* The end of syscall_handler: a process without ticks is switched out.
syscall_tail(s) ==
  IF s.ticks[s.cur] = 0 THEN schedule_from_interrupt(s) ELSE s

----------------------------------------------------------------------------
(***************************************************************************)
(* The relation between states, ready queue and current_process that every *)
(* operation above keeps (Kernel_proof.tla) when it is applied where the   *)
(* code applies it.                                                        *)
(***************************************************************************)
InjectiveQueue(s) ==
  \A i, j \in 1..Len(s.ready) : i # j => s.ready[i] # s.ready[j]

QueueHoldsReady(s) ==
  /\ \A i \in 1..Len(s.ready) : s.state[s.ready[i]] = "ready"
  /\ \A p \in PIDS : s.state[p] = "ready" => \E i \in 1..Len(s.ready) : s.ready[i] = p

SchedInv(s) ==
  /\ s \in SchedType
  /\ InjectiveQueue(s)
  /\ QueueHoldsReady(s)
  /\ \A p \in PIDS : s.state[p] = "running" => p = s.cur
  /\ s.state[s.cur] \notin {"ready", "free"}
  /\ s.state[ShellPid] \notin {"free", "zombie"}
=============================================================================
