---------------------------- MODULE ForkScheduler ----------------------------
(***************************************************************************)
(* Processes and system calls of stages 11_syscall and 12_paging_process:  *)
(* process.c, the process calls of syscall.c (the same file in both) and   *)
(* timer_handler.  Unlike stage 13 the end of a call never switches,       *)
(* fork enters no child into process_table, exit reparents nobody, and     *)
(* wait returns -1 instead of sleeping.  The state is one record sys:      *)
(*   sys.stage  11 or 12                                                   *)
(*   sys.pcb    the blocks kmalloc may hand out as PCBs; a freed block     *)
(*              keeps what it held until it is handed out again            *)
(*   sys.ready  ready_queue, sys.cur current_process                       *)
(*   sys.at     where the current process is: in user code, in the window  *)
(*              of sys_wait between the search for a zombie and            *)
(*              process_block, or in sys_exit, a zombie that has not       *)
(*              cleared its ticks and looked at its parent                 *)
(* A block is named by its number from 1 on; 0 is None.  A tick may fall   *)
(* at each of these places and in the halt loop of sys_exit.  Past         *)
(* ticks_remaining = 0 in sys_exit a tick only wraps a counter that        *)
(* schedule() then clears again, so the rest of the call is one step.      *)
(***************************************************************************)
EXTENDS Integers, Sequences, FiniteSets

CONSTANTS
  Blocks,     \* how many PCBs the heap has room for
  Boot,       \* how many processes kernel_main creates
  LastPid,    \* MAX_PROCESSES - 1
  TimeSlice,  \* DEFAULT_TIME_SLICE
  TickMod     \* number of values of ticks_remaining (2^32 in the code)

ASSUME ForkAssumption ==
  /\ Boot \in Nat \ {0} /\ LastPid \in Nat /\ Boot <= LastPid /\ Boot <= Blocks
  /\ Blocks \in Nat /\ TimeSlice \in Nat \ {0} /\ TickMod \in Nat /\ TimeSlice < TickMod

VARIABLE sys

BLOCKS == 1..Blocks
None == 0
Links == BLOCKS \cup {None}
States == {"ready", "running", "blocked", "zombie"}
Places == {"user", "window"}

\* struct process; taken: the block is allocated.  A zombie is never saved.  Two
\* fields are history: of a child whose parent has been freed, orphan; of a
\* process one of whose children exited while its saved context was in sys_wait's
\* window, or lost the CPU before it looked at its parent, raced.
PCB == [taken : BOOLEAN, pid : 0..LastPid, state : States, ticks : 0..(TickMod - 1),
        context : Places, parent : Links, first_child : Links, next_sibling : Links,
        next : Links, orphan : BOOLEAN, raced : BOOLEAN]

ForkTypeOK ==
  sys \in [stage : {11, 12}, pcb : [BLOCKS -> PCB], ready : Links, cur : Links,
          at : Places \cup {"exit"}]

Blank ==
  [taken |-> FALSE, pid |-> 0, state |-> "ready", ticks |-> 0, context |-> "user",
   parent |-> None, first_child |-> None, next_sibling |-> None, next |-> None,
   orphan |-> FALSE, raced |-> FALSE]

Running == sys.pcb[sys.cur].state # "zombie" /\ sys.at = "user"

----------------------------------------------------------------------------
(***************************************************************************)
(* Lists.  Follow(t, p, f) is the list that starts with p and goes on with *)
(* the link f; a list that runs into itself has one element too many.      *)
(***************************************************************************)
Follow(t, p, f) ==
  LET walk[i \in 0..Blocks] ==
        IF i = 0 THEN IF p = None THEN << >> ELSE << p >>
        ELSE LET w == walk[i - 1]
             IN IF w = << >> \/ Len(w) <= i - 1 \/ t.pcb[w[Len(w)]][f] = None THEN w
                ELSE Append(w, t.pcb[w[Len(w)]][f])
  IN walk[Blocks]

Elements(q) == {q[i] : i \in 1..Len(q)}

Queue(t) == Follow(t, t.ready, "next")
Kids(t, p) == Follow(t, t.pcb[p].first_child, "next_sibling")

\* The end of process_create, schedule_from_interrupt and process_unblock.
append(t, p) ==
  LET q == Queue(t)
      u == [t EXCEPT !.pcb[p].next = None]
  IN IF q = << >> THEN [u EXCEPT !.ready = p] ELSE [u EXCEPT !.pcb[q[Len(q)]].next = p]

\* The end of process_set_current and process_block of stage 11: a process
\* that is not queued keeps its next.
unlink(t, p) ==
  IF t.ready = p
  THEN [t EXCEPT !.ready = t.pcb[p].next, !.pcb[p].next = None]
  ELSE LET before == {r \in Elements(Queue(t)) : t.pcb[r].next = p}
       IN IF before = {} THEN t
          ELSE [t EXCEPT !.pcb[CHOOSE r \in before : TRUE].next = t.pcb[p].next,
                         !.pcb[p].next = None]

\* In stage 12 every process ends up without next.
unlink_12(t, p) == [unlink(t, p) EXCEPT !.pcb[p].next = None]

Unlink(t, p) == IF t.stage = 12 THEN unlink_12(t, p) ELSE unlink(t, p)

----------------------------------------------------------------------------
(***************************************************************************)
(* process.c                                                               *)
(***************************************************************************)
\* allocate_pid and the search in SYS_FORK: the lowest PID no process in
\* process_table has.  Only process_create enters processes there, and it
\* gives them no parent; none ever leaves.
InTable(t) == {p \in BLOCKS : t.pcb[p].taken /\ t.pcb[p].parent = None}
FreePids(t) == (1..LastPid) \ {t.pcb[p].pid : p \in InTable(t)}
allocate_pid(t) == CHOOSE i \in FreePids(t) : \A j \in FreePids(t) : i <= j

\* kmalloc takes the first block that fits.
FreeBlocks(t) == {p \in BLOCKS : ~t.pcb[p].taken}
kmalloc(t) == CHOOSE p \in FreeBlocks(t) : \A r \in FreeBlocks(t) : p <= r

NewPCB(t) ==
  [Blank EXCEPT !.taken = TRUE, !.pid = allocate_pid(t), !.ticks = TimeSlice]

\* kernel_main creates processes, with room for all, before it runs the first.
process_create_11(t) ==
  LET p == kmalloc(t) IN append([t EXCEPT !.pcb[p] = NewPCB(t)], p)

process_set_current(t, p) ==
  Unlink([t EXCEPT !.cur = p, !.pcb[p].state = "running"], p)

process_block(t, p) == Unlink([t EXCEPT !.pcb[p].state = "blocked"], p)

process_unblock(t, p) == append([t EXCEPT !.pcb[p].state = "ready"], p)

schedule(t) == [t EXCEPT !.pcb[t.cur].ticks = 0]

\* Faulty variant: the process is queued and still marked running.
RequeueStillRunning(t) ==
  IF t.pcb[t.cur].state = "running"
  THEN append([t EXCEPT !.pcb[t.cur].context = t.at, !.pcb[t.cur].ticks = TimeSlice], t.cur)
  ELSE t

\* A running process is saved, gets a new slice and goes to the end of the
\* queue; any other keeps the context its PCB holds.
Requeue(t) ==
  IF t.pcb[t.cur].state = "running"
  THEN append([t EXCEPT !.pcb[t.cur].context = t.at, !.pcb[t.cur].state = "ready",
                        !.pcb[t.cur].ticks = TimeSlice], t.cur)
  ELSE t

schedule_from_interrupt(t) ==
  LET u == Requeue(t)
      p == u.ready
  IN IF p = None THEN [u EXCEPT !.pcb[u.cur].ticks = TimeSlice]
     ELSE [u EXCEPT !.ready = u.pcb[p].next, !.cur = p, !.at = u.pcb[p].context,
                    !.pcb[p].next = None, !.pcb[p].state = "running"]

\* The decrement wraps, and only an exact zero reschedules.
timer_handler(t) ==
  LET n == (t.pcb[t.cur].ticks + TickMod - 1) % TickMod
      u == [t EXCEPT !.pcb[t.cur].ticks = n]
  IN IF n = 0 THEN schedule_from_interrupt(u) ELSE u

\* kernel_main.
Booted(stage) ==
  LET made[i \in 0..Boot] ==
        IF i = 0
        THEN [stage |-> stage, pcb |-> [p \in BLOCKS |-> Blank],
              ready |-> None, cur |-> None, at |-> "user"]
        ELSE process_create_11(made[i - 1])
  IN process_set_current(made[Boot], 1)

ForkInit == sys \in {Booted(11), Booted(12)}

----------------------------------------------------------------------------
(***************************************************************************)
(* The calls.  Those not listed here (read, write, getpid, sleep, puts,    *)
(* putc, getticks) change none of this state.                              *)
(***************************************************************************)
\* History: the parent of the current process has missed its exit.
Miss(t) ==
  LET f == t.pcb[t.cur].parent
  IN IF t.pcb[t.cur].orphan \/ f = None THEN t ELSE [t EXCEPT !.pcb[f].raced = TRUE]

\* A zombie that loses the CPU never gets it back.
Timer ==
  sys' = IF sys.at = "exit" /\ timer_handler(sys).cur # sys.cur
         THEN timer_handler(Miss(sys)) ELSE timer_handler(sys)

\* The first child of the new process is reset, its parent's list grows.
fork(t, c) ==
  process_unblock(
    [t EXCEPT !.pcb[c] = [NewPCB(t) EXCEPT !.parent = t.cur,
                                           !.next_sibling = t.pcb[t.cur].first_child],
              !.pcb[t.cur].first_child = c], c)

\* Without a free PID or memory the call returns -1 and changes nothing.
Fork ==
  /\ Running /\ FreePids(sys) # {} /\ FreeBlocks(sys) # {}
  /\ sys' = fork(sys, kmalloc(sys))

\* exec rewrites the frame and the PCB's context, and restarts the slice.
Exec ==
  /\ Running
  /\ sys' = [sys EXCEPT !.pcb[sys.cur].context = "user", !.pcb[sys.cur].ticks = TimeSlice]

Zombies == {c \in Elements(Kids(sys, sys.cur)) : sys.pcb[c].state = "zombie"}

\* The block is freed, and its own children keep their pointer to it.
free(t, c) ==
  [t EXCEPT !.pcb = [r \in BLOCKS |-> IF r \in Elements(Kids(t, c))
                                      THEN [@[r] EXCEPT !.orphan = TRUE] ELSE @[r]],
            !.pcb[c].taken = FALSE]

\* Faulty variant: the children that follow are cut off with the zombie.
reap_truncating(t, c) ==
  LET kids == Kids(t, t.cur)
      i == CHOOSE i \in 1..Len(kids) : kids[i] = c
      after == t.pcb[c].next_sibling
  IN IF i = 1 THEN [free(t, c) EXCEPT !.pcb[t.cur].first_child = after]
     ELSE [free(t, c) EXCEPT !.pcb[kids[i - 1]].next_sibling = None]

\* The zombie c leaves its parent's list and its block is freed.
reap(t, c) ==
  LET kids == Kids(t, t.cur)
      i == CHOOSE i \in 1..Len(kids) : kids[i] = c
      after == t.pcb[c].next_sibling
  IN IF i = 1 THEN [free(t, c) EXCEPT !.pcb[t.cur].first_child = after]
     ELSE [free(t, c) EXCEPT !.pcb[kids[i - 1]].next_sibling = after]

\* sys_wait with a zombie child; raced forgets a race that is over.
WaitReap ==
  /\ Running /\ Zombies # {}
  /\ LET kids == Kids(sys, sys.cur)
         c == kids[CHOOSE i \in 1..Len(kids) :
                     kids[i] \in Zombies /\ \A j \in 1..(i - 1) : kids[j] \notin Zombies]
     IN sys' = [reap(sys, c) EXCEPT !.pcb[sys.cur].raced = @ /\ Zombies # {c}]

\* sys_wait up to the end of the search.  Without children it returns -1.
WaitSearch ==
  /\ Running /\ sys.pcb[sys.cur].first_child # None /\ Zombies = {}
  /\ sys' = [sys EXCEPT !.at = "window"]

\* ... and from process_block on: the process returns -1 to user code, blocked.
WaitBlock ==
  /\ sys.at = "window"
  /\ sys' = [schedule(process_block(sys, sys.cur)) EXCEPT !.at = "user"]

\* Faulty variant: nobody is woken.
WakeNobody(t, f) == t

\* parent may point to a block that was freed, or is another process by now.
WakeParent(t, f) ==
  IF f # None /\ t.pcb[f].state = "blocked" THEN process_unblock(t, f) ELSE t

\* sys_exit.
ExitMark ==
  /\ Running
  /\ sys' = [sys EXCEPT !.pcb[sys.cur].state = "zombie", !.at = "exit"]

\* ... and what is left of it, up to the halt loop.
ExitWake ==
  /\ sys.at = "exit"
  /\ LET f == sys.pcb[sys.cur].parent
         z == [sys EXCEPT !.pcb[sys.cur].ticks = 0, !.at = "user"]
         missed == f # None /\ sys.pcb[f].context = "window"
     IN sys' = schedule(WakeParent(IF missed THEN Miss(z) ELSE z, f))

ForkNext == Timer \/ Fork \/ Exec \/ WaitReap \/ WaitSearch \/ WaitBlock
            \/ ExitMark \/ ExitWake

ForkSpec == ForkInit /\ [][ForkNext]_sys

----------------------------------------------------------------------------
Taken == {p \in BLOCKS : sys.pcb[p].taken}

\* The links from ready_queue visit each ready process once and no other, and
\* never a freed block, although exit may wake the process that has come to
\* live where its parent was (process_unblock, schedule_from_interrupt).
QueueIsReadySet ==
  LET q == Queue(sys)
  IN /\ Elements(q) = {p \in Taken : sys.pcb[p].state = "ready"}
     /\ Len(q) = Cardinality(Elements(q))
     /\ sys.cur \in Taken

\* The child list of each process visits once each process that fork made for
\* it and that is not reaped yet, and no other, so that wait can find them all
\* (SYS_FORK, sys_wait); an orphan is in no list, even if its parent pointer has
\* become the address of a new process.
ChildrenListed ==
  \A p \in Taken :
    LET q == Kids(sys, p)
    IN /\ Elements(q) = {c \in Taken : sys.pcb[c].parent = p /\ ~sys.pcb[c].orphan}
       /\ Len(q) = Cardinality(Elements(q))

\* A process that is blocked has a zombie child only if the child is about to
\* look whether to wake it, exited after a tick had stopped the parent between
\* the search and process_block, or lost the CPU before that look.
WakeLostOnlyInWindow ==
  \A p \in Taken :
    sys.pcb[p].state = "blocked" /\ ~sys.pcb[p].raced =>
      \A c \in Elements(Kids(sys, p)) :
        sys.pcb[c].state = "zombie" => c = sys.cur /\ sys.at = "exit"
=============================================================================
