------------------------------- MODULE Kernel -------------------------------
(***************************************************************************)
(* Processes, the process tree, wait/exit and message passing of stage     *)
(* 13_disk_driver: process.c, ipc.c, the process calls of syscall.c, the   *)
(* timer of kernel.c and the shell commands that create processes.         *)
(*                                                                         *)
(* One CPU runs the current process; its program is arbitrary, so any      *)
(* call may come next.  The timer interrupts calls too: where a call acts  *)
(* on what it has seen of other processes, the look and the act are two    *)
(* steps, and at[p] says between which two p is:                           *)
(*   "create"           has chosen a PID for a child, not registered it    *)
(*   "search"           wait has found no zombie                           *)
(*   "block"            ... and the context for the blocked wait is saved  *)
(*   "send", "wake"     a send has found its receiver, not expecting or    *)
(*                      expecting a message                                *)
(*   "recv"             a receive has found no message                     *)
(*   "adopt"            exit has handed zombies to a blocked init          *)
(*   "mark"             exit has handed over the children                  *)
(*   "exit"             exit has marked the zombie                         *)
(* A step that finds the world changed so that the code queues a process   *)
(* twice, revives one, writes to a freed PCB or uses a PID twice sets      *)
(* broken, and there the model ends.                                       *)
(*                                                                         *)
(* IPC functions are reached through int 0x80 (via) or called directly by  *)
(* kernel-mode processes, as the shell commands do; only the first way     *)
(* ends with the reschedule check of syscall_handler.                      *)
(***************************************************************************)
EXTENDS Process

CONSTANTS
  HeapSlots,  \* how many PCBs and messages kmalloc can serve
  Inside,     \* how many processes may be inside a call at once
  Froms,      \* whom receives may wait for: PIDs, and 0 for anyone
  SelfSend    \* whether a program may send a message to its own PID

ASSUME KernelAssumption ==
  /\ HeapSlots \in Nat \ {0}
  /\ Inside \in Nat \ {0}
  /\ Froms \subseteq 0..NProc
  /\ SelfSend \in BOOLEAN

Places == {"user", "create", "search", "block", "send", "wake", "recv",
           "adopt", "mark", "exit"}

VARIABLES
  sched,     \* see Process
  parent,    \* parent field; 0 is NULL
  kids,      \* the first_child / next_sibling list
  msgq,      \* message queue: the PIDs of the senders, oldest first
  waiting,   \* waiting_for_sender
  heap,      \* blocks kmalloc has handed out and kfree has not taken back
  linking,   \* child the shell has created and not yet linked; 0 if none
  at,        \* the place in a call where p is, or resumes; "user" outside
  peer,      \* PID that call has chosen: child, receiver (0 once its PCB is
             \* freed), or expected sender (0 for any)
  broken,    \* history: see above
  raced      \* history: p is in wait, and a wake-up due to it was lost

treeVars == << parent, kids >>
mailVars == << msgq, waiting >>
callVars == << at, peer, broken >>
vars == << sched, treeVars, mailVars, heap, linking, callVars, raced >>

cur == sched.cur
Live == {p \in PIDS : sched.state[p] # "free"}
KidsOf(p) == {kids[p][i] : i \in 1..Len(kids[p])}

TypeOK ==
  /\ sched \in SchedType
  /\ parent \in [PIDS -> 0..NProc]
  /\ kids \in [PIDS -> Seq(PIDS)]
  /\ msgq \in [PIDS -> Seq(PIDS)]
  /\ waiting \in [PIDS -> 0..NProc]
  /\ heap \in 0..HeapSlots
  /\ linking \in 0..NProc
  /\ at \in [PIDS -> Places]
  /\ peer \in [PIDS -> 0..NProc]
  /\ broken \in BOOLEAN
  /\ raced \in [PIDS -> BOOLEAN]

\* kernel_main up to shell_run.
Init ==
  /\ sched = SchedInit
  /\ parent = [p \in PIDS |-> 0]
  /\ kids = [p \in PIDS |-> << >>]
  /\ msgq = [p \in PIDS |-> << >>]
  /\ waiting = [p \in PIDS |-> 0]
  /\ heap = 1
  /\ linking = 0
  /\ at = [p \in PIDS |-> "user"]
  /\ peer = [p \in PIDS |-> 0]
  /\ broken = FALSE
  /\ raced = [p \in PIDS |-> FALSE]

----------------------------------------------------------------------------
\* The current process runs its program, neither inside a call nor halted in
\* sys_exit.  The shell does nothing between creating a child and linking it.
Runs ==
  /\ ~broken /\ at[cur] = "user" /\ sched.state[cur] # "zombie"
  /\ ~(cur = ShellPid /\ linking # 0)

In(place) == ~broken /\ at[cur] = place

GoTo(place, p) ==
  /\ at' = [at EXCEPT ![cur] = place]
  /\ peer' = [peer EXCEPT ![cur] = p]
Enter(place, p) ==
  /\ Cardinality({q \in PIDS : at[q] # "user"}) < Inside
  /\ GoTo(place, p)
Leave == GoTo("user", 0)

CanAlloc == heap < HeapSlots

\* What the current process has seen is no longer so: the PID it chose for a
\* child is taken, the receiver whose PCB it has in hand is freed, or whom it is
\* about to wake is not blocked any more.
Outdated ==
  CASE at[cur] = "create" -> CanAlloc /\ sched.state[peer[cur]] # "free"
    [] at[cur] = "send"   -> CanAlloc /\ peer[cur] = 0
    [] at[cur] = "wake"   -> peer[cur] # 0 => sched.state[peer[cur]] # "blocked"
    [] at[cur] = "adopt"  -> sched.state[ShellPid] # "blocked"
    [] OTHER              -> FALSE

\* Whom the current process is about to wake in sys_exit.
Owed ==
  CASE at[cur] = "exit" -> parent[cur] [] at[cur] = "adopt" -> ShellPid [] OTHER -> 0

\* p has searched its children in wait and is not blocked yet, or the context
\* for the blocked wait is in its PCB.
Searched(p) == at[p] \in {"search", "block"}
Waits(p) == Searched(p) \/ sched.ctx[p] = "wait"

\* What the history variable raced records of every step: a zombie child comes
\* after the search, or somebody who was to wake p loses the CPU for good.
Races ==
  raced' = [p \in PIDS |->
    /\ Waits(p)'
    /\ \/ raced[p]
       \/ Searched(p) /\ \E c \in KidsOf(p)' : sched'.state[c] = "zombie"
       \/ p = Owed /\ sched'.cur # cur /\ sched.state[cur] # "running"]

\* IRQ 0.  A process that loses the CPU without being saved will resume at an
\* earlier place: what is left of its call is not done, and the child that the
\* shell was about to link stays without a parent.
Timer ==
  /\ ~broken
  /\ sched' = timer_handler(sched)
  /\ IF sched'.cur # cur /\ sched.state[cur] # "running"
     THEN Leave /\ linking' = IF cur = ShellPid THEN 0 ELSE linking
     ELSE UNCHANGED << linking, at, peer >>
  /\ UNCHANGED << treeVars, mailVars, heap, broken >>
  /\ Races

\* Calls that only return to syscall_handler's tail: getpid, sleep, puts, ...,
\* and those that fail at once.
PlainSyscall ==
  /\ Runs
  /\ sched' = syscall_tail(sched)
  /\ UNCHANGED << treeVars, mailVars, heap, linking, callVars >>
  /\ Races

\* exec of a valid program restarts the time slice; a failed exec is plain.
Exec ==
  /\ Runs
  /\ sched' = [sched EXCEPT !.ticks[cur] = TimeSlice]
  /\ UNCHANGED << treeVars, mailVars, heap, linking, callVars >>
  /\ Races

----------------------------------------------------------------------------
\* Faulty variant: the child is put on no sibling list.
NewProcessUnlisted(c, f) ==
  /\ heap' = heap + 1
  /\ parent' = [parent EXCEPT ![c] = f]
  /\ kids' = [kids EXCEPT ![c] = << >>]
  /\ msgq' = [msgq EXCEPT ![c] = << >>]
  /\ waiting' = [waiting EXCEPT ![c] = 0]

\* What fork and process_create_kernel do for a new PCB c of parent f.
NewProcess(c, f) ==
  /\ heap' = heap + 1
  /\ parent' = [parent EXCEPT ![c] = f]
  /\ kids' = [q \in PIDS |-> IF q = c THEN << >>
                             ELSE IF q = f THEN << c >> \o kids[q] ELSE kids[q]]
  /\ msgq' = [msgq EXCEPT ![c] = << >>]
  /\ waiting' = [waiting EXCEPT ![c] = 0]

\* fork, and the shell in process_create_kernel, choose a PID.
ChoosePid ==
  /\ Runs
  /\ \E c \in PIDS : allocate_pid(sched, c) /\ Enter("create", c)
  /\ UNCHANGED << sched, treeVars, mailVars, heap, linking, broken >>
  /\ Races

\* Memory and the PID are there.
Creates == In("create") /\ CanAlloc /\ ~Outdated

Fork ==
  /\ Creates
  /\ NewProcess(peer[cur], cur)
  /\ sched' = syscall_tail(process_new(sched, peer[cur]))
  /\ Leave
  /\ UNCHANGED << linking, broken >>
  /\ Races

\* The commands fork and ipc_test: the child is runnable before it has a parent.
ShellCreate ==
  /\ Creates /\ cur = ShellPid
  /\ NewProcess(peer[cur], 0)
  /\ sched' = process_new(sched, peer[cur])
  /\ linking' = peer[cur]
  /\ Leave
  /\ UNCHANGED broken
  /\ Races

\* Without memory both return at once.
CreateFails ==
  /\ In("create") /\ ~CanAlloc
  /\ \/ sched' = syscall_tail(sched)
     \/ cur = ShellPid /\ UNCHANGED sched
  /\ Leave
  /\ UNCHANGED << treeVars, mailVars, heap, linking, broken >>
  /\ Races

\* ... and the parent link follows; ipc_test also resets the IPC fields.
ShellLink ==
  /\ ~broken /\ cur = ShellPid /\ linking # 0
  /\ parent' = [parent EXCEPT ![linking] = ShellPid]
  /\ kids' = [kids EXCEPT ![ShellPid] = << linking >> \o @]
  /\ \/ UNCHANGED mailVars
     \/ /\ msgq' = [msgq EXCEPT ![linking] = << >>]
        /\ waiting' = [waiting EXCEPT ![linking] = 0]
  /\ linking' = 0
  /\ UNCHANGED << sched, heap, callVars >>
  /\ Races

----------------------------------------------------------------------------
HasZombieKid == \E c \in KidsOf(cur) : sched.state[c] = "zombie"

Reverse(q) == [i \in 1..Len(q) |-> q[Len(q) + 1 - i]]

\* Faulty variant: the children keep their parent.
ExitWithoutReparent ==
  /\ Runs /\ cur # ShellPid
  /\ Enter("mark", 0)
  /\ UNCHANGED << sched, treeVars, mailVars, heap, linking, broken >>
  /\ Races

\* sys_exit.  process_reparent_children looks whether a blocked init now owns a
\* zombie.  The shell, which is init, never exits.
ExitReparent ==
  /\ Runs /\ cur # ShellPid
  /\ parent' = [q \in PIDS |-> IF q \in KidsOf(cur) THEN ShellPid ELSE parent[q]]
  /\ kids' = [kids EXCEPT ![ShellPid] = Reverse(kids[cur]) \o @,
                          ![cur] = << >>]
  /\ IF HasZombieKid /\ sched.state[ShellPid] = "blocked"
     THEN Enter("adopt", ShellPid) ELSE Enter("mark", 0)
  /\ UNCHANGED << sched, mailVars, heap, linking, broken >>
  /\ Races

\* ... and wakes it.
ExitAdopt ==
  /\ In("adopt") /\ ~Outdated
  /\ sched' = process_unblock(sched, ShellPid)
  /\ GoTo("mark", 0)
  /\ UNCHANGED << treeVars, mailVars, heap, linking, broken >>
  /\ Races

ExitMark ==
  /\ In("mark")
  /\ sched' = [sched EXCEPT !.state[cur] = "zombie"]
  /\ GoTo("exit", 0)
  /\ UNCHANGED << treeVars, mailVars, heap, linking, broken >>
  /\ Races

\* Faulty variant: exit leaves a blocked parent alone.
NoWakeParent(s, f) == s

WakeParent(s, f) ==
  IF f # 0 /\ s.state[f] = "blocked" THEN process_unblock(s, f) ELSE s

\* With no ticks left the timer cannot come between what is left of sys_exit.
\* It ends in a halt loop, and never reaches syscall_handler's tail.
ExitWake ==
  /\ In("exit")
  /\ sched' = schedule(WakeParent([sched EXCEPT !.ticks[cur] = 0], parent[cur]))
  /\ Leave
  /\ UNCHANGED << treeVars, mailVars, heap, linking, broken >>
  /\ Races

\* Faulty variant: the first child, whatever its state.
FirstChild(c) == kids[cur] # << >> /\ c = kids[cur][1]

\* c is the first zombie of the sibling list.
FirstZombie(c) ==
  \E i \in 1..Len(kids[cur]) :
    /\ c = kids[cur][i] /\ sched.state[c] = "zombie"
    /\ \A j \in 1..(i - 1) : sched.state[kids[cur][j]] # "zombie"

\* Returns -1.
WaitNoChild ==
  /\ Runs /\ kids[cur] = << >>
  /\ sched' = syscall_tail(sched)
  /\ UNCHANGED << treeVars, mailVars, heap, linking, callVars >>
  /\ Races

\* Reaping frees the PCB, and not the messages still queued on it.  A send that
\* has found it keeps the pointer.
WaitReap ==
  /\ Runs
  /\ \E c \in KidsOf(cur) :
       /\ FirstZombie(c)
       /\ kids' = [kids EXCEPT ![cur] = Without(@, c)]
       /\ parent' = [parent EXCEPT ![c] = 0]
       /\ msgq' = [msgq EXCEPT ![c] = << >>]
       /\ waiting' = [waiting EXCEPT ![c] = 0]
       /\ sched' = syscall_tail(process_free(sched, c))
       /\ peer' = [p \in PIDS |-> IF at[p] \in {"send", "wake"} /\ peer[p] = c
                                  THEN 0 ELSE peer[p]]
  /\ heap' = heap - 1
  /\ UNCHANGED << linking, at, broken >>
  /\ Races

\* No zombie yet.
WaitSearch ==
  /\ Runs /\ kids[cur] # << >> /\ ~HasZombieKid
  /\ Enter("search", 0)
  /\ UNCHANGED << sched, treeVars, mailVars, heap, linking, broken >>
  /\ Races

WaitSave ==
  /\ In("search")
  /\ sched' = [sched EXCEPT !.ctx[cur] = "wait"]
  /\ GoTo("block", 0)
  /\ UNCHANGED << treeVars, mailVars, heap, linking, broken >>
  /\ Races

\* Block and switch.  With nothing to switch to, the caller goes on, blocked,
\* with the call number still in eax.  If a tick has saved the process at this
\* place, over the context for the wait, it resumes here and blocks again.
WaitBlock ==
  /\ In("block")
  /\ LET s == schedule_from_interrupt(process_block(sched, cur))
     IN IF s.cur = cur
        THEN sched' = [s EXCEPT !.ctx[cur] = "stale"] /\ Leave
        ELSE /\ sched' = s
             /\ IF sched.ctx[cur] = "wait" THEN Leave ELSE UNCHANGED << at, peer >>
  /\ UNCHANGED << treeVars, mailVars, heap, linking, broken >>
  /\ Races

----------------------------------------------------------------------------
(***************************************************************************)
(* Message passing.  m is a record of what ipc.c changes: the scheduler s, *)
(* the queues q, the waiting_for_sender fields w, the heap blocks h.       *)
(***************************************************************************)
Mail == [s |-> sched, q |-> msgq, w |-> waiting, h |-> heap]

Set(m) ==
  /\ sched' = m.s
  /\ msgq' = m.q
  /\ waiting' = m.w
  /\ heap' = m.h
  /\ UNCHANGED << treeVars, linking, broken >>

\* The call ends with the mail m; one through int 0x80 adds its tail.
Return(m, via) ==
  /\ Set(IF via THEN [m EXCEPT !.s = syscall_tail(@)] ELSE m)
  /\ Leave

\* dequeue_message takes the oldest message from that sender; 0 is any.
Oldest(q, from) ==
  {i \in 1..Len(q) : /\ from \in {0, q[i]}
                     /\ \A j \in 1..(i - 1) : from \notin {0, q[j]}}
DropAt(q, k) ==
  [i \in 1..(Len(q) - 1) |-> IF i < k THEN q[i] ELSE q[i + 1]]
Dequeue(m, from) ==
  [m EXCEPT !.q[cur] = DropAt(@, CHOOSE i \in Oldest(@, from) : TRUE), !.h = @ - 1]

Expects(m, t) ==
  /\ m.s.state[t] = "blocked"
  /\ m.w[t] \in {0, cur}

Wake(m, t) == [m EXCEPT !.w[t] = 0, !.s = process_unblock(@, t)]

MaySend(t) == SelfSend \/ t # cur

\* ipc_send, ipc_reply and ipc_call look for the receiver and at its state.
SendLook(t) ==
  /\ Runs /\ t \in Live /\ MaySend(t)
  /\ Enter(IF Expects(Mail, t) THEN "wake" ELSE "send", t)
  /\ UNCHANGED << sched, treeVars, mailVars, heap, linking, broken >>
  /\ Races

\* The rest of the send: a receiver seen waiting is woken, and then the message
\* queued if there is memory for it.
Sends == (In("send") \/ In("wake")) /\ ~Outdated

Sent ==
  LET t == peer[cur]
      m == IF at[cur] = "wake" THEN Wake(Mail, t) ELSE Mail
  IN IF CanAlloc THEN [m EXCEPT !.q[t] = Append(@, cur), !.h = @ + 1] ELSE m

IpcSend(via) == Sends /\ Return(Sent, via) /\ Races

\* ipc_call waits for the reply if the message was sent.
CallReceives(via) ==
  /\ Sends /\ CanAlloc /\ peer[cur] \in Froms
  /\ IF Oldest(Sent.q[cur], peer[cur]) # {}
     THEN Return(Dequeue(Sent, peer[cur]), via)
     ELSE Set(Sent) /\ GoTo("recv", peer[cur])
  /\ Races

\* Faulty variant: the message is freed and not unlinked.
ipc_recv_nonblock_keeps(m, from) ==
  IF Oldest(m.q[cur], from) # {} THEN [m EXCEPT !.h = @ - 1] ELSE m

ipc_recv_nonblock(m, from) ==
  IF Oldest(m.q[cur], from) # {} THEN Dequeue(m, from) ELSE m

IpcRecvNonblock(from, via) ==
  Runs /\ Return(ipc_recv_nonblock(Mail, from), via) /\ Races

IpcRecv(from, via) ==
  /\ Runs
  /\ IF Oldest(msgq[cur], from) # {}
     THEN Return(Dequeue(Mail, from), via)
     ELSE Set(Mail) /\ Enter("recv", from)
  /\ Races

\* With no message the caller is marked blocked and keeps the CPU until a
\* reschedule; the second look at the queue follows at once.
RecvBlock(via) ==
  /\ In("recv")
  /\ LET m == [Mail EXCEPT !.w[cur] = peer[cur], !.s = schedule(process_block(@, cur))]
     IN Return(ipc_recv_nonblock(m, peer[cur]), via)
  /\ Races

----------------------------------------------------------------------------
\* The current process goes on with what is no longer so.
Break ==
  /\ ~broken /\ Outdated
  /\ broken' = TRUE
  /\ UNCHANGED << sched, treeVars, mailVars, heap, linking, at, peer, raced >>

Ended == broken /\ UNCHANGED vars

Next ==
  \/ Timer \/ PlainSyscall \/ Exec
  \/ ChoosePid \/ Fork \/ ShellCreate \/ CreateFails \/ ShellLink
  \/ ExitReparent \/ ExitAdopt \/ ExitMark \/ ExitWake
  \/ WaitNoChild \/ WaitReap \/ WaitSearch \/ WaitSave \/ WaitBlock
  \/ \E t \in PIDS : SendLook(t)
  \/ \E via \in BOOLEAN :
       \/ IpcSend(via) \/ CallReceives(via) \/ RecvBlock(via)
       \/ \E from \in Froms : IpcRecv(from, via) \/ IpcRecvNonblock(from, via)
  \/ Break \/ Ended

Spec == Init /\ [][Next]_vars

\* The timer interrupts for ever; no program is obliged to do anything.
FairSpec == Spec /\ WF_vars(Timer)

----------------------------------------------------------------------------
(***************************************************************************)
(* What holds as long as no program sends a message to itself, and until a *)
(* call goes on with what a tick has made untrue (broken).                 *)
(***************************************************************************)

\* The ready queue holds each ready process once and nothing else: block,
\* unblock, fork, exit, preemption and dispatch (process.c) neither lose nor
\* duplicate a process, and no exited or freed PCB is ever dispatched.
QueueIsReadySet == ~broken => InjectiveQueue(sched) /\ QueueHoldsReady(sched)

\* At most one process is in state PROCESS_RUNNING, the current one, which is
\* always an existing process (current_process never points to a freed PCB).
RunningIsCurrent ==
  ~broken =>
    /\ cur \in Live
    /\ \A p \in PIDS : sched.state[p] = "running" => p = cur

\* Why these two hold: no process is its own parent and PID 1 is nobody's
\* child, so whoever exit, wait or a send wakes is not the process that runs.
ShellIsRoot ==
  /\ linking # ShellPid
  /\ \A p \in PIDS : parent[p] # p /\ ShellPid \notin KidsOf(p)

\* first_child/next_sibling lists and parent fields agree, through fork, exit
\* with reparenting to PID 1, the shell's late linking and reaping.
TreeConsistent ==
  ~broken =>
    /\ \A p \in Live : \A c \in KidsOf(p) : c \in Live /\ parent[c] = p
    /\ \A c \in Live : parent[c] # 0 => parent[c] \in Live /\ c \in KidsOf(parent[c])
    /\ \A p \in Live : \A i, j \in 1..Len(kids[p]) : i # j => kids[p][i] # kids[p][j]

\* The parent of a zombie can still call wait: exit hands every child, zombies
\* included, to PID 1 before the parent becomes a zombie itself.
ZombiesReapable ==
  ~broken =>
    \A c \in Live : sched.state[c] = "zombie" /\ parent[c] # 0 =>
      sched.state[parent[c]] \notin {"zombie", "free"}

\* The wake-up for a zombie child is still to come: the child is in sys_exit
\* before the look at its parent, or somebody is about to wake init.
StillToWake(p, c) ==
  \/ at[c] = "exit"
  \/ p = ShellPid /\ \E q \in PIDS : at[q] = "adopt"

\* A process that sleeps in wait has no zombie child, or is about to be woken:
\* the exit of a child and the adoption of a zombie by init wake it, unless a
\* tick has let that happen between the search and the block of its wait, or
\* has taken the CPU for good from a process in sys_exit that was to wake it.
WaiterNotStranded ==
  ~broken =>
    \A p \in Live :
      sched.state[p] = "blocked" /\ sched.ctx[p] = "wait" /\ ~raced[p] =>
        \A c \in KidsOf(p) : sched.state[c] = "zombie" => StillToWake(p, c)

\* Blocks needed by the PCBs of L and the messages on their queues q.
Needed(L, q) ==
  LET upTo[p \in 0..NProc] ==
        IF p = 0 THEN 0
        ELSE upTo[p - 1] + (IF p \in L THEN 1 + Len(q[p]) ELSE 0)
  IN upTo[NProc]

\* No PCB and no message in use has been returned to kmalloc: exit, wait and
\* the receive functions free each block at most once.
NothingFreedInUse == ~broken => heap >= Needed(Live, msgq)

\* The life of each PID is as Lifecycle says, until a call goes on with what a
\* tick has made untrue: an exited process never runs again, and only its own
\* parent frees its PID.
LC == INSTANCE Lifecycle WITH
        life <- [p \in PIDS |-> CASE sched.state[p] = "free"   -> "free"
                                  [] sched.state[p] = "zombie" -> "zombie"
                                  [] OTHER                     -> "alive"],
        par <- parent
ImplementsLifecycle ==
  LC!LifeInit /\ [][broken' \/ UNCHANGED LC!lifeVars \/ LC!LifeNext]_vars

\* Whoever a send wakes waits at that moment, as the comment in ipc.c:88 says.
\* It need not: between the look and the act another send may have woken it.
WakesWaiting ==
  ~broken /\ at[cur] = "wake" =>
    peer[cur] # 0 /\ sched.state[peer[cur]] = "blocked"

\* Only the timer counts the current process's ticks down: programs have
\* stopped calling exec, which restarts the slice, and calling ipc_recv
\* directly, which zeroes the counter just before the next tick wraps it.
SliceLeftToTimer ==
  [][Timer \/ cur' # cur \/ sched'.ticks[cur] = sched.ticks[cur]]_vars

EveryReadyRuns ==
  \A p \in PIDS : (sched.state[p] = "ready") ~> (sched.state[p] = "running" \/ broken)

\* A ready process gets the CPU in the end, even behind a zombie or a process
\* whose counter has wrapped, once the slices are left to the timer.
ReadyRuns == <>SliceLeftToTimer => EveryReadyRuns

=============================================================================
