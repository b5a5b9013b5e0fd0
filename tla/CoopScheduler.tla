---------------------------- MODULE CoopScheduler ----------------------------
(***************************************************************************)
(* The cooperative scheduler of stage 08_process: process.c, context.asm,  *)
(* and kernel.c as its client.  Processes give up the CPU by calling       *)
(* process_schedule; there are no interrupts.  The state is one record k:  *)
(*   k.slot   process_table: pid (0 when the slot is free), state, links,  *)
(*            and the frame its stack holds while it does not run          *)
(*   k.ready, k.current, k.next_pid, k.count                               *)
(*   k.heap   slots for whose stack kmalloc's block has not been freed     *)
(* A slot is named by its number from 1 on; 0 is NULL.  Of a frame only    *)
(* who wrote it is kept; process_create orders its words the other way     *)
(* round than context_switch pops them.                                    *)
(***************************************************************************)
EXTENDS Integers, Sequences, FiniteSets

CONSTANTS
  MAX_PROCESS,
  HeapStacks,  \* how many stacks kmalloc can serve
  MaxPid,      \* bound: PIDs handed out; next_pid does not wrap
  ExitSelf     \* whether a process may call process_exit on itself

ASSUME CoopAssumption ==
  /\ MAX_PROCESS \in Nat \ {0} /\ HeapStacks \in Nat /\ MaxPid \in Nat
  /\ ExitSelf \in BOOLEAN

VARIABLE k

SLOTS == 1..MAX_PROCESS
NULL == 0
Frames == {"none", "initial", "saved"}

TypeOK ==
  k \in [slot : [SLOTS -> [pid : 0..MaxPid, next : SLOTS \cup {NULL}, prev : SLOTS \cup {NULL},
                           state : {"created", "ready", "running", "terminated"},
                           frame : Frames]],
         ready : SLOTS \cup {NULL}, current : SLOTS \cup {NULL},
         next_pid : 1..(MaxPid + 1), count : 0..MAX_PROCESS,
         heap : SUBSET SLOTS]

\* process_init.
Init ==
  k = [slot |-> [p \in SLOTS |-> [pid |-> 0, next |-> NULL, prev |-> NULL,
                                  state |-> "terminated", frame |-> "none"]],
       ready |-> NULL, current |-> NULL, next_pid |-> 1, count |-> 0,
       heap |-> {}]

----------------------------------------------------------------------------
(***************************************************************************)
(* The ready queue, a doubly linked list.                                  *)
(***************************************************************************)
\* The i-th process of the list, from 1; NULL after the last.
Nth(s, i) ==
  LET walk[j \in 1..i] == IF j = 1 THEN s.ready
                          ELSE IF walk[j - 1] = NULL THEN NULL ELSE s.slot[walk[j - 1]].next
  IN walk[i]

Listed(s) == {Nth(s, i) : i \in SLOTS} \ {NULL}

\* Faulty variant: the new process goes to the head.
add_at_head(s, p) ==
  [s EXCEPT !.slot = [q \in SLOTS |->
                        IF q = p THEN [@[p] EXCEPT !.state = "ready", !.next = s.ready, !.prev = NULL]
                        ELSE IF q = s.ready THEN [@[q] EXCEPT !.prev = p] ELSE @[q]],
            !.ready = p]

add_to_ready_queue(s, p) ==
  IF s.ready = NULL
  THEN [s EXCEPT !.slot[p].state = "ready", !.slot[p].next = NULL, !.slot[p].prev = NULL,
                 !.ready = p]
  ELSE LET last == CHOOSE q \in Listed(s) : s.slot[q].next = NULL
       IN [s EXCEPT !.slot[last].next = p,
                    !.slot[p].state = "ready", !.slot[p].prev = last, !.slot[p].next = NULL]

\* Faulty variant: the successor keeps its prev.
remove_singly(s, p) ==
  LET nxt == s.slot[p].next
      prv == s.slot[p].prev
      t == IF prv # NULL THEN [s EXCEPT !.slot[prv].next = nxt] ELSE [s EXCEPT !.ready = nxt]
  IN [t EXCEPT !.slot[p].next = NULL, !.slot[p].prev = NULL]

\* A process without predecessor is taken for the head, queued or not.
remove_from_ready_queue(s, p) ==
  LET nxt == s.slot[p].next
      prv == s.slot[p].prev
      t == IF prv # NULL THEN [s EXCEPT !.slot[prv].next = nxt] ELSE [s EXCEPT !.ready = nxt]
      u == IF nxt # NULL THEN [t EXCEPT !.slot[nxt].prev = prv] ELSE t
  IN [u EXCEPT !.slot[p].next = NULL, !.slot[p].prev = NULL]

----------------------------------------------------------------------------
(***************************************************************************)
(* The operations.                                                         *)
(***************************************************************************)
\* context_switch writes the frame of the process that stops and uses up that
\* of the one that goes on.  Without prev the frame is stored through address 0.
context_switch(s, prev, nxt) ==
  LET t == IF prev = NULL THEN s ELSE [s EXCEPT !.slot[prev].frame = "saved"]
  IN [t EXCEPT !.slot[nxt].frame = "none"]

process_schedule(s) ==
  LET nxt == s.ready
      prev == s.current
      t == [remove_from_ready_queue(s, nxt) EXCEPT !.slot[nxt].state = "running", !.current = nxt]
  IN IF nxt = NULL THEN s
     ELSE context_switch(IF prev = NULL THEN t ELSE add_to_ready_queue(t, prev), prev, nxt)

get_free_slot(s, p) ==
  /\ s.slot[p].pid = 0
  /\ \A q \in SLOTS : s.slot[q].pid = 0 => p <= q

\* Faulty variant: the slot stays taken when there is no memory for a stack.
process_create_keeps_slot(s, p) ==
  IF Cardinality(s.heap) = HeapStacks
  THEN [s EXCEPT !.next_pid = @ + 1, !.slot[p].pid = s.next_pid, !.slot[p].state = "created"]
  ELSE LET t == [s EXCEPT !.next_pid = @ + 1, !.heap = @ \cup {p}, !.slot[p].pid = s.next_pid,
                          !.slot[p].frame = "initial", !.count = @ + 1]
       IN add_to_ready_queue(t, p)

\* process_create in slot p.  A PID is used up even if it fails.
process_create(s, p) ==
  IF Cardinality(s.heap) = HeapStacks
  THEN [s EXCEPT !.next_pid = @ + 1, !.slot[p].state = "created"]
  ELSE LET t == [s EXCEPT !.next_pid = @ + 1, !.heap = @ \cup {p}, !.slot[p].pid = s.next_pid,
                          !.slot[p].frame = "initial", !.count = @ + 1]
       IN add_to_ready_queue(t, p)

\* process_exit.  Nothing runs on if the current process was the last.
process_exit(s, p) ==
  LET t == [remove_from_ready_queue([s EXCEPT !.slot[p].state = "terminated"], p)
              EXCEPT !.heap = @ \ {p}, !.slot[p].pid = 0, !.slot[p].frame = "none",
                     !.count = @ - 1]
  IN IF p = s.current THEN process_schedule([t EXCEPT !.current = NULL]) ELSE t

----------------------------------------------------------------------------
\* kernel_main creates processes before it starts the first; a process may.
Create ==
  /\ k.count < MAX_PROCESS /\ k.next_pid <= MaxPid
  /\ \E p \in SLOTS : get_free_slot(k, p) /\ k' = process_create(k, p)

\* kernel_main hands over the CPU for good.
Start == k.current = NULL /\ k.ready # NULL /\ k' = process_schedule(k)

\* The loop of process_a, process_b and process_c comes to its end.
Yield == k.current # NULL /\ k' = process_schedule(k)

Exit ==
  /\ k.current # NULL
  /\ \E p \in SLOTS :
       /\ k.slot[p].pid # 0
       /\ p # k.current \/ ExitSelf
       /\ k' = process_exit(k, p)

Next == Create \/ Start \/ Yield \/ Exit

Spec == Init /\ [][Next]_k

\* kernel_main goes on, and every process calls process_schedule again.
FairSpec == Spec /\ WF_k(Start) /\ WF_k(Yield)

----------------------------------------------------------------------------
\* The links from ready_queue visit every ready process once and nothing else,
\* and prev is the way back (add_to_ready_queue, remove_from_ready_queue).
QueueIsList ==
  /\ Listed(k) = {p \in SLOTS : k.slot[p].state = "ready"}
  /\ \A i \in 1..Cardinality(Listed(k)) :
       /\ Nth(k, i) # NULL
       /\ k.slot[Nth(k, i)].prev = IF i = 1 THEN NULL ELSE Nth(k, i - 1)

\* process_count, the slots with a PID and the stacks that are allocated say
\* the same (process_create, process_exit), and each such process either runs
\* or waits in the list with a frame to go on from.
SlotsExact ==
  LET taken == {p \in SLOTS : k.slot[p].pid # 0}
  IN /\ k.count = Cardinality(taken) /\ k.heap = taken
     /\ \A p \in taken : IF p = k.current THEN k.slot[p].frame = "none"
                         ELSE p \in Listed(k) /\ k.slot[p].frame # "none"

\* A process that is ready runs in the end, or is terminated, if processes
\* keep giving up the CPU (process_schedule).
EveryoneRuns ==
  \A p \in SLOTS : k.slot[p].state = "ready" ~> k.slot[p].state # "ready"
=============================================================================
