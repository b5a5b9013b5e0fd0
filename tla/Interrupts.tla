----------------------------- MODULE Interrupts -----------------------------
(***************************************************************************)
(* How each kernel of the series boots its interrupts and serves them:     *)
(* pic.c, idt.c, isr.c, usermode.c, tss.c and the order in which           *)
(* kernel_main calls them, in the stages that differ.  Stages 03 and 04    *)
(* acknowledge an IRQ before its handler, the later ones at the end of it. *)
(* The state is one record m:                                              *)
(*   m.stage, m.boot   the kernel, and what its kernel_main has yet to do  *)
(*   m.gates, m.reg    the IDT, and the table of registered handlers       *)
(*   m.remapped        whether the PICs have left the BIOS vectors         *)
(*   m.imr, m.irr, m.isr  lines masked, requested and in service           *)
(*   m.on, m.ring, m.tss  interrupt flag, privilege, task register loaded  *)
(*   m.frames          what has been interrupted, innermost last: vector,  *)
(*                     IRQ line, what its handler still does, on and ring  *)
(*   m.key             port 0x60 holds a scancode nobody has read          *)
(*   m.dead            an interrupt met no gate or no kernel stack         *)
(* The devices, the two PICs and the CPU are modelled as the code uses     *)
(* them.  A process switch returns to another frame of the same shape.     *)
(***************************************************************************)
EXTENDS Integers, Sequences, FiniteSets

CONSTANT Stages  \* the kernels of the run

AllStages == {3, 4, 9, 10, 11, 13}

ASSUME InterruptsAssumption == Stages \subseteq AllStages

VARIABLE m

\* The timer, the keyboard, the line of the second PIC, and the disk behind it.
Timer == 0
Keyboard == 1
Cascade == 2
DiskLine == 14
LINES == {Timer, Keyboard, Cascade, DiskLine}
NoLine == 16

\* 0 divides by zero, 13 stands for the faults of programs, 8, 9 and 118 are
\* where the BIOS leaves the IRQs, 32, 33 and 46 where the kernel puts them.
VECTORS == {0, 8, 9, 13, 32, 33, 46, 118, 128}
IrqVector(s, l) == IF s.remapped THEN 32 + l ELSE IF l < 8 THEN 8 + l ELSE 104 + l

Gates == {"none", "interrupt", "trap"}
Handlers == {"none", "timer", "keyboard", "syscall"}
Actions == {"eoi", "count", "read", "call", "hang"}

IrqTypeOK ==
  /\ m.stage \in Stages /\ m.gates \in [VECTORS -> Gates] /\ m.reg \in [VECTORS -> Handlers]
  /\ m.imr \in SUBSET LINES /\ m.irr \in SUBSET LINES /\ m.isr \in SUBSET LINES
  /\ m.on \in BOOLEAN /\ m.ring \in {0, 3} /\ m.tss \in BOOLEAN
  /\ m.remapped \in BOOLEAN /\ m.key \in BOOLEAN /\ m.dead \in BOOLEAN
  /\ \A i \in 1..Len(m.frames) :
       m.frames[i] \in [vec : VECTORS, line : LINES \cup {NoLine}, todo : Seq(Actions),
                        on : BOOLEAN, ring : {0, 3}]

----------------------------------------------------------------------------
(***************************************************************************)
(* The interrupt descriptor table.                                         *)
(***************************************************************************)
SetGates(s, vecs, gate) ==
  [s EXCEPT !.gates = [v \in VECTORS |-> IF v \in vecs THEN gate ELSE "none"]]

\* Faulty variant: trap gates, which leave the interrupt flag alone.
idt_init_trap(s) == SetGates(s, {v \in VECTORS : v < 48}, "trap")

\* Gates 0 to 47 are interrupt gates, the others empty.
idt_init_03(s) == SetGates(s, {v \in VECTORS : v < 48}, "interrupt")

\* The same table.
idt_init_04(s) == idt_init_03(s)

\* The handlers are forgotten as well, and int 0x80, which no program of stage
\* 10 uses, has its interrupt gate.
idt_init_10(s) ==
  [idt_init_03(s) EXCEPT !.reg = [v \in VECTORS |-> "none"], !.gates[128] = "interrupt"]

\* ... and int 0x80 becomes a trap gate.
idt_init_13(s) == [idt_init_10(s) EXCEPT !.gates[128] = "trap"]

idt_register_handler(s, v, h) == [s EXCEPT !.reg[v] = h]

----------------------------------------------------------------------------
(***************************************************************************)
(* The interrupt controllers.                                              *)
(***************************************************************************)
\* Initialisation forgets requests and services, and then everything is masked.
pic_init_03(s) ==
  [s EXCEPT !.remapped = TRUE, !.imr = LINES, !.irr = {}, !.isr = {}]

pic_init_04(s) == pic_init_03(s)

\* The line of the second PIC stays open.
pic_init_10(s) == [pic_init_03(s) EXCEPT !.imr = LINES \ {Cascade}]

pic_unmask_irq(s, l) == [s EXCEPT !.imr = @ \ {l}]

\* A line is served before those of a greater rank.
Rank(l) == CASE l = Timer -> 0 [] l = Keyboard -> 1 [] l = Cascade -> 2 [] l = DiskLine -> 3
Highest(lines) == {l \in lines : \A o \in lines : Rank(l) <= Rank(o)}

\* An end of interrupt ends the service of highest priority on its PIC.
EndOn(s, lines) == [s EXCEPT !.isr = @ \ Highest(@ \cap lines)]

\* Faulty variant: the command goes to the second PIC only.
pic_send_eoi_second(s, l) == EndOn(s, {DiskLine})

pic_send_eoi(s, l) ==
  EndOn(IF l >= 8 THEN EndOn(s, {DiskLine}) ELSE s, {Timer, Keyboard, Cascade})

\* The line the PICs ask the CPU to serve: an open one above all in service.
Offered(s) ==
  {l \in Highest(s.irr \ s.imr) :
     /\ l = DiskLine => Cascade \notin s.imr
     /\ \A o \in s.isr : Rank(l) < Rank(o)}

----------------------------------------------------------------------------
(***************************************************************************)
(* Handlers, as what they do in order.                                     *)
(***************************************************************************)
\* isr_handler and irq_handler of stage 03.
irq_handler_03(v) ==
  IF v < 32 THEN << "hang" >> ELSE IF v = 32 THEN << "eoi", "count" >> ELSE << "eoi" >>

\* Stage 04 serves the keyboard instead of the timer.
irq_handler_04(v) ==
  IF v < 32 THEN << "hang" >> ELSE IF v = 33 THEN << "eoi", "read" >> ELSE << "eoi" >>

timer_handler == << "count", "eoi" >>
keyboard_handler == << "read", "eoi" >>

\* exception_handler prints and halts with interrupts off.
exception_handler == << "hang" >>

\* A registered handler; an exception without one hangs; the rest is ignored
\* and not acknowledged.
interrupt_handler(s, v) ==
  CASE s.reg[v] = "timer"    -> timer_handler
    [] s.reg[v] = "keyboard" -> keyboard_handler
    [] s.reg[v] = "syscall"  -> << "call" >>
    [] s.reg[v] = "none"     -> IF v < 32 THEN exception_handler ELSE << >>

Handling(s, v) ==
  CASE s.stage = 3 -> irq_handler_03(v)
    [] s.stage = 4 -> irq_handler_04(v)
    [] OTHER       -> interrupt_handler(s, v)

\* The CPU takes vector v: through a gate, and from ring 3 by way of the TSS.
Enter(s, v, l) ==
  IF s.gates[v] = "none" \/ (s.ring = 3 /\ ~s.tss)
  THEN [s EXCEPT !.dead = TRUE]
  ELSE [s EXCEPT !.frames = Append(@, [vec |-> v, line |-> l, todo |-> Handling(s, v),
                                       on |-> s.on, ring |-> s.ring]),
                 !.on = s.on /\ s.gates[v] = "trap",
                 !.ring = 0]

----------------------------------------------------------------------------
(***************************************************************************)
(* Booting.                                                                *)
(***************************************************************************)
kernel_main_03 == << "idt_init", "pic_init", "sti", "hlt", "divide" >>
kernel_main_04 == << "idt_init", "pic_init", "poll" >>
kernel_main_09 == << "usermode_init", "jump_user" >>

\* Faulty variant: the handlers are registered too early.
kernel_main_10_early ==
  << "pic_init", "timer", "keyboard", "idt_init", "sti", "unmask_timer", "unmask_keyboard" >>

kernel_main_10 ==
  << "pic_init", "idt_init", "timer", "keyboard", "sti", "unmask_timer", "unmask_keyboard" >>
kernel_main_11 ==
  << "pic_init", "idt_init", "usermode_init", "syscall", "timer", "keyboard", "sti",
     "unmask_timer", "unmask_keyboard", "switch_to_first" >>

\* Stage 13 has no system calls and no user mode: the shell runs in the kernel.
kernel_main_13 ==
  << "pic_init", "idt_init", "timer", "keyboard", "sti", "unmask_timer", "unmask_keyboard" >>

kernel_main(stage) ==
  CASE stage = 3 -> kernel_main_03 [] stage = 4 -> kernel_main_04 [] stage = 9 -> kernel_main_09
    [] stage = 10 -> kernel_main_10 [] stage = 11 -> kernel_main_11
    [] stage = 13 -> kernel_main_13

\* The boot loader has switched interrupts off; the BIOS has the lines open.
IrqInit ==
  \E stage \in Stages :
    m = [stage |-> stage, boot |-> kernel_main(stage),
         gates |-> [v \in VECTORS |-> "none"], reg |-> [v \in VECTORS |-> "none"],
         remapped |-> FALSE, imr |-> {}, irr |-> {}, isr |-> {},
         on |-> FALSE, ring |-> 0, tss |-> FALSE, frames |-> << >>,
         key |-> FALSE, dead |-> FALSE]

\* jump_user_mode: ring 3, with interrupts off for good.
jump_user_mode(s) == [s EXCEPT !.ring = 3, !.on = FALSE]

\* The first context has interrupts on.
switch_to_first(s) == [s EXCEPT !.ring = 3, !.on = TRUE]

\* usermode_init: kernel and user segments, and tss_init with a kernel stack.
usermode_init(s) == [s EXCEPT !.tss = TRUE]

\* What the call op of kernel_main does.
Do(s, op) ==
  CASE op = "idt_init" ->
         (CASE s.stage = 3 -> idt_init_03(s) [] s.stage = 4 -> idt_init_04(s)
            [] s.stage = 10 -> idt_init_10(s) [] OTHER -> idt_init_13(s))
    [] op = "pic_init" ->
         (CASE s.stage = 3 -> pic_init_03(s) [] s.stage = 4 -> pic_init_04(s)
            [] OTHER -> pic_init_10(s))
    [] op = "timer" -> idt_register_handler(s, 32, "timer")
    [] op = "keyboard" -> idt_register_handler(s, 33, "keyboard")
    [] op = "syscall" -> idt_register_handler(s, 128, "syscall")
    [] op = "usermode_init" -> usermode_init(s)
    [] op = "sti" -> [s EXCEPT !.on = TRUE]
    [] op = "unmask_timer" -> pic_unmask_irq(s, Timer)
    [] op = "unmask_keyboard" -> pic_unmask_irq(s, Keyboard)
    [] op = "jump_user" -> jump_user_mode(s)
    [] op = "switch_to_first" -> switch_to_first(s)
    [] op = "divide" -> Enter(s, 0, NoLine)

Alive == ~m.dead
AtBase == Alive /\ m.frames = << >>

\* hlt and the polling loop go on by actions of their own.
Boot ==
  /\ AtBase /\ m.boot # << >> /\ Head(m.boot) \notin {"hlt", "poll"}
  /\ m' = [Do(m, Head(m.boot)) EXCEPT !.boot = Tail(@)]

\* poll_keyboard of stage 04 takes the scancode from under the masked IRQ.
poll_keyboard ==
  /\ AtBase /\ m.boot # << >> /\ Head(m.boot) = "poll" /\ m.key
  /\ m' = [m EXCEPT !.key = FALSE]

----------------------------------------------------------------------------
(***************************************************************************)
(* Devices, delivery, handlers and programs.                               *)
(***************************************************************************)
\* A tick, or a disk command that completes.
Raise == Alive /\ \E l \in {Timer, DiskLine} : m' = [m EXCEPT !.irr = @ \cup {l}]

\* The controller signals a scancode when the one before it has been read.
Type == Alive /\ ~m.key /\ m' = [m EXCEPT !.key = TRUE, !.irr = @ \cup {Keyboard}]

\* The CPU acknowledges a line.  In stage 03 this also ends the hlt.
Deliver(l) ==
  /\ Alive /\ m.on /\ l \in Offered(m)
  /\ LET s == [m EXCEPT !.irr = @ \ {l},
                        !.isr = @ \cup (IF l = DiskLine THEN {Cascade, DiskLine} ELSE {l}),
                        !.boot = IF m.frames = << >> /\ @ # << >> /\ Head(@) = "hlt"
                                 THEN Tail(@) ELSE @]
     IN m' = Enter(s, IrqVector(s, l), l)

Top == m.frames[Len(m.frames)]
Done(s) == [s EXCEPT !.frames[Len(s.frames)].todo = Tail(@)]

\* The next thing the innermost handler does.
Step ==
  /\ Alive /\ m.frames # << >> /\ Top.todo # << >>
  /\ LET a == Head(Top.todo)
     IN \/ a = "eoi" /\ m' = Done(pic_send_eoi(m, Top.line))
        \/ a = "count" /\ m' = Done(m)
        \/ a = "read" /\ m' = Done([m EXCEPT !.key = FALSE])

\* A system call comes to its end.
ReturnCall == Alive /\ m.frames # << >> /\ Top.todo = << "call" >> /\ m' = Done(m)

\* sys_read polls the controller for a scancode that IRQ 1 has announced too.
sys_read ==
  /\ Alive /\ m.frames # << >> /\ Top.todo = << "call" >> /\ m.key
  /\ m' = Done([m EXCEPT !.key = FALSE])

\* iret.
Iret ==
  /\ Alive /\ m.frames # << >> /\ Top.todo = << >>
  /\ m' = [m EXCEPT !.frames = SubSeq(@, 1, Len(@) - 1), !.on = Top.on, !.ring = Top.ring]

\* int 0x80 in user code, and in the shell of stage 13, where nobody answers.
Syscall ==
  /\ AtBase /\ m.boot = << >> /\ m.stage \in {11, 13}
  /\ m' = Enter(m, 128, NoLine)

\* A user program faults.
Fault == AtBase /\ m.boot = << >> /\ m.ring = 3 /\ m.stage = 11 /\ m' = Enter(m, 13, NoLine)

\* The halt loop after an exception, and what a dead machine does.
Hung == m.dead \/ (m.frames # << >> /\ Top.todo = << "hang" >>)
StayHung == Hung /\ UNCHANGED m

Kernel == Boot \/ Step \/ Iret
IrqNext ==
  \/ Kernel \/ poll_keyboard \/ Raise \/ Type \/ (\E l \in LINES : Deliver(l))
  \/ ReturnCall \/ sys_read \/ Syscall \/ Fault \/ StayHung

IrqSpec == IrqInit /\ [][IrqNext]_m

\* The CPU executes kernel code, and looks for interrupts between instructions.
IrqFairSpec == IrqSpec /\ WF_m(Kernel) /\ \A l \in LINES : SF_m(Deliver(l))

----------------------------------------------------------------------------
Irqs == {i \in 1..Len(m.frames) : m.frames[i].line # NoLine}

\* An IRQ that is delivered, at any moment of booting or running, finds its own
\* gate, a kernel stack and a handler that acknowledges it (the order of the
\* calls in kernel_main; idt_init forgets handlers, pic_init moves vectors).
IrqsReachHandlers ==
  /\ ~m.dead
  /\ \A i \in Irqs :
       LET f == m.frames[i]
       IN /\ f.vec = 32 + f.line
          /\ \E j \in 1..Len(Handling(m, f.vec)) : Handling(m, f.vec)[j] = "eoi"

\* IRQ handlers do not nest, and the lines in service are exactly that of the
\* one handler that has not acknowledged yet: no end of interrupt is lost, sent
\* twice or counted for another line (pic_send_eoi, interrupt gates).
OneServiceAtATime ==
  /\ \A i \in Irqs : i = Len(m.frames)
  /\ m.isr = {m.frames[i].line : i \in {j \in Irqs : \E a \in 1..Len(m.frames[j].todo) :
                                                       m.frames[j].todo[a] = "eoi"}}

Served(l) ==
  [](m.remapped /\ m.boot = << >> /\ l \in m.irr \ m.imr => <>(l \notin m.irr \/ Hung))

\* A tick that is due is served in the end, and a key too if ticks leave it a
\* moment, in every kernel that has opened the lines, until a program faults.
ServedInTheEnd ==
  /\ Served(Timer)
  /\ []<>(m.on /\ Timer \notin m.irr) => Served(Keyboard)

=============================================================================
