------------------------------ MODULE Keyboard ------------------------------
(***************************************************************************)
(* keyboard.c and the line reader of shell.c: a ring buffer filled by the  *)
(* handler of IRQ 1 and emptied by the shell, with interrupts on and no    *)
(* lock.  The handler runs to its end; the shell is interrupted between    *)
(* any two of its memory accesses, as the unoptimised build orders them.   *)
(* The C expression buffer_count-- is a load and a store.                  *)
(***************************************************************************)
EXTENDS Integers, Sequences

CONSTANTS
  BufSize,  \* BUFFER_SIZE
  MaxLine   \* SHELL_BUFFER_SIZE

ASSUME KeyboardAssumption ==
  /\ BufSize \in Nat \ {0}
  /\ MaxLine \in Nat \ {0, 1}

VARIABLES
  key_buffer, read_pos, write_pos, buffer_count,
  shift_pressed, caps_lock,
  pc,     \* where the shell is
  reg,    \* the register between load and store of buffer_count
  c,      \* the local variable c of keyboard_getchar
  line,   \* the line read_line has assembled
  unread, \* not in the code: how many slots were filled and not yet taken
  raced   \* not in the code: whether a character ever came in one of Windows

ring == << key_buffer, read_pos, write_pos, buffer_count, unread >>
modifiers == << shift_pressed, caps_lock >>
vars == << ring, modifiers, pc, reg, c, line, raced >>

\* A letter in both cases, Enter, Backspace, a key without printable character.
Chars == {"a", "A", "nl", "bs", "esc"}
NoChar == "none"
CharKeys == {"letter", "enter", "backspace", "escape"}
Keys == CharKeys \cup {"shift", "caps"}

Slots == 0..(BufSize - 1)
Boot == {"init_read", "init_write", "init_count", "init_modifiers"}
Labels == Boot \cup {"check", "halt", "halted", "take", "advance", "load", "store", "line"}

TypeOK ==
  /\ key_buffer \in [Slots -> Chars \cup {NoChar}]
  /\ read_pos \in Slots /\ write_pos \in Slots
  /\ buffer_count \in 0..BufSize /\ unread \in 0..BufSize
  /\ shift_pressed \in BOOLEAN /\ caps_lock \in BOOLEAN
  /\ pc \in Labels
  /\ reg \in 0..BufSize
  /\ c \in Chars \cup {NoChar}
  /\ line \in Seq({"a", "A"}) /\ Len(line) < MaxLine - 1
  /\ raced \in BOOLEAN

\* kernel_main has unmasked IRQ 1; the shell is about to call keyboard_init.
Init ==
  /\ key_buffer = [i \in Slots |-> NoChar]
  /\ read_pos = 0 /\ write_pos = 0 /\ buffer_count = 0 /\ unread = 0
  /\ shift_pressed = FALSE /\ caps_lock = FALSE
  /\ pc = "init_read"
  /\ reg = 0 /\ c = NoChar /\ line = << >> /\ raced = FALSE

----------------------------------------------------------------------------
(***************************************************************************)
(* IRQ 1.                                                                  *)
(***************************************************************************)
Next1(i) == (i + 1) % BufSize

\* scancode_table, shift_table and the treatment of caps lock.
Translate(k) ==
  CASE k = "letter" -> IF shift_pressed \/ caps_lock THEN "A" ELSE "a"
    [] k = "enter" -> "nl"
    [] k = "backspace" -> "bs"
    [] k = "escape" -> "esc"

\* A character that finds the buffer full is dropped.  (A slot that is filled
\* again before it was taken counts once in unread.)
buffer_put(ch) ==
  IF buffer_count < BufSize
  THEN /\ key_buffer' = [key_buffer EXCEPT ![write_pos] = ch]
       /\ write_pos' = Next1(write_pos)
       /\ buffer_count' = buffer_count + 1
       /\ unread' = IF unread < BufSize THEN unread + 1 ELSE unread
  ELSE UNCHANGED << key_buffer, write_pos, buffer_count, unread >>

\* An interrupt ends the hlt of keyboard_getchar; one that comes just before
\* the hlt does not.
WakeShell == pc' = IF pc = "halted" THEN "check" ELSE pc

keyboard_irq_handler(k, released) ==
  /\ IF k = "shift"
     THEN shift_pressed' = ~released
     ELSE UNCHANGED shift_pressed
  /\ IF k = "caps" /\ ~released
     THEN caps_lock' = ~caps_lock
     ELSE UNCHANGED caps_lock
  /\ IF k \in CharKeys /\ ~released
     THEN buffer_put(Translate(k))
     ELSE UNCHANGED << key_buffer, write_pos, buffer_count, unread >>
  /\ WakeShell
  /\ UNCHANGED << read_pos, reg, c, line >>

\* Between two accesses that belong together: load and store of buffer_count,
\* and the resets of write_pos and buffer_count.
Windows == {"store", "init_count"}

KeyIrq ==
  /\ \E k \in Keys, released \in BOOLEAN : keyboard_irq_handler(k, released)
  /\ raced' = (raced \/ (pc \in Windows /\ buffer_count' # buffer_count))

\* Faulty variant: nothing but a key ends the hlt.
OtherIrqMasked ==
  /\ pc = "halted" /\ pc' = "halted"
  /\ UNCHANGED << ring, modifiers, reg, c, line, raced >>

\* Any other interrupt, the timer above all.
OtherIrq ==
  /\ pc = "halted"
  /\ WakeShell
  /\ UNCHANGED << ring, modifiers, reg, c, line, raced >>

----------------------------------------------------------------------------
(***************************************************************************)
(* The shell: keyboard_init, then read_line over keyboard_getchar for ever.*)
(***************************************************************************)
Goto(from, to) == pc = from /\ pc' = to

InitRead ==
  /\ Goto("init_read", "init_write")
  /\ read_pos' = 0
  /\ UNCHANGED << key_buffer, write_pos, buffer_count, unread, modifiers, reg, c, line, raced >>

InitWrite ==
  /\ Goto("init_write", "init_count")
  /\ write_pos' = 0 /\ unread' = 0
  /\ UNCHANGED << key_buffer, read_pos, buffer_count, modifiers, reg, c, line, raced >>

\* Faulty variant: the count survives keyboard_init.
InitCountMissing ==
  /\ Goto("init_count", "init_modifiers")
  /\ UNCHANGED << ring, modifiers, reg, c, line, raced >>

InitCount ==
  /\ Goto("init_count", "init_modifiers")
  /\ buffer_count' = 0
  /\ UNCHANGED << key_buffer, read_pos, write_pos, unread, modifiers, reg, c, line, raced >>

InitModifiers ==
  /\ Goto("init_modifiers", "check")
  /\ shift_pressed' = FALSE /\ caps_lock' = FALSE
  /\ UNCHANGED << ring, reg, c, line, raced >>

\* while (buffer_count == 0) hlt: the test, and later the hlt.
Check ==
  /\ Goto("check", IF buffer_count = 0 THEN "halt" ELSE "take")
  /\ UNCHANGED << ring, modifiers, reg, c, line, raced >>

Halt ==
  /\ Goto("halt", "halted")
  /\ UNCHANGED << ring, modifiers, reg, c, line, raced >>

Take ==
  /\ Goto("take", "advance")
  /\ c' = key_buffer[read_pos]
  /\ UNCHANGED << ring, modifiers, reg, line, raced >>

\* Faulty variant: the position does not wrap with the buffer.
AdvanceStuck ==
  /\ Goto("advance", "load")
  /\ read_pos' = IF read_pos + 1 < BufSize THEN read_pos + 1 ELSE read_pos
  /\ unread' = unread - 1
  /\ UNCHANGED << key_buffer, write_pos, buffer_count, modifiers, reg, c, line, raced >>

Advance ==
  /\ Goto("advance", "load")
  /\ read_pos' = Next1(read_pos)
  /\ unread' = unread - 1
  /\ UNCHANGED << key_buffer, write_pos, buffer_count, modifiers, reg, c, line, raced >>

Load ==
  /\ Goto("load", "store")
  /\ reg' = buffer_count
  /\ UNCHANGED << ring, modifiers, c, line, raced >>

Store ==
  /\ Goto("store", "line")
  /\ buffer_count' = reg - 1
  /\ UNCHANGED << key_buffer, read_pos, write_pos, unread, modifiers, reg, c, line, raced >>

\* The body of read_line's loop; a full line ends like one with Enter.
\* keyboard_getline is the same without the test for printable characters.
read_line ==
  /\ Goto("line", "check")
  /\ LET next == CASE c = "bs" -> IF line = << >> THEN line
                                  ELSE SubSeq(line, 1, Len(line) - 1)
                   [] c \in {"a", "A"} -> Append(line, c)
                   [] c \in {"nl", "esc", NoChar} -> line
     IN line' = IF c = "nl" \/ Len(next) = MaxLine - 1 THEN << >> ELSE next
  /\ UNCHANGED << ring, modifiers, reg, c, raced >>

Shell ==
  \/ InitRead \/ InitWrite \/ InitCount \/ InitModifiers
  \/ Check \/ Halt \/ Take \/ Advance \/ Load \/ Store \/ read_line

Next == KeyIrq \/ OtherIrq \/ Shell

Spec == Init /\ [][Next]_vars

\* The shell gets the CPU, and the timer keeps interrupting; keys need not come.
FairSpec == Spec /\ WF_vars(Shell) /\ WF_vars(OtherIrq)

----------------------------------------------------------------------------
\* Characters already copied to c but not yet accounted for in buffer_count.
InHand == IF pc \in {"advance", "load", "store"} THEN 1 ELSE 0

\* buffer_count never promises more than was typed: no interleaving of IRQ 1
\* with keyboard_init or with the decrement makes getchar return a slot twice
\* or one that was never filled.  (It may promise less.)
CountWithinUnread ==
  /\ pc # "init_count" =>
       buffer_count <= unread + IF pc \in {"load", "store"} THEN 1 ELSE 0
  /\ pc \in {"take", "advance", "load", "store"} => buffer_count > 0
  /\ pc = "store" => reg \in 1..buffer_count

\* The buffer is a FIFO of BufSize characters (KeyFifo) until a character
\* comes in one of the two windows: none is lost, doubled or overtaken on the
\* way from the handler to keyboard_getchar, across the wrap of both positions.
Fifo == INSTANCE KeyFifo WITH
          Size <- BufSize,
          Codes <- Chars,
          q <- [i \in 1..(buffer_count - InHand) |->
                  key_buffer[(read_pos + (IF pc = "advance" THEN i ELSE i - 1)) % BufSize]],
          got <- c
ImplementsFifo ==
  Fifo!FifoInit /\ [][raced' \/ [Fifo!FifoNext]_(Fifo!fifoVars)]_vars

\* Once nothing more is typed into the buffer, the shell reads all that was
\* typed, although it may go to sleep just after a key has come in: the timer
\* wakes it.  keyboard.c calls this a blocking read.  Only a character in one
\* of the windows can stay behind: its increment is lost.
AllTypedIsRead ==
  <>[][write_pos' = write_pos]_vars => <>[](raced \/ unread = 0)
=============================================================================
