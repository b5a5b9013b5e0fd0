-------------------------- MODULE Keyboard_proof --------------------------
(***************************************************************************)
(* For a buffer of any size, and wherever IRQ 1 falls: the ring positions  *)
(* stay in range and buffer_count never exceeds what was typed and not     *)
(* read.  The two facts are inductive only together: the store of          *)
(* reg - 1 is in range because reg is at most the count, and the read      *)
(* position moves over a filled slot because the count was positive.  From *)
(* them and RingInv follows that the driver implements KeyFifo.            *)
(***************************************************************************)
EXTENDS Keyboard, SequenceTheorems, TLAPS

KeyboardInv == TypeOK /\ CountWithinUnread

LEMMA Next1Type == \A i \in Slots : Next1(i) \in Slots
BY KeyboardAssumption DEF Slots, Next1

LEMMA TranslateType == \A k \in CharKeys : Translate(k) \in Chars
BY DEF CharKeys, Translate, Chars

\* The handler, at whatever place of the shell it comes.
LEMMA PutInv ==
  ASSUME KeyboardInv, NEW ch \in Chars, buffer_put(ch),
         pc' = IF pc = "halted" THEN "check" ELSE pc,
         shift_pressed' \in BOOLEAN, caps_lock' \in BOOLEAN, raced' \in BOOLEAN,
         UNCHANGED << read_pos, reg, c, line >>
  PROVE  KeyboardInv'
<1>1. CASE buffer_count < BufSize
  <2>1. /\ key_buffer' \in [Slots -> Chars \cup {NoChar}]
        /\ write_pos' \in Slots
    BY <1>1, Next1Type DEF KeyboardInv, TypeOK, buffer_put
  <2>2. /\ buffer_count' = buffer_count + 1 /\ buffer_count' \in 0..BufSize
        /\ unread' = (IF unread < BufSize THEN unread + 1 ELSE unread)
        /\ unread' \in 0..BufSize
    BY <1>1, KeyboardAssumption DEF KeyboardInv, TypeOK, buffer_put
  <2>3. TypeOK'
    BY <2>1, <2>2 DEF KeyboardInv, TypeOK, Labels
  <2>4. CountWithinUnread'
    BY <2>2, KeyboardAssumption DEF KeyboardInv, TypeOK, CountWithinUnread, Labels
  <2> QED
    BY <2>3, <2>4 DEF KeyboardInv
<1>2. CASE ~ buffer_count < BufSize
  <2>1. UNCHANGED << key_buffer, write_pos, buffer_count, unread >>
    BY <1>2 DEF buffer_put
  <2> QED
    BY <2>1 DEF KeyboardInv, TypeOK, CountWithinUnread, Labels
<1> QED
  BY <1>1, <1>2

LEMMA KeyIrqInv == ASSUME KeyboardInv, KeyIrq PROVE KeyboardInv'
<1>1. PICK k \in Keys, released \in BOOLEAN : keyboard_irq_handler(k, released)
  BY DEF KeyIrq
<1>2. /\ pc' = (IF pc = "halted" THEN "check" ELSE pc)
      /\ shift_pressed' \in BOOLEAN /\ caps_lock' \in BOOLEAN /\ raced' \in BOOLEAN
      /\ UNCHANGED << read_pos, reg, c, line >>
  <2>1. pc' = (IF pc = "halted" THEN "check" ELSE pc) /\ UNCHANGED << read_pos, reg, c, line >>
    BY <1>1 DEF keyboard_irq_handler, WakeShell
  <2>2. shift_pressed' \in BOOLEAN
    BY <1>1 DEF keyboard_irq_handler, KeyboardInv, TypeOK
  <2>3. caps_lock' \in BOOLEAN
    BY <1>1 DEF keyboard_irq_handler, KeyboardInv, TypeOK
  <2>4. raced' \in BOOLEAN
    BY DEF KeyIrq, KeyboardInv, TypeOK
  <2> QED
    BY <2>1, <2>2, <2>3, <2>4
<1>3. CASE k \in CharKeys /\ ~released
  BY <1>1, <1>2, <1>3, PutInv, TranslateType DEF keyboard_irq_handler
<1>4. CASE ~(k \in CharKeys /\ ~released)
  <2>1. UNCHANGED << key_buffer, write_pos, buffer_count, unread >>
    BY <1>1, <1>4 DEF keyboard_irq_handler
  <2> QED
    BY <1>2, <2>1 DEF KeyboardInv, TypeOK, CountWithinUnread, Labels
<1> QED
  BY <1>3, <1>4

LEMMA ReadLineInv == ASSUME KeyboardInv, read_line PROVE KeyboardInv'
<1> DEFINE next == CASE c = "bs" -> IF line = << >> THEN line
                                    ELSE SubSeq(line, 1, Len(line) - 1)
                     [] c \in {"a", "A"} -> Append(line, c)
                     [] c \in {"nl", "esc", NoChar} -> line
<1>1. next \in Seq({"a", "A"}) /\ Len(next) <= MaxLine - 1
  BY KeyboardAssumption DEF KeyboardInv, TypeOK, Chars, NoChar
<1>2. line' = IF c = "nl" \/ Len(next) = MaxLine - 1 THEN << >> ELSE next
  BY DEF read_line
<1> HIDE DEF next
<1>3. line' \in Seq({"a", "A"}) /\ Len(line') < MaxLine - 1
  BY <1>1, <1>2, KeyboardAssumption
<1> QED
  BY <1>3 DEF KeyboardInv, TypeOK, CountWithinUnread, read_line, Goto, ring, modifiers, Labels

LEMMA ShellInv == ASSUME KeyboardInv, Shell PROVE KeyboardInv'
<1>1. CASE InitRead
  BY <1>1, KeyboardAssumption DEF KeyboardInv, TypeOK, CountWithinUnread, InitRead, Goto, ring, modifiers, Labels, Boot, Slots
<1>2. CASE InitWrite
  BY <1>2, KeyboardAssumption DEF KeyboardInv, TypeOK, CountWithinUnread, InitWrite, Goto, ring, modifiers, Labels, Boot, Slots
<1>3. CASE InitCount
  BY <1>3, KeyboardAssumption DEF KeyboardInv, TypeOK, CountWithinUnread, InitCount, Goto, ring, modifiers, Labels, Boot
<1>4. CASE InitModifiers
  BY <1>4 DEF KeyboardInv, TypeOK, CountWithinUnread, InitModifiers, Goto, ring, modifiers, Labels, Boot
<1>5. CASE Check
  BY <1>5 DEF KeyboardInv, TypeOK, CountWithinUnread, Check, Goto, ring, modifiers, Labels, Boot
<1>10. CASE Halt
  BY <1>10 DEF KeyboardInv, TypeOK, CountWithinUnread, Halt, Goto, ring, modifiers, Labels, Boot
<1>6. CASE Take
  BY <1>6 DEF KeyboardInv, TypeOK, CountWithinUnread, Take, Goto, ring, modifiers, Labels, Boot
<1>7. CASE Advance
  <2>1. read_pos' \in Slots
    BY <1>7, Next1Type DEF KeyboardInv, TypeOK, Advance
  <2> QED
    BY <1>7, <2>1, KeyboardAssumption DEF KeyboardInv, TypeOK, CountWithinUnread, Advance, Goto, modifiers, Labels, Boot
<1>8. CASE Load
  BY <1>8, KeyboardAssumption DEF KeyboardInv, TypeOK, CountWithinUnread, Load, Goto, ring, modifiers, Labels, Boot
<1>9. CASE Store
  BY <1>9, KeyboardAssumption DEF KeyboardInv, TypeOK, CountWithinUnread, Store, Goto, ring, modifiers, Labels, Boot
<1> QED
  BY <1>1, <1>2, <1>3, <1>4, <1>5, <1>6, <1>7, <1>8, <1>9, <1>10, ReadLineInv DEF Shell

LEMMA KeyboardInit == Init => KeyboardInv
<1> SUFFICES ASSUME Init PROVE KeyboardInv
  OBVIOUS
<1>1. key_buffer \in [Slots -> Chars \cup {NoChar}] /\ read_pos \in Slots /\ write_pos \in Slots
  BY KeyboardAssumption DEF Init, Slots
<1>2. line \in Seq({"a", "A"}) /\ Len(line) < MaxLine - 1
  BY KeyboardAssumption DEF Init
<1>3. TypeOK
  BY <1>1, <1>2, KeyboardAssumption DEF Init, TypeOK, Labels, Boot
<1> QED
  BY <1>3 DEF Init, KeyboardInv, CountWithinUnread

LEMMA KeyboardNext == ASSUME KeyboardInv, [Next]_vars PROVE KeyboardInv'
<1>1. CASE OtherIrq
  BY <1>1 DEF KeyboardInv, TypeOK, CountWithinUnread, OtherIrq, WakeShell, ring, modifiers, Labels, Boot
<1>2. CASE UNCHANGED vars
  BY <1>2 DEF KeyboardInv, TypeOK, CountWithinUnread, vars, ring, modifiers
<1> QED
  BY <1>1, <1>2, KeyIrqInv, ShellInv DEF Next

\* The shell never reads a slot twice, and never one that IRQ 1 has not filled.
THEOREM NeverReadsAhead == Spec => []CountWithinUnread
<1>1. KeyboardInv => CountWithinUnread
  BY DEF KeyboardInv
<1> QED
  BY <1>1, KeyboardInit, KeyboardNext, PTL DEF Spec

----------------------------------------------------------------------------
(***************************************************************************)
(* The buffer is a FIFO.  Until a character has come in a window, the two  *)
(* positions are apart by what buffer_count says, less the character that  *)
(* getchar has taken and not yet counted.                                  *)
(***************************************************************************)
Behind == IF pc \in {"load", "store"} THEN 1 ELSE 0

RingInv ==
  ~ raced =>
    /\ pc \in Boot => c = NoChar
    /\ pc \in {"init_read", "init_write"} => read_pos = 0
    /\ pc = "store" => reg = buffer_count
    /\ IF pc = "init_count" THEN read_pos = 0 /\ write_pos = 0
       ELSE write_pos = (read_pos + (buffer_count - Behind)) % BufSize

\* The slot of the i-th character that waits, and all of them.
Cell(i) == (read_pos + (IF pc = "advance" THEN i ELSE i - 1)) % BufSize
Queue == [i \in 1..(buffer_count - InHand) |-> key_buffer[Cell(i)]]

LEMMA Wrap ==
  ASSUME NEW n \in Nat \ {0}, NEW x \in 0..(2 * n - 1)
  PROVE  x % n = IF x < n THEN x ELSE x - n
OBVIOUS

\* The slots of the waiting characters, without the modulus.
LEMMA Cells ==
  ASSUME KeyboardInv, NEW i \in 1..(buffer_count - InHand)
  PROVE  LET x == read_pos + (IF pc = "advance" THEN i ELSE i - 1)
         IN /\ x \in 0..(2 * BufSize - 1) /\ Cell(i) \in Slots
            /\ Cell(i) = IF x < BufSize THEN x ELSE x - BufSize
<1> DEFINE x == read_pos + (IF pc = "advance" THEN i ELSE i - 1)
<1>1. x \in 0..(2 * BufSize - 1)
  BY KeyboardAssumption DEF KeyboardInv, TypeOK, Slots, InHand
<1>2. x % BufSize = IF x < BufSize THEN x ELSE x - BufSize
  BY <1>1, KeyboardAssumption, Wrap
<1>3. Cell(i) = x % BufSize
  BY DEF Cell
<1> QED
  BY <1>1, <1>2, <1>3, KeyboardAssumption DEF Slots

LEMMA QueueType ==
  ASSUME KeyboardInv
  PROVE  /\ Queue \in Seq(Chars \cup {NoChar}) /\ Len(Queue) = buffer_count - InHand
         /\ buffer_count - InHand \in Nat
         /\ \A i \in 1..(buffer_count - InHand) : Queue[i] = key_buffer[Cell(i)]
<1>1. buffer_count - InHand \in Nat /\ key_buffer \in [Slots -> Chars \cup {NoChar}]
  BY KeyboardAssumption DEF KeyboardInv, TypeOK, CountWithinUnread, InHand
<1>2. \A i \in 1..(buffer_count - InHand) : key_buffer[Cell(i)] \in Chars \cup {NoChar}
  BY <1>1, Cells
<1> QED
  BY <1>1, <1>2 DEF Queue

\* What one step of the driver is for the queue.
QueueStep == [Fifo!FifoNext]_(Fifo!fifoVars)

LEMMA QueueSame == ASSUME UNCHANGED << Queue, c >> PROVE QueueStep
BY DEF QueueStep, Fifo!fifoVars, Queue, Cell

\* Nothing that the queue depends on changes but the place of the shell.
LEMMA QuietQueue ==
  ASSUME UNCHANGED << key_buffer, read_pos, buffer_count, c, InHand >>,
         (pc = "advance") <=> (pc' = "advance")
  PROVE  QueueStep
<1>1. Queue' = Queue
  BY DEF Queue, Cell
<1> QED
  BY <1>1, QueueSame

\* A character that finds room is put at the end.
LEMMA PutQueue ==
  ASSUME KeyboardInv, RingInv, ~ raced, pc \notin Windows, NEW ch \in Chars,
         buffer_count < BufSize, buffer_put(ch),
         pc' = IF pc = "halted" THEN "check" ELSE pc,
         UNCHANGED << read_pos, c >>
  PROVE  QueueStep
<1> DEFINE n == buffer_count - InHand
           w == read_pos + (IF pc = "advance" THEN n + 1 ELSE n)
<1>1. /\ read_pos \in Slots /\ write_pos \in Slots /\ buffer_count \in 0..BufSize
      /\ BufSize \in Nat \ {0} /\ key_buffer \in [Slots -> Chars \cup {NoChar}]
      /\ pc \in Labels
  BY KeyboardAssumption DEF KeyboardInv, TypeOK
<1>2. /\ n \in 0..(BufSize - 1) /\ n' = n + 1 /\ buffer_count' = buffer_count + 1
      /\ InHand' = InHand /\ (pc' = "advance" <=> pc = "advance")
      /\ key_buffer' = [key_buffer EXCEPT ![write_pos] = ch]
      /\ pc \in {"advance", "load", "store"} => buffer_count > 0
  BY <1>1 DEF buffer_put, InHand, KeyboardInv, CountWithinUnread
<1>3. read_pos + (buffer_count - Behind) = w
  BY <1>1 DEF InHand, Behind, Windows
<1>4. w \in 0..(2 * BufSize - 1)
  BY <1>1, <1>2 DEF Slots
<1>5. write_pos = IF w < BufSize THEN w ELSE w - BufSize
  <2>1. write_pos = w % BufSize
    BY <1>1, <1>3 DEF RingInv, Windows
  <2> HIDE DEF w
  <2> QED
    BY <1>1, <1>4, <2>1, Wrap
<1>6. Queue' = [i \in 1..(n + 1) |-> key_buffer'[Cell(i)]]
  BY <1>2 DEF Queue, Cell
<1>7. ASSUME NEW i \in 1..n PROVE key_buffer'[Cell(i)] = key_buffer[Cell(i)]
  <2>1. Cell(i) \in Slots /\ Cell(i) # write_pos
    BY <1>1, <1>2, <1>5, <1>7, Cells DEF Slots
  <2> QED
    BY <1>1, <1>2, <2>1
<1>8. key_buffer'[Cell(n + 1)] = ch
  <2>1. Cell(n + 1) = write_pos
    <3>1. Cell(n + 1) = w % BufSize
      BY <1>1, <1>2 DEF Cell
    <3> HIDE DEF w
    <3> QED
      BY <1>1, <1>4, <1>5, <3>1, Wrap
  <2> QED
    BY <1>1, <1>2, <2>1
<1>9. Queue \in Seq(Chars \cup {NoChar}) /\ Len(Queue) = n /\ Append(Queue, ch) \in Seq(Chars \cup {NoChar})
  BY QueueType
<1>10. Queue' = Append(Queue, ch)
  <2>1. \A i \in 1..n : Queue[i] = key_buffer[Cell(i)]
    BY QueueType
  <2>2. \A i \in 1..(n + 1) : key_buffer'[Cell(i)] \in Chars \cup {NoChar}
    BY <1>2, <1>7, <1>8, <1>9, <2>1
  <2>3. Queue' \in Seq(Chars \cup {NoChar}) /\ Len(Queue') = n + 1
    BY <1>2, <1>6, <2>2
  <2>4. /\ Len(Append(Queue, ch)) = n + 1 /\ Append(Queue, ch)[n + 1] = ch
        /\ \A i \in 1..n : Append(Queue, ch)[i] = Queue[i]
    BY <1>9
  <2>5. \A i \in 1..(n + 1) : Queue'[i] = Append(Queue, ch)[i]
    BY <1>2, <1>6, <1>7, <1>8, <2>1, <2>4
  <2> QED
    BY <1>9, <2>3, <2>4, <2>5, SeqEqual
<1>11. Fifo!Put(ch)
  <2>1. Len(Queue) < BufSize /\ Queue' = Append(Queue, ch) /\ c' = c
    BY <1>1, <1>2, <1>9, <1>10
  <2> QED
    BY <2>1 DEF Fifo!Put, Queue, Cell
<1> QED
  BY <1>11 DEF QueueStep, Fifo!FifoNext

\* getchar copies the oldest character.
LEMMA TakeQueue == ASSUME KeyboardInv, Take PROVE QueueStep
<1> DEFINE n == buffer_count
           S == Chars \cup {NoChar}
<1>1. /\ pc = "take" /\ pc' = "advance" /\ c' = key_buffer[read_pos]
      /\ UNCHANGED << key_buffer, read_pos, buffer_count >>
  BY DEF Take, Goto, ring
<1>2. /\ read_pos \in Slots /\ n \in 1..BufSize /\ BufSize \in Nat \ {0}
      /\ InHand = 0 /\ InHand' = 1
  BY <1>1, KeyboardAssumption DEF KeyboardInv, TypeOK, CountWithinUnread, InHand
<1>3. /\ Queue \in Seq(S) /\ Len(Queue) = n
      /\ \A i \in 1..n : Queue[i] = key_buffer[(read_pos + (i - 1)) % BufSize]
  BY <1>1, <1>2, QueueType DEF Cell
<1>4. Queue' = [i \in 1..(n - 1) |-> key_buffer[(read_pos + i) % BufSize]]
  BY <1>1, <1>2 DEF Queue, Cell
<1>5. Queue # << >> /\ Tail(Queue) \in Seq(S) /\ Len(Tail(Queue)) = n - 1
      /\ Head(Queue) = Queue[1]
      /\ \A i \in 1..(n - 1) : Tail(Queue)[i] = Queue[i + 1]
  BY <1>2, <1>3, HeadTailProperties
<1>6. Head(Queue) = c'
  <2>1. read_pos + (1 - 1) = read_pos /\ read_pos % BufSize = read_pos
    BY <1>2 DEF Slots
  <2> QED
    BY <1>1, <1>2, <1>3, <1>5, <2>1
<1>7. \A i \in 1..(n - 1) : Tail(Queue)[i] = key_buffer[(read_pos + i) % BufSize]
  <2> TAKE i \in 1..(n - 1)
  <2>1. i + 1 \in 1..n /\ (i + 1) - 1 = i
    BY <1>2
  <2> QED
    BY <1>3, <1>5, <2>1
<1>8. Queue' = Tail(Queue)
  <2>1. \A i \in 1..(n - 1) : key_buffer[(read_pos + i) % BufSize] \in S
    BY <1>5, <1>7
  <2>2. Queue' \in Seq(S) /\ Len(Queue') = n - 1
    BY <1>2, <1>4, <2>1
  <2> QED
    BY <1>4, <1>5, <1>7, <2>2, SeqEqual
<1>9. Fifo!Get
  BY <1>5, <1>6, <1>8 DEF Fifo!Get, Queue, Cell
<1> QED
  BY <1>9 DEF QueueStep, Fifo!FifoNext

\* The read position moves on, and the characters behind it stay what they are.
LEMMA AdvanceQueue == ASSUME KeyboardInv, Advance PROVE QueueStep
<1>1. /\ pc = "advance" /\ pc' = "load" /\ c' = c /\ read_pos' = (read_pos + 1) % BufSize
      /\ UNCHANGED << key_buffer, buffer_count >>
  BY DEF Advance, Goto, Next1
<1>2. /\ read_pos \in Slots /\ buffer_count \in 1..BufSize /\ BufSize \in Nat \ {0}
      /\ InHand = 1 /\ InHand' = 1
  BY <1>1, KeyboardAssumption DEF KeyboardInv, TypeOK, CountWithinUnread, InHand
<1>3. read_pos' = IF read_pos + 1 < BufSize THEN read_pos + 1 ELSE 0
  <2> DEFINE x == read_pos + 1
  <2>1. x \in 0..(2 * BufSize - 1) /\ x <= BufSize /\ read_pos' = x % BufSize
    BY <1>1, <1>2 DEF Slots
  <2> HIDE DEF x
  <2>2. x % BufSize = IF x < BufSize THEN x ELSE x - BufSize
    BY <1>2, <2>1, Wrap
  <2>3. read_pos' = IF x < BufSize THEN x ELSE 0
    BY <1>2, <2>1, <2>2
  <2> QED
    BY <2>3 DEF x
<1>4. ASSUME NEW i \in 1..(buffer_count - 1)
      PROVE  (read_pos' + (i - 1)) % BufSize = (read_pos + i) % BufSize
  <2> DEFINE x == read_pos + i
             y == read_pos' + (i - 1)
  <2>1. x \in 0..(2 * BufSize - 1) /\ y \in 0..(2 * BufSize - 1)
    BY <1>2, <1>3 DEF Slots
  <2>2. (IF x < BufSize THEN x ELSE x - BufSize) = (IF y < BufSize THEN y ELSE y - BufSize)
    BY <1>2, <1>3, <2>1 DEF Slots
  <2> HIDE DEF x, y
  <2>3. x % BufSize = y % BufSize
    BY <1>2, <2>1, <2>2, Wrap
  <2> QED
    BY <2>3 DEF x, y
<1>5. Queue' = Queue
  <2>1. Queue = [i \in 1..(buffer_count - 1) |-> key_buffer[(read_pos + i) % BufSize]]
    BY <1>1, <1>2 DEF Queue, Cell
  <2>2. Queue' = [i \in 1..(buffer_count - 1) |-> key_buffer[(read_pos' + (i - 1)) % BufSize]]
    BY <1>1, <1>2 DEF Queue, Cell
  <2> QED
    BY <1>4, <2>1, <2>2
<1> QED
  BY <1>1, <1>5, QueueSame

\* keyboard_init ends by forgetting what was typed during boot.
LEMMA InitCountQueue ==
  ASSUME KeyboardInv, RingInv, ~ raced, InitCount PROVE QueueStep
<1>1. c = NoChar /\ c' = c /\ buffer_count' = 0 /\ InHand' = 0
  BY DEF RingInv, InitCount, Goto, Boot, InHand
<1>2. Queue' = << >>
  BY <1>1 DEF Queue
<1>3. Fifo!Discard
  BY <1>1, <1>2 DEF Fifo!Discard, Queue, Cell, NoChar
<1> QED
  BY <1>3 DEF QueueStep, Fifo!FifoNext

LEMMA ShellQueue ==
  ASSUME KeyboardInv, RingInv, ~ raced, Shell PROVE QueueStep
<1>1. CASE InitRead
  <2>1. read_pos' = read_pos /\ UNCHANGED << key_buffer, buffer_count, c >> /\ InHand' = InHand
        /\ pc # "advance" /\ pc' # "advance"
    BY <1>1 DEF InitRead, Goto, InHand, KeyboardInv, RingInv
  <2> QED
    BY <2>1, QuietQueue
<1>2. CASE InitWrite \/ InitModifiers \/ Check \/ Halt \/ Load \/ read_line
  <2>1. /\ UNCHANGED << key_buffer, read_pos, buffer_count, c >> /\ InHand' = InHand
        /\ pc # "advance" /\ pc' # "advance"
    BY <1>2 DEF InitWrite, InitModifiers, Check, Halt, Load, read_line, Goto, InHand, ring
  <2> QED
    BY <2>1, QuietQueue
<1>3. CASE Store
  <2>1. /\ buffer_count' = buffer_count - 1 /\ InHand = 1 /\ InHand' = 0
        /\ buffer_count \in Nat /\ UNCHANGED << key_buffer, read_pos, c >>
        /\ pc # "advance" /\ pc' # "advance"
    BY <1>3, KeyboardAssumption DEF Store, Goto, InHand, KeyboardInv, TypeOK, RingInv
  <2>2. Queue' = Queue
    BY <2>1 DEF Queue, Cell
  <2> QED
    BY <2>1, <2>2, QueueSame
<1> QED
  BY <1>1, <1>2, <1>3, TakeQueue, AdvanceQueue, InitCountQueue DEF Shell

\* The positions keep their distance.
LEMMA RingNext ==
  ASSUME KeyboardInv, RingInv, [Next]_vars PROVE RingInv'
<1> SUFFICES ASSUME ~ raced' PROVE RingInv'
  BY DEF RingInv
<1>1. /\ read_pos \in Slots /\ write_pos \in Slots /\ buffer_count \in 0..BufSize
      /\ BufSize \in Nat \ {0} /\ pc \in Labels
      /\ pc \in {"take", "advance", "load", "store"} => buffer_count > 0
      /\ 0 % BufSize = 0
  BY KeyboardAssumption DEF KeyboardInv, TypeOK, CountWithinUnread
<1>2. ~ raced
  BY DEF Next, KeyIrq, OtherIrq, Shell, InitRead, InitWrite, InitCount, InitModifiers, Check,
     Halt, Take, Advance, Load, Store, read_line, vars
<1>3. /\ pc \in Boot => c = NoChar
      /\ pc \in {"init_read", "init_write"} => read_pos = 0
      /\ pc = "store" => reg = buffer_count
      /\ pc = "init_count" => read_pos = 0 /\ write_pos = 0
      /\ pc # "init_count" => write_pos = (read_pos + (buffer_count - Behind)) % BufSize
  BY <1>2 DEF RingInv
<1>4. CASE KeyIrq
  <2>1. PICK key \in Keys, released \in BOOLEAN : keyboard_irq_handler(key, released)
    BY <1>4 DEF KeyIrq
  <2>2. /\ pc' = (IF pc = "halted" THEN "check" ELSE pc) /\ UNCHANGED << read_pos, reg, c >>
    BY <2>1 DEF keyboard_irq_handler, WakeShell
  <2>3. CASE UNCHANGED << write_pos, buffer_count >>
    BY <1>3, <2>2, <2>3 DEF RingInv, Behind, Boot
  <2>4. CASE buffer_count < BufSize /\ write_pos' = Next1(write_pos)
              /\ buffer_count' = buffer_count + 1
    <3>0. buffer_count' # buffer_count
      BY <1>1, <2>4
    <3>1. pc \notin Windows
      BY <1>4, <3>0 DEF KeyIrq
    <3> DEFINE x == read_pos + (buffer_count - Behind)
    <3>2. /\ x \in 0..(2 * BufSize - 1) /\ x + 1 \in 0..(2 * BufSize - 1)
          /\ write_pos = x % BufSize /\ write_pos + 1 \in 0..(2 * BufSize - 1)
          /\ write_pos' = (write_pos + 1) % BufSize
          /\ read_pos' + (buffer_count' - Behind') = x + 1
      BY <1>1, <1>3, <2>2, <2>4, <3>1 DEF Slots, Behind, Windows, Next1
    <3> HIDE DEF x
    <3>3. write_pos = IF x < BufSize THEN x ELSE x - BufSize
      BY <1>1, <3>2, Wrap
    <3>4. (x + 1) % BufSize = IF x + 1 < BufSize THEN x + 1 ELSE x + 1 - BufSize
      <4> DEFINE y == x + 1
      <4>1. y \in 0..(2 * BufSize - 1)
        BY <3>2
      <4> HIDE DEF y
      <4>2. y % BufSize = IF y < BufSize THEN y ELSE y - BufSize
        BY <1>1, <4>1, Wrap
      <4> QED
        BY <1>1, <3>2, <4>2 DEF y
    <3>5. (write_pos + 1) % BufSize = IF write_pos + 1 < BufSize THEN write_pos + 1 ELSE write_pos + 1 - BufSize
      <4> DEFINE y == write_pos + 1
      <4>1. y \in 0..(2 * BufSize - 1)
        BY <3>2
      <4> HIDE DEF y
      <4>2. y % BufSize = IF y < BufSize THEN y ELSE y - BufSize
        BY <1>1, <4>1, Wrap
      <4> QED
        BY <1>1, <3>2, <4>2 DEF y
    <3>6. (write_pos + 1) % BufSize = (x + 1) % BufSize
      BY <1>1, <3>2, <3>3, <3>4, <3>5 DEF Slots
    <3>7. pc' # "init_count" /\ pc' # "store" /\ (pc' \in Boot => pc' = pc)
      BY <2>2, <3>1 DEF Windows, Boot
    <3> QED
      BY <1>3, <2>2, <3>2, <3>6, <3>7 DEF RingInv
  <2> QED
    BY <2>1, <2>3, <2>4 DEF keyboard_irq_handler, buffer_put
<1>5. CASE OtherIrq \/ UNCHANGED vars
  BY <1>3, <1>5 DEF RingInv, Behind, Boot, OtherIrq, WakeShell, vars, ring
<1>6. CASE InitRead \/ InitWrite \/ InitModifiers
  BY <1>1, <1>3, <1>6 DEF RingInv, Behind, Boot, InitRead, InitWrite, InitModifiers, Goto, ring
<1>7. CASE InitCount
  <2>1. /\ read_pos' = 0 /\ write_pos' = 0 /\ buffer_count' = 0 /\ c' = NoChar
        /\ pc' = "init_modifiers" /\ Behind' = 0
    BY <1>3, <1>7 DEF InitCount, Goto, Boot, Behind
  <2>2. read_pos' + (buffer_count' - Behind') = 0
    BY <2>1
  <2> QED
    BY <1>1, <2>1, <2>2 DEF RingInv
<1>8. CASE Check \/ Halt \/ Take \/ Load \/ read_line
  <2>1. UNCHANGED << read_pos, write_pos, buffer_count >> /\ pc' \notin Boot /\ pc # "init_count"
    BY <1>8 DEF Boot, Check, Halt, Take, Load, read_line, Goto, ring
  <2>2. Behind' = Behind
    BY <1>8 DEF Behind, Check, Halt, Take, Load, read_line, Goto
  <2>3. pc' = "store" => reg' = buffer_count'
    BY <1>8 DEF Check, Halt, Take, Load, read_line, Goto, ring
  <2> QED
    BY <1>3, <2>1, <2>2, <2>3 DEF RingInv, Boot
<1>9. CASE Advance
  <2>1. /\ read_pos' = (read_pos + 1) % BufSize /\ UNCHANGED << write_pos, buffer_count >>
        /\ pc' = "load" /\ Behind = 0 /\ Behind' = 1 /\ buffer_count \in 1..BufSize
        /\ write_pos = (read_pos + buffer_count) % BufSize
    BY <1>1, <1>3, <1>9 DEF Advance, Goto, Next1, Behind
  <2> DEFINE x == read_pos + 1
             y == read_pos + buffer_count
             z == read_pos' + (buffer_count - 1)
  <2>2. /\ x \in 0..(2 * BufSize - 1) /\ y \in 0..(2 * BufSize - 1)
        /\ read_pos' = x % BufSize /\ write_pos = y % BufSize
    BY <1>1, <2>1 DEF Slots
  <2> HIDE DEF x, y
  <2>3. read_pos' = (IF x < BufSize THEN x ELSE x - BufSize)
    BY <1>1, <2>2, Wrap
  <2>4. write_pos = (IF y < BufSize THEN y ELSE y - BufSize)
    BY <1>1, <2>2, Wrap
  <2>5. z \in 0..(2 * BufSize - 1)
    BY <1>1, <2>1, <2>3 DEF Slots, x
  <2>6. write_pos = IF z < BufSize THEN z ELSE z - BufSize
    BY <1>1, <2>1, <2>3, <2>4, <2>5 DEF Slots, x, y
  <2> HIDE DEF z
  <2>7. write_pos = z % BufSize
    BY <1>1, <2>5, <2>6, Wrap
  <2> QED
    BY <2>1, <2>7 DEF RingInv, Boot, z
<1>10. CASE Store
  BY <1>1, <1>3, <1>10 DEF RingInv, Behind, Boot, Store, Goto
<1> QED
  BY <1>4, <1>5, <1>6, <1>7, <1>8, <1>9, <1>10 DEF Next, Shell

\* Until a character comes in a window, every step of the handler and of the
\* shell is a step of the FIFO.
LEMMA FifoStep ==
  ASSUME KeyboardInv, RingInv, [Next]_vars PROVE raced' \/ QueueStep
<1> SUFFICES ASSUME ~ raced' PROVE QueueStep
  OBVIOUS
<1>1. ~ raced
  BY DEF Next, KeyIrq, OtherIrq, Shell, InitRead, InitWrite, InitCount, InitModifiers, Check,
     Halt, Take, Advance, Load, Store, read_line, vars
<1>2. CASE KeyIrq
  <2>1. PICK key \in Keys, released \in BOOLEAN : keyboard_irq_handler(key, released)
    BY <1>2 DEF KeyIrq
  <2>2. pc' = (IF pc = "halted" THEN "check" ELSE pc) /\ UNCHANGED << read_pos, reg, c >>
    BY <2>1 DEF keyboard_irq_handler, WakeShell
  <2>3. CASE UNCHANGED << key_buffer, buffer_count >>
    BY <2>2, <2>3, QuietQueue DEF InHand
  <2>4. CASE key \in CharKeys /\ ~ released /\ buffer_count < BufSize
    <3>1. buffer_put(Translate(key)) /\ Translate(key) \in Chars
      BY <2>1, <2>4, TranslateType DEF keyboard_irq_handler
    <3>2. buffer_count' # buffer_count
      BY <2>4, <3>1 DEF buffer_put, KeyboardInv, TypeOK
    <3>3. pc \notin Windows
      BY <1>2, <3>2 DEF KeyIrq
    <3>4. PICK ch \in Chars : ch = Translate(key)
      BY <3>1
    <3>5. buffer_put(ch)
      BY <3>1, <3>4 DEF buffer_put
    <3> QED
      BY <1>1, <2>2, <2>4, <3>3, <3>5, PutQueue
  <2> QED
    BY <2>1, <2>3, <2>4 DEF keyboard_irq_handler, buffer_put
<1>3. CASE OtherIrq \/ UNCHANGED vars
  BY <1>3, QuietQueue DEF OtherIrq, WakeShell, vars, ring, InHand
<1> QED
  BY <1>1, <1>2, <1>3, ShellQueue DEF Next

\* From IRQ 1 to keyboard_getchar no character is lost, doubled or overtaken,
\* for a buffer of any size, except one that comes between load and store of
\* buffer_count or in the middle of keyboard_init, and what follows it.
THEOREM RefinesFifo == Spec => ImplementsFifo
<1>1. Init => KeyboardInv /\ RingInv
  <2> SUFFICES ASSUME Init PROVE RingInv
    BY KeyboardInit
  <2>1. /\ 0 % BufSize = 0
        /\ read_pos = 0 /\ buffer_count = 0 /\ Behind = 0 /\ 0 + (0 - 0) = 0
    BY KeyboardAssumption DEF Init, Behind
  <2> QED
    BY <2>1 DEF Init, RingInv
<1>2. KeyboardInv /\ RingInv /\ [Next]_vars => (KeyboardInv /\ RingInv)'
  BY KeyboardNext, RingNext
<1>3. KeyboardInv /\ RingInv /\ [Next]_vars => [raced' \/ QueueStep]_vars
  BY FifoStep
<1>4. Init => Fifo!FifoInit
  <2> SUFFICES ASSUME Init PROVE Queue = << >> /\ c = "none"
    BY DEF Fifo!FifoInit, Queue, Cell
  <2> QED
    BY DEF Init, Queue, InHand, NoChar
<1> QED
  BY <1>1, <1>2, <1>3, <1>4, PTL DEF Spec, ImplementsFifo, QueueStep
=============================================================================
