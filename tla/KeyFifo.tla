------------------------------ MODULE KeyFifo ------------------------------
(***************************************************************************)
(* What the keyboard driver promises its reader: the characters come out   *)
(* in the order in which they were typed, each once, and at most Size of   *)
(* them wait.  keyboard_init discards what was typed during boot.          *)
(***************************************************************************)
EXTENDS Sequences, Naturals

CONSTANTS
  Size,   \* BUFFER_SIZE
  Codes   \* the characters

VARIABLES
  q,     \* characters waiting, oldest first
  got    \* the last character handed out; "none" before the first

fifoVars == << q, got >>

FifoInit == q = << >> /\ got = "none"

Put(c) ==
  /\ Len(q) < Size
  /\ q' = Append(q, c)
  /\ UNCHANGED got

Get ==
  /\ q # << >>
  /\ got' = Head(q)
  /\ q' = Tail(q)

Discard ==
  /\ got = "none"
  /\ q' = << >>
  /\ UNCHANGED got

FifoNext == (\E c \in Codes : Put(c)) \/ Get \/ Discard

FifoSpec == FifoInit /\ [][FifoNext]_fifoVars
=============================================================================
