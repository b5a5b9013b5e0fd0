----------------------------- MODULE Lifecycle -----------------------------
(***************************************************************************)
(* What the process layer promises about the life of a PID, whatever the   *)
(* scheduler and the messages do: a free PID is given to a new process, a  *)
(* process exits once, and a zombie keeps its PID until its parent reaps   *)
(* it.  PID 1 is init: it never exits and inherits the children of those   *)
(* that do.  Kernel implements this module.                                *)
(***************************************************************************)
EXTENDS Integers

CONSTANT NProc  \* as in Process

VARIABLES
  life,  \* "free", "alive" or "zombie" for each PID
  par    \* the parent's PID, 0 for none

lifeVars == << life, par >>

LifePids == 1..NProc
InitPid == 1

LifeInit ==
  /\ life = [p \in LifePids |-> IF p = InitPid THEN "alive" ELSE "free"]
  /\ par = [p \in LifePids |-> 0]

\* A free PID becomes a process with parent f, or with none yet.
Spawn(p, f) ==
  /\ life[p] = "free"
  /\ f # 0 => life[f] = "alive"
  /\ life' = [life EXCEPT ![p] = "alive"]
  /\ par' = [par EXCEPT ![p] = f]

\* A process that was created without a parent becomes a child of init.
Adopt(p) ==
  /\ p # InitPid /\ life[p] # "free" /\ par[p] = 0
  /\ par' = [par EXCEPT ![p] = InitPid]
  /\ UNCHANGED life

\* Before a process exits it hands its children to init.
HandOver(p) ==
  /\ p # InitPid /\ life[p] = "alive"
  /\ par' = [q \in LifePids |-> IF par[q] = p THEN InitPid ELSE par[q]]
  /\ UNCHANGED life

Die(p) ==
  /\ p # InitPid /\ life[p] = "alive" /\ \A q \in LifePids : par[q] # p
  /\ life' = [life EXCEPT ![p] = "zombie"]
  /\ UNCHANGED par

Reap(p) ==
  /\ life[p] = "zombie" /\ par[p] # 0 /\ life[par[p]] = "alive"
  /\ life' = [life EXCEPT ![p] = "free"]
  /\ par' = [par EXCEPT ![p] = 0]

LifeNext ==
  \E p \in LifePids :
    \/ \E f \in 0..NProc : Spawn(p, f)
    \/ Adopt(p)
    \/ HandOver(p)
    \/ Die(p)
    \/ Reap(p)

\* The stutter comes first because TLC tries the disjuncts in order.
LifeSpec == LifeInit /\ [][UNCHANGED lifeVars \/ LifeNext]_lifeVars
=============================================================================
