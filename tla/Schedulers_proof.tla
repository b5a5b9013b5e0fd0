-------------------------- MODULE Schedulers_proof --------------------------
(***************************************************************************)
(* The two older schedulers.  Stage 08, for any number of slots, stacks    *)
(* and PIDs, as long as no process terminates itself: the doubly linked    *)
(* ready queue lists the ready processes, once each and in both            *)
(* directions, and count, PIDs, stacks and frames agree.  Stages 11 and    *)
(* 12, for any number of blocks and PIDs: the singly linked ready queue    *)
(* lists the ready processes, the child lists the children, and a sleeper  *)
(* in wait misses a zombie only through the race with process_block.       *)
(***************************************************************************)
EXTENDS CoopScheduler, ForkScheduler, FiniteSetTheorems, WellFoundedInduction, TLAPS

----------------------------------------------------------------------------
(***************************************************************************)
(* Stage 08.                                                               *)
(***************************************************************************)
SlotLinks == SLOTS \cup {NULL}
SlotStates == {"created", "ready", "running", "terminated"}
SlotType == [pid : 0..MaxPid, next : SlotLinks, prev : SlotLinks, state : SlotStates, frame : Frames]
KType ==
  [slot : [SLOTS -> SlotType], ready : SlotLinks, current : SlotLinks, next_pid : 1..(MaxPid + 1),
   count : Int, heap : SUBSET SLOTS]

\* The sequence q is the list, forwards and backwards.
Once(q) == \A i, j \in 1..Len(q) : q[i] = q[j] => i = j
In(q, p) == \E i \in 1..Len(q) : q[i] = p
After(q, i) == IF i < Len(q) THEN q[i + 1] ELSE NULL
Before(q, i) == IF i = 1 THEN NULL ELSE q[i - 1]
IsQueue(s, q) ==
  /\ q \in Seq(SLOTS) /\ Once(q)
  /\ s.ready = IF Len(q) = 0 THEN NULL ELSE q[1]
  /\ \A i \in 1..Len(q) : s.slot[q[i]].next = After(q, i) /\ s.slot[q[i]].prev = Before(q, i)

TakenSlots(s) == {p \in SLOTS : s.slot[p].pid # 0}
Placed(s, p) ==
  /\ s.slot[p].pid = 0 => p # s.current /\ s.slot[p].state \notin {"ready", "running"}
  /\ s.slot[p].pid # 0 /\ p = s.current => s.slot[p].state = "running" /\ s.slot[p].frame = "none"
  /\ s.slot[p].pid # 0 /\ p # s.current => s.slot[p].state = "ready" /\ s.slot[p].frame # "none"
Sched(s, q) ==
  /\ IsQueue(s, q)
  /\ \A p \in SLOTS : In(q, p) <=> s.slot[p].state = "ready"
  /\ \A p \in SLOTS : Placed(s, p)
  /\ s.heap = TakenSlots(s) /\ s.count = Cardinality(TakenSlots(s))

CoopInv == k \in KType /\ \E q : Sched(k, q)

LEMMA Sizes ==
  /\ MAX_PROCESS \in Nat /\ MAX_PROCESS > 0 /\ MaxPid \in Nat /\ NULL \notin SLOTS
  /\ \A p \in SLOTS : p \in Nat
BY CoopAssumption DEF SLOTS, NULL

LEMMA LeastNat ==
  ASSUME NEW T \in SUBSET Nat, T # {}
  PROVE  \E i \in T : \A j \in T : i <= j
<1> DEFINE R == OpToRel(<, Nat)
<1>1. IsWellFoundedOn(R, Nat)
  BY NatLessThanWellFounded
<1>2. \A x, y \in Nat : << x, y >> \in R <=> x < y
  BY DEF OpToRel
<1> HIDE DEF R
<1>3. PICK i \in T : \A j \in T : ~ << j, i >> \in R
  BY <1>1, WFMin
<1>4. i \in Nat /\ \A j \in T : j \in Nat /\ ~ j < i
  BY <1>2, <1>3
<1>5. \A j \in T : i <= j
  BY <1>4
<1> QED
  BY <1>5

----------------------------------------------------------------------------
(***************************************************************************)
(* Nth and Listed find the list.                                           *)
(***************************************************************************)
IsNthWalk(w, s, n) ==
  w = [j \in 1..n |-> IF j = 1 THEN s.ready
                      ELSE IF w[j - 1] = NULL THEN NULL ELSE s.slot[w[j - 1]].next]

\* The j-th of q, from 1; NULL after the last.
Of(q, j) == IF j <= Len(q) THEN q[j] ELSE NULL

LEMMA NthIs ==
  ASSUME NEW s, NEW q, IsQueue(s, q), NEW n \in Nat, n # 0
  PROVE  Nth(s, n) = Of(q, n)
<1> DEFINE g == [j \in 1..n |-> Of(q, j)]
           h == CHOOSE w : IsNthWalk(w, s, n)
<1>1. Len(q) \in Nat /\ \A i \in 1..Len(q) : q[i] \in SLOTS /\ q[i] # NULL
  <2>1. Len(q) \in Nat /\ \A i \in 1..Len(q) : q[i] \in SLOTS
    BY DEF IsQueue
  <2> QED
    BY <2>1, Sizes
<1>2. Of(q, 1) = s.ready
  BY <1>1 DEF IsQueue, Of
<1>3. ASSUME NEW j \in 1..n, j # 1
      PROVE  Of(q, j) = IF Of(q, j - 1) = NULL THEN NULL ELSE s.slot[Of(q, j - 1)].next
  <2>1. CASE j - 1 <= Len(q)
    <3>1. j - 1 \in 1..Len(q) /\ Of(q, j - 1) = q[j - 1] /\ (j - 1) + 1 = j
      BY <1>1, <1>3, <2>1 DEF Of
    <3>2. s.slot[q[j - 1]].next = After(q, j - 1)
      BY <3>1 DEF IsQueue
    <3>3. After(q, j - 1) = Of(q, j)
      BY <1>1, <1>3, <2>1, <3>1 DEF After, Of
    <3> QED
      BY <1>1, <3>1, <3>2, <3>3
  <2>2. CASE ~ j - 1 <= Len(q)
    BY <1>1, <1>3, <2>2 DEF Of
  <2> QED
    BY <2>1, <2>2
<1>4. IsNthWalk(g, s, n)
  <2>1. ASSUME NEW j \in 1..n
        PROVE  g[j] = IF j = 1 THEN s.ready
                      ELSE IF g[j - 1] = NULL THEN NULL ELSE s.slot[g[j - 1]].next
    <3>1. j # 1 => j - 1 \in 1..n
      OBVIOUS
    <3> QED
      BY <1>2, <1>3, <3>1
  <2> QED
    BY <2>1 DEF IsNthWalk
<1>5. IsNthWalk(h, s, n)
  BY <1>4
<1>6. Nth(s, n) = h[n]
  BY DEF Nth, IsNthWalk
<1> DEFINE T == {j \in 1..n : h[j] # Of(q, j)}
<1>7. T = {}
  <2> SUFFICES ASSUME T # {} PROVE FALSE
    OBVIOUS
  <2>1. T \in SUBSET Nat
    OBVIOUS
  <2>2. PICK j \in T : \A x \in T : j <= x
    BY <2>1, LeastNat
  <2>3. h[j] = IF j = 1 THEN s.ready
               ELSE IF h[j - 1] = NULL THEN NULL ELSE s.slot[h[j - 1]].next
    BY <1>5, <2>2 DEF IsNthWalk
  <2>4. j # 1
    BY <1>2, <2>2, <2>3
  <2>5. j - 1 \in 1..n /\ j - 1 \notin T
    BY <2>2, <2>4
  <2> QED
    BY <1>3, <2>2, <2>3, <2>4, <2>5
<1> QED
  BY <1>6, <1>7

\* A list without repetition is no longer than there are slots.
LEMMA OnceFits ==
  ASSUME NEW q \in Seq(SLOTS), Once(q)
  PROVE  /\ Len(q) \in Nat /\ Len(q) <= MAX_PROCESS
         /\ Cardinality({q[i] : i \in 1..Len(q)}) = Len(q)
<1> DEFINE R == {q[i] : i \in 1..Len(q)}
           g == [i \in 1..Len(q) |-> q[i]]
<1>1. Len(q) \in Nat
  OBVIOUS
<1>2. IsFiniteSet(1..Len(q)) /\ Cardinality(1..Len(q)) = Len(q)
  BY <1>1, FS_Interval
<1>3. g \in Bijection(1..Len(q), R)
  <2>1. g \in [1..Len(q) -> R]
    OBVIOUS
  <2>2. \A i, j \in 1..Len(q) : g[i] = g[j] => i = j
    BY DEF Once
  <2>3. \A c \in R : \E i \in 1..Len(q) : g[i] = c
    OBVIOUS
  <2> HIDE DEF g, R
  <2>4. g \in Injection(1..Len(q), R)
    BY <2>1, <2>2 DEF Injection, IsInjective
  <2>5. g \in Surjection(1..Len(q), R)
    BY <2>1, <2>3 DEF Surjection
  <2> QED
    BY <2>4, <2>5 DEF Bijection
<1>4. R \in SUBSET SLOTS
  OBVIOUS
<1> HIDE DEF R
<1>5. ExistsBijection(1..Len(q), R)
  BY <1>3 DEF ExistsBijection
<1>6. Cardinality(R) = Len(q)
  BY <1>2, <1>5, FS_Bijection
<1>7. IsFiniteSet(SLOTS) /\ Cardinality(SLOTS) = MAX_PROCESS
  <2>1. 1 \in Int /\ MAX_PROCESS \in Int /\ MAX_PROCESS - 1 + 1 = MAX_PROCESS
    BY Sizes
  <2> QED
    BY <2>1, Sizes, FS_Interval DEF SLOTS
<1>8. Cardinality(R) <= Cardinality(SLOTS)
  BY <1>4, <1>7, FS_Subset
<1> QED
  BY <1>1, <1>6, <1>7, <1>8 DEF R

LEMMA ListedIs ==
  ASSUME NEW s, NEW q, IsQueue(s, q)
  PROVE  /\ Len(q) \in Nat /\ Len(q) <= MAX_PROCESS
         /\ \A p : p \in Listed(s) <=> In(q, p)
         /\ Cardinality(Listed(s)) = Len(q)
<1>1. Len(q) \in Nat /\ Len(q) <= MAX_PROCESS /\ Cardinality({q[i] : i \in 1..Len(q)}) = Len(q)
  BY OnceFits DEF IsQueue
<1>2. \A i \in 1..Len(q) : q[i] \in SLOTS /\ q[i] # NULL
  BY Sizes DEF IsQueue
<1>3. \A i \in SLOTS : i \in Nat /\ i # 0 /\ Nth(s, i) = Of(q, i)
  BY NthIs, Sizes DEF SLOTS
<1>4. ASSUME NEW p \in Listed(s) PROVE In(q, p)
  <2>1. PICK i \in SLOTS : p = Nth(s, i) /\ p # NULL
    BY DEF Listed
  <2>2. p = Of(q, i) /\ p # NULL /\ i \in Nat /\ i # 0
    BY <1>3, <2>1
  <2>3. i <= Len(q) /\ q[i] = p
    BY <2>2 DEF Of
  <2>4. i \in 1..Len(q)
    <3>1. PICK n \in Nat : n = Len(q)
      BY <1>1
    <3>2. i \in Nat /\ i # 0 /\ i <= n
      BY <2>2, <2>3, <3>1
    <3>3. i \in 1..n
      BY <3>1, <3>2
    <3> QED
      BY <3>1, <3>3
  <2> QED
    BY <2>3, <2>4 DEF In
<1>5. ASSUME NEW p, In(q, p) PROVE p \in Listed(s)
  <2>1. PICK i \in 1..Len(q) : q[i] = p
    BY <1>5 DEF In
  <2>2. i \in SLOTS /\ i <= Len(q)
    <3>1. PICK n \in Nat, m \in Nat : n = Len(q) /\ m = MAX_PROCESS
      BY <1>1, Sizes
    <3>2. i \in 1..n /\ n <= m
      BY <1>1, <2>1, <3>1
    <3>3. i \in 1..m /\ i <= n
      BY <3>1, <3>2
    <3> QED
      BY <3>1, <3>3 DEF SLOTS
  <2>3. Nth(s, i) = p /\ p # NULL
    <3>1. Of(q, i) = p
      BY <2>1, <2>2 DEF Of
    <3> QED
      BY <1>2, <1>3, <2>1, <2>2, <3>1
  <2> QED
    BY <2>2, <2>3 DEF Listed
<1>6. Listed(s) = {q[i] : i \in 1..Len(q)}
  BY <1>4, <1>5 DEF In
<1> QED
  BY <1>1, <1>4, <1>5, <1>6

----------------------------------------------------------------------------
(***************************************************************************)
(* add_to_ready_queue appends, remove_from_ready_queue cuts out.           *)
(***************************************************************************)
Kept(s, t, p) ==
  /\ t.current = s.current /\ t.next_pid = s.next_pid /\ t.count = s.count /\ t.heap = s.heap
  /\ \A x \in SLOTS : t.slot[x].pid = s.slot[x].pid /\ t.slot[x].frame = s.slot[x].frame
  /\ \A x \in SLOTS : x # p => t.slot[x].state = s.slot[x].state

LEMMA QueueTypes ==
  ASSUME NEW s, NEW q, IsQueue(s, q)
  PROVE  Len(q) \in Nat /\ \A i \in 1..Len(q) : q[i] \in SLOTS /\ q[i] # NULL
<1>1. Len(q) \in Nat /\ \A i \in 1..Len(q) : q[i] \in SLOTS
  BY DEF IsQueue
<1> QED
  BY <1>1, Sizes

\* The last of the list is the one that has no next.
LEMMA LastIs ==
  ASSUME NEW s, NEW q, IsQueue(s, q), Len(q) # 0
  PROVE  (CHOOSE x \in Listed(s) : s.slot[x].next = NULL) = q[Len(q)]
<1>1. Len(q) \in Nat /\ \A i \in 1..Len(q) : q[i] \in SLOTS /\ q[i] # NULL
  BY QueueTypes
<1>2. Len(q) \in 1..Len(q)
  BY <1>1
<1>3. \A x : x \in Listed(s) <=> \E i \in 1..Len(q) : q[i] = x
  BY ListedIs DEF In
<1>4. q[Len(q)] \in Listed(s) /\ s.slot[q[Len(q)]].next = NULL
  BY <1>1, <1>2, <1>3 DEF IsQueue, After
<1>5. ASSUME NEW x \in Listed(s), s.slot[x].next = NULL PROVE x = q[Len(q)]
  <2>1. PICK i \in 1..Len(q) : q[i] = x
    BY <1>3
  <2>2. After(q, i) = NULL
    BY <1>5, <2>1 DEF IsQueue
  <2>3. ~ i < Len(q)
    <3>1. i < Len(q) => i + 1 \in 1..Len(q)
      BY <1>1
    <3> QED
      BY <1>1, <2>2, <3>1 DEF After
  <2> QED
    BY <1>1, <2>1, <2>3
<1> QED
  BY <1>4, <1>5

LEMMA AppendedIs ==
  ASSUME NEW q \in Seq(SLOTS), NEW p \in SLOTS, Once(q), ~ In(q, p)
  PROVE  /\ Append(q, p) \in Seq(SLOTS) /\ Once(Append(q, p))
         /\ Len(Append(q, p)) = Len(q) + 1 /\ Append(q, p)[Len(q) + 1] = p
         /\ \A i \in 1..Len(q) : Append(q, p)[i] = q[i]
         /\ \A x : In(Append(q, p), x) <=> (In(q, x) \/ x = p)
<1>1. PICK r : r = Append(q, p)
  OBVIOUS
<1>2. /\ r \in Seq(SLOTS) /\ Len(q) \in Nat /\ Len(r) = Len(q) + 1 /\ r[Len(q) + 1] = p
      /\ \A i \in 1..Len(q) : r[i] = q[i]
  BY <1>1
<1>3. PICK n \in Nat : n = Len(q)
  BY <1>2
<1>4. Len(r) = n + 1 /\ r[n + 1] = p /\ \A i \in 1..n : r[i] = q[i] /\ q[i] # p
  BY <1>2, <1>3 DEF In
<1>5. Once(r)
  <2>1. ASSUME NEW i \in 1..(n + 1), NEW j \in 1..(n + 1), r[i] = r[j] PROVE i = j
    <3>1. i = n + 1 \/ i \in 1..n
      BY <1>3
    <3>2. j = n + 1 \/ j \in 1..n
      BY <1>3
    <3> QED
      BY <1>3, <1>4, <2>1, <3>1, <3>2 DEF Once
  <2> QED
    BY <1>4, <2>1 DEF Once
<1>6. \A x : In(r, x) <=> (In(q, x) \/ x = p)
  <2>1. n + 1 \in 1..(n + 1) /\ \A i \in 1..n : i \in 1..(n + 1)
    BY <1>3
  <2>2. \A i \in 1..(n + 1) : i = n + 1 \/ i \in 1..n
    BY <1>3
  <2> QED
    BY <1>3, <1>4, <2>1, <2>2 DEF In
<1> QED
  BY <1>1, <1>2, <1>5, <1>6

LEMMA AddIs ==
  ASSUME NEW s \in KType, NEW q, IsQueue(s, q), NEW p \in SLOTS, ~ In(q, p)
  PROVE  /\ add_to_ready_queue(s, p) \in KType
         /\ IsQueue(add_to_ready_queue(s, p), Append(q, p))
         /\ add_to_ready_queue(s, p).slot[p].state = "ready"
         /\ Kept(s, add_to_ready_queue(s, p), p)
<1>1. q \in Seq(SLOTS) /\ Once(q) /\ Len(q) \in Nat
      /\ \A i \in 1..Len(q) : q[i] \in SLOTS /\ q[i] # NULL
  BY QueueTypes DEF IsQueue
<1>2. PICK t : t = add_to_ready_queue(s, p)
  OBVIOUS
<1>3. PICK r : r = Append(q, p)
  OBVIOUS
<1>4. /\ r \in Seq(SLOTS) /\ Once(r) /\ Len(r) = Len(q) + 1 /\ r[Len(q) + 1] = p
      /\ \A i \in 1..Len(q) : r[i] = q[i]
  BY <1>1, <1>3, AppendedIs
<1>5. s.ready = NULL <=> Len(q) = 0
  BY <1>1 DEF IsQueue
<1>6. p # NULL
  BY Sizes
<1>7. /\ t \in KType /\ t.slot[p].state = "ready" /\ Kept(s, t, p)
      /\ t.ready = IF Len(q) = 0 THEN p ELSE s.ready
      /\ t.slot[p].next = NULL
      /\ t.slot[p].prev = IF Len(q) = 0 THEN NULL ELSE q[Len(q)]
      /\ \A x \in SLOTS : x # p => t.slot[x].prev = s.slot[x].prev
      /\ \A x \in SLOTS : x # p =>
           t.slot[x].next = IF Len(q) # 0 /\ x = q[Len(q)] THEN p ELSE s.slot[x].next
  <2>1. CASE Len(q) = 0
    <3>1. t = [s EXCEPT !.slot[p].state = "ready", !.slot[p].next = NULL,
                        !.slot[p].prev = NULL, !.ready = p]
      BY <1>2, <1>5, <2>1 DEF add_to_ready_queue
    <3>2. t.slot = [s.slot EXCEPT ![p] = [@ EXCEPT !.state = "ready", !.next = NULL, !.prev = NULL]]
      BY <3>1 DEF KType, SlotType
    <3>3. t.slot \in [SLOTS -> SlotType]
      <4>1. s.slot[p] \in SlotType /\ s.slot \in [SLOTS -> SlotType]
        BY DEF KType
      <4>2. [s.slot[p] EXCEPT !.state = "ready", !.next = NULL, !.prev = NULL] \in SlotType
        BY <4>1 DEF SlotType, SlotStates, SlotLinks
      <4> QED
        BY <3>2, <4>1, <4>2
    <3>4. t \in KType /\ t.ready = p /\ t.current = s.current /\ t.next_pid = s.next_pid
          /\ t.count = s.count /\ t.heap = s.heap
      BY <3>1, <3>3 DEF KType, SlotLinks
    <3>5. \A x \in SLOTS : x # p => t.slot[x] = s.slot[x]
      BY <3>2 DEF KType
    <3>6. t.slot[p] = [s.slot[p] EXCEPT !.state = "ready", !.next = NULL, !.prev = NULL]
      BY <3>2 DEF KType
    <3>7. /\ t.slot[p].state = "ready" /\ t.slot[p].next = NULL /\ t.slot[p].prev = NULL
          /\ t.slot[p].pid = s.slot[p].pid /\ t.slot[p].frame = s.slot[p].frame
      BY <3>6 DEF KType, SlotType
    <3>8. \A x \in SLOTS : t.slot[x].pid = s.slot[x].pid /\ t.slot[x].frame = s.slot[x].frame
      BY <3>5, <3>7
    <3> QED
      BY <2>1, <3>4, <3>5, <3>7, <3>8 DEF Kept
  <2>2. CASE Len(q) # 0
    <3>1. PICK l : l = q[Len(q)]
      OBVIOUS
    <3>2. l \in SLOTS /\ l # p /\ l # NULL
      <4>1. Len(q) \in 1..Len(q)
        BY <1>1, <2>2
      <4> QED
        BY <1>1, <3>1, <4>1 DEF In
    <3>3. t = [s EXCEPT !.slot[l].next = p, !.slot[p].state = "ready", !.slot[p].prev = l,
                        !.slot[p].next = NULL]
      <4>1. (CHOOSE x \in Listed(s) : s.slot[x].next = NULL) = l
        BY <2>2, <3>1, LastIs
      <4> QED
        BY <1>2, <1>5, <2>2, <4>1 DEF add_to_ready_queue
    <3>4. t.slot = [s.slot EXCEPT ![l] = [@ EXCEPT !.next = p],
                                  ![p] = [@ EXCEPT !.state = "ready", !.prev = l, !.next = NULL]]
      BY <3>2, <3>3 DEF KType, SlotType
    <3>5. t.slot[l] = [s.slot[l] EXCEPT !.next = p]
      BY <3>2, <3>4 DEF KType
    <3>6. t.slot[p] = [s.slot[p] EXCEPT !.state = "ready", !.prev = l, !.next = NULL]
      BY <3>2, <3>4 DEF KType
    <3>7. \A x \in SLOTS : x # p /\ x # l => t.slot[x] = s.slot[x]
      BY <3>4 DEF KType
    <3>8. t.slot \in [SLOTS -> SlotType]
      <4>1. t.slot[l] \in SlotType
        BY <3>2, <3>5 DEF KType, SlotType, SlotLinks
      <4>2. t.slot[p] \in SlotType
        BY <3>2, <3>6, ZenonT(30) DEF KType, SlotType, SlotStates, SlotLinks
      <4>3. \A x \in SLOTS : t.slot[x] \in SlotType
        BY <3>7, <4>1, <4>2 DEF KType
      <4>4. t.slot = [x \in SLOTS |-> t.slot[x]]
        BY <3>4 DEF KType
      <4> QED
        BY <4>3, <4>4
    <3>9. t \in KType /\ t.ready = s.ready /\ t.current = s.current /\ t.next_pid = s.next_pid
          /\ t.count = s.count /\ t.heap = s.heap
      BY <3>3, <3>8 DEF KType
    <3>10. /\ t.slot[p].state = "ready" /\ t.slot[p].next = NULL /\ t.slot[p].prev = l
           /\ t.slot[p].pid = s.slot[p].pid /\ t.slot[p].frame = s.slot[p].frame
      BY <3>6 DEF KType, SlotType
    <3>11. /\ t.slot[l].next = p /\ t.slot[l].prev = s.slot[l].prev
           /\ t.slot[l].pid = s.slot[l].pid /\ t.slot[l].frame = s.slot[l].frame
           /\ t.slot[l].state = s.slot[l].state
      BY <3>2, <3>5 DEF KType, SlotType
    <3>12. Kept(s, t, p)
      BY <3>7, <3>9, <3>10, <3>11 DEF Kept
    <3>13. \A x \in SLOTS : x # p => t.slot[x].prev = s.slot[x].prev
      BY <3>7, <3>11
    <3>14. \A x \in SLOTS : x # p =>
             t.slot[x].next = IF x = l THEN p ELSE s.slot[x].next
      BY <3>7, <3>11
    <3> QED
      BY <2>2, <3>1, <3>9, <3>10, <3>12, <3>13, <3>14
  <2> QED
    BY <2>1, <2>2
<1>8. IsQueue(t, r)
  <2>1. PICK n \in Nat : n = Len(q)
    BY <1>1
  <2>2. t.ready = r[1]
    <3>1. n # 0 => 1 \in 1..n
      BY <2>1
    <3> QED
      BY <1>4, <1>7, <2>1, <3>1 DEF IsQueue
  <2>3. ASSUME NEW i \in 1..(n + 1)
        PROVE  t.slot[r[i]].next = After(r, i) /\ t.slot[r[i]].prev = Before(r, i)
    <3>1. CASE i = n + 1
      <4>1. r[i] = p /\ After(r, i) = NULL
        BY <1>4, <2>1, <3>1 DEF After
      <4>2. Before(r, i) = IF n = 0 THEN NULL ELSE q[n]
        <5>1. n # 0 => n \in 1..n /\ (n + 1) - 1 = n /\ n + 1 # 1
          BY <2>1
        <5> QED
          BY <1>4, <2>1, <3>1, <5>1 DEF Before
      <4> QED
        BY <1>7, <2>1, <4>1, <4>2
    <3>2. CASE i \in 1..n
      <4>1. r[i] = q[i] /\ q[i] \in SLOTS /\ q[i] # p
        BY <1>1, <1>4, <2>1, <3>2 DEF In
      <4>2. t.slot[q[i]].prev = Before(q, i) /\ s.slot[q[i]].next = After(q, i)
        BY <1>7, <2>1, <3>2, <4>1 DEF IsQueue
      <4>3. Before(r, i) = Before(q, i)
        <5>1. i # 1 => i - 1 \in 1..n
          BY <2>1, <3>2
        <5> QED
          BY <1>4, <2>1, <5>1 DEF Before
      <4>4. CASE i = n
        <5>1. t.slot[q[i]].next = p /\ n # 0
          BY <1>7, <2>1, <3>2, <4>1, <4>4
        <5>2. After(r, i) = p
          BY <1>4, <2>1, <4>4 DEF After
        <5> QED
          BY <4>1, <4>2, <4>3, <5>1, <5>2
      <4>5. CASE i # n
        <5>1. q[i] # q[n] /\ i + 1 \in 1..n /\ n \in 1..n /\ i < n /\ i < n + 1
          <6>1. i + 1 \in 1..n /\ n \in 1..n /\ i < n /\ i < n + 1
            BY <2>1, <3>2, <4>5
          <6> QED
            BY <1>1, <2>1, <3>2, <4>5, <6>1 DEF Once
        <5>2. t.slot[q[i]].next = After(q, i)
          BY <1>7, <2>1, <4>1, <4>2, <5>1
        <5>3. After(r, i) = After(q, i)
          BY <1>4, <2>1, <5>1 DEF After
        <5> QED
          BY <4>1, <4>2, <4>3, <5>2, <5>3
      <4> QED
        BY <4>4, <4>5
    <3>3. i = n + 1 \/ i \in 1..n
      BY <2>1
    <3> QED
      BY <3>1, <3>2, <3>3
  <2>4. Len(r) = n + 1 /\ n + 1 # 0
    BY <1>4, <2>1
  <2> QED
    BY <1>4, <2>2, <2>3, <2>4 DEF IsQueue
<1> QED
  BY <1>2, <1>3, <1>7, <1>8

Cut(q, k0) == [j \in 1..(Len(q) - 1) |-> IF j < k0 THEN q[j] ELSE q[j + 1]]

LEMMA CutIs ==
  ASSUME NEW q \in Seq(SLOTS), Once(q), NEW a \in 1..Len(q)
  PROVE  /\ Cut(q, a) \in Seq(SLOTS) /\ Once(Cut(q, a))
         /\ Len(Cut(q, a)) = Len(q) - 1
         /\ \A j \in 1..(Len(q) - 1) : Cut(q, a)[j] = IF j < a THEN q[j] ELSE q[j + 1]
         /\ \A x : In(Cut(q, a), x) <=> (In(q, x) /\ x # q[a])
<1>1. PICK r : r = Cut(q, a)
  OBVIOUS
<1>2. PICK n \in Nat : n = Len(q)
  OBVIOUS
<1>3. a \in 1..n /\ \A j \in 1..n : q[j] \in SLOTS
  BY <1>2
<1>4. /\ n - 1 \in Nat
      /\ \A j \in 1..(n - 1) : j \in 1..n /\ j + 1 \in 1..n
  BY <1>3
<1>5. r = [j \in 1..(n - 1) |-> IF j < a THEN q[j] ELSE q[j + 1]]
  BY <1>1, <1>2 DEF Cut
<1>6. r \in Seq(SLOTS) /\ Len(r) = n - 1
  BY <1>3, <1>4, <1>5
<1>7. \A j \in 1..(n - 1) : r[j] = IF j < a THEN q[j] ELSE q[j + 1]
  BY <1>5
<1>8. \A i, j \in 1..n : q[i] = q[j] => i = j
  BY <1>2 DEF Once
<1>9. Once(r)
  <2>1. ASSUME NEW i \in 1..(n - 1), NEW j \in 1..(n - 1), r[i] = r[j] PROVE i = j
    <3>1. \A x \in 1..(n - 1) : x \in Nat /\ (IF x < a THEN x ELSE x + 1) \in 1..n
      BY <1>3, <1>4
    <3>2. \A x \in 1..(n - 1) : r[x] = q[IF x < a THEN x ELSE x + 1]
      BY <1>7
    <3>3. (IF i < a THEN i ELSE i + 1) = (IF j < a THEN j ELSE j + 1)
      BY <1>8, <2>1, <3>1, <3>2
    <3> QED
      BY <1>3, <3>1, <3>3
  <2> QED
    BY <1>6, <2>1 DEF Once
<1>10. ASSUME NEW x, In(r, x) PROVE In(q, x) /\ x # q[a]
  <2>1. PICK j \in 1..(n - 1) : r[j] = x
    BY <1>6, <1>10 DEF In
  <2>2. PICK i : i = IF j < a THEN j ELSE j + 1
    OBVIOUS
  <2>3. i \in 1..n /\ i # a /\ q[i] = x
    BY <1>3, <1>4, <1>7, <2>1, <2>2
  <2> QED
    BY <1>2, <1>3, <1>8, <2>3 DEF In
<1>11. ASSUME NEW x, In(q, x), x # q[a] PROVE In(r, x)
  <2>1. PICK j \in 1..n : q[j] = x
    BY <1>2, <1>11 DEF In
  <2>2. j # a
    BY <1>11, <2>1
  <2>3. CASE j < a
    <3>1. j \in 1..(n - 1) /\ r[j] = x
      BY <1>3, <1>7, <2>1, <2>3
    <3> QED
      BY <1>6, <3>1 DEF In
  <2>4. CASE a < j
    <3>1. j - 1 \in 1..(n - 1) /\ ~ (j - 1 < a) /\ (j - 1) + 1 = j
      BY <1>2, <1>3, <2>1, <2>4
    <3>2. r[j - 1] = x
      BY <1>7, <2>1, <3>1
    <3> QED
      BY <1>6, <3>1, <3>2 DEF In
  <2>5. j < a \/ a < j
    BY <1>2, <1>3, <2>1, <2>2
  <2> QED
    BY <2>3, <2>4, <2>5
<1> QED
  BY <1>1, <1>2, <1>6, <1>7, <1>9, <1>10, <1>11

LEMMA NeighboursDiffer ==
  ASSUME NEW q \in Seq(SLOTS), Once(q), NEW a \in 1..Len(q)
  PROVE  After(q, a) # q[a] /\ Before(q, a) # q[a]
         /\ After(q, a) \in SlotLinks /\ Before(q, a) \in SlotLinks
         /\ (After(q, a) # NULL => After(q, a) # Before(q, a))
<1>1. PICK n \in Nat : n = Len(q)
  OBVIOUS
<1>2. a \in 1..n /\ (\A j \in 1..n : q[j] \in SLOTS /\ q[j] # NULL)
      /\ \A i, j \in 1..n : q[i] = q[j] => i = j
  BY <1>1, Sizes DEF Once
<1>3. a < n => a + 1 \in 1..n /\ a + 1 # a /\ a + 1 # a - 1
  BY <1>1, <1>2
<1>4. a # 1 => a - 1 \in 1..n /\ a - 1 # a
  BY <1>1, <1>2
<1>5. After(q, a) = IF a < n THEN q[a + 1] ELSE NULL
  BY <1>1 DEF After
<1>6. Before(q, a) = IF a = 1 THEN NULL ELSE q[a - 1]
  BY DEF Before
<1>7. /\ a < n => q[a + 1] # q[a] /\ q[a + 1] \in SLOTS
      /\ a # 1 => q[a - 1] # q[a] /\ q[a - 1] \in SLOTS
      /\ a < n /\ a # 1 => q[a + 1] # q[a - 1]
  BY <1>2, <1>3, <1>4
<1> QED
  BY <1>2, <1>5, <1>6, <1>7 DEF SlotLinks

LEMMA RemoveIs ==
  ASSUME NEW s \in KType, NEW q, IsQueue(s, q), NEW a \in 1..Len(q), NEW p, p = q[a]
  PROVE  /\ remove_from_ready_queue(s, p) \in KType
         /\ IsQueue(remove_from_ready_queue(s, p), Cut(q, a))
         /\ remove_from_ready_queue(s, p).slot[p].state = s.slot[p].state
         /\ Kept(s, remove_from_ready_queue(s, p), p)
<1>1. q \in Seq(SLOTS) /\ Once(q) /\ Len(q) \in Nat
      /\ \A i \in 1..Len(q) : q[i] \in SLOTS /\ q[i] # NULL
  BY QueueTypes DEF IsQueue
<1>2. PICK v : v = remove_from_ready_queue(s, p)
  OBVIOUS
<1>3. PICK nxt, prv : nxt = After(q, a) /\ prv = Before(q, a)
  OBVIOUS
<1>4. p \in SLOTS /\ s.slot[p].next = nxt /\ s.slot[p].prev = prv
  BY <1>1, <1>3 DEF IsQueue
<1>5. nxt # p /\ prv # p /\ nxt \in SlotLinks /\ prv \in SlotLinks /\ (nxt # NULL => nxt # prv)
  BY <1>1, <1>3, NeighboursDiffer
<1>6. \A x \in SlotLinks : x # NULL => x \in SLOTS
  BY DEF SlotLinks
<1> DEFINE t == IF prv # NULL THEN [s EXCEPT !.slot[prv].next = nxt] ELSE [s EXCEPT !.ready = nxt]
           u == IF nxt # NULL THEN [t EXCEPT !.slot[nxt].prev = prv] ELSE t
<1>7. v = [u EXCEPT !.slot[p].next = NULL, !.slot[p].prev = NULL]
  BY <1>2, <1>4 DEF remove_from_ready_queue
<1>8. /\ t \in KType /\ t.ready = (IF prv # NULL THEN s.ready ELSE nxt)
      /\ t.current = s.current /\ t.next_pid = s.next_pid /\ t.count = s.count /\ t.heap = s.heap
      /\ \A x \in SLOTS : /\ t.slot[x].pid = s.slot[x].pid /\ t.slot[x].frame = s.slot[x].frame
                          /\ t.slot[x].state = s.slot[x].state /\ t.slot[x].prev = s.slot[x].prev
                          /\ t.slot[x].next = IF x = prv THEN nxt ELSE s.slot[x].next
  <2>1. CASE prv # NULL
    <3>1. prv \in SLOTS
      BY <1>5, <1>6, <2>1
    <3>2. PICK w : w = [s EXCEPT !.slot[prv].next = nxt]
      OBVIOUS
    <3>3. w.slot = [s.slot EXCEPT ![prv] = [@ EXCEPT !.next = nxt]]
      BY <3>1, <3>2 DEF KType
    <3>4. s.slot[prv] \in SlotType /\ s.slot \in [SLOTS -> SlotType]
      BY <3>1 DEF KType
    <3>5. [s.slot[prv] EXCEPT !.next = nxt] \in SlotType
      BY <1>5, <3>4 DEF SlotType
    <3>6. w.slot \in [SLOTS -> SlotType]
      BY <3>3, <3>4, <3>5
    <3>7. w.slot[prv] = [s.slot[prv] EXCEPT !.next = nxt]
          /\ \A x \in SLOTS : x # prv => w.slot[x] = s.slot[x]
      BY <3>1, <3>3, <3>4
    <3>8. /\ w.slot[prv].pid = s.slot[prv].pid /\ w.slot[prv].frame = s.slot[prv].frame
          /\ w.slot[prv].state = s.slot[prv].state /\ w.slot[prv].prev = s.slot[prv].prev
          /\ w.slot[prv].next = nxt
      BY <3>4, <3>7 DEF SlotType
    <3>9. w \in KType /\ w.ready = s.ready /\ w.current = s.current /\ w.next_pid = s.next_pid
          /\ w.count = s.count /\ w.heap = s.heap
      BY <3>2, <3>6 DEF KType
    <3>10. t = w
      BY <2>1, <3>2
    <3> HIDE DEF t
    <3> QED
      BY <2>1, <3>7, <3>8, <3>9, <3>10
  <2>2. CASE prv = NULL
    <3>1. PICK w : w = [s EXCEPT !.ready = nxt]
      OBVIOUS
    <3>2. w \in KType /\ w.ready = nxt /\ w.current = s.current /\ w.next_pid = s.next_pid
          /\ w.count = s.count /\ w.heap = s.heap /\ w.slot = s.slot
      BY <1>5, <3>1 DEF KType
    <3>3. t = w
      BY <2>2, <3>1
    <3>4. \A x \in SLOTS : x # prv
      BY <2>2, Sizes
    <3> HIDE DEF t
    <3> QED
      BY <2>2, <3>2, <3>3, <3>4
  <2> QED
    BY <2>1, <2>2
<1> HIDE DEF t
<1>9. /\ u \in KType /\ u.ready = t.ready
      /\ u.current = s.current /\ u.next_pid = s.next_pid /\ u.count = s.count /\ u.heap = s.heap
      /\ \A x \in SLOTS : /\ u.slot[x].pid = s.slot[x].pid /\ u.slot[x].frame = s.slot[x].frame
                          /\ u.slot[x].state = s.slot[x].state
                          /\ u.slot[x].prev = IF x = nxt THEN prv ELSE s.slot[x].prev
                          /\ u.slot[x].next = t.slot[x].next
  <2>1. CASE nxt # NULL
    <3>1. nxt \in SLOTS
      BY <1>5, <1>6, <2>1
    <3>2. PICK w : w = [t EXCEPT !.slot[nxt].prev = prv]
      OBVIOUS
    <3>3. w.slot = [t.slot EXCEPT ![nxt] = [@ EXCEPT !.prev = prv]]
      BY <1>8, <3>1, <3>2 DEF KType
    <3>4. t.slot[nxt] \in SlotType /\ t.slot \in [SLOTS -> SlotType]
      BY <1>8, <3>1 DEF KType
    <3>5. [t.slot[nxt] EXCEPT !.prev = prv] \in SlotType
      BY <1>5, <3>4 DEF SlotType
    <3>6. w.slot \in [SLOTS -> SlotType]
      BY <3>3, <3>4, <3>5
    <3>7. w.slot[nxt] = [t.slot[nxt] EXCEPT !.prev = prv]
          /\ \A x \in SLOTS : x # nxt => w.slot[x] = t.slot[x]
      BY <3>1, <3>3, <3>4
    <3>8. /\ w.slot[nxt].pid = t.slot[nxt].pid /\ w.slot[nxt].frame = t.slot[nxt].frame
          /\ w.slot[nxt].state = t.slot[nxt].state /\ w.slot[nxt].next = t.slot[nxt].next
          /\ w.slot[nxt].prev = prv
      BY <3>4, <3>7 DEF SlotType
    <3>9. w \in KType /\ w.ready = t.ready /\ w.current = t.current /\ w.next_pid = t.next_pid
          /\ w.count = t.count /\ w.heap = t.heap
      BY <1>8, <3>2, <3>6 DEF KType
    <3>10. u = w
      BY <2>1, <3>2
    <3>11. \A x \in SLOTS :
             /\ w.slot[x].pid = t.slot[x].pid /\ w.slot[x].frame = t.slot[x].frame
             /\ w.slot[x].state = t.slot[x].state /\ w.slot[x].next = t.slot[x].next
             /\ w.slot[x].prev = IF x = nxt THEN prv ELSE t.slot[x].prev
      BY <3>7, <3>8
    <3>12. \A x \in SLOTS :
             /\ w.slot[x].pid = s.slot[x].pid /\ w.slot[x].frame = s.slot[x].frame
             /\ w.slot[x].state = s.slot[x].state /\ w.slot[x].next = t.slot[x].next
             /\ w.slot[x].prev = IF x = nxt THEN prv ELSE s.slot[x].prev
      BY <1>8, <3>11
    <3> HIDE DEF u
    <3> QED
      BY <1>8, <3>9, <3>10, <3>12
  <2>2. CASE nxt = NULL
    <3>1. u = t /\ \A x \in SLOTS : x # nxt
      BY <2>2, Sizes
    <3> HIDE DEF u
    <3> QED
      BY <1>8, <3>1
  <2> QED
    BY <2>1, <2>2
<1> HIDE DEF u
<1>10. /\ v \in KType /\ v.ready = u.ready /\ Kept(s, v, p)
       /\ v.slot[p].state = s.slot[p].state
       /\ \A x \in SLOTS : x # p => v.slot[x].next = u.slot[x].next /\ v.slot[x].prev = u.slot[x].prev
  <2>1. v.slot = [u.slot EXCEPT ![p] = [@ EXCEPT !.next = NULL, !.prev = NULL]]
    BY <1>4, <1>7, <1>9 DEF KType, SlotType
  <2>2. u.slot[p] \in SlotType /\ u.slot \in [SLOTS -> SlotType]
    BY <1>4, <1>9 DEF KType
  <2>3. [u.slot[p] EXCEPT !.next = NULL, !.prev = NULL] \in SlotType
    BY <2>2 DEF SlotType, SlotLinks
  <2>4. v.slot \in [SLOTS -> SlotType]
    BY <2>1, <2>2, <2>3
  <2>5. v.slot[p] = [u.slot[p] EXCEPT !.next = NULL, !.prev = NULL]
        /\ \A x \in SLOTS : x # p => v.slot[x] = u.slot[x]
    BY <1>4, <2>1, <2>2
  <2>6. /\ v.slot[p].pid = u.slot[p].pid /\ v.slot[p].frame = u.slot[p].frame
        /\ v.slot[p].state = u.slot[p].state
    BY <2>2, <2>5 DEF SlotType
  <2>7. v \in KType /\ v.ready = u.ready /\ v.current = u.current /\ v.next_pid = u.next_pid
        /\ v.count = u.count /\ v.heap = u.heap
    BY <1>7, <1>9, <2>4 DEF KType
  <2>8. \A x \in SLOTS : v.slot[x].pid = s.slot[x].pid /\ v.slot[x].frame = s.slot[x].frame
                         /\ v.slot[x].state = s.slot[x].state
    <3>1. \A x \in SLOTS : v.slot[x].pid = u.slot[x].pid /\ v.slot[x].frame = u.slot[x].frame
                            /\ v.slot[x].state = u.slot[x].state
      BY <2>5, <2>6
    <3> QED
      BY <1>9, <3>1
  <2> QED
    BY <1>4, <1>9, <2>5, <2>7, <2>8 DEF Kept
<1>11. PICK r : r = Cut(q, a)
  OBVIOUS
<1>12. PICK n \in Nat : n = Len(q)
  BY <1>1
<1>13. /\ r \in Seq(SLOTS) /\ Once(r) /\ Len(r) = n - 1
       /\ \A j \in 1..(n - 1) : r[j] = IF j < a THEN q[j] ELSE q[j + 1]
  <2>1. /\ Cut(q, a) \in Seq(SLOTS) /\ Once(Cut(q, a)) /\ Len(Cut(q, a)) = Len(q) - 1
        /\ \A j \in 1..(Len(q) - 1) : Cut(q, a)[j] = IF j < a THEN q[j] ELSE q[j + 1]
    <3>1. q \in Seq(SLOTS) /\ Once(q) /\ a \in 1..Len(q)
      BY <1>1
    <3> QED
      BY <3>1, CutIs
  <2> QED
    BY <1>11, <1>12, <2>1
<1>14. a \in 1..n /\ \A i, j \in 1..n : q[i] = q[j] => i = j
  BY <1>1, <1>12 DEF Once
<1>15. \A i \in 1..n : q[i] \in SLOTS /\ q[i] # NULL
                       /\ s.slot[q[i]].next = After(q, i) /\ s.slot[q[i]].prev = Before(q, i)
  BY <1>1, <1>12 DEF IsQueue
<1>16. nxt = (IF a < n THEN q[a + 1] ELSE NULL) /\ prv = (IF a = 1 THEN NULL ELSE q[a - 1])
  BY <1>3, <1>12 DEF After, Before
<1>17. v.ready = IF n - 1 = 0 THEN NULL ELSE r[1]
  <2>1. s.ready = q[1]
    BY <1>12, <1>14 DEF IsQueue
  <2>2. CASE a = 1
    <3>1. v.ready = nxt
      BY <1>8, <1>9, <1>10, <1>16, <2>2
    <3>2. 1 < n => 1 \in 1..(n - 1) /\ r[1] = q[2]
      BY <1>13, <2>2
    <3>3. a < n <=> n - 1 # 0
      BY <1>12, <1>14, <2>2
    <3>4. a + 1 = 2
      BY <2>2
    <3> QED
      BY <1>16, <2>2, <3>1, <3>2, <3>3, <3>4
  <2>3. CASE a # 1
    <3>1. a - 1 \in 1..n /\ 1 \in 1..(n - 1) /\ 1 < a /\ n - 1 # 0
      BY <1>12, <1>14, <2>3
    <3>2. v.ready = s.ready
      BY <1>8, <1>9, <1>10, <1>15, <1>16, <2>3, <3>1
    <3> QED
      BY <1>13, <2>1, <3>1, <3>2
  <2> QED
    BY <2>2, <2>3
<1>18. ASSUME NEW j \in 1..(n - 1)
       PROVE  v.slot[r[j]].next = After(r, j) /\ v.slot[r[j]].prev = Before(r, j)
  <2>1. PICK i : i = IF j < a THEN j ELSE j + 1
    OBVIOUS
  <2>2. i \in 1..n /\ i # a /\ r[j] = q[i]
    BY <1>12, <1>13, <1>14, <2>1
  <2>3. q[i] # p /\ q[i] \in SLOTS
    BY <1>14, <1>15, <2>2
  <2>4. /\ v.slot[q[i]].next = IF q[i] = prv THEN nxt ELSE After(q, i)
        /\ v.slot[q[i]].prev = IF q[i] = nxt THEN prv ELSE Before(q, i)
    BY <1>8, <1>9, <1>10, <1>15, <2>2, <2>3
  <2>5. q[i] = prv <=> i + 1 = a
    <3>1. a # 1 => a - 1 \in 1..n
      BY <1>12, <1>14
    <3>2. i + 1 = a <=> a # 1 /\ i = a - 1
      BY <1>12, <1>14, <2>2
    <3> QED
      BY <1>14, <1>15, <1>16, <2>2, <3>1, <3>2
  <2>6. q[i] = nxt <=> i = a + 1
    <3>1. a < n => a + 1 \in 1..n
      BY <1>12, <1>14
    <3>2. i = a + 1 => a < n
      BY <1>12, <1>14, <2>2
    <3> QED
      BY <1>14, <1>15, <1>16, <2>2, <3>1, <3>2
  <2>7. After(r, j) = IF j < n - 1 THEN r[j + 1] ELSE NULL
    BY <1>13 DEF After
  <2>8. Before(r, j) = IF j = 1 THEN NULL ELSE r[j - 1]
    BY DEF Before
  <2>9. v.slot[q[i]].next = After(r, j)
    <3>1. CASE i + 1 = a
      <4>1. v.slot[q[i]].next = IF a < n THEN q[a + 1] ELSE NULL
        BY <1>16, <2>4, <2>5, <3>1
      <4>2. j = a - 1
        BY <1>12, <1>14, <2>1, <3>1
      <4>3. a < n <=> j < n - 1
        BY <1>12, <1>14, <4>2
      <4>4. j < n - 1 => j + 1 \in 1..(n - 1) /\ ~ (j + 1 < a) /\ (j + 1) + 1 = a + 1
        BY <1>12, <1>14, <4>2
      <4>5. j < n - 1 => r[j + 1] = q[a + 1]
        BY <1>13, <4>4
      <4> QED
        BY <2>7, <4>1, <4>3, <4>5
    <3>2. CASE i + 1 # a
      <4>1. v.slot[q[i]].next = IF i < n THEN q[i + 1] ELSE NULL
        BY <1>12, <2>4, <2>5, <3>2 DEF After
      <4>2. i < n <=> j < n - 1
        BY <1>12, <1>14, <2>1, <2>2, <3>2
      <4>3. j < n - 1 => /\ j + 1 \in 1..(n - 1)
                         /\ i + 1 = IF j + 1 < a THEN j + 1 ELSE (j + 1) + 1
        BY <1>12, <1>14, <2>1, <3>2
      <4>4. j < n - 1 => r[j + 1] = q[i + 1]
        BY <1>13, <4>3
      <4> QED
        BY <2>7, <4>1, <4>2, <4>4
    <3> QED
      BY <3>1, <3>2
  <2>10. v.slot[q[i]].prev = Before(r, j)
    <3>1. CASE i = a + 1
      <4>1. v.slot[q[i]].prev = IF a = 1 THEN NULL ELSE q[a - 1]
        BY <1>16, <2>4, <2>6, <3>1
      <4>2. j = a
        BY <1>12, <1>14, <2>1, <3>1
      <4>3. j # 1 => j - 1 \in 1..(n - 1) /\ j - 1 < a
        BY <1>12, <1>14, <4>2
      <4>4. j # 1 => r[j - 1] = q[a - 1]
        BY <1>13, <4>2, <4>3
      <4> QED
        BY <2>8, <4>1, <4>2, <4>4
    <3>2. CASE i # a + 1
      <4>1. v.slot[q[i]].prev = IF i = 1 THEN NULL ELSE q[i - 1]
        BY <2>4, <2>6, <3>2 DEF Before
      <4>2. i = 1 <=> j = 1
        BY <1>12, <1>14, <2>1, <2>2, <3>2
      <4>3. j # 1 => /\ j - 1 \in 1..(n - 1)
                     /\ i - 1 = IF j - 1 < a THEN j - 1 ELSE (j - 1) + 1
        BY <1>12, <1>14, <2>1, <3>2
      <4>4. j # 1 => r[j - 1] = q[i - 1]
        BY <1>13, <4>3
      <4> QED
        BY <2>8, <4>1, <4>2, <4>4
    <3> QED
      BY <3>1, <3>2
  <2> QED
    BY <2>2, <2>9, <2>10
<1>19. IsQueue(v, r)
  BY <1>13, <1>17, <1>18 DEF IsQueue
<1> QED
  BY <1>2, <1>10, <1>11, <1>19

----------------------------------------------------------------------------
(***************************************************************************)
(* The operations keep Sched.                                              *)
(***************************************************************************)
LEMMA SameLinks ==
  ASSUME NEW s, NEW t, NEW q, IsQueue(s, q), t.ready = s.ready,
         \A x \in SLOTS : t.slot[x].next = s.slot[x].next /\ t.slot[x].prev = s.slot[x].prev
  PROVE  IsQueue(t, q)
<1>1. \A i \in 1..Len(q) : q[i] \in SLOTS
  BY QueueTypes
<1> QED
  BY <1>1 DEF IsQueue

LEMMA TakenFinite ==
  ASSUME NEW s
  PROVE  /\ IsFiniteSet(TakenSlots(s)) /\ Cardinality(TakenSlots(s)) \in Nat
         /\ Cardinality(TakenSlots(s)) <= MAX_PROCESS
<1>1. IsFiniteSet(SLOTS) /\ Cardinality(SLOTS) = MAX_PROCESS
  <2>1. 1 \in Int /\ MAX_PROCESS \in Int /\ MAX_PROCESS - 1 + 1 = MAX_PROCESS
    BY Sizes
  <2> QED
    BY <2>1, Sizes, FS_Interval DEF SLOTS
<1>2. TakenSlots(s) \in SUBSET SLOTS
  BY DEF TakenSlots
<1>3. IsFiniteSet(TakenSlots(s)) /\ Cardinality(TakenSlots(s)) <= Cardinality(SLOTS)
  BY <1>1, <1>2, FS_Subset
<1>4. Cardinality(TakenSlots(s)) \in Nat
  BY <1>3, FS_CardinalityType
<1> QED
  BY <1>1, <1>3, <1>4

\* A process that is not queued is not ready, and the current one runs.
LEMMA CurrentRuns ==
  ASSUME NEW s \in KType, NEW q, Sched(s, q), s.current # NULL
  PROVE  /\ s.current \in SLOTS /\ s.slot[s.current].pid # 0
         /\ s.slot[s.current].state = "running" /\ ~ In(q, s.current)
<1>1. s.current \in SLOTS
  BY DEF KType, SlotLinks
<1>2. Placed(s, s.current)
  BY <1>1 DEF Sched
<1>3. s.slot[s.current].pid # 0 /\ s.slot[s.current].state = "running"
  BY <1>2 DEF Placed
<1> QED
  BY <1>1, <1>3 DEF Sched

LEMMA ScheduleOK ==
  ASSUME NEW s \in KType, NEW q, Sched(s, q)
  PROVE  process_schedule(s) \in KType /\ \E r : Sched(process_schedule(s), r)
<1>1. CASE s.ready = NULL
  BY <1>1 DEF process_schedule
<1>2. CASE s.ready # NULL
  <2>1. IsQueue(s, q) /\ q \in Seq(SLOTS) /\ Once(q) /\ Len(q) \in Nat
        /\ \A i \in 1..Len(q) : q[i] \in SLOTS /\ q[i] # NULL
    BY QueueTypes DEF Sched, IsQueue
  <2>2. PICK nxt, prev : nxt = s.ready /\ prev = s.current
    OBVIOUS
  <2>3. 1 \in 1..Len(q) /\ nxt = q[1] /\ nxt \in SLOTS
    <3>1. Len(q) # 0 /\ nxt = q[1]
      BY <1>2, <2>1, <2>2 DEF IsQueue
    <3>2. 1 \in 1..Len(q)
      BY <2>1, <3>1
    <3> QED
      BY <2>1, <3>1, <3>2
  <2>4. PICK u : u = remove_from_ready_queue(s, nxt)
    OBVIOUS
  <2>5. PICK r1 : r1 = Cut(q, 1)
    OBVIOUS
  <2>6. u \in KType /\ IsQueue(u, r1) /\ Kept(s, u, nxt) /\ u.slot[nxt].state = s.slot[nxt].state
    BY <2>1, <2>3, <2>4, <2>5, RemoveIs
  <2>7. r1 \in Seq(SLOTS) /\ Once(r1) /\ \A x : In(r1, x) <=> In(q, x) /\ x # nxt
    BY <2>1, <2>3, <2>5, CutIs
  <2>8. PICK t : t = [u EXCEPT !.slot[nxt].state = "running", !.current = nxt]
    OBVIOUS
  <2>9. /\ t \in KType /\ IsQueue(t, r1) /\ t.current = nxt
        /\ t.next_pid = s.next_pid /\ t.count = s.count /\ t.heap = s.heap
        /\ t.slot[nxt].state = "running"
        /\ \A x \in SLOTS : t.slot[x].pid = s.slot[x].pid /\ t.slot[x].frame = s.slot[x].frame
        /\ \A x \in SLOTS : x # nxt => t.slot[x].state = s.slot[x].state
    <3>1. PICK e : e = [u.slot[nxt] EXCEPT !.state = "running"]
      OBVIOUS
    <3>2. u.slot[nxt] \in SlotType
      BY <2>3, <2>6 DEF KType
    <3>3. /\ e \in SlotType /\ e.state = "running" /\ e.pid = u.slot[nxt].pid
          /\ e.frame = u.slot[nxt].frame /\ e.next = u.slot[nxt].next /\ e.prev = u.slot[nxt].prev
      BY <3>1, <3>2 DEF SlotType, SlotStates
    <3>4. t.slot = [u.slot EXCEPT ![nxt] = e]
      BY <2>3, <2>6, <2>8, <3>1 DEF KType
    <3>5. t.slot \in [SLOTS -> SlotType] /\ t.slot[nxt] = e
          /\ \A x \in SLOTS : x # nxt => t.slot[x] = u.slot[x]
      BY <2>3, <2>6, <3>3, <3>4 DEF KType
    <3>6. t \in KType /\ t.ready = u.ready /\ t.current = nxt /\ t.next_pid = u.next_pid
          /\ t.count = u.count /\ t.heap = u.heap
      BY <2>3, <2>6, <2>8, <3>5 DEF KType, SlotLinks
    <3>7. \A x \in SLOTS : /\ t.slot[x].pid = u.slot[x].pid /\ t.slot[x].frame = u.slot[x].frame
                           /\ t.slot[x].next = u.slot[x].next /\ t.slot[x].prev = u.slot[x].prev
      BY <3>3, <3>5
    <3>8. IsQueue(t, r1)
      BY <2>6, <3>6, <3>7, SameLinks
    <3>9. \A x \in SLOTS : t.slot[x].pid = s.slot[x].pid /\ t.slot[x].frame = s.slot[x].frame
      BY <2>6, <3>7 DEF Kept
    <3>10. \A x \in SLOTS : x # nxt => t.slot[x].state = s.slot[x].state
      BY <2>6, <3>5 DEF Kept
    <3> QED
      BY <2>6, <3>3, <3>5, <3>6, <3>8, <3>9, <3>10 DEF Kept
  <2>10. s.slot[nxt].state = "ready" /\ s.slot[nxt].pid # 0
    <3>1. In(q, nxt)
      BY <2>3 DEF In
    <3>2. s.slot[nxt].state = "ready" /\ Placed(s, nxt)
      BY <2>3, <3>1 DEF Sched
    <3> QED
      BY <3>2 DEF Placed
  <2>11. prev # NULL => /\ prev \in SLOTS /\ s.slot[prev].pid # 0 /\ ~ In(q, prev)
                        /\ s.slot[prev].state = "running" /\ prev # nxt
    BY <2>2, <2>10, CurrentRuns
  <2>12. PICK w : w = IF prev = NULL THEN t ELSE add_to_ready_queue(t, prev)
    OBVIOUS
  <2>13. PICK r : r = IF prev = NULL THEN r1 ELSE Append(r1, prev)
    OBVIOUS
  <2>14. /\ w \in KType /\ IsQueue(w, r) /\ w.current = nxt
         /\ w.next_pid = s.next_pid /\ w.count = s.count /\ w.heap = s.heap
         /\ prev # NULL => w.slot[prev].state = "ready"
         /\ w.slot[nxt].state = "running"
         /\ \A x \in SLOTS : w.slot[x].pid = s.slot[x].pid /\ w.slot[x].frame = s.slot[x].frame
         /\ \A x \in SLOTS : x # nxt /\ x # prev => w.slot[x].state = s.slot[x].state
         /\ \A x : In(r, x) <=> (In(q, x) /\ x # nxt) \/ (prev # NULL /\ x = prev)
    <3>1. CASE prev = NULL
      BY <2>7, <2>9, <2>12, <2>13, <3>1
    <3>2. CASE prev # NULL
      <4>1. prev \in SLOTS /\ ~ In(r1, prev) /\ prev # nxt
        BY <2>7, <2>11, <3>2
      <4>2. w = add_to_ready_queue(t, prev) /\ r = Append(r1, prev)
        BY <2>12, <2>13, <3>2
      <4>3. w \in KType /\ IsQueue(w, r) /\ w.slot[prev].state = "ready" /\ Kept(t, w, prev)
        BY <2>9, <4>1, <4>2, AddIs
      <4>4. \A x : In(r, x) <=> (In(r1, x) \/ x = prev)
        BY <2>7, <4>1, <4>2, AppendedIs
      <4>5. /\ w.current = nxt /\ w.next_pid = s.next_pid /\ w.count = s.count /\ w.heap = s.heap
        BY <2>9, <4>3 DEF Kept
      <4>6. \A x \in SLOTS : w.slot[x].pid = s.slot[x].pid /\ w.slot[x].frame = s.slot[x].frame
        BY <2>9, <4>3 DEF Kept
      <4>7. \A x \in SLOTS : x # nxt /\ x # prev => w.slot[x].state = s.slot[x].state
        BY <2>9, <4>3 DEF Kept
      <4>8. w.slot[nxt].state = "running"
        BY <2>3, <2>9, <4>1, <4>3 DEF Kept
      <4> QED
        BY <2>7, <3>2, <4>3, <4>4, <4>5, <4>6, <4>7, <4>8
    <3> QED
      BY <3>1, <3>2
  <2>15. PICK x : x = context_switch(w, prev, nxt)
    OBVIOUS
  <2>16. /\ x \in KType /\ IsQueue(x, r) /\ x.current = nxt /\ x.count = s.count /\ x.heap = s.heap
         /\ \A y \in SLOTS : x.slot[y].pid = s.slot[y].pid /\ x.slot[y].state = w.slot[y].state
         /\ x.slot[nxt].frame = "none"
         /\ prev # NULL => x.slot[prev].frame = "saved"
         /\ \A y \in SLOTS : y # nxt /\ y # prev => x.slot[y].frame = s.slot[y].frame
    <3>1. PICK v : v = IF prev = NULL THEN w ELSE [w EXCEPT !.slot[prev].frame = "saved"]
      OBVIOUS
    <3>2. /\ v \in KType /\ v.ready = w.ready /\ v.current = w.current
          /\ v.count = w.count /\ v.heap = w.heap
          /\ \A y \in SLOTS : /\ v.slot[y].pid = w.slot[y].pid /\ v.slot[y].state = w.slot[y].state
                              /\ v.slot[y].next = w.slot[y].next /\ v.slot[y].prev = w.slot[y].prev
          /\ \A y \in SLOTS : y # prev => v.slot[y].frame = w.slot[y].frame
          /\ prev # NULL => v.slot[prev].frame = "saved"
      <4>1. CASE prev = NULL
        BY <2>14, <3>1, <4>1
      <4>2. CASE prev # NULL
        <5>1. v = [w EXCEPT !.slot[prev].frame = "saved"] /\ prev \in SLOTS
          BY <2>11, <3>1, <4>2
        <5>2. PICK e : e = [w.slot[prev] EXCEPT !.frame = "saved"]
          OBVIOUS
        <5>3. w.slot[prev] \in SlotType
          BY <2>14, <5>1 DEF KType
        <5>4. /\ e \in SlotType /\ e.frame = "saved" /\ e.pid = w.slot[prev].pid
              /\ e.state = w.slot[prev].state /\ e.next = w.slot[prev].next
              /\ e.prev = w.slot[prev].prev
          BY <5>2, <5>3 DEF SlotType, Frames
        <5>5. v.slot = [w.slot EXCEPT ![prev] = e]
          BY <2>14, <5>1, <5>2 DEF KType
        <5>6. v.slot \in [SLOTS -> SlotType] /\ v.slot[prev] = e
              /\ \A y \in SLOTS : y # prev => v.slot[y] = w.slot[y]
          BY <2>14, <5>1, <5>4, <5>5 DEF KType
        <5>7. v \in KType /\ v.ready = w.ready /\ v.current = w.current
              /\ v.count = w.count /\ v.heap = w.heap
          BY <2>14, <5>1, <5>6 DEF KType
        <5> QED
          BY <5>4, <5>6, <5>7
      <4> QED
        BY <4>1, <4>2
    <3>3. x = [v EXCEPT !.slot[nxt].frame = "none"]
      BY <2>15, <3>1 DEF context_switch
    <3>4. PICK e : e = [v.slot[nxt] EXCEPT !.frame = "none"]
      OBVIOUS
    <3>5. v.slot[nxt] \in SlotType
      BY <2>3, <3>2 DEF KType
    <3>6. /\ e \in SlotType /\ e.frame = "none" /\ e.pid = v.slot[nxt].pid
          /\ e.state = v.slot[nxt].state /\ e.next = v.slot[nxt].next /\ e.prev = v.slot[nxt].prev
      BY <3>4, <3>5 DEF SlotType, Frames
    <3>7. x.slot = [v.slot EXCEPT ![nxt] = e]
      BY <2>3, <3>2, <3>3, <3>4 DEF KType
    <3>8. x.slot \in [SLOTS -> SlotType] /\ x.slot[nxt] = e
          /\ \A y \in SLOTS : y # nxt => x.slot[y] = v.slot[y]
      BY <2>3, <3>2, <3>6, <3>7 DEF KType
    <3>9. x \in KType /\ x.ready = v.ready /\ x.current = v.current
          /\ x.count = v.count /\ x.heap = v.heap
      BY <3>2, <3>3, <3>8 DEF KType
    <3>10. \A y \in SLOTS : /\ x.slot[y].pid = w.slot[y].pid /\ x.slot[y].state = w.slot[y].state
                            /\ x.slot[y].next = w.slot[y].next /\ x.slot[y].prev = w.slot[y].prev
      BY <3>2, <3>6, <3>8
    <3>11. x.ready = w.ready
      BY <3>2, <3>9
    <3>12. IsQueue(x, r)
      BY <2>14, <3>10, <3>11, SameLinks
    <3>13. prev # NULL => x.slot[prev].frame = "saved"
      BY <2>11, <3>2, <3>8
    <3>14. \A y \in SLOTS : y # nxt /\ y # prev => x.slot[y].frame = s.slot[y].frame
      BY <2>14, <3>2, <3>8
    <3>15. \A y \in SLOTS : x.slot[y].pid = s.slot[y].pid
      BY <2>14, <3>10
    <3> QED
      BY <2>14, <3>2, <3>6, <3>8, <3>9, <3>10, <3>12, <3>13, <3>14, <3>15
  <2>17. Sched(x, r)
    <3>1. ASSUME NEW p \in SLOTS PROVE In(r, p) <=> x.slot[p].state = "ready"
      <4>1. In(q, p) <=> s.slot[p].state = "ready"
        BY DEF Sched
      <4>2. x.slot[p].state = w.slot[p].state /\ (In(r, p) <=> (In(q, p) /\ p # nxt) \/ (prev # NULL /\ p = prev))
        BY <2>14, <2>16
      <4>3. CASE p = nxt
        BY <2>11, <2>14, <4>2, <4>3
      <4>4. CASE p # nxt /\ p = prev
        BY <2>14, <4>2, <4>4, Sizes
      <4>5. CASE p # nxt /\ p # prev
        BY <2>14, <4>1, <4>2, <4>5
      <4> QED
        BY <4>3, <4>4, <4>5
    <3>2. ASSUME NEW p \in SLOTS PROVE Placed(x, p)
      <4>1. Placed(s, p) /\ p # NULL
        BY Sizes DEF Sched
      <4>2. x.slot[p].pid = s.slot[p].pid /\ x.slot[p].state = w.slot[p].state
        BY <2>16
      <4>3. CASE p = nxt
        BY <2>10, <2>14, <2>16, <4>2, <4>3 DEF Placed
      <4>4. CASE p # nxt /\ p = prev
        <5>1. x.slot[p].pid # 0 /\ p # x.current /\ x.slot[p].state = "ready" /\ x.slot[p].frame = "saved"
          BY <2>11, <2>14, <2>16, <4>1, <4>2, <4>4
        <5> QED
          BY <5>1 DEF Placed
      <4>5. CASE p # nxt /\ p # prev
        <5>1. /\ p # x.current /\ p # s.current /\ x.slot[p].state = s.slot[p].state
              /\ x.slot[p].frame = s.slot[p].frame
          BY <2>2, <2>14, <2>16, <4>2, <4>5
        <5> QED
          BY <4>1, <4>2, <5>1 DEF Placed
      <4> QED
        BY <4>3, <4>4, <4>5
    <3>3. TakenSlots(x) = TakenSlots(s)
      BY <2>16 DEF TakenSlots
    <3> QED
      BY <2>16, <3>1, <3>2, <3>3 DEF Sched
  <2>18. x = process_schedule(s)
    BY <1>2, <2>2, <2>4, <2>8, <2>12, <2>15 DEF process_schedule
  <2> QED
    BY <2>16, <2>17, <2>18
<1> QED
  BY <1>1, <1>2

LEMMA CreateOK ==
  ASSUME NEW s \in KType, NEW q, Sched(s, q), NEW p \in SLOTS, s.slot[p].pid = 0,
         s.next_pid <= MaxPid
  PROVE  process_create(s, p) \in KType /\ \E r : Sched(process_create(s, p), r)
<1>1. Placed(s, p) /\ p # s.current /\ s.slot[p].state \notin {"ready", "running"} /\ ~ In(q, p)
  <2>1. Placed(s, p) /\ (In(q, p) <=> s.slot[p].state = "ready")
    BY DEF Sched
  <2> QED
    BY <2>1 DEF Placed
<1>2. s.next_pid \in 1..MaxPid /\ s.next_pid + 1 \in 1..(MaxPid + 1) /\ s.next_pid # 0
      /\ s.next_pid \in 0..MaxPid
  <2>1. s.next_pid \in 1..(MaxPid + 1)
    BY DEF KType
  <2>2. PICK n, m \in Nat : n = s.next_pid /\ m = MaxPid
    BY <2>1, Sizes
  <2>3. n \in 1..(m + 1) /\ n <= m
    BY <2>1, <2>2
  <2>4. n \in 1..m /\ n + 1 \in 1..(m + 1) /\ n # 0 /\ n \in 0..m
    BY <2>2, <2>3
  <2> QED
    BY <2>2, <2>4
<1>3. s.slot[p] \in SlotType /\ s.slot \in [SLOTS -> SlotType]
  BY DEF KType
<1>4. CASE Cardinality(s.heap) = HeapStacks
  <2>1. PICK t : t = [s EXCEPT !.next_pid = @ + 1, !.slot[p].state = "created"]
    OBVIOUS
  <2>2. PICK e : e = [s.slot[p] EXCEPT !.state = "created"]
    OBVIOUS
  <2>3. /\ e \in SlotType /\ e.state = "created" /\ e.pid = s.slot[p].pid
        /\ e.next = s.slot[p].next /\ e.prev = s.slot[p].prev /\ e.frame = s.slot[p].frame
    BY <1>3, <2>2 DEF SlotType, SlotStates
  <2>4. t.slot = [s.slot EXCEPT ![p] = e]
    BY <2>1, <2>2 DEF KType
  <2>5. t.slot \in [SLOTS -> SlotType] /\ t.slot[p] = e
        /\ \A x \in SLOTS : x # p => t.slot[x] = s.slot[x]
    BY <1>3, <2>3, <2>4
  <2>6. t \in KType /\ t.ready = s.ready /\ t.current = s.current /\ t.count = s.count
        /\ t.heap = s.heap
    BY <1>2, <2>1, <2>5 DEF KType
  <2>7. \A x \in SLOTS : /\ t.slot[x].pid = s.slot[x].pid /\ t.slot[x].next = s.slot[x].next
                         /\ t.slot[x].prev = s.slot[x].prev /\ t.slot[x].frame = s.slot[x].frame
    BY <2>3, <2>5
  <2>8. IsQueue(t, q)
    BY <2>6, <2>7, SameLinks DEF Sched
  <2>9. ASSUME NEW x \in SLOTS
        PROVE  (In(q, x) <=> t.slot[x].state = "ready") /\ Placed(t, x)
    <3>1. (In(q, x) <=> s.slot[x].state = "ready") /\ Placed(s, x)
      BY DEF Sched
    <3>2. CASE x = p
      BY <1>1, <2>3, <2>5, <2>6, <3>2 DEF Placed
    <3>3. CASE x # p
      <4>1. t.slot[x] = s.slot[x]
        BY <2>5, <3>3
      <4> QED
        BY <2>6, <3>1, <4>1 DEF Placed
    <3> QED
      BY <3>2, <3>3
  <2>10. TakenSlots(t) = TakenSlots(s)
    BY <2>7 DEF TakenSlots
  <2>11. Sched(t, q)
    BY <2>6, <2>8, <2>9, <2>10 DEF Sched
  <2>12. t = process_create(s, p)
    BY <1>4, <2>1 DEF process_create
  <2> QED
    BY <2>6, <2>11, <2>12
<1>5. CASE Cardinality(s.heap) # HeapStacks
  <2>1. PICK t : t = [s EXCEPT !.next_pid = @ + 1, !.heap = @ \cup {p}, !.slot[p].pid = s.next_pid,
                               !.slot[p].frame = "initial", !.count = @ + 1]
    OBVIOUS
  <2>2. PICK e : e = [s.slot[p] EXCEPT !.pid = s.next_pid, !.frame = "initial"]
    OBVIOUS
  <2>3. /\ e \in SlotType /\ e.state = s.slot[p].state /\ e.pid = s.next_pid
        /\ e.next = s.slot[p].next /\ e.prev = s.slot[p].prev /\ e.frame = "initial"
    BY <1>2, <1>3, <2>2 DEF SlotType, Frames
  <2>4. t.slot = [s.slot EXCEPT ![p] = e]
    BY <2>1, <2>2 DEF KType, SlotType
  <2>5. t.slot \in [SLOTS -> SlotType] /\ t.slot[p] = e
        /\ \A x \in SLOTS : x # p => t.slot[x] = s.slot[x]
    BY <1>3, <2>3, <2>4
  <2>6. t \in KType /\ t.ready = s.ready /\ t.current = s.current /\ t.count = s.count + 1
        /\ t.heap = s.heap \cup {p}
    <3>1. s.count \in Int
      BY DEF KType
    <3>2. s.count + 1 \in Int
      BY <3>1
    <3>3. t = [s EXCEPT !.next_pid = s.next_pid + 1, !.heap = s.heap \cup {p}, !.slot = t.slot,
                        !.count = s.count + 1]
      BY <2>1, <2>4 DEF KType
    <3>4. t.ready = s.ready /\ t.current = s.current /\ t.count = s.count + 1
          /\ t.heap = s.heap \cup {p}
      BY <3>3 DEF KType
    <3>5. s.heap \cup {p} \in SUBSET SLOTS
      BY DEF KType
    <3>6. t \in KType
      BY <1>2, <2>5, <3>2, <3>3, <3>5 DEF KType
    <3> QED
      BY <3>4, <3>6
  <2>7. \A x \in SLOTS : t.slot[x].next = s.slot[x].next /\ t.slot[x].prev = s.slot[x].prev
    BY <2>3, <2>5
  <2>8. IsQueue(t, q) /\ q \in Seq(SLOTS) /\ Once(q)
    BY <2>6, <2>7, SameLinks DEF Sched, IsQueue
  <2>9. PICK w : w = add_to_ready_queue(t, p)
    OBVIOUS
  <2>10. PICK r : r = Append(q, p)
    OBVIOUS
  <2>11. w \in KType /\ IsQueue(w, r) /\ w.slot[p].state = "ready" /\ Kept(t, w, p)
    BY <1>1, <2>6, <2>8, <2>9, <2>10, AddIs
  <2>12. \A x : In(r, x) <=> (In(q, x) \/ x = p)
    BY <1>1, <2>8, <2>10, AppendedIs
  <2>13. /\ w.current = s.current /\ w.count = s.count + 1 /\ w.heap = s.heap \cup {p}
         /\ w.slot[p].pid = s.next_pid /\ w.slot[p].frame = "initial"
         /\ \A x \in SLOTS : x # p => /\ w.slot[x].pid = s.slot[x].pid
                                      /\ w.slot[x].frame = s.slot[x].frame
                                      /\ w.slot[x].state = s.slot[x].state
    BY <2>3, <2>5, <2>6, <2>11 DEF Kept
  <2>14. ASSUME NEW x \in SLOTS
         PROVE  (In(r, x) <=> w.slot[x].state = "ready") /\ Placed(w, x)
    <3>1. (In(q, x) <=> s.slot[x].state = "ready") /\ Placed(s, x)
      BY DEF Sched
    <3>2. CASE x = p
      BY <1>1, <1>2, <2>11, <2>12, <2>13, <3>2 DEF Placed
    <3>3. CASE x # p
      BY <2>12, <2>13, <3>1, <3>3 DEF Placed
    <3> QED
      BY <3>2, <3>3
  <2>15. TakenSlots(w) = TakenSlots(s) \cup {p} /\ p \notin TakenSlots(s)
    BY <1>2, <2>13 DEF TakenSlots
  <2>16. w.heap = TakenSlots(w) /\ w.count = Cardinality(TakenSlots(w))
    <3>1. IsFiniteSet(TakenSlots(s))
      BY TakenFinite
    <3>2. Cardinality(TakenSlots(s) \cup {p}) = Cardinality(TakenSlots(s)) + 1
      BY <2>15, <3>1, FS_AddElement
    <3> QED
      BY <2>13, <2>15, <3>2 DEF Sched
  <2>17. Sched(w, r)
    BY <2>11, <2>14, <2>16 DEF Sched
  <2>18. w = process_create(s, p)
    BY <1>5, <2>1, <2>9 DEF process_create
  <2> QED
    BY <2>11, <2>17, <2>18
<1> QED
  BY <1>4, <1>5

\* process_exit of another process, which is ready.
LEMMA ExitOK ==
  ASSUME NEW s \in KType, NEW q, Sched(s, q), NEW p \in SLOTS, s.slot[p].pid # 0, p # s.current
  PROVE  process_exit(s, p) \in KType /\ \E r : Sched(process_exit(s, p), r)
<1>1. Placed(s, p) /\ s.slot[p].state = "ready" /\ In(q, p)
  <2>1. Placed(s, p) /\ (In(q, p) <=> s.slot[p].state = "ready")
    BY DEF Sched
  <2> QED
    BY <2>1 DEF Placed
<1>2. PICK a \in 1..Len(q) : q[a] = p
  BY <1>1 DEF In
<1>3. s.slot[p] \in SlotType /\ s.slot \in [SLOTS -> SlotType]
  BY DEF KType
<1>4. PICK v : v = [s EXCEPT !.slot[p].state = "terminated"]
  OBVIOUS
<1>5. PICK e : e = [s.slot[p] EXCEPT !.state = "terminated"]
  OBVIOUS
<1>6. /\ e \in SlotType /\ e.state = "terminated" /\ e.pid = s.slot[p].pid
      /\ e.next = s.slot[p].next /\ e.prev = s.slot[p].prev /\ e.frame = s.slot[p].frame
  BY <1>3, <1>5 DEF SlotType, SlotStates
<1>7. v.slot = [s.slot EXCEPT ![p] = e]
  BY <1>4, <1>5 DEF KType
<1>8. v.slot \in [SLOTS -> SlotType] /\ v.slot[p] = e
      /\ \A x \in SLOTS : x # p => v.slot[x] = s.slot[x]
  BY <1>3, <1>6, <1>7
<1>9. v \in KType /\ v.ready = s.ready /\ v.current = s.current /\ v.count = s.count
      /\ v.heap = s.heap
  BY <1>4, <1>8 DEF KType
<1>10. \A x \in SLOTS : v.slot[x].next = s.slot[x].next /\ v.slot[x].prev = s.slot[x].prev
  BY <1>6, <1>8
<1>11. IsQueue(v, q) /\ q \in Seq(SLOTS) /\ Once(q)
  BY <1>9, <1>10, SameLinks DEF Sched, IsQueue
<1>12. PICK u : u = remove_from_ready_queue(v, p)
  OBVIOUS
<1>13. PICK r : r = Cut(q, a)
  OBVIOUS
<1>14. u \in KType /\ IsQueue(u, r) /\ u.slot[p].state = "terminated" /\ Kept(v, u, p)
  BY <1>2, <1>6, <1>8, <1>9, <1>11, <1>12, <1>13, RemoveIs
<1>15. \A x : In(r, x) <=> (In(q, x) /\ x # p)
  BY <1>2, <1>11, <1>13, CutIs
<1>16. PICK t : t = [u EXCEPT !.heap = @ \ {p}, !.slot[p].pid = 0, !.slot[p].frame = "none",
                              !.count = @ - 1]
  OBVIOUS
<1>17. u.slot[p] \in SlotType /\ u.slot \in [SLOTS -> SlotType]
  BY <1>14 DEF KType
<1>18. PICK g : g = [u.slot[p] EXCEPT !.pid = 0, !.frame = "none"]
  OBVIOUS
<1>19. /\ g \in SlotType /\ g.state = u.slot[p].state /\ g.pid = 0
       /\ g.next = u.slot[p].next /\ g.prev = u.slot[p].prev /\ g.frame = "none"
  <2>1. 0 \in 0..MaxPid /\ "none" \in Frames
    BY Sizes DEF Frames
  <2> QED
    BY <1>17, <1>18, <2>1 DEF SlotType
<1>20. t.slot = [u.slot EXCEPT ![p] = g]
  BY <1>14, <1>16, <1>18 DEF KType, SlotType
<1>21. t.slot \in [SLOTS -> SlotType] /\ t.slot[p] = g
       /\ \A x \in SLOTS : x # p => t.slot[x] = u.slot[x]
  BY <1>17, <1>19, <1>20
<1>22. t \in KType /\ t.ready = u.ready /\ t.current = u.current /\ t.count = u.count - 1
       /\ t.heap = u.heap \ {p}
  <2>1. u.count \in Int
    BY <1>14 DEF KType
  <2>2. u.count - 1 \in Int
    BY <2>1
  <2> QED
    BY <1>14, <1>16, <1>21, <2>2 DEF KType
<1>23. IsQueue(t, r)
  <2>1. \A x \in SLOTS : t.slot[x].next = u.slot[x].next /\ t.slot[x].prev = u.slot[x].prev
    BY <1>19, <1>21
  <2> QED
    BY <1>14, <1>22, <2>1, SameLinks
<1>24. /\ t.current = s.current /\ t.count = s.count - 1 /\ t.heap = s.heap \ {p}
       /\ t.slot[p].pid = 0 /\ t.slot[p].state = "terminated"
       /\ \A x \in SLOTS : x # p => /\ t.slot[x].pid = s.slot[x].pid
                                    /\ t.slot[x].frame = s.slot[x].frame
                                    /\ t.slot[x].state = s.slot[x].state
  <2>1. u.current = s.current /\ u.count = s.count /\ u.heap = s.heap
    BY <1>9, <1>14 DEF Kept
  <2>2. \A x \in SLOTS : x # p => /\ u.slot[x].pid = s.slot[x].pid
                                  /\ u.slot[x].frame = s.slot[x].frame
                                  /\ u.slot[x].state = s.slot[x].state
    BY <1>8, <1>14 DEF Kept
  <2> QED
    BY <1>14, <1>19, <1>21, <1>22, <2>1, <2>2
<1>25. ASSUME NEW x \in SLOTS
       PROVE  (In(r, x) <=> t.slot[x].state = "ready") /\ Placed(t, x)
  <2>1. (In(q, x) <=> s.slot[x].state = "ready") /\ Placed(s, x)
    BY DEF Sched
  <2>2. CASE x = p
    BY <1>15, <1>24, <2>2 DEF Placed
  <2>3. CASE x # p
    BY <1>15, <1>24, <2>1, <2>3 DEF Placed
  <2> QED
    BY <2>2, <2>3
<1>26. TakenSlots(t) = TakenSlots(s) \ {p} /\ p \in TakenSlots(s)
  BY <1>24 DEF TakenSlots
<1>27. t.heap = TakenSlots(t) /\ t.count = Cardinality(TakenSlots(t))
  <2>1. IsFiniteSet(TakenSlots(s))
    BY TakenFinite
  <2>2. Cardinality(TakenSlots(s) \ {p}) = Cardinality(TakenSlots(s)) - 1
    BY <1>26, <2>1, FS_RemoveElement
  <2> QED
    BY <1>24, <1>26, <2>2 DEF Sched
<1>28. Sched(t, r)
  BY <1>23, <1>25, <1>27 DEF Sched
<1>29. t = process_exit(s, p)
  BY <1>4, <1>12, <1>16 DEF process_exit
<1> QED
  BY <1>22, <1>28, <1>29

----------------------------------------------------------------------------
(***************************************************************************)
(* The theorems.                                                           *)
(***************************************************************************)
LEMMA InitOK ==
  ASSUME Init
  PROVE  CoopInv
<1>1. k \in KType
  <2>1. 0 \in 0..MaxPid /\ 1 \in 1..(MaxPid + 1)
    BY Sizes
  <2> QED
    BY <2>1 DEF Init, KType, SlotType, SlotStates, SlotLinks, Frames
<1>2. PICK q : q = << >>
  OBVIOUS
<1>3. q \in Seq(SLOTS) /\ Len(q) = 0 /\ 1..Len(q) = {}
  BY <1>2
<1>4. IsQueue(k, q)
  BY <1>3 DEF Init, IsQueue, Once
<1>5. \A p \in SLOTS : k.slot[p].pid = 0 /\ k.slot[p].state = "terminated"
  BY DEF Init
<1>6. k.current = NULL /\ k.count = 0 /\ k.heap = {}
  BY DEF Init
<1>7. \A p \in SLOTS : (In(q, p) <=> k.slot[p].state = "ready") /\ Placed(k, p)
  BY <1>3, <1>5, <1>6, Sizes DEF In, Placed
<1>8. TakenSlots(k) = {}
  BY <1>5 DEF TakenSlots
<1>9. Cardinality({}) = 0
  BY FS_EmptySet
<1>10. Sched(k, q)
  BY <1>4, <1>6, <1>7, <1>8, <1>9 DEF Sched
<1> QED
  BY <1>1, <1>10 DEF CoopInv

LEMMA NextOK ==
  ASSUME ExitSelf = FALSE, CoopInv, [Next]_k
  PROVE  CoopInv'
<1>1. k \in KType
  BY DEF CoopInv
<1>2. PICK q : Sched(k, q)
  BY DEF CoopInv
<1>3. CASE Create
  <2>1. PICK p \in SLOTS : get_free_slot(k, p) /\ k' = process_create(k, p)
    BY <1>3 DEF Create
  <2>2. k.slot[p].pid = 0 /\ k.next_pid <= MaxPid
    BY <1>3, <2>1 DEF Create, get_free_slot
  <2>3. process_create(k, p) \in KType /\ \E r : Sched(process_create(k, p), r)
    BY <1>1, <1>2, <2>2, CreateOK
  <2> QED
    BY <2>1, <2>3 DEF CoopInv
<1>4. CASE Start \/ Yield
  <2>1. k' = process_schedule(k)
    BY <1>4 DEF Start, Yield
  <2>2. process_schedule(k) \in KType /\ \E r : Sched(process_schedule(k), r)
    BY <1>1, <1>2, ScheduleOK
  <2> QED
    BY <2>1, <2>2 DEF CoopInv
<1>5. CASE Exit
  <2>1. PICK p \in SLOTS : k.slot[p].pid # 0 /\ p # k.current /\ k' = process_exit(k, p)
    BY <1>5 DEF Exit
  <2>2. process_exit(k, p) \in KType /\ \E r : Sched(process_exit(k, p), r)
    BY <1>1, <1>2, <2>1, ExitOK
  <2> QED
    BY <2>1, <2>2 DEF CoopInv
<1>6. CASE UNCHANGED k
  BY <1>1, <1>2, <1>6 DEF CoopInv
<1> QED
  BY <1>3, <1>4, <1>5, <1>6 DEF Next

LEMMA InvGives ==
  ASSUME CoopInv
  PROVE  TypeOK /\ QueueIsList /\ SlotsExact
<1>1. k \in KType
  BY DEF CoopInv
<1>2. PICK q : Sched(k, q)
  BY DEF CoopInv
<1>3. IsQueue(k, q)
  BY <1>2 DEF Sched
<1>4. /\ Len(q) \in Nat /\ Len(q) <= MAX_PROCESS
      /\ \A p : p \in Listed(k) <=> In(q, p)
      /\ Cardinality(Listed(k)) = Len(q)
  BY <1>3, ListedIs
<1>5. TypeOK
  <2>1. k.count \in 0..MAX_PROCESS
    <3>1. PICK c \in Nat, m \in Nat : c = Cardinality(TakenSlots(k)) /\ m = MAX_PROCESS
      BY TakenFinite, Sizes
    <3>2. k.count = c /\ c <= m
      BY <1>2, <3>1, TakenFinite DEF Sched
    <3>3. c \in 0..m
      BY <3>1, <3>2
    <3> QED
      BY <3>1, <3>2, <3>3
  <2> QED
    BY <1>1, <2>1 DEF TypeOK, KType, SlotType, SlotStates, SlotLinks
<1>6. QueueIsList
  <2>1. Listed(k) = {p \in SLOTS : k.slot[p].state = "ready"}
    <3>1. \A p : In(q, p) => p \in SLOTS
      BY <1>3, QueueTypes DEF In
    <3> QED
      BY <1>2, <1>4, <3>1 DEF Sched
  <2>2. ASSUME NEW i \in 1..Len(q)
        PROVE  /\ Nth(k, i) # NULL
               /\ k.slot[Nth(k, i)].prev = IF i = 1 THEN NULL ELSE Nth(k, i - 1)
    <3>1. \A j \in 1..Len(q) : q[j] \in SLOTS /\ q[j] # NULL
      BY <1>3, QueueTypes
    <3>2. \A j \in 1..Len(q) : Nth(k, j) = q[j]
      <4>1. ASSUME NEW j \in 1..Len(q) PROVE Nth(k, j) = q[j]
        <5>1. j \in Nat /\ j # 0 /\ j <= Len(q)
          BY <1>4
        <5>2. Nth(k, j) = Of(q, j)
          BY <1>3, <5>1, NthIs
        <5> QED
          BY <5>1, <5>2 DEF Of
      <4> QED
        BY <4>1
    <3>3. k.slot[q[i]].prev = Before(q, i)
      BY <1>3 DEF IsQueue
    <3>4. i # 1 => i - 1 \in 1..Len(q)
      BY <1>4
    <3> QED
      BY <3>1, <3>2, <3>3, <3>4 DEF Before
  <2> QED
    BY <1>4, <2>1, <2>2 DEF QueueIsList
<1>7. SlotsExact
  <2>1. ASSUME NEW p \in SLOTS, k.slot[p].pid # 0
        PROVE  IF p = k.current THEN k.slot[p].frame = "none"
               ELSE p \in Listed(k) /\ k.slot[p].frame # "none"
    <3>1. Placed(k, p) /\ (In(q, p) <=> k.slot[p].state = "ready")
      BY <1>2 DEF Sched
    <3> QED
      BY <1>4, <2>1, <3>1 DEF Placed
  <2>2. k.heap = TakenSlots(k) /\ k.count = Cardinality(TakenSlots(k))
    BY <1>2 DEF Sched
  <2> QED
    BY <2>1, <2>2 DEF SlotsExact, TakenSlots
<1> QED
  BY <1>5, <1>6, <1>7

\* As long as no process terminates itself, the scheduler of stage 08 keeps
\* its queue and its tables together through process_create, process_schedule
\* and process_exit.
THEOREM CoopHolds ==
  ASSUME ExitSelf = FALSE
  PROVE  Spec => []CoopInv
<1>1. Init => CoopInv
  BY InitOK
<1>2. CoopInv /\ [Next]_k => CoopInv'
  BY NextOK
<1> QED
  BY <1>1, <1>2, PTL DEF Spec

\* The links of add_to_ready_queue and remove_from_ready_queue list the ready
\* processes, once each, and prev is the way back.
THEOREM QueueStaysList ==
  ASSUME ExitSelf = FALSE
  PROVE  Spec => []QueueIsList
<1>1. CoopInv => QueueIsList
  BY InvGives
<1> QED
  BY <1>1, CoopHolds, PTL

\* process_count, PIDs, stacks and frames agree after every call.
THEOREM SlotsStayExact ==
  ASSUME ExitSelf = FALSE
  PROVE  Spec => []SlotsExact
<1>1. CoopInv => SlotsExact
  BY InvGives
<1> QED
  BY <1>1, CoopHolds, PTL

\* Every field of process_table and of the globals keeps its range.
THEOREM CoopTypes ==
  ASSUME ExitSelf = FALSE
  PROVE  Spec => []TypeOK
<1>1. CoopInv => TypeOK
  BY InvGives
<1> QED
  BY <1>1, CoopHolds, PTL

----------------------------------------------------------------------------
(***************************************************************************)
(* Stages 11 and 12.  A list of PCBs: the sequence q starts at h, and N    *)
(* holds the link of each block.                                           *)
(***************************************************************************)
Succ(q, i) == IF i < Len(q) THEN q[i + 1] ELSE None
IsList(h, N, q) ==
  /\ q \in Seq(BLOCKS) /\ Once(q)
  /\ h = IF Len(q) = 0 THEN None ELSE q[1]
  /\ \A i \in 1..Len(q) : N[q[i]] = Succ(q, i)

LEMMA ForkSizes ==
  /\ Blocks \in Nat /\ Boot \in Nat /\ Boot > 0 /\ Boot <= Blocks /\ LastPid \in Nat /\ Boot <= LastPid
  /\ TimeSlice \in Nat /\ TimeSlice > 0 /\ TickMod \in Nat /\ TimeSlice < TickMod
  /\ \A p \in BLOCKS : p \in Nat /\ p # None
  /\ None \in Links /\ BLOCKS \subseteq Links
BY ForkAssumption DEF BLOCKS, None, Links

LEMMA ListTypes ==
  ASSUME NEW h, NEW N, NEW q, IsList(h, N, q)
  PROVE  Len(q) \in Nat /\ \A i \in 1..Len(q) : q[i] \in BLOCKS /\ q[i] # None
<1>1. Len(q) \in Nat /\ \A i \in 1..Len(q) : q[i] \in BLOCKS
  BY DEF IsList
<1> QED
  BY <1>1, ForkSizes

\* A list without repetition is no longer than there are blocks.
LEMMA BlocksFit ==
  ASSUME NEW q \in Seq(BLOCKS), Once(q)
  PROVE  /\ Len(q) \in Nat /\ Len(q) <= Blocks
         /\ Cardinality(Elements(q)) = Len(q)
<1> DEFINE R == Elements(q)
           g == [i \in 1..Len(q) |-> q[i]]
<1>1. Len(q) \in Nat
  OBVIOUS
<1>2. IsFiniteSet(1..Len(q)) /\ Cardinality(1..Len(q)) = Len(q)
  <2>1. PICK n \in Nat : n = Len(q)
    BY <1>1
  <2>2. IsFiniteSet(1..n) /\ Cardinality(1..n) = IF 1 > n THEN 0 ELSE n - 1 + 1
    BY FS_Interval
  <2>3. Cardinality(1..n) = n
    BY <2>2
  <2> QED
    BY <2>1, <2>2, <2>3
<1>3. g \in Bijection(1..Len(q), R)
  <2>1. g \in [1..Len(q) -> R]
    BY DEF Elements
  <2>2. \A i, j \in 1..Len(q) : g[i] = g[j] => i = j
    BY DEF Once
  <2>3. \A c \in R : \E i \in 1..Len(q) : g[i] = c
    BY DEF Elements
  <2> HIDE DEF g, R
  <2>4. g \in Injection(1..Len(q), R)
    BY <2>1, <2>2 DEF Injection, IsInjective
  <2>5. g \in Surjection(1..Len(q), R)
    BY <2>1, <2>3 DEF Surjection
  <2> QED
    BY <2>4, <2>5 DEF Bijection
<1>4. R \in SUBSET BLOCKS
  BY DEF Elements
<1> HIDE DEF R
<1>5. ExistsBijection(1..Len(q), R)
  BY <1>3 DEF ExistsBijection
<1>6. Cardinality(R) = Len(q)
  BY <1>2, <1>5, FS_Bijection
<1>7. IsFiniteSet(BLOCKS) /\ Cardinality(BLOCKS) = Blocks
  <2>1. IsFiniteSet(1..Blocks) /\ Cardinality(1..Blocks) = IF 1 > Blocks THEN 0 ELSE Blocks - 1 + 1
    BY ForkSizes, FS_Interval
  <2>2. Cardinality(1..Blocks) = Blocks
    BY <2>1, ForkSizes
  <2> QED
    BY <2>1, <2>2 DEF BLOCKS
<1>8. Cardinality(R) <= Cardinality(BLOCKS)
  BY <1>4, <1>7, FS_Subset
<1> QED
  BY <1>1, <1>6, <1>7, <1>8 DEF R

\* Follow finds the list.
IsWalk(w, t, p, f) ==
  w = [i \in 0..Blocks |->
         IF i = 0 THEN IF p = None THEN << >> ELSE << p >>
         ELSE IF w[i - 1] = << >> \/ Len(w[i - 1]) <= i - 1
                 \/ t.pcb[w[i - 1][Len(w[i - 1])]][f] = None THEN w[i - 1]
              ELSE Append(w[i - 1], t.pcb[w[i - 1][Len(w[i - 1])]][f])]

\* The first i of q.
Front(q, i) == SubSeq(q, 1, IF i <= Len(q) THEN i ELSE Len(q))

LEMMA FrontIs ==
  ASSUME NEW q \in Seq(BLOCKS), NEW i \in Nat
  PROVE  LET r == Front(q, i)
             n == IF i <= Len(q) THEN i ELSE Len(q)
         IN /\ r \in Seq(BLOCKS) /\ Len(r) = n /\ n \in Nat /\ n <= Len(q)
            /\ \A j \in 1..n : r[j] = q[j]
<1> DEFINE n == IF i <= Len(q) THEN i ELSE Len(q)
<1>1. n \in Nat /\ n <= Len(q) /\ Len(q) \in Nat
  OBVIOUS
<1>2. PICK m \in Nat : m = n
  BY <1>1
<1>3. SubSeq(q, 1, m) \in Seq(BLOCKS) /\ Len(SubSeq(q, 1, m)) = m
      /\ \A j \in 1..m : SubSeq(q, 1, m)[j] = q[j]
  BY <1>1, <1>2
<1> QED
  BY <1>1, <1>2, <1>3 DEF Front

LEMMA FrontGrows ==
  ASSUME NEW q \in Seq(BLOCKS), NEW i \in Nat, i < Len(q)
  PROVE  Front(q, i + 1) = Append(Front(q, i), q[i + 1])
<1>1. PICK r, s : r = Front(q, i) /\ s = Front(q, i + 1)
  OBVIOUS
<1>2. r \in Seq(BLOCKS) /\ Len(r) = i /\ \A j \in 1..i : r[j] = q[j]
  BY <1>1, FrontIs
<1>3. s \in Seq(BLOCKS) /\ Len(s) = i + 1 /\ \A j \in 1..(i + 1) : s[j] = q[j]
  <2>1. i + 1 \in Nat /\ i + 1 <= Len(q)
    OBVIOUS
  <2> QED
    BY <1>1, <2>1, FrontIs
<1>4. Append(r, q[i + 1]) \in Seq(BLOCKS) /\ Len(Append(r, q[i + 1])) = i + 1
      /\ \A j \in 1..(i + 1) : Append(r, q[i + 1])[j] = IF j = i + 1 THEN q[i + 1] ELSE r[j]
  BY <1>2
<1>5. \A j \in 1..(i + 1) : s[j] = Append(r, q[i + 1])[j]
  BY <1>2, <1>3, <1>4
<1>6. s = Append(r, q[i + 1])
  BY <1>3, <1>4, <1>5
<1> QED
  BY <1>1, <1>6

LEMMA FollowIs ==
  ASSUME NEW t, NEW p, NEW f, NEW N, NEW q, IsList(p, N, q),
         \A x \in BLOCKS : N[x] = t.pcb[x][f]
  PROVE  Follow(t, p, f) = q
<1> DEFINE g == [i \in 0..Blocks |-> Front(q, i + 1)]
           h == CHOOSE w : IsWalk(w, t, p, f)
<1>1. q \in Seq(BLOCKS) /\ Len(q) \in Nat /\ Len(q) <= Blocks
      /\ \A i \in 1..Len(q) : q[i] \in BLOCKS /\ q[i] # None /\ t.pcb[q[i]][f] = Succ(q, i)
  BY ListTypes, BlocksFit DEF IsList
<1>2. Front(q, 1) = IF p = None THEN << >> ELSE << p >>
  <2>1. CASE Len(q) = 0
    <3>1. 1 \in Nat /\ ~ 1 <= Len(q)
      BY <2>1
    <3>2. Front(q, 1) \in Seq(BLOCKS) /\ Len(Front(q, 1)) = Len(q)
      BY <1>1, <3>1, FrontIs
    <3>3. PICK v : v = Front(q, 1)
      OBVIOUS
    <3>4. v = << >>
      BY <2>1, <3>2, <3>3
    <3>5. p = None
      BY <2>1 DEF IsList
    <3> QED
      BY <3>3, <3>4, <3>5
  <2>2. CASE Len(q) # 0
    <3>1. 1 \in Nat /\ 1 <= Len(q) /\ 1 \in 1..Len(q) /\ 1 \in 1..1
      BY <1>1, <2>2
    <3>2. PICK v : v = Front(q, 1)
      OBVIOUS
    <3>3. v \in Seq(BLOCKS) /\ Len(v) = 1 /\ \A j \in 1..1 : v[j] = q[j]
      BY <1>1, <3>1, <3>2, FrontIs
    <3>4. p = q[1] /\ p # None
      BY <1>1, <2>2, <3>1 DEF IsList
    <3>5. v = << p >>
      BY <3>1, <3>3, <3>4
    <3> QED
      BY <3>2, <3>4, <3>5
  <2> QED
    BY <2>1, <2>2
<1>3. ASSUME NEW i \in 1..Blocks, NEW w, w = Front(q, i)
      PROVE  Front(q, i + 1) = IF w = << >> \/ Len(w) <= i - 1 \/ t.pcb[w[Len(w)]][f] = None THEN w
                               ELSE Append(w, t.pcb[w[Len(w)]][f])
  <2>1. CASE i < Len(q)
    <3>1. w \in Seq(BLOCKS) /\ Len(w) = i /\ w[i] = q[i] /\ i \in 1..Len(q) /\ i + 1 \in 1..Len(q)
      BY <1>1, <1>3, <2>1, FrontIs
    <3>2. t.pcb[w[Len(w)]][f] = q[i + 1] /\ q[i + 1] # None
      BY <1>1, <2>1, <3>1 DEF Succ
    <3>3. w # << >> /\ ~ Len(w) <= i - 1
      BY <3>1
    <3>4. i \in Nat
      OBVIOUS
    <3>5. Front(q, i + 1) = Append(w, q[i + 1])
      BY <1>1, <1>3, <2>1, <3>4, FrontGrows
    <3> QED
      BY <3>2, <3>3, <3>5
  <2>2. CASE ~ i < Len(q)
    <3>1. /\ w \in Seq(BLOCKS) /\ Len(w) = Len(q) /\ \A j \in 1..Len(q) : w[j] = q[j]
      BY <1>1, <1>3, <2>2, FrontIs
    <3>2. PICK v : v = Front(q, i + 1)
      OBVIOUS
    <3>3. v \in Seq(BLOCKS) /\ Len(v) = Len(q) /\ \A j \in 1..Len(q) : v[j] = q[j]
      BY <1>1, <2>2, <3>2, FrontIs
    <3>4. w = v
      BY <3>1, <3>3
    <3>5. Len(w) = i => t.pcb[w[Len(w)]][f] = None
      BY <1>1, <2>2, <3>1 DEF Succ
    <3>6. Len(w) = i \/ Len(w) <= i - 1
      BY <1>1, <2>2, <3>1
    <3> QED
      BY <3>2, <3>4, <3>5, <3>6
  <2> QED
    BY <2>1, <2>2
<1>4. IsWalk(g, t, p, f)
  <2>1. ASSUME NEW i \in 0..Blocks
        PROVE  g[i] = IF i = 0 THEN IF p = None THEN << >> ELSE << p >>
                      ELSE IF g[i - 1] = << >> \/ Len(g[i - 1]) <= i - 1
                              \/ t.pcb[g[i - 1][Len(g[i - 1])]][f] = None THEN g[i - 1]
                           ELSE Append(g[i - 1], t.pcb[g[i - 1][Len(g[i - 1])]][f])
    <3>1. CASE i = 0
      BY <1>2, <3>1
    <3>2. CASE i # 0
      <4>1. i \in 1..Blocks /\ i - 1 \in 0..Blocks /\ (i - 1) + 1 = i
        BY <3>2, ForkSizes
      <4>2. g[i - 1] = Front(q, i) /\ g[i] = Front(q, i + 1)
        BY <4>1
      <4> HIDE DEF g
      <4> QED
        BY <1>3, <3>2, <4>1, <4>2
    <3> QED
      BY <3>1, <3>2
  <2>2. g = [i \in 0..Blocks |-> g[i]]
    OBVIOUS
  <2> HIDE DEF g
  <2> QED
    BY <2>1, <2>2 DEF IsWalk
<1>5. IsWalk(h, t, p, f)
  BY <1>4
<1>6. Follow(t, p, f) = h[Blocks]
  BY DEF Follow, IsWalk
<1> HIDE DEF h
<1> DEFINE T == {i \in 0..Blocks : h[i] # Front(q, i + 1)}
<1>7. T = {}
  <2> SUFFICES ASSUME T # {} PROVE FALSE
    OBVIOUS
  <2>1. T \in SUBSET Nat
    OBVIOUS
  <2>2. PICK i \in T : \A j \in T : i <= j
    BY <2>1, LeastNat
  <2>3. h[i] = IF i = 0 THEN IF p = None THEN << >> ELSE << p >>
               ELSE IF h[i - 1] = << >> \/ Len(h[i - 1]) <= i - 1
                       \/ t.pcb[h[i - 1][Len(h[i - 1])]][f] = None THEN h[i - 1]
                    ELSE Append(h[i - 1], t.pcb[h[i - 1][Len(h[i - 1])]][f])
    <3>1. i \in 0..Blocks
      BY <2>2
    <3> HIDE DEF T
    <3> QED
      BY <1>5, <3>1 DEF IsWalk
  <2>4. i # 0
    BY <1>2, <2>2, <2>3
  <2>a. i \in 0..Blocks
    BY <2>2
  <2>b. i \in 1..Blocks /\ i - 1 \in 0..Blocks /\ (i - 1) + 1 = i /\ ~ i <= i - 1
    BY <2>a, <2>4, ForkSizes
  <2>c. i - 1 \notin T
    <3> HIDE DEF T
    <3> QED
      BY <2>2, <2>b
  <2>5. i \in 1..Blocks /\ i - 1 \in 0..Blocks /\ i - 1 \notin T /\ (i - 1) + 1 = i
    BY <2>b, <2>c
  <2>6. h[i - 1] = Front(q, i) /\ h[i] # Front(q, i + 1)
    BY <2>2, <2>5
  <2> HIDE DEF T
  <2> QED
    BY <1>3, <2>3, <2>4, <2>5, <2>6
<1>8. h[Blocks] = Front(q, Blocks + 1)
  BY <1>7, ForkSizes
<1>9. Front(q, Blocks + 1) = q
  <2>1. PICK v : v = Front(q, Blocks + 1)
    OBVIOUS
  <2>2. v \in Seq(BLOCKS) /\ Len(v) = Len(q) /\ \A j \in 1..Len(q) : v[j] = q[j]
    <3>1. Blocks + 1 \in Nat /\ ~ Blocks + 1 <= Len(q)
      BY <1>1, ForkSizes
    <3> QED
      BY <1>1, <2>1, <3>1, FrontIs
  <2>3. v = q
    BY <1>1, <2>2
  <2> QED
    BY <2>1, <2>3
<1> QED
  BY <1>6, <1>8, <1>9

NextOf(t) == [x \in BLOCKS |-> t.pcb[x].next]
SibOf(t) == [x \in BLOCKS |-> t.pcb[x].next_sibling]

LEMMA QueueIs ==
  ASSUME NEW t, NEW q, IsList(t.ready, NextOf(t), q)
  PROVE  Queue(t) = q
<1>1. \A x \in BLOCKS : NextOf(t)[x] = t.pcb[x]["next"]
  BY DEF NextOf
<1> QED
  BY <1>1, FollowIs DEF Queue

LEMMA KidsIs ==
  ASSUME NEW t, NEW p, NEW q, IsList(t.pcb[p].first_child, SibOf(t), q)
  PROVE  Kids(t, p) = q
<1>1. \A x \in BLOCKS : SibOf(t)[x] = t.pcb[x]["next_sibling"]
  BY DEF SibOf
<1> QED
  BY <1>1, FollowIs DEF Kids

LEMMA ListFrame ==
  ASSUME NEW h, NEW N, NEW M, NEW q, IsList(h, N, q),
         \A x \in BLOCKS : In(q, x) => M[x] = N[x]
  PROVE  IsList(h, M, q)
<1>1. \A i \in 1..Len(q) : q[i] \in BLOCKS /\ In(q, q[i])
  BY ListTypes DEF In
<1> QED
  BY <1>1 DEF IsList

\* A block joins at the end.
JoinLast(h, g, N, M, q, p) ==
  /\ M[p] = None
  /\ Len(q) = 0 => g = p
  /\ Len(q) # 0 => g = h /\ M[q[Len(q)]] = p
  /\ \A i \in 1..Len(q) : i # Len(q) => M[q[i]] = N[q[i]]

LEMMA ListAppend ==
  ASSUME NEW h, NEW g, NEW N, NEW M, NEW q, IsList(h, N, q),
         NEW p \in BLOCKS, ~In(q, p), JoinLast(h, g, N, M, q, p)
  PROVE  /\ IsList(g, M, Append(q, p))
         /\ \A x : In(Append(q, p), x) <=> In(q, x) \/ x = p
<1>1. PICK n \in Nat : n = Len(q)
  BY DEF IsList
<1>2. /\ M[p] = None /\ (n = 0 => g = p) /\ (n # 0 => g = h /\ M[q[n]] = p)
       /\ \A i \in 1..n : i # n => M[q[i]] = N[q[i]]
  BY <1>1 DEF JoinLast
<1>3. q \in Seq(BLOCKS) /\ \A i \in 1..n : q[i] \in BLOCKS /\ q[i] # p
  BY <1>1, ListTypes DEF IsList, In
<1>4. PICK r : r = Append(q, p)
  OBVIOUS
<1>5. r \in Seq(BLOCKS) /\ Len(r) = n + 1 /\ \A i \in 1..(n + 1) : r[i] = IF i = n + 1 THEN p ELSE q[i]
  BY <1>1, <1>3, <1>4
<1>6. Once(r)
  <2>1. \A i, j \in 1..n : q[i] = q[j] => i = j
    BY <1>1 DEF IsList, Once
  <2>2. ASSUME NEW i \in 1..(n + 1), NEW j \in 1..(n + 1), r[i] = r[j] PROVE i = j
    <3>1. \A a \in 1..(n + 1) : a = n + 1 \/ a \in 1..n
      BY <1>1
    <3> QED
      BY <1>3, <1>5, <2>1, <2>2, <3>1
  <2> QED
    BY <1>5, <2>2 DEF Once
<1>7. ASSUME NEW i \in 1..Len(r) PROVE M[r[i]] = Succ(r, i)
  <2>1. CASE i = n + 1
    BY <1>5, <1>2, <2>1 DEF Succ
  <2>2. CASE i = n /\ n # 0
    <3>1. i \in 1..(n + 1) /\ i + 1 \in 1..(n + 1) /\ i # n + 1 /\ i < n + 1
      BY <1>5, <2>2
    <3>2. r[i] = q[n] /\ r[i + 1] = p
      BY <1>5, <2>2, <3>1
    <3> QED
      BY <1>1, <1>5, <1>2, <2>2, <3>1, <3>2 DEF Succ
  <2>3. CASE i < n
    <3>1. i \in 1..n /\ i # n /\ i + 1 \in 1..n /\ i < n + 1
      BY <1>1, <1>5, <2>3
    <3>2. r[i] = q[i] /\ r[i + 1] = q[i + 1]
      BY <1>1, <1>5, <3>1
    <3>3. M[q[i]] = q[i + 1]
      BY <1>1, <1>2, <2>3, <3>1 DEF IsList, Succ
    <3> QED
      BY <1>5, <3>1, <3>2, <3>3 DEF Succ
  <2> QED
    BY <1>5, <2>1, <2>2, <2>3
<1>8. g = IF Len(r) = 0 THEN None ELSE r[1]
  <2>1. CASE n = 0
    BY <1>1, <1>5, <1>2, <2>1
  <2>2. CASE n # 0
    <3>1. 1 \in 1..(n + 1) /\ 1 # n + 1 /\ n + 1 # 0
      BY <1>1, <2>2
    <3>2. r[1] = q[1] /\ h = q[1]
      BY <1>1, <1>5, <2>2, <3>1 DEF IsList
    <3> QED
      BY <1>1, <1>5, <1>2, <2>2, <3>1, <3>2
  <2> QED
    BY <2>1, <2>2
<1>9. ASSUME NEW x PROVE In(r, x) <=> In(q, x) \/ x = p
  <2>1. \A i \in 1..(n + 1) : i = n + 1 \/ i \in 1..n
    BY <1>1
  <2>2. n + 1 \in 1..(n + 1) /\ \A i \in 1..n : i \in 1..(n + 1) /\ i # n + 1
    BY <1>1
  <2>3. In(r, x) <=> \E i \in 1..(n + 1) : r[i] = x
    BY <1>5 DEF In
  <2>4. In(q, x) <=> \E i \in 1..n : q[i] = x
    BY <1>1 DEF In
  <2> QED
    BY <1>5, <2>1, <2>2, <2>3, <2>4
<1>10. IsList(g, M, r)
  BY <1>5, <1>6, <1>7, <1>8 DEF IsList
<1> QED
  BY <1>4, <1>9, <1>10

\* A block joins at the front.
Pushed(q, p) == [i \in 1..(Len(q) + 1) |-> IF i = 1 THEN p ELSE q[i - 1]]

LEMMA ListPush ==
  ASSUME NEW h, NEW N, NEW M, NEW q, IsList(h, N, q),
         NEW p \in BLOCKS, ~In(q, p), M[p] = h,
         \A x \in BLOCKS : In(q, x) => M[x] = N[x]
  PROVE  /\ IsList(p, M, Pushed(q, p))
         /\ \A x : In(Pushed(q, p), x) <=> In(q, x) \/ x = p
<1>1. PICK n \in Nat : n = Len(q)
  BY DEF IsList
<1>2. q \in Seq(BLOCKS) /\ \A i \in 1..n : q[i] \in BLOCKS /\ q[i] # p /\ M[q[i]] = N[q[i]]
  BY <1>1, ListTypes DEF IsList, In
<1>3. PICK r : r = Pushed(q, p)
  OBVIOUS
<1>4. r \in Seq(BLOCKS) /\ Len(r) = n + 1 /\ \A i \in 1..(n + 1) : r[i] = IF i = 1 THEN p ELSE q[i - 1]
  <2>1. r = [i \in 1..(n + 1) |-> IF i = 1 THEN p ELSE q[i - 1]]
    BY <1>1, <1>3 DEF Pushed
  <2>2. \A i \in 1..(n + 1) : i # 1 => i - 1 \in 1..n
    BY <1>1
  <2>3. \A i \in 1..(n + 1) : (IF i = 1 THEN p ELSE q[i - 1]) \in BLOCKS
    BY <1>2, <2>2
  <2>4. n + 1 \in Nat
    BY <1>1
  <2>5. r \in [1..(n + 1) -> BLOCKS]
    BY <2>1, <2>3
  <2> QED
    BY <2>1, <2>4, <2>5
<1>5. \A i \in 1..(n + 1) : i = 1 \/ (i # 1 /\ i - 1 \in 1..n)
  BY <1>1
<1>6. Once(r)
  <2>1. \A i, j \in 1..n : q[i] = q[j] => i = j
    BY <1>1 DEF IsList, Once
  <2>2. ASSUME NEW i \in 1..(n + 1), NEW j \in 1..(n + 1), r[i] = r[j] PROVE i = j
    <3>1. CASE i = 1 \/ j = 1
      BY <1>2, <1>4, <1>5, <2>2, <3>1
    <3>2. CASE i # 1 /\ j # 1
      <4>1. i - 1 = j - 1
        BY <1>4, <1>5, <2>1, <2>2, <3>2
      <4> QED
        BY <1>1, <4>1
    <3> QED
      BY <3>1, <3>2
  <2> QED
    BY <1>4, <2>2 DEF Once
<1>7. ASSUME NEW i \in 1..Len(r) PROVE M[r[i]] = Succ(r, i)
  <2>1. CASE i = 1
    <3>1. CASE n = 0
      BY <1>1, <1>4, <2>1, <3>1 DEF IsList, Succ
    <3>2. CASE n # 0
      <4>1. 1 + 1 \in 1..(n + 1) /\ 1 < n + 1 /\ 1 + 1 # 1 /\ (1 + 1) - 1 = 1
        BY <1>1, <3>2
      <4>2. r[1 + 1] = q[1] /\ h = q[1]
        BY <1>1, <1>4, <3>2, <4>1 DEF IsList
      <4> QED
        BY <1>4, <2>1, <4>1, <4>2 DEF Succ
    <3> QED
      BY <3>1, <3>2
  <2>2. CASE i # 1
    <3>1. i - 1 \in 1..n /\ i \in 1..(n + 1)
      BY <1>4, <1>5, <2>2
    <3>2. r[i] = q[i - 1] /\ M[r[i]] = Succ(q, i - 1)
      BY <1>1, <1>2, <1>4, <2>2, <3>1 DEF IsList
    <3>3. CASE i = n + 1
      <4>1. ~ i - 1 < n /\ ~ i < n + 1
        BY <1>1, <3>3
      <4> QED
        BY <1>1, <1>4, <3>2, <4>1 DEF Succ
    <3>4. CASE i # n + 1
      <4>1. i - 1 < n /\ i < n + 1 /\ i + 1 \in 1..(n + 1) /\ i + 1 # 1 /\ (i - 1) + 1 = (i + 1) - 1
        BY <1>1, <1>4, <3>1, <3>4
      <4>2. r[i + 1] = q[(i - 1) + 1]
        BY <1>4, <4>1
      <4> QED
        BY <1>1, <1>4, <3>2, <4>1, <4>2 DEF Succ
    <3> QED
      BY <3>3, <3>4
  <2> QED
    BY <2>1, <2>2
<1>8. p = IF Len(r) = 0 THEN None ELSE r[1]
  <2>1. 1 \in 1..(n + 1) /\ n + 1 # 0
    BY <1>1
  <2> QED
    BY <1>4, <2>1
<1>9. ASSUME NEW x PROVE In(r, x) <=> In(q, x) \/ x = p
  <2>1. 1 \in 1..(n + 1) /\ \A i \in 1..n : i + 1 \in 1..(n + 1) /\ i + 1 # 1 /\ (i + 1) - 1 = i
    BY <1>1
  <2>2. In(r, x) <=> \E i \in 1..(n + 1) : r[i] = x
    BY <1>4 DEF In
  <2>3. In(q, x) <=> \E i \in 1..n : q[i] = x
    BY <1>1 DEF In
  <2>4. ASSUME In(q, x) PROVE In(r, x)
    <3>1. PICK i \in 1..n : q[i] = x
      BY <2>3, <2>4
    <3>2. r[i + 1] = x
      BY <1>4, <2>1, <3>1
    <3> QED
      BY <2>1, <2>2, <3>2
  <2> QED
    BY <1>4, <1>5, <2>1, <2>2, <2>3, <2>4
<1>10. IsList(p, M, r)
  BY <1>4, <1>6, <1>7, <1>8 DEF IsList
<1> QED
  BY <1>3, <1>9, <1>10

\* The block at place d leaves.
Without(q, d) == [i \in 1..(Len(q) - 1) |-> IF i < d THEN q[i] ELSE q[i + 1]]

CutAt(h, g, N, M, q, d) ==
  /\ d = 1 => g = Succ(q, d)
  /\ d # 1 => g = h /\ M[q[d - 1]] = Succ(q, d)
  /\ \A i \in 1..Len(q) : i # d /\ i # d - 1 => M[q[i]] = N[q[i]]

LEMMA ListWithout ==
  ASSUME NEW h, NEW g, NEW N, NEW M, NEW q, IsList(h, N, q),
         NEW d \in 1..Len(q), CutAt(h, g, N, M, q, d)
  PROVE  /\ IsList(g, M, Without(q, d))
         /\ \A x : In(Without(q, d), x) <=> In(q, x) /\ x # q[d]
<1>1. PICK n \in Nat : n = Len(q)
  BY DEF IsList
<1>11. /\ d = 1 => g = Succ(q, d)
       /\ d # 1 => g = h /\ M[q[d - 1]] = Succ(q, d)
       /\ \A i \in 1..n : i # d /\ i # d - 1 => M[q[i]] = N[q[i]]
  BY <1>1 DEF CutAt
<1>2. /\ q \in Seq(BLOCKS) /\ \A i \in 1..n : q[i] \in BLOCKS
      /\ \A i, j \in 1..n : q[i] = q[j] => i = j
  BY <1>1, ListTypes DEF IsList, Once
<1>3. PICK r : r = Without(q, d)
  OBVIOUS
<1>4. /\ r \in Seq(BLOCKS) /\ Len(r) = n - 1 /\ n - 1 \in Nat
      /\ \A i \in 1..(n - 1) : r[i] = IF i < d THEN q[i] ELSE q[i + 1]
  <2>1. r = [i \in 1..(n - 1) |-> IF i < d THEN q[i] ELSE q[i + 1]]
    BY <1>1, <1>3 DEF Without
  <2>2. \A i \in 1..(n - 1) : i \in 1..n /\ i + 1 \in 1..n
    BY <1>1
  <2>3. \A i \in 1..(n - 1) : (IF i < d THEN q[i] ELSE q[i + 1]) \in BLOCKS
    BY <1>2, <2>2
  <2>4. n - 1 \in Nat
    BY <1>1
  <2>5. r \in [1..(n - 1) -> BLOCKS]
    BY <2>1, <2>3
  <2> QED
    BY <2>1, <2>4, <2>5
<1>5. \A i \in 1..(n - 1) : i \in 1..n /\ i + 1 \in 1..n
  BY <1>1
<1>6. Once(r)
  <2>1. ASSUME NEW i \in 1..(n - 1), NEW j \in 1..(n - 1), r[i] = r[j] PROVE i = j
    <3>1. CASE i < d /\ j < d
      BY <1>2, <1>4, <1>5, <2>1, <3>1
    <3>2. CASE i < d /\ ~ j < d
      <4>1. i = j + 1
        BY <1>2, <1>4, <1>5, <2>1, <3>2
      <4> QED
        BY <3>2, <4>1
    <3>3. CASE ~ i < d /\ j < d
      <4>1. i + 1 = j
        BY <1>2, <1>4, <1>5, <2>1, <3>3
      <4> QED
        BY <3>3, <4>1
    <3>4. CASE ~ i < d /\ ~ j < d
      <4>1. i + 1 = j + 1
        BY <1>2, <1>4, <1>5, <2>1, <3>4
      <4> QED
        BY <4>1
    <3> QED
      BY <3>1, <3>2, <3>3, <3>4
  <2> QED
    BY <1>4, <2>1 DEF Once
<1>7. ASSUME NEW i \in 1..Len(r) PROVE M[r[i]] = Succ(r, i)
  <2>1. i \in 1..(n - 1) /\ i \in Nat
    BY <1>4
  <2>2. CASE i < d /\ i # d - 1
    <3>1. i + 1 < d /\ i # d /\ i < n /\ i < n - 1 /\ i + 1 \in 1..(n - 1)
      BY <1>1, <2>1, <2>2
    <3>2. r[i] = q[i] /\ r[i + 1] = q[i + 1] /\ M[q[i]] = N[q[i]] /\ N[q[i]] = Succ(q, i)
      BY <1>1, <1>4, <1>5, <1>11, <2>1, <2>2, <3>1 DEF IsList
    <3> QED
      BY <1>1, <1>4, <3>1, <3>2 DEF Succ
  <2>3. CASE i = d - 1
    <3>1. i < d /\ d # 1 /\ ~ i + 1 < d /\ i + 1 = d
      BY <1>1, <2>1, <2>3
    <3>2. r[i] = q[d - 1] /\ M[q[d - 1]] = Succ(q, d)
      BY <1>4, <1>11, <2>1, <2>3, <3>1
    <3>3. CASE d = n
      <4>1. ~ d < n /\ ~ i < n - 1
        BY <1>1, <2>3, <3>3
      <4> QED
        BY <1>1, <1>4, <3>2, <4>1 DEF Succ
    <3>4. CASE d # n
      <4>1. d < n /\ i < n - 1 /\ i + 1 \in 1..(n - 1)
        BY <1>1, <2>3, <3>1, <3>4
      <4>2. r[i + 1] = q[d + 1]
        BY <1>4, <3>1, <4>1
      <4> QED
        BY <1>1, <1>4, <3>2, <4>1, <4>2 DEF Succ
    <3> QED
      BY <3>3, <3>4
  <2>4. CASE ~ i < d
    <3>1. i + 1 # d /\ i + 1 # d - 1 /\ i + 1 \in 1..n
      BY <1>1, <1>5, <2>1, <2>4
    <3>2. r[i] = q[i + 1] /\ M[q[i + 1]] = N[q[i + 1]] /\ N[q[i + 1]] = Succ(q, i + 1)
      BY <1>1, <1>4, <1>11, <2>1, <2>4, <3>1 DEF IsList
    <3>3. CASE i = n - 1
      <4>1. ~ i + 1 < n /\ ~ i < n - 1
        BY <1>1, <3>3
      <4> QED
        BY <1>1, <1>4, <3>2, <4>1 DEF Succ
    <3>4. CASE i # n - 1
      <4>1. i + 1 < n /\ i < n - 1 /\ i + 1 \in 1..(n - 1) /\ ~ i + 1 < d
        BY <1>1, <2>1, <2>4, <3>4
      <4>2. r[i + 1] = q[(i + 1) + 1]
        BY <1>4, <4>1
      <4> QED
        BY <1>1, <1>4, <3>2, <4>1, <4>2 DEF Succ
    <3> QED
      BY <3>3, <3>4
  <2> QED
    BY <1>1, <2>1, <2>2, <2>3, <2>4
<1>8. g = IF Len(r) = 0 THEN None ELSE r[1]
  <2>1. CASE d = 1
    <3>1. CASE n = 1
      BY <1>1, <1>4, <1>11, <2>1, <3>1 DEF Succ
    <3>2. CASE n # 1
      <4>1. 1 \in 1..(n - 1) /\ 1 < n /\ ~ 1 < d /\ n - 1 # 0
        BY <1>1, <2>1, <3>2
      <4>2. r[1] = q[1 + 1]
        BY <1>4, <4>1
      <4> QED
        BY <1>1, <1>4, <1>11, <2>1, <4>1, <4>2 DEF Succ
    <3> QED
      BY <3>1, <3>2
  <2>2. CASE d # 1
    <3>1. 1 \in 1..(n - 1) /\ 1 < d /\ n - 1 # 0 /\ n # 0
      BY <1>1, <2>2
    <3>2. r[1] = q[1] /\ h = q[1]
      BY <1>1, <1>4, <3>1 DEF IsList
    <3> QED
      BY <1>4, <1>11, <2>2, <3>1, <3>2
  <2> QED
    BY <2>1, <2>2
<1>9. ASSUME NEW x PROVE In(r, x) <=> In(q, x) /\ x # q[d]
  <2>1. In(r, x) <=> \E i \in 1..(n - 1) : r[i] = x
    BY <1>4 DEF In
  <2>2. In(q, x) <=> \E i \in 1..n : q[i] = x
    BY <1>1 DEF In
  <2>3. d \in 1..n
    BY <1>1
  <2>4. ASSUME In(r, x) PROVE In(q, x) /\ x # q[d]
    <3>1. PICK i \in 1..(n - 1) : r[i] = x
      BY <2>1, <2>4
    <3>2. CASE i < d
      <4>1. i # d /\ i \in 1..n
        BY <1>5, <3>2
      <4> QED
        BY <1>2, <1>4, <2>2, <2>3, <3>1, <3>2, <4>1
    <3>3. CASE ~ i < d
      <4>1. i + 1 # d /\ i + 1 \in 1..n
        BY <1>5, <3>3
      <4> QED
        BY <1>2, <1>4, <2>2, <2>3, <3>1, <3>3, <4>1
    <3> QED
      BY <3>2, <3>3
  <2>5. ASSUME In(q, x), x # q[d] PROVE In(r, x)
    <3>1. PICK i \in 1..n : q[i] = x
      BY <2>2, <2>5
    <3>2. i # d
      BY <2>5, <3>1
    <3>3. CASE i < d
      <4>1. i \in 1..(n - 1)
        BY <1>1, <2>3, <3>3
      <4> QED
        BY <1>4, <2>1, <3>1, <3>3, <4>1
    <3>4. CASE ~ i < d
      <4>1. i - 1 \in 1..(n - 1) /\ ~ i - 1 < d /\ (i - 1) + 1 = i
        BY <1>1, <2>3, <3>2, <3>4
      <4>2. r[i - 1] = x
        BY <1>4, <3>1, <4>1
      <4> QED
        BY <2>1, <4>1, <4>2
    <3> QED
      BY <3>3, <3>4
  <2> QED
    BY <2>4, <2>5
<1>10. IsList(g, M, r)
  BY <1>4, <1>6, <1>7, <1>8 DEF IsList
<1> QED
  BY <1>3, <1>9, <1>10

LEMMA ListHead ==
  ASSUME NEW h, NEW N, NEW q, IsList(h, N, q)
  PROVE  /\ h = None <=> Len(q) = 0
         /\ h = None \/ (h \in BLOCKS /\ 1 \in 1..Len(q) /\ q[1] = h /\ In(q, h) /\ N[h] = Succ(q, 1))
         /\ h \in Links
         /\ \A i \in 1..Len(q) : Succ(q, i) \in Links
<1>1. Len(q) \in Nat /\ \A i \in 1..Len(q) : q[i] \in BLOCKS /\ q[i] # None
  BY ListTypes
<1>2. CASE Len(q) = 0
  BY <1>2, ForkSizes DEF IsList
<1>3. CASE Len(q) # 0
  <2>1. 1 \in 1..Len(q)
    BY <1>1, <1>3
  <2>2. h = q[1] /\ N[h] = Succ(q, 1) /\ h \in BLOCKS /\ h # None
    BY <1>1, <1>3, <2>1 DEF IsList
  <2>3. \A i \in 1..Len(q) : Succ(q, i) \in Links
    BY <1>1, ForkSizes DEF Succ
  <2> QED
    BY <1>3, <2>1, <2>2, <2>3, ForkSizes DEF In
<1> QED
  BY <1>2, <1>3

----------------------------------------------------------------------------
(***************************************************************************)
(* What the list operations of the scheduler do: they change ready_queue   *)
(* and the next links, nothing else.                                       *)
(***************************************************************************)
SysType == [stage : {11, 12}, pcb : [BLOCKS -> PCB], ready : Links, cur : Links, at : Places]

\* The same process but for next.
SameProc(a, b) ==
  /\ a.taken = b.taken /\ a.pid = b.pid /\ a.state = b.state /\ a.ticks = b.ticks
  /\ a.context = b.context /\ a.parent = b.parent /\ a.first_child = b.first_child
  /\ a.next_sibling = b.next_sibling /\ a.orphan = b.orphan /\ a.raced = b.raced

Like(t, u) ==
  /\ u \in SysType /\ u.stage = t.stage /\ u.cur = t.cur /\ u.at = t.at
  /\ \A x \in BLOCKS : SameProc(u.pcb[x], t.pcb[x])

LEMMA PcbFields ==
  ASSUME NEW a \in PCB
  PROVE  /\ a.taken \in BOOLEAN /\ a.pid \in 0..LastPid /\ a.state \in States
         /\ a.ticks \in 0..(TickMod - 1) /\ a.context \in Places /\ a.parent \in Links
         /\ a.first_child \in Links /\ a.next_sibling \in Links /\ a.next \in Links
         /\ a.orphan \in BOOLEAN /\ a.raced \in BOOLEAN
BY DEF PCB

LEMMA SysFields ==
  ASSUME NEW t \in SysType
  PROVE  /\ t.stage \in {11, 12} /\ t.pcb \in [BLOCKS -> PCB] /\ t.ready \in Links
         /\ t.cur \in Links /\ t.at \in Places /\ \A x \in BLOCKS : t.pcb[x] \in PCB
BY DEF SysType

\* One process changes.
LEMMA PcbPut ==
  ASSUME NEW h \in [BLOCKS -> PCB], NEW p \in BLOCKS, NEW e \in PCB
  PROVE  /\ [h EXCEPT ![p] = e] \in [BLOCKS -> PCB]
         /\ \A x \in BLOCKS : [h EXCEPT ![p] = e][x] = IF x = p THEN e ELSE h[x]
OBVIOUS

LEMMA NextPut ==
  ASSUME NEW a \in PCB, NEW l \in Links
  PROVE  /\ [a EXCEPT !.next = l] \in PCB
         /\ [a EXCEPT !.next = l].next = l
         /\ SameProc([a EXCEPT !.next = l], a)
BY DEF PCB, SameProc

LEMMA SetNext ==
  ASSUME NEW t \in SysType, NEW p \in BLOCKS, NEW l \in Links,
         NEW u, u = [t EXCEPT !.pcb[p].next = l]
  PROVE  /\ Like(t, u) /\ u.ready = t.ready
         /\ \A x \in BLOCKS : NextOf(u)[x] = IF x = p THEN l ELSE NextOf(t)[x]
<1>1. PICK e : e = [t.pcb[p] EXCEPT !.next = l]
  OBVIOUS
<1>2. t.pcb[p] \in PCB
  BY SysFields
<1>3. e \in PCB /\ e.next = l /\ SameProc(e, t.pcb[p])
  BY <1>1, <1>2, NextPut
<1>4. PICK f : f = [t.pcb EXCEPT ![p] = e]
  OBVIOUS
<1>5. u = [t EXCEPT !.pcb = f]
  BY <1>1, <1>4
<1>6. f \in [BLOCKS -> PCB] /\ \A x \in BLOCKS : f[x] = IF x = p THEN e ELSE t.pcb[x]
  BY <1>3, <1>4, SysFields, PcbPut
<1>7. /\ u \in SysType /\ u.stage = t.stage /\ u.cur = t.cur /\ u.at = t.at
      /\ u.ready = t.ready
      /\ \A x \in BLOCKS : u.pcb[x] = IF x = p THEN e ELSE t.pcb[x]
  BY <1>5, <1>6 DEF SysType
<1>8. Like(t, u)
  BY <1>3, <1>7 DEF Like, SameProc
<1>9. \A x \in BLOCKS : NextOf(u)[x] = IF x = p THEN l ELSE NextOf(t)[x]
  BY <1>3, <1>7 DEF NextOf
<1> QED
  BY <1>7, <1>8, <1>9

LEMMA SetReady ==
  ASSUME NEW t \in SysType, NEW l \in Links, NEW u, u = [t EXCEPT !.ready = l]
  PROVE  Like(t, u) /\ u.ready = l /\ NextOf(u) = NextOf(t)
<1>1. /\ u \in SysType /\ u.stage = t.stage /\ u.cur = t.cur /\ u.at = t.at /\ u.ready = l
      /\ u.pcb = t.pcb
  BY DEF SysType
<1> QED
  BY <1>1 DEF Like, SameProc, NextOf

LEMMA LikeTwice ==
  ASSUME NEW t, NEW u, NEW v, Like(t, u), Like(u, v)
  PROVE  Like(t, v)
BY DEF Like, SameProc

\* process_create, schedule_from_interrupt, process_unblock.
LEMMA AppendIs ==
  ASSUME NEW t \in SysType, NEW q, IsList(t.ready, NextOf(t), q),
         NEW p \in BLOCKS, ~In(q, p), NEW v, v = append(t, p)
  PROVE  /\ Like(t, v) /\ IsList(v.ready, NextOf(v), Append(q, p))
         /\ \A x : In(Append(q, p), x) <=> In(q, x) \/ x = p
<1>1. PICK u : u = [t EXCEPT !.pcb[p].next = None]
  OBVIOUS
<1>2. Like(t, u) /\ u.ready = t.ready
      /\ \A x \in BLOCKS : NextOf(u)[x] = IF x = p THEN None ELSE NextOf(t)[x]
  BY <1>1, SetNext, ForkSizes
<1>3. u \in SysType
  BY <1>2 DEF Like
<1>4. Len(q) \in Nat /\ \A i \in 1..Len(q) : q[i] \in BLOCKS /\ q[i] # p
  BY ListTypes DEF In
<1>5. q = << >> <=> Len(q) = 0
  BY DEF IsList
<1>6. Queue(t) = q
  BY QueueIs
<1>7. v = IF q = << >> THEN [u EXCEPT !.ready = p] ELSE [u EXCEPT !.pcb[q[Len(q)]].next = p]
  BY <1>1, <1>6 DEF append
<1>8. p \in Links
  BY ForkSizes
<1>9. CASE Len(q) = 0
  <2>1. Like(u, v) /\ v.ready = p /\ NextOf(v) = NextOf(u)
    BY <1>3, <1>5, <1>7, <1>8, <1>9, SetReady
  <2>2. PICK M : M = NextOf(v)
    OBVIOUS
  <2>3. M[p] = None /\ \A i \in 1..Len(q) : i # Len(q) => M[q[i]] = NextOf(t)[q[i]]
    BY <1>2, <1>4, <1>9, <2>1, <2>2
  <2>4. PICK h, N : h = t.ready /\ N = NextOf(t)
    OBVIOUS
  <2>5. JoinLast(h, p, N, M, q, p)
    BY <1>9, <2>3, <2>4 DEF JoinLast
  <2>6. IsList(h, N, q)
    BY <2>4
  <2>7. IsList(p, M, Append(q, p)) /\ \A x : In(Append(q, p), x) <=> In(q, x) \/ x = p
    BY <2>5, <2>6, ListAppend
  <2> QED
    BY <1>2, <2>1, <2>2, <2>7, LikeTwice
<1>10. CASE Len(q) # 0
  <2>1. Len(q) \in 1..Len(q)
    BY <1>4, <1>10
  <2>2. q[Len(q)] \in BLOCKS
    BY <1>4, <2>1
  <2>3. /\ Like(u, v) /\ v.ready = u.ready
        /\ \A x \in BLOCKS : NextOf(v)[x] = IF x = q[Len(q)] THEN p ELSE NextOf(u)[x]
    BY <1>3, <1>5, <1>7, <1>8, <1>10, <2>2, SetNext
  <2>4. PICK M : M = NextOf(v)
    OBVIOUS
  <2>5. M[p] = None /\ M[q[Len(q)]] = p
    BY <1>2, <1>4, <2>1, <2>3, <2>4
  <2>6. \A i \in 1..Len(q) : i # Len(q) => M[q[i]] = NextOf(t)[q[i]]
    <3>1. \A i \in 1..Len(q) : i # Len(q) => q[i] # q[Len(q)]
      BY <2>1 DEF IsList, Once
    <3> QED
      BY <1>2, <1>4, <2>3, <2>4, <3>1
  <2>7. /\ IsList(t.ready, M, Append(q, p))
        /\ \A x : In(Append(q, p), x) <=> In(q, x) \/ x = p
    <3>1. PICK h, N : h = t.ready /\ N = NextOf(t)
      OBVIOUS
    <3>2. JoinLast(h, h, N, M, q, p) /\ IsList(h, N, q)
      BY <1>10, <2>5, <2>6, <3>1 DEF JoinLast
    <3> QED
      BY <3>1, <3>2, ListAppend
  <2> QED
    BY <1>2, <2>3, <2>4, <2>7, LikeTwice
<1> QED
  BY <1>9, <1>10

\* process_block: the process is not queued.
LEMMA UnlinkIs ==
  ASSUME NEW t \in SysType, NEW q, IsList(t.ready, NextOf(t), q),
         NEW p \in BLOCKS, ~In(q, p), NEW v, v = Unlink(t, p)
  PROVE  Like(t, v) /\ IsList(v.ready, NextOf(v), q)
<1>1. Queue(t) = q /\ Len(q) \in Nat /\ \A i \in 1..Len(q) : q[i] \in BLOCKS
  BY QueueIs, ListTypes
<1>2. t.ready # p
  BY ListHead, ForkSizes DEF None
<1>3. {r \in Elements(Queue(t)) : t.pcb[r].next = p} = {}
  <2> SUFFICES ASSUME NEW r \in Elements(q), t.pcb[r].next = p PROVE FALSE
    BY <1>1
  <2>1. PICK i \in 1..Len(q) : q[i] = r
    BY DEF Elements
  <2>2. NextOf(t)[r] = p /\ NextOf(t)[r] = Succ(q, i)
    BY <1>1, <2>1 DEF IsList, NextOf
  <2>3. i < Len(q) => i + 1 \in 1..Len(q)
    BY <1>1, <2>1
  <2> QED
    BY <2>2, <2>3, ForkSizes DEF Succ, In, None
<1>4. unlink(t, p) = t
  BY <1>2, <1>3 DEF unlink
<1>5. CASE t.stage = 12
  <2>1. v = [t EXCEPT !.pcb[p].next = None]
    BY <1>4, <1>5 DEF Unlink, unlink_12
  <2>2. Like(t, v) /\ v.ready = t.ready
        /\ \A x \in BLOCKS : NextOf(v)[x] = IF x = p THEN None ELSE NextOf(t)[x]
    BY <2>1, SetNext, ForkSizes
  <2>3. PICK M : M = NextOf(v)
    OBVIOUS
  <2>4. \A x \in BLOCKS : In(q, x) => M[x] = NextOf(t)[x]
    BY <2>2, <2>3
  <2>5. IsList(t.ready, M, q)
    BY <2>4, ListFrame
  <2> QED
    BY <2>2, <2>3, <2>5
<1>6. CASE t.stage # 12
  BY <1>4, <1>6 DEF Unlink, Like, SameProc
<1> QED
  BY <1>5, <1>6

\* process_set_current: the process is the first in the queue.
LEMMA UnlinkHeadIs ==
  ASSUME NEW t \in SysType, NEW q, IsList(t.ready, NextOf(t), q), Len(q) # 0,
         NEW v, v = Unlink(t, t.ready)
  PROVE  /\ Like(t, v) /\ IsList(v.ready, NextOf(v), Without(q, 1))
         /\ \A x : In(Without(q, 1), x) <=> In(q, x) /\ x # t.ready
<1>1. PICK p \in BLOCKS : p = t.ready /\ 1 \in 1..Len(q) /\ q[1] = p /\ NextOf(t)[p] = Succ(q, 1)
  BY ListHead
<1>2. PICK l \in Links : l = Succ(q, 1)
  BY <1>1, ListHead
<1>3. PICK u : u = [t EXCEPT !.ready = l]
  OBVIOUS
<1>4. Like(t, u) /\ u.ready = l /\ NextOf(u) = NextOf(t) /\ u \in SysType
  <2>1. Like(t, u) /\ u.ready = l /\ NextOf(u) = NextOf(t)
    BY <1>3, SetReady
  <2> QED
    BY <2>1 DEF Like
<1>5. PICK w : w = [u EXCEPT !.pcb[p].next = None]
  OBVIOUS
<1>6. /\ Like(u, w) /\ w.ready = u.ready /\ w \in SysType
      /\ \A x \in BLOCKS : NextOf(w)[x] = IF x = p THEN None ELSE NextOf(u)[x]
  <2>1. /\ Like(u, w) /\ w.ready = u.ready
        /\ \A x \in BLOCKS : NextOf(w)[x] = IF x = p THEN None ELSE NextOf(u)[x]
    BY <1>4, <1>5, SetNext, ForkSizes
  <2> QED
    BY <2>1 DEF Like
<1>7. unlink(t, p) = w
  BY <1>1, <1>2, <1>3, <1>5 DEF unlink, NextOf
<1>8. PICK y : y = [w EXCEPT !.pcb[p].next = None]
  OBVIOUS
<1>9. /\ Like(w, y) /\ y.ready = w.ready
      /\ \A x \in BLOCKS : NextOf(y)[x] = IF x = p THEN None ELSE NextOf(w)[x]
  BY <1>6, <1>8, SetNext, ForkSizes
<1>10. v = y \/ v = w
  BY <1>1, <1>7, <1>8 DEF Unlink, unlink_12
<1>11. /\ Like(t, v) /\ v.ready = l
       /\ \A x \in BLOCKS : NextOf(v)[x] = IF x = p THEN None ELSE NextOf(t)[x]
  BY <1>4, <1>6, <1>9, <1>10, LikeTwice
<1>12. PICK M : M = NextOf(v)
  OBVIOUS
<1>13. \A i \in 1..Len(q) : i # 1 /\ i # 1 - 1 => M[q[i]] = NextOf(t)[q[i]]
  <2>1. \A i \in 1..Len(q) : q[i] \in BLOCKS /\ (i # 1 => q[i] # q[1])
    BY <1>1, ListTypes DEF IsList, Once
  <2> QED
    BY <1>1, <1>11, <1>12, <2>1
<1>14. /\ IsList(l, M, Without(q, 1))
       /\ \A x : In(Without(q, 1), x) <=> In(q, x) /\ x # q[1]
  <2>1. PICK h, N, d : h = t.ready /\ N = NextOf(t) /\ d = 1
    OBVIOUS
  <2>2. IsList(h, N, q) /\ d \in 1..Len(q) /\ CutAt(h, l, N, M, q, d)
    BY <1>1, <1>2, <1>13, <2>1 DEF CutAt
  <2> QED
    BY <2>1, <2>2, ListWithout
<1> QED
  BY <1>1, <1>11, <1>12, <1>14

----------------------------------------------------------------------------
(***************************************************************************)
(* The inductive invariant: with the queue q and the child list K[p] of    *)
(* each process.                                                           *)
(***************************************************************************)
Child(t, p, c) == t.pcb[c].taken /\ ~t.pcb[c].orphan /\ t.pcb[c].parent = p

Queued(t, q) ==
  /\ IsList(t.ready, NextOf(t), q)
  /\ \A p \in BLOCKS : In(q, p) <=> t.pcb[p].taken /\ t.pcb[p].state = "ready"

\* Who is queued is not on the CPU, and the window of sys_wait is not left by
\* an exit.
Turns(t) ==
  /\ t.cur \in BLOCKS /\ t.pcb[t.cur].taken /\ t.pcb[t.cur].state # "ready"
  /\ \A p \in BLOCKS : p # t.cur => t.pcb[p].state # "running"
  /\ t.at = "window" => t.pcb[t.cur].state # "zombie"

Freed(t) == \A p \in BLOCKS : ~t.pcb[p].taken => t.pcb[p].state \in {"ready", "zombie"}

Family(t, K) ==
  /\ \A p \in BLOCKS : t.pcb[p].taken =>
       /\ IsList(t.pcb[p].first_child, SibOf(t), K[p])
       /\ \A c \in BLOCKS : In(K[p], c) <=> Child(t, p, c)
  /\ \A c \in BLOCKS : t.pcb[c].taken /\ ~t.pcb[c].orphan /\ t.pcb[c].parent # None =>
       t.pcb[t.pcb[c].parent].taken
  /\ \A c \in BLOCKS : t.pcb[c].taken => t.pcb[c].parent # c

\* p is in sys_wait past the search for a zombie, or has slept there.
Asleep(t, p) ==
  t.pcb[p].state = "blocked" \/ (t.pcb[p].state = "ready" /\ t.pcb[p].context = "window")
Seeking(t, p) == Asleep(t, p) \/ (p = t.cur /\ t.at = "window")
NoZombieOf(t, p) == \A c \in BLOCKS : Child(t, p, c) => t.pcb[c].state # "zombie"
Waits(t) ==
  \A p \in BLOCKS : t.pcb[p].taken /\ ~t.pcb[p].raced /\ Seeking(t, p) => NoZombieOf(t, p)

Good(t, q, K) ==
  t \in SysType /\ Queued(t, q) /\ Turns(t) /\ Freed(t) /\ Family(t, K) /\ Waits(t)

\* While schedule_from_interrupt looks for the next process nobody runs.
Between(t, q, K) ==
  /\ t \in SysType /\ Queued(t, q) /\ Freed(t) /\ Family(t, K)
  /\ \A p \in BLOCKS : t.pcb[p].state # "running"
  /\ \A p \in BLOCKS : t.pcb[p].taken /\ ~t.pcb[p].raced /\ Asleep(t, p) => NoZombieOf(t, p)

SameKin(a, b) ==
  a.taken = b.taken /\ a.orphan = b.orphan /\ a.parent = b.parent
  /\ a.first_child = b.first_child /\ a.next_sibling = b.next_sibling

KinKept(t, u) == \A x \in BLOCKS : SameKin(u.pcb[x], t.pcb[x])
QueueKept(t, u) ==
  /\ u.ready = t.ready
  /\ \A x \in BLOCKS : /\ u.pcb[x].next = t.pcb[x].next
                       /\ u.pcb[x].taken = t.pcb[x].taken
                       /\ u.pcb[x].state = t.pcb[x].state

LEMMA FamilyFrame ==
  ASSUME NEW t \in SysType, NEW u, NEW K, Family(t, K), KinKept(t, u)
  PROVE  Family(u, K) /\ \A p, c \in BLOCKS : Child(u, p, c) <=> Child(t, p, c)
<1>1. \A x \in BLOCKS :
        /\ u.pcb[x].taken = t.pcb[x].taken /\ u.pcb[x].orphan = t.pcb[x].orphan
        /\ u.pcb[x].parent = t.pcb[x].parent /\ u.pcb[x].first_child = t.pcb[x].first_child
        /\ u.pcb[x].next_sibling = t.pcb[x].next_sibling
  BY DEF KinKept, SameKin
<1>2. SibOf(u) = SibOf(t)
  BY <1>1 DEF SibOf
<1>3. \A p, c \in BLOCKS : Child(u, p, c) <=> Child(t, p, c)
  BY <1>1 DEF Child
<1>4. ASSUME NEW p \in BLOCKS, u.pcb[p].taken
      PROVE  IsList(u.pcb[p].first_child, SibOf(u), K[p])
             /\ \A c \in BLOCKS : In(K[p], c) <=> Child(u, p, c)
  BY <1>1, <1>2, <1>3, <1>4 DEF Family
<1>5. ASSUME NEW c \in BLOCKS, u.pcb[c].taken
      PROVE  u.pcb[c].parent # c
             /\ (~u.pcb[c].orphan /\ u.pcb[c].parent # None => u.pcb[u.pcb[c].parent].taken)
  <2>1. t.pcb[c].parent \in Links
    BY SysFields, PcbFields
  <2>2. t.pcb[c].parent # None => t.pcb[c].parent \in BLOCKS
    BY <2>1 DEF Links
  <2> QED
    BY <1>1, <1>5, <2>2 DEF Family
<1> QED
  BY <1>3, <1>4, <1>5 DEF Family

LEMMA QueuedFrame ==
  ASSUME NEW t, NEW u, NEW q, Queued(t, q), QueueKept(t, u)
  PROVE  Queued(u, q)
<1>1. NextOf(u) = NextOf(t)
  BY DEF NextOf, QueueKept
<1> QED
  BY <1>1 DEF Queued, QueueKept

\* One process changes.
Put(t, u, p, e) ==
  /\ u \in SysType /\ u.stage = t.stage /\ u.cur = t.cur /\ u.at = t.at /\ u.ready = t.ready
  /\ \A x \in BLOCKS : u.pcb[x] = IF x = p THEN e ELSE t.pcb[x]

LEMMA PutIs ==
  ASSUME NEW t \in SysType, NEW p \in BLOCKS, NEW e \in PCB,
         NEW f, f = [t.pcb EXCEPT ![p] = e], NEW u, u = [t EXCEPT !.pcb = f]
  PROVE  Put(t, u, p, e)
<1>1. f \in [BLOCKS -> PCB] /\ \A x \in BLOCKS : f[x] = IF x = p THEN e ELSE t.pcb[x]
  BY SysFields, PcbPut
<1>2. /\ u \in SysType /\ u.stage = t.stage /\ u.cur = t.cur /\ u.at = t.at
      /\ u.ready = t.ready
      /\ \A x \in BLOCKS : u.pcb[x] = IF x = p THEN e ELSE t.pcb[x]
  BY <1>1 DEF SysType
<1> QED
  BY <1>2 DEF Put

\* All that the invariant speaks of.
View(a, b) ==
  /\ SameKin(a, b) /\ a.state = b.state /\ a.next = b.next
  /\ a.context = b.context /\ a.raced = b.raced
SameView(t, u) ==
  /\ u \in SysType /\ u.cur = t.cur /\ u.at = t.at /\ u.ready = t.ready
  /\ \A x \in BLOCKS : View(u.pcb[x], t.pcb[x])

LEMMA ViewFrame ==
  ASSUME NEW t, NEW q, NEW K, Good(t, q, K), NEW u, SameView(t, u)
  PROVE  Good(u, q, K)
<1>1. t \in SysType /\ u \in SysType /\ u.cur = t.cur /\ u.at = t.at /\ u.ready = t.ready
  BY DEF Good, SameView
<1>2. \A x \in BLOCKS :
        /\ SameKin(u.pcb[x], t.pcb[x]) /\ u.pcb[x].state = t.pcb[x].state
        /\ u.pcb[x].next = t.pcb[x].next /\ u.pcb[x].taken = t.pcb[x].taken
        /\ u.pcb[x].context = t.pcb[x].context /\ u.pcb[x].raced = t.pcb[x].raced
  BY DEF SameView, View, SameKin
<1>3. Queued(u, q)
  <2>1. QueueKept(t, u)
    BY <1>1, <1>2 DEF QueueKept
  <2> QED
    BY <2>1, QueuedFrame DEF Good
<1>4. Family(u, K) /\ \A x, c \in BLOCKS : Child(u, x, c) <=> Child(t, x, c)
  <2>1. KinKept(t, u)
    BY <1>2 DEF KinKept
  <2> QED
    BY <1>1, <2>1, FamilyFrame DEF Good
<1>5. Turns(u) /\ Freed(u)
  BY <1>1, <1>2 DEF Good, Turns, Freed
<1>6. Waits(u)
  BY <1>1, <1>2, <1>4 DEF Good, Waits, Seeking, Asleep, NoZombieOf
<1> QED
  BY <1>1, <1>3, <1>4, <1>5, <1>6 DEF Good

\* The number of ticks left is nobody's concern.
LEMMA TicksPut ==
  ASSUME NEW t \in SysType, NEW p \in BLOCKS, NEW n \in 0..(TickMod - 1),
         NEW u, u = [t EXCEPT !.pcb[p].ticks = n]
  PROVE  SameView(t, u)
<1>1. PICK e : e = [t.pcb[p] EXCEPT !.ticks = n]
  OBVIOUS
<1>2. t.pcb[p] \in PCB
  BY SysFields
<1>3. e \in PCB /\ View(e, t.pcb[p])
  BY <1>1, <1>2 DEF PCB, View, SameKin
<1>4. PICK f : f = [t.pcb EXCEPT ![p] = e]
  OBVIOUS
<1>5. u = [t EXCEPT !.pcb = f]
  BY <1>1, <1>4
<1>6. Put(t, u, p, e)
  BY <1>3, <1>4, <1>5, PutIs
<1> QED
  BY <1>3, <1>6 DEF Put, SameView, View, SameKin

LEMMA TicksIs ==
  ASSUME NEW t, NEW q, NEW K, Good(t, q, K), NEW n \in 0..(TickMod - 1),
         NEW u, u = [t EXCEPT !.pcb[t.cur].ticks = n]
  PROVE  Good(u, q, K)
<1>1. t \in SysType /\ t.cur \in BLOCKS
  BY DEF Good, Turns
<1>2. PICK p : p = t.cur
  OBVIOUS
<1>3. SameView(t, u)
  BY <1>1, <1>2, TicksPut
<1> QED
  BY <1>3, ViewFrame

LEMMA RequeueIs ==
  ASSUME NEW t, NEW q, NEW K, Good(t, q, K), NEW u, u = Requeue(t)
  PROVE  \E r : Between(u, r, K) /\ (u.ready = None => u = t)
<1>1. t \in SysType /\ t.cur \in BLOCKS /\ t.pcb[t.cur] \in PCB /\ t.at \in Places
  BY SysFields DEF Good, Turns
<1>2. PICK p : p = t.cur
  OBVIOUS
<1>3. CASE t.pcb[p].state # "running"
  <2>1. u = t
    BY <1>2, <1>3 DEF Requeue
  <2>2. \A x \in BLOCKS : t.pcb[x].state # "running"
    BY <1>2, <1>3 DEF Good, Turns
  <2>3. Between(t, q, K)
    BY <2>2 DEF Good, Between, Waits, Seeking
  <2> QED
    BY <2>1, <2>3
<1>4. CASE t.pcb[p].state = "running"
  <2>1. PICK e : e = [t.pcb[p] EXCEPT !.context = t.at, !.state = "ready", !.ticks = TimeSlice]
    OBVIOUS
  <2>2. TimeSlice \in 0..(TickMod - 1)
    BY ForkSizes
  <2>3. e \in PCB /\ SameKin(e, t.pcb[p]) /\ e.state = "ready" /\ e.next = t.pcb[p].next
        /\ e.context = t.at /\ e.raced = t.pcb[p].raced
    BY <1>1, <1>2, <2>1, <2>2 DEF PCB, States, SameKin
  <2>4. PICK f : f = [t.pcb EXCEPT ![p] = e]
    OBVIOUS
  <2>6. PICK v : v = [t EXCEPT !.pcb = f]
    OBVIOUS
  <2>7. u = append(v, p)
    <3>1. v = [t EXCEPT !.pcb[t.cur].context = t.at, !.pcb[t.cur].state = "ready",
                        !.pcb[t.cur].ticks = TimeSlice]
      BY <1>1, <1>2, <2>1, <2>4, <2>6, SysFields DEF SysType
    <3> QED
      BY <1>2, <1>4, <3>1 DEF Requeue
  <2>8. /\ v \in SysType /\ v.stage = t.stage /\ v.cur = t.cur /\ v.at = t.at
        /\ v.ready = t.ready
        /\ \A x \in BLOCKS : v.pcb[x] = IF x = p THEN e ELSE t.pcb[x]
    <3>1. Put(t, v, p, e)
      BY <1>1, <1>2, <2>3, <2>4, <2>6, PutIs
    <3> QED
      BY <3>1 DEF Put
  <2>9. NextOf(v) = NextOf(t)
    BY <2>3, <2>8 DEF NextOf
  <2>10. IsList(v.ready, NextOf(v), q) /\ ~In(q, p)
    BY <1>1, <1>2, <1>4, <2>8, <2>9 DEF Good, Queued
  <2>11. PICK r : r = Append(q, p)
    OBVIOUS
  <2>12. /\ Like(v, u) /\ IsList(u.ready, NextOf(u), r)
         /\ \A x : In(r, x) <=> In(q, x) \/ x = p
    BY <1>1, <1>2, <2>7, <2>8, <2>10, <2>11, AppendIs
  <2>13. u \in SysType /\ \A x \in BLOCKS :
           /\ SameKin(u.pcb[x], t.pcb[x]) /\ u.pcb[x].raced = t.pcb[x].raced
           /\ u.pcb[x].state = (IF x = p THEN "ready" ELSE t.pcb[x].state)
           /\ u.pcb[x].context = (IF x = p THEN t.at ELSE t.pcb[x].context)
           /\ u.pcb[x].taken = t.pcb[x].taken
    <3>1. \A x \in BLOCKS : SameProc(u.pcb[x], v.pcb[x])
      BY <2>12 DEF Like
    <3> QED
      BY <2>3, <2>8, <2>12, <3>1 DEF Like, SameKin, SameProc
  <2>14. Queued(u, r)
    BY <1>1, <1>2, <2>12, <2>13 DEF Good, Queued, Turns
  <2>15. Family(u, K) /\ \A x, c \in BLOCKS : Child(u, x, c) <=> Child(t, x, c)
    <3>1. KinKept(t, u)
      BY <2>13 DEF KinKept
    <3> QED
      BY <1>1, <3>1, FamilyFrame DEF Good
  <2>16. Freed(u)
    BY <2>13 DEF Good, Freed
  <2>17. \A x \in BLOCKS : u.pcb[x].state # "running"
    BY <1>2, <2>13 DEF Good, Turns
  <2>18. ASSUME NEW x \in BLOCKS, u.pcb[x].taken, ~u.pcb[x].raced, Asleep(u, x)
         PROVE  NoZombieOf(u, x)
    <3>1. Seeking(t, x)
      BY <1>2, <2>13, <2>18 DEF Seeking, Asleep
    <3>2. NoZombieOf(t, x)
      BY <2>13, <2>18, <3>1 DEF Good, Waits
    <3> QED
      BY <2>13, <2>15, <3>2 DEF NoZombieOf
  <2>19. Between(u, r, K)
    BY <2>13, <2>14, <2>15, <2>16, <2>17, <2>18 DEF Between
  <2>20. u.ready # None
    <3>1. Len(r) # 0
      <4>1. In(r, p)
        BY <2>12
      <4> QED
        BY <4>1 DEF In
    <3> QED
      BY <2>12, <3>1, ListHead
  <2> QED
    BY <2>19, <2>20
<1> QED
  BY <1>3, <1>4

\* The first of the queue gets the CPU.
Dispatched(u, w, p) ==
  w = [u EXCEPT !.ready = u.pcb[p].next, !.cur = p, !.at = u.pcb[p].context,
                !.pcb[p].next = None, !.pcb[p].state = "running"]

LEMMA DispatchIs ==
  ASSUME NEW u, NEW r, NEW K, Between(u, r, K), NEW p, p = u.ready, p # None,
         NEW w, Dispatched(u, w, p)
  PROVE  Good(w, Without(r, 1), K)
<1>1. u \in SysType /\ IsList(u.ready, NextOf(u), r)
  BY DEF Between, Queued
<1>2. /\ p \in BLOCKS /\ 1 \in 1..Len(r) /\ r[1] = p /\ In(r, p)
      /\ NextOf(u)[p] = Succ(r, 1) /\ Succ(r, 1) \in Links
  BY <1>1, ListHead
<1>3. u.pcb[p].taken /\ u.pcb[p].state = "ready"
  BY <1>2 DEF Between, Queued
<1>4. PICK l \in Links : l = Succ(r, 1) /\ l = u.pcb[p].next
  BY <1>2 DEF NextOf
<1>5. PICK a \in Places : a = u.pcb[p].context
  BY <1>1, <1>2, SysFields, PcbFields
<1>6. PICK e : e = [u.pcb[p] EXCEPT !.next = None, !.state = "running"]
  OBVIOUS
<1>7. u.pcb[p] \in PCB
  BY <1>1, <1>2, SysFields
<1>8. e \in PCB /\ SameKin(e, u.pcb[p]) /\ e.state = "running" /\ e.next = None
      /\ e.context = u.pcb[p].context /\ e.raced = u.pcb[p].raced
  <2>1. None \in Links /\ "running" \in States
    BY ForkSizes DEF States
  <2> QED
    BY <1>6, <1>7, <2>1 DEF PCB, SameKin
<1>9. PICK f : f = [u.pcb EXCEPT ![p] = e]
  OBVIOUS
<1>10. f \in [BLOCKS -> PCB] /\ \A x \in BLOCKS : f[x] = IF x = p THEN e ELSE u.pcb[x]
  BY <1>1, <1>2, <1>8, <1>9, SysFields, PcbPut
<1>11. w = [u EXCEPT !.ready = l, !.cur = p, !.at = a, !.pcb = f]
  <2>1. w = [u EXCEPT !.ready = l, !.cur = p, !.at = a, !.pcb[p].next = None,
                      !.pcb[p].state = "running"]
    BY <1>4, <1>5 DEF Dispatched
  <2>2. u.pcb \in [BLOCKS -> PCB]
    BY <1>1, SysFields
  <2> QED
    BY <1>1, <1>2, <1>6, <1>9, <2>1, <2>2 DEF SysType
<1>12. p \in Links
  BY <1>2, ForkSizes
<1>13. /\ w \in SysType /\ w.cur = p /\ w.at = u.pcb[p].context /\ w.ready = l
       /\ \A x \in BLOCKS : w.pcb[x] = IF x = p THEN e ELSE u.pcb[x]
  BY <1>1, <1>4, <1>5, <1>10, <1>11, <1>12 DEF SysType
<1>14. \A x \in BLOCKS :
         /\ SameKin(w.pcb[x], u.pcb[x]) /\ w.pcb[x].raced = u.pcb[x].raced
         /\ w.pcb[x].state = (IF x = p THEN "running" ELSE u.pcb[x].state)
         /\ w.pcb[x].next = (IF x = p THEN None ELSE u.pcb[x].next)
         /\ w.pcb[x].context = u.pcb[x].context
         /\ w.pcb[x].taken = u.pcb[x].taken
  BY <1>8, <1>13 DEF SameKin
<1>15. PICK N, M : N = NextOf(u) /\ M = NextOf(w)
  OBVIOUS
<1>16. \A x \in BLOCKS : M[x] = IF x = p THEN None ELSE N[x]
  BY <1>14, <1>15 DEF NextOf
<1>17. PICK d : d = 1
  OBVIOUS
<1>18. /\ IsList(l, M, Without(r, d))
       /\ \A x : In(Without(r, d), x) <=> In(r, x) /\ x # r[d]
  <2>1. \A i \in 1..Len(r) : i # d /\ i # d - 1 => M[r[i]] = N[r[i]]
    <3>1. \A i \in 1..Len(r) : r[i] \in BLOCKS /\ (i # 1 => r[i] # r[1])
      BY <1>1, <1>2, ListTypes DEF IsList, Once
    <3> QED
      BY <1>2, <1>16, <1>17, <3>1
  <2>2. IsList(u.ready, N, r) /\ l = Succ(r, d) /\ d = 1 /\ d \in 1..Len(r)
    BY <1>1, <1>2, <1>4, <1>15, <1>17
  <2>3. PICK h : h = u.ready
    OBVIOUS
  <2>4. CutAt(h, l, N, M, r, d)
    BY <2>1, <2>2 DEF CutAt
  <2> QED
    BY <2>2, <2>3, <2>4, ListWithout
<1>19. Queued(w, Without(r, 1))
  <2>1. \A x \in BLOCKS : In(r, x) <=> u.pcb[x].taken /\ u.pcb[x].state = "ready"
    BY DEF Between, Queued
  <2>2. PICK y : y = Without(r, 1)
    OBVIOUS
  <2>3. IsList(w.ready, NextOf(w), y)
    BY <1>13, <1>15, <1>17, <1>18, <2>2
  <2>4. \A x : In(y, x) <=> In(r, x) /\ x # p
    BY <1>2, <1>17, <1>18, <2>2
  <2>5. \A x \in BLOCKS : In(y, x) <=> w.pcb[x].taken /\ w.pcb[x].state = "ready"
    <3>1. \A x \in BLOCKS : w.pcb[x].taken = u.pcb[x].taken
                            /\ w.pcb[x].state = (IF x = p THEN "running" ELSE u.pcb[x].state)
      BY <1>14
    <3> QED
      BY <2>1, <2>4, <3>1
  <2> QED
    BY <2>2, <2>3, <2>5 DEF Queued
<1>20. Family(w, K) /\ \A x, c \in BLOCKS : Child(w, x, c) <=> Child(u, x, c)
  <2>1. KinKept(u, w)
    BY <1>14 DEF KinKept
  <2> QED
    BY <1>1, <2>1, FamilyFrame DEF Between
<1>21. Turns(w)
  BY <1>2, <1>3, <1>13, <1>14 DEF Between, Turns
<1>22. Freed(w)
  BY <1>3, <1>14 DEF Between, Freed
<1>23. ASSUME NEW x \in BLOCKS, w.pcb[x].taken, ~w.pcb[x].raced, Seeking(w, x)
       PROVE  NoZombieOf(w, x)
  <2>1. Asleep(u, x)
    <3>1. CASE x = p
      <4>1. w.pcb[x].state = "running" /\ w.at = u.pcb[p].context
        BY <1>13, <1>14, <1>23, <3>1
      <4>2. w.at = "window"
        BY <1>23, <4>1 DEF Seeking, Asleep
      <4> QED
        BY <1>3, <3>1, <4>1, <4>2 DEF Asleep
    <3>2. CASE x # p
      <4>1. w.pcb[x].state = u.pcb[x].state /\ w.pcb[x].context = u.pcb[x].context
        BY <1>14, <1>23, <3>2
      <4> QED
        BY <1>13, <1>23, <3>2, <4>1 DEF Seeking, Asleep
    <3> QED
      BY <3>1, <3>2
  <2>2. NoZombieOf(u, x)
    BY <1>14, <1>23, <2>1 DEF Between
  <2> QED
    BY <1>14, <1>20, <2>2 DEF NoZombieOf
<1> QED
  BY <1>13, <1>19, <1>20, <1>21, <1>22, <1>23 DEF Good, Waits

LEMMA TicksFit ==
  ASSUME NEW x \in 0..(TickMod - 1)
  PROVE  (x + TickMod - 1) % TickMod \in 0..(TickMod - 1)
<1>1. TickMod \in Nat /\ TickMod > 0 /\ x + TickMod - 1 \in Int
  BY ForkSizes
<1> QED
  BY <1>1

\* timer_handler and schedule_from_interrupt.
LEMMA TimerKeeps ==
  ASSUME NEW t, NEW q, NEW K, Good(t, q, K), NEW w, w = timer_handler(t)
  PROVE  \E r : Good(w, r, K)
<1>1. t \in SysType /\ t.cur \in BLOCKS /\ t.pcb[t.cur] \in PCB
  BY SysFields DEF Good, Turns
<1>2. PICK n : n = (t.pcb[t.cur].ticks + TickMod - 1) % TickMod
  OBVIOUS
<1>3. n \in 0..(TickMod - 1)
  BY <1>1, <1>2, TicksFit, PcbFields
<1>4. PICK s : s = [t EXCEPT !.pcb[t.cur].ticks = n]
  OBVIOUS
<1>5. Good(s, q, K)
  BY <1>3, <1>4, TicksIs
<1>6. w = IF n = 0 THEN schedule_from_interrupt(s) ELSE s
  BY <1>2, <1>4 DEF timer_handler
<1>7. CASE n = 0
  <2>1. PICK u : u = Requeue(s)
    OBVIOUS
  <2>2. PICK r : Between(u, r, K) /\ (u.ready = None => u = s)
    BY <1>5, <2>1, RequeueIs
  <2>3. PICK p : p = u.ready
    OBVIOUS
  <2>4. CASE p = None
    <3>1. w = [s EXCEPT !.pcb[s.cur].ticks = TimeSlice]
      BY <1>6, <1>7, <2>1, <2>2, <2>3, <2>4 DEF schedule_from_interrupt
    <3>2. TimeSlice \in 0..(TickMod - 1)
      BY ForkSizes
    <3> QED
      BY <1>5, <3>1, <3>2, TicksIs
  <2>5. CASE p # None
    <3>1. Dispatched(u, w, p)
      BY <1>6, <1>7, <2>1, <2>3, <2>5 DEF schedule_from_interrupt, Dispatched
    <3> QED
      BY <2>2, <2>3, <2>5, <3>1, DispatchIs
  <2> QED
    BY <2>4, <2>5
<1>8. CASE n # 0
  BY <1>5, <1>6, <1>8
<1> QED
  BY <1>7, <1>8

----------------------------------------------------------------------------
(***************************************************************************)
(* The calls.                                                              *)
(***************************************************************************)
\* process_unblock, at the level of the queue: p joins q, which becomes r.
Unblocked(t, u, p, q, r) ==
  /\ u \in SysType /\ u.cur = t.cur /\ u.at = t.at
  /\ IsList(u.ready, NextOf(u), r)
  /\ \A x : In(r, x) <=> In(q, x) \/ x = p
  /\ \A x \in BLOCKS :
       /\ SameKin(u.pcb[x], t.pcb[x]) /\ u.pcb[x].raced = t.pcb[x].raced
       /\ u.pcb[x].state = (IF x = p THEN "ready" ELSE t.pcb[x].state)
       /\ u.pcb[x].context = t.pcb[x].context

LEMMA UnblockIs ==
  ASSUME NEW t \in SysType, NEW q, IsList(t.ready, NextOf(t), q),
         NEW p \in BLOCKS, ~In(q, p), NEW u, u = process_unblock(t, p)
  PROVE  \E r : Unblocked(t, u, p, q, r)
<1>1. PICK e : e = [t.pcb[p] EXCEPT !.state = "ready"]
  OBVIOUS
<1>2. t.pcb[p] \in PCB
  BY SysFields
<1>3. e \in PCB /\ SameKin(e, t.pcb[p]) /\ e.state = "ready" /\ e.next = t.pcb[p].next
      /\ e.context = t.pcb[p].context /\ e.raced = t.pcb[p].raced
  BY <1>1, <1>2 DEF PCB, States, SameKin
<1>4. PICK f : f = [t.pcb EXCEPT ![p] = e]
  OBVIOUS
<1>5. PICK v : v = [t EXCEPT !.pcb = f]
  OBVIOUS
<1>6. u = append(v, p)
  BY <1>1, <1>4, <1>5 DEF process_unblock
<1>7. Put(t, v, p, e)
  BY <1>3, <1>4, <1>5, PutIs
<1>8. v \in SysType /\ v.cur = t.cur /\ v.at = t.at /\ v.ready = t.ready
      /\ \A x \in BLOCKS : v.pcb[x] = IF x = p THEN e ELSE t.pcb[x]
  BY <1>7 DEF Put
<1>9. NextOf(v) = NextOf(t)
  BY <1>3, <1>8 DEF NextOf
<1>10. IsList(v.ready, NextOf(v), q)
  BY <1>8, <1>9
<1>11. PICK r : r = Append(q, p)
  OBVIOUS
<1>12. /\ Like(v, u) /\ IsList(u.ready, NextOf(u), r)
       /\ \A x : In(r, x) <=> In(q, x) \/ x = p
  BY <1>6, <1>8, <1>10, <1>11, AppendIs
<1>13. u \in SysType /\ u.cur = t.cur /\ u.at = t.at /\ \A x \in BLOCKS : SameProc(u.pcb[x], v.pcb[x])
  BY <1>8, <1>12 DEF Like
<1>14. \A x \in BLOCKS :
         /\ SameKin(u.pcb[x], t.pcb[x]) /\ u.pcb[x].raced = t.pcb[x].raced
         /\ u.pcb[x].state = (IF x = p THEN "ready" ELSE t.pcb[x].state)
         /\ u.pcb[x].context = t.pcb[x].context
  BY <1>3, <1>8, <1>13 DEF SameKin, SameProc
<1> QED
  BY <1>12, <1>13, <1>14 DEF Unblocked

Execs(t, u) == u = [t EXCEPT !.pcb[t.cur].context = "user", !.pcb[t.cur].ticks = TimeSlice]

LEMMA ExecKeeps ==
  ASSUME NEW t, NEW q, NEW K, Good(t, q, K), NEW u, Execs(t, u)
  PROVE  Good(u, q, K)
<1>1. t \in SysType /\ t.cur \in BLOCKS /\ t.pcb[t.cur] \in PCB /\ t.pcb[t.cur].state # "ready"
  BY SysFields DEF Good, Turns
<1>2. PICK p : p = t.cur
  OBVIOUS
<1>3. PICK e : e = [t.pcb[p] EXCEPT !.context = "user", !.ticks = TimeSlice]
  OBVIOUS
<1>4. TimeSlice \in 0..(TickMod - 1)
  BY ForkSizes
<1>5. e \in PCB /\ SameKin(e, t.pcb[p]) /\ e.state = t.pcb[p].state /\ e.next = t.pcb[p].next
      /\ e.raced = t.pcb[p].raced
  BY <1>1, <1>2, <1>3, <1>4 DEF PCB, Places, SameKin
<1>6. PICK f : f = [t.pcb EXCEPT ![p] = e]
  OBVIOUS
<1>7. u = [t EXCEPT !.pcb = f]
  BY <1>1, <1>2, <1>3, <1>6, SysFields DEF SysType, Execs
<1>8. Put(t, u, p, e)
  BY <1>1, <1>2, <1>5, <1>6, <1>7, PutIs
<1>9. u \in SysType /\ u.cur = t.cur /\ u.at = t.at /\ u.ready = t.ready
      /\ \A x \in BLOCKS :
           /\ SameKin(u.pcb[x], t.pcb[x]) /\ u.pcb[x].state = t.pcb[x].state
           /\ u.pcb[x].next = t.pcb[x].next /\ u.pcb[x].taken = t.pcb[x].taken
           /\ (x # p => u.pcb[x].context = t.pcb[x].context) /\ u.pcb[x].raced = t.pcb[x].raced
  BY <1>5, <1>8 DEF Put, SameKin
<1>10. Queued(u, q)
  <2>1. QueueKept(t, u)
    BY <1>9 DEF QueueKept
  <2> QED
    BY <2>1, QueuedFrame DEF Good
<1>11. Family(u, K) /\ \A x, c \in BLOCKS : Child(u, x, c) <=> Child(t, x, c)
  <2>1. KinKept(t, u)
    BY <1>9 DEF KinKept
  <2> QED
    BY <1>1, <2>1, FamilyFrame DEF Good
<1>12. Turns(u) /\ Freed(u)
  BY <1>1, <1>9 DEF Good, Turns, Freed
<1>13. \A x \in BLOCKS : Seeking(u, x) => Seeking(t, x)
  BY <1>1, <1>2, <1>9 DEF Seeking, Asleep
<1>14. Waits(u)
  BY <1>9, <1>11, <1>13 DEF Good, Waits, NoZombieOf
<1> QED
  BY <1>9, <1>10, <1>11, <1>12, <1>14 DEF Good

\* Where the current process is in sys_wait.
LEMMA AtIs ==
  ASSUME NEW t, NEW q, NEW K, Good(t, q, K), NEW a \in Places, NEW u, u = [t EXCEPT !.at = a],
         a = "window" => t.pcb[t.cur].state # "zombie" /\ NoZombieOf(t, t.cur)
  PROVE  Good(u, q, K)
<1>1. t \in SysType
  BY DEF Good
<1>2. u \in SysType /\ u.cur = t.cur /\ u.ready = t.ready /\ u.pcb = t.pcb /\ u.at = a
  BY <1>1 DEF SysType
<1>3. Queued(u, q)
  <2>1. QueueKept(t, u)
    BY <1>2 DEF QueueKept
  <2> QED
    BY <2>1, QueuedFrame DEF Good
<1>4. Family(u, K) /\ \A x, c \in BLOCKS : Child(u, x, c) <=> Child(t, x, c)
  <2>1. KinKept(t, u)
    BY <1>2 DEF KinKept, SameKin
  <2> QED
    BY <1>1, <2>1, FamilyFrame DEF Good
<1>5. Turns(u) /\ Freed(u)
  BY <1>2 DEF Good, Turns, Freed
<1>6. Waits(u)
  BY <1>2, <1>4 DEF Good, Waits, Seeking, Asleep, NoZombieOf
<1> QED
  BY <1>2, <1>3, <1>4, <1>5, <1>6 DEF Good

ZombiesOf(t) == {c \in Elements(Kids(t, t.cur)) : t.pcb[c].state = "zombie"}

\* What sys_wait finds in the child list.
LEMMA KidsOf ==
  ASSUME NEW t, NEW q, NEW K, Good(t, q, K), NEW p \in BLOCKS, t.pcb[p].taken
  PROVE  /\ Kids(t, p) = K[p] /\ IsList(t.pcb[p].first_child, SibOf(t), K[p])
         /\ Elements(Kids(t, p)) = {c \in BLOCKS : Child(t, p, c)}
<1>1. /\ IsList(t.pcb[p].first_child, SibOf(t), K[p])
      /\ \A c \in BLOCKS : In(K[p], c) <=> Child(t, p, c)
  BY DEF Good, Family
<1>2. Kids(t, p) = K[p]
  BY <1>1, KidsIs
<1>3. \A c : c \in Elements(K[p]) <=> In(K[p], c)
  BY DEF Elements, In
<1>4. \A c : In(K[p], c) => c \in BLOCKS
  BY <1>1, ListTypes DEF In
<1> QED
  BY <1>1, <1>2, <1>3, <1>4

LEMMA WaitSearchKeeps ==
  ASSUME NEW t, NEW q, NEW K, Good(t, q, K), t.pcb[t.cur].state # "zombie", ZombiesOf(t) = {},
         NEW u, u = [t EXCEPT !.at = "window"]
  PROVE  Good(u, q, K)
<1>1. t.cur \in BLOCKS /\ t.pcb[t.cur].taken
  BY DEF Good, Turns
<1>2. Elements(Kids(t, t.cur)) = {c \in BLOCKS : Child(t, t.cur, c)}
  BY <1>1, KidsOf
<1>3. NoZombieOf(t, t.cur)
  BY <1>2 DEF NoZombieOf, ZombiesOf
<1>4. "window" \in Places
  BY DEF Places
<1> QED
  BY <1>3, <1>4, AtIs

LEMMA WaitBlockKeeps ==
  ASSUME NEW t, NEW q, NEW K, Good(t, q, K), t.at = "window",
         NEW w, w = [schedule(process_block(t, t.cur)) EXCEPT !.at = "user"]
  PROVE  Good(w, q, K)
<1>1. t \in SysType /\ t.cur \in BLOCKS /\ t.pcb[t.cur] \in PCB /\ t.pcb[t.cur].taken
      /\ t.pcb[t.cur].state # "ready"
  BY SysFields DEF Good, Turns
<1>2. PICK p : p = t.cur
  OBVIOUS
<1>3. PICK e : e = [t.pcb[p] EXCEPT !.state = "blocked"]
  OBVIOUS
<1>4. e \in PCB /\ SameKin(e, t.pcb[p]) /\ e.state = "blocked" /\ e.next = t.pcb[p].next
      /\ e.context = t.pcb[p].context /\ e.raced = t.pcb[p].raced
  BY <1>1, <1>2, <1>3 DEF PCB, States, SameKin
<1>5. PICK f : f = [t.pcb EXCEPT ![p] = e]
  OBVIOUS
<1>6. PICK v : v = [t EXCEPT !.pcb = f]
  OBVIOUS
<1>7. PICK u : u = Unlink(v, p)
  OBVIOUS
<1>8. process_block(t, t.cur) = u
  BY <1>2, <1>3, <1>5, <1>6, <1>7 DEF process_block
<1>9. Put(t, v, p, e)
  BY <1>1, <1>2, <1>4, <1>5, <1>6, PutIs
<1>10. v \in SysType /\ v.cur = t.cur /\ v.at = t.at /\ v.ready = t.ready
       /\ \A x \in BLOCKS : v.pcb[x] = IF x = p THEN e ELSE t.pcb[x]
  BY <1>9 DEF Put
<1>11. NextOf(v) = NextOf(t)
  BY <1>4, <1>10 DEF NextOf
<1>12. IsList(v.ready, NextOf(v), q) /\ ~In(q, p)
  BY <1>1, <1>2, <1>10, <1>11 DEF Good, Queued
<1>13. Like(v, u) /\ IsList(u.ready, NextOf(u), q)
  BY <1>1, <1>2, <1>7, <1>10, <1>12, UnlinkIs
<1>14. u \in SysType /\ u.cur = t.cur /\ u.at = t.at /\ \A x \in BLOCKS : SameProc(u.pcb[x], v.pcb[x])
  BY <1>10, <1>13 DEF Like
<1>15. \A x \in BLOCKS :
         /\ SameKin(u.pcb[x], t.pcb[x]) /\ u.pcb[x].raced = t.pcb[x].raced
         /\ u.pcb[x].state = (IF x = p THEN "blocked" ELSE t.pcb[x].state)
         /\ u.pcb[x].context = t.pcb[x].context /\ u.pcb[x].taken = t.pcb[x].taken
  BY <1>4, <1>10, <1>14 DEF SameKin, SameProc
<1>16. Queued(u, q)
  BY <1>1, <1>2, <1>13, <1>15 DEF Good, Queued
<1>17. Family(u, K) /\ \A x, c \in BLOCKS : Child(u, x, c) <=> Child(t, x, c)
  <2>1. KinKept(t, u)
    BY <1>15 DEF KinKept
  <2> QED
    BY <1>1, <2>1, FamilyFrame DEF Good
<1>18. Turns(u) /\ Freed(u)
  BY <1>1, <1>2, <1>14, <1>15 DEF Good, Turns, Freed
<1>19. \A x \in BLOCKS : Seeking(u, x) => Seeking(t, x)
  BY <1>1, <1>2, <1>14, <1>15 DEF Seeking, Asleep
<1>20. Waits(u)
  BY <1>15, <1>17, <1>19 DEF Good, Waits, NoZombieOf
<1>21. Good(u, q, K)
  BY <1>14, <1>16, <1>17, <1>18, <1>20 DEF Good
<1>22. PICK y : y = [u EXCEPT !.pcb[u.cur].ticks = 0]
  OBVIOUS
<1>23. 0 \in 0..(TickMod - 1)
  BY ForkSizes
<1>24. Good(y, q, K)
  BY <1>21, <1>22, <1>23, TicksIs
<1>25. w = [y EXCEPT !.at = "user"]
  BY <1>8, <1>22 DEF schedule
<1>26. "user" \in Places /\ "user" # "window"
  BY DEF Places
<1> QED
  BY <1>24, <1>25, <1>26, AtIs

\* sys_exit up to the mark, and from the mark on: t, in which p is a zombie that
\* has not looked at its parent yet, is an earlier state v but for that.
Marked(v) == [v EXCEPT !.pcb[v.cur].state = "zombie", !.at = "exit"]
Leaving(t, q, K) ==
  \E v : Good(v, q, K) /\ v.at = "user" /\ v.pcb[v.cur].state # "zombie" /\ t = Marked(v)

Mark(t, v) ==
  /\ t.stage = v.stage /\ t.ready = v.ready /\ t.cur = v.cur /\ t.at = "exit"
  /\ DOMAIN t = {"stage", "pcb", "ready", "cur", "at"}
  /\ t.pcb \in [BLOCKS -> PCB]
  /\ t.pcb[v.cur] = [v.pcb[v.cur] EXCEPT !.state = "zombie"]
  /\ \A x \in BLOCKS : x # v.cur => t.pcb[x] = v.pcb[x]

LEMMA MarkIs ==
  ASSUME NEW v \in SysType, v.cur \in BLOCKS, NEW t, t = Marked(v)
  PROVE  Mark(t, v) /\ t.pcb = [v.pcb EXCEPT ![v.cur] = [v.pcb[v.cur] EXCEPT !.state = "zombie"]]
<1>1. PICK p : p = v.cur
  OBVIOUS
<1>2. PICK e : e = [v.pcb[p] EXCEPT !.state = "zombie"]
  OBVIOUS
<1>3. v.pcb[p] \in PCB /\ v.pcb \in [BLOCKS -> PCB] /\ p \in BLOCKS
  BY <1>1, SysFields
<1>4. e \in PCB
  BY <1>2, <1>3 DEF PCB, States
<1>5. PICK h : h = [v.pcb EXCEPT ![p] = e]
  OBVIOUS
<1>6. h \in [BLOCKS -> PCB] /\ \A x \in BLOCKS : h[x] = IF x = p THEN e ELSE v.pcb[x]
  BY <1>3, <1>4, <1>5, PcbPut
<1>7. t = [v EXCEPT !.pcb = h, !.at = "exit"]
  BY <1>1, <1>2, <1>5 DEF Marked
<1>8. /\ t.stage = v.stage /\ t.ready = v.ready /\ t.cur = v.cur /\ t.at = "exit"
      /\ DOMAIN t = {"stage", "pcb", "ready", "cur", "at"} /\ t.pcb = h
  BY <1>7 DEF SysType
<1> QED
  BY <1>1, <1>2, <1>3, <1>5, <1>6, <1>8 DEF Mark

\* The process p exits; f is its parent, and missed says whether f is marked as
\* raced.
Dies(t, z, p, f, missed) ==
  /\ z \in SysType /\ z.cur = t.cur /\ z.at = t.at /\ z.ready = t.ready
  /\ \A x \in BLOCKS :
       /\ SameKin(z.pcb[x], t.pcb[x])
       /\ (z.pcb[x].raced <=> (missed /\ x = f) \/ t.pcb[x].raced)
       /\ z.pcb[x].state = (IF x = p THEN "zombie" ELSE t.pcb[x].state)
       /\ z.pcb[x].context = t.pcb[x].context /\ z.pcb[x].next = t.pcb[x].next

\* The ticks are cleared, and the process is in user code or halts.
Cleared(t, z, p, n) == z = [t EXCEPT !.pcb[p].ticks = n, !.at = "user"]

LEMMA DiesIs ==
  ASSUME NEW v \in SysType, v.at = "user", NEW p, p = v.cur, p \in BLOCKS, NEW t, t = Marked(v),
         NEW n \in 0..(TickMod - 1), NEW f, NEW z, Cleared(t, z, p, n)
  PROVE  Dies(v, z, p, f, FALSE)
<1>1. v.pcb[p] \in PCB /\ v.pcb \in [BLOCKS -> PCB]
  BY SysFields
<1>2. PICK d : d = [v.pcb[p] EXCEPT !.state = "zombie"]
  OBVIOUS
<1>3. PICK e : e = [d EXCEPT !.ticks = n]
  OBVIOUS
<1>4. e \in PCB /\ SameKin(e, v.pcb[p]) /\ e.state = "zombie" /\ e.next = v.pcb[p].next
      /\ e.context = v.pcb[p].context /\ e.raced = v.pcb[p].raced
  <2>1. d \in PCB /\ SameKin(d, v.pcb[p]) /\ d.state = "zombie" /\ d.next = v.pcb[p].next
        /\ d.context = v.pcb[p].context /\ d.raced = v.pcb[p].raced
    BY <1>1, <1>2 DEF PCB, States, SameKin
  <2>2. e \in PCB /\ SameKin(e, d) /\ e.state = d.state /\ e.next = d.next
        /\ e.context = d.context /\ e.raced = d.raced
    BY <1>3, <2>1 DEF PCB, SameKin
  <2> QED
    BY <2>1, <2>2 DEF SameKin
<1>5. PICK g : g = [v.pcb EXCEPT ![p] = e]
  OBVIOUS
<1>6. Mark(t, v) /\ t.pcb = [v.pcb EXCEPT ![p] = d]
  BY <1>2, MarkIs
<1>7. [t.pcb EXCEPT ![p].ticks = n] = g
  BY <1>1, <1>3, <1>5, <1>6
<1>8. z = [t EXCEPT !.pcb = g, !.at = "user"]
  BY <1>7 DEF Cleared
<1>9. /\ z.stage = v.stage /\ z.ready = v.ready /\ z.cur = v.cur /\ z.at = v.at /\ z.pcb = g
      /\ z \in SysType
  <2>1. g \in [BLOCKS -> PCB]
    BY <1>1, <1>4, <1>5, PcbPut
  <2>2. z = [stage |-> v.stage, pcb |-> g, ready |-> v.ready, cur |-> v.cur, at |-> "user"]
    BY <1>6, <1>8 DEF Mark
  <2> QED
    BY <2>1, <2>2 DEF SysType, Places
<1>10. \A x \in BLOCKS : z.pcb[x] = IF x = p THEN e ELSE v.pcb[x]
  BY <1>1, <1>4, <1>5, <1>9, PcbPut
<1> QED
  BY <1>4, <1>9, <1>10 DEF SameKin, Dies

\* The process f is marked as raced.
Races(w, u, f) ==
  /\ u \in SysType /\ u.cur = w.cur /\ u.at = w.at /\ u.ready = w.ready
  /\ \A x \in BLOCKS :
       /\ SameKin(u.pcb[x], w.pcb[x])
       /\ (u.pcb[x].raced <=> x = f \/ w.pcb[x].raced)
       /\ u.pcb[x].state = w.pcb[x].state /\ u.pcb[x].next = w.pcb[x].next
       /\ u.pcb[x].context = w.pcb[x].context

LEMMA RacesIs ==
  ASSUME NEW w \in SysType, NEW f \in BLOCKS, NEW u, u = [w EXCEPT !.pcb[f].raced = TRUE]
  PROVE  Races(w, u, f)
<1>1. PICK d : d = [w.pcb[f] EXCEPT !.raced = TRUE]
  OBVIOUS
<1>2. w.pcb[f] \in PCB
  BY SysFields
<1>3. d \in PCB /\ SameKin(d, w.pcb[f]) /\ d.state = w.pcb[f].state /\ d.next = w.pcb[f].next
      /\ d.context = w.pcb[f].context /\ d.raced = TRUE
  BY <1>1, <1>2 DEF PCB, SameKin
<1>4. PICK h : h = [w.pcb EXCEPT ![f] = d]
  OBVIOUS
<1>5. u = [w EXCEPT !.pcb = h]
  BY <1>1, <1>4
<1>6. Put(w, u, f, d)
  BY <1>3, <1>4, <1>5, PutIs
<1>8. u \in SysType /\ u.cur = w.cur /\ u.at = w.at /\ u.ready = w.ready
      /\ \A x \in BLOCKS : u.pcb[x] = IF x = f THEN d ELSE w.pcb[x]
  BY <1>6 DEF Put
<1>9. ASSUME NEW x \in BLOCKS
      PROVE  /\ SameKin(u.pcb[x], w.pcb[x])
             /\ (u.pcb[x].raced <=> x = f \/ w.pcb[x].raced)
             /\ u.pcb[x].state = w.pcb[x].state /\ u.pcb[x].next = w.pcb[x].next
             /\ u.pcb[x].context = w.pcb[x].context
  <2>1. CASE x = f
    <3>1. u.pcb[x] = d /\ w.pcb[x] = w.pcb[f]
      BY <1>8, <1>9, <2>1
    <3> QED
      BY <1>3, <2>1, <3>1
  <2>2. CASE x # f
    <3>1. u.pcb[x] = w.pcb[x]
      BY <1>8, <1>9, <2>2
    <3> QED
      BY <2>2, <3>1 DEF SameKin
  <2> QED
    BY <2>1, <2>2
<1> QED
  BY <1>8, <1>9 DEF Races

\* The parent of p has missed its exit.
Lost(t, p) == ~t.pcb[p].orphan /\ t.pcb[p].parent # None

LEMMA MissIs ==
  ASSUME NEW t, NEW p, p = t.cur, p \in BLOCKS, NEW f, f = t.pcb[p].parent, f # None => f \in BLOCKS,
         NEW z, Dies(t, z, p, f, FALSE),
         NEW missed \in BOOLEAN, missed <=> Lost(t, p), NEW y, y = Miss(z)
  PROVE  Dies(t, y, p, f, missed)
<1>1. z \in SysType /\ z.cur = t.cur /\ z.at = t.at /\ z.ready = t.ready
      /\ \A x \in BLOCKS :
           /\ SameKin(z.pcb[x], t.pcb[x]) /\ (z.pcb[x].raced <=> t.pcb[x].raced)
           /\ z.pcb[x].state = (IF x = p THEN "zombie" ELSE t.pcb[x].state)
           /\ z.pcb[x].context = t.pcb[x].context /\ z.pcb[x].next = t.pcb[x].next
  BY DEF Dies
<1>2. z.pcb[p].parent = f /\ z.pcb[p].orphan = t.pcb[p].orphan
  BY <1>1 DEF SameKin
<1>3. y = IF missed THEN [z EXCEPT !.pcb[f].raced = TRUE] ELSE z
  <2>1. z.pcb[z.cur].parent = f /\ z.pcb[z.cur].orphan = t.pcb[p].orphan
    BY <1>1, <1>2
  <2>2. missed <=> ~(z.pcb[z.cur].orphan \/ f = None)
    BY <2>1 DEF Lost
  <2>3. y = IF z.pcb[z.cur].orphan \/ f = None THEN z ELSE [z EXCEPT !.pcb[f].raced = TRUE]
    BY <2>1, Zenon DEF Miss
  <2>4. CASE missed
    BY <2>2, <2>3, <2>4, Zenon
  <2>5. CASE ~missed
    BY <2>2, <2>3, <2>5, Zenon
  <2> QED
    BY <2>4, <2>5, Zenon
<1>4. CASE ~missed
  BY <1>1, <1>3, <1>4 DEF Dies
<1>5. CASE missed
  <2>1. Races(z, y, f)
    BY <1>1, <1>3, <1>5, RacesIs DEF Lost
  <2>2. y \in SysType /\ y.cur = t.cur /\ y.at = t.at /\ y.ready = t.ready
    BY <1>1, <2>1 DEF Races
  <2>3. ASSUME NEW x \in BLOCKS
        PROVE  /\ SameKin(y.pcb[x], t.pcb[x])
               /\ (y.pcb[x].raced <=> (missed /\ x = f) \/ t.pcb[x].raced)
               /\ y.pcb[x].state = (IF x = p THEN "zombie" ELSE t.pcb[x].state)
               /\ y.pcb[x].context = t.pcb[x].context /\ y.pcb[x].next = t.pcb[x].next
    <3>1. /\ SameKin(y.pcb[x], z.pcb[x]) /\ (y.pcb[x].raced <=> x = f \/ z.pcb[x].raced)
          /\ y.pcb[x].state = z.pcb[x].state /\ y.pcb[x].next = z.pcb[x].next
          /\ y.pcb[x].context = z.pcb[x].context
      BY <2>1, <2>3 DEF Races
    <3>2. SameKin(z.pcb[x], t.pcb[x]) /\ (z.pcb[x].raced <=> t.pcb[x].raced)
          /\ z.pcb[x].state = (IF x = p THEN "zombie" ELSE t.pcb[x].state)
          /\ z.pcb[x].context = t.pcb[x].context /\ z.pcb[x].next = t.pcb[x].next
      BY <1>1, <2>3
    <3>3. SameKin(y.pcb[x], t.pcb[x])
      BY <3>1, <3>2 DEF SameKin
    <3> QED
      BY <1>5, <3>1, <3>2, <3>3
  <2> QED
    BY <2>2, <2>3 DEF Dies
<1> QED
  BY <1>4, <1>5

\* sys_exit wakes the parent.
Woke(t, f) == f # None /\ t.pcb[f].state = "blocked"
Woken(t, v, p, f, missed, q, r) ==
  /\ v \in SysType /\ v.cur = t.cur /\ v.at = t.at
  /\ IsList(v.ready, NextOf(v), r)
  /\ \A x : In(r, x) <=> In(q, x) \/ (Woke(t, f) /\ x = f)
  /\ \A x \in BLOCKS :
       /\ SameKin(v.pcb[x], t.pcb[x])
       /\ (v.pcb[x].raced <=> (missed /\ x = f) \/ t.pcb[x].raced)
       /\ v.pcb[x].state = (IF x = p THEN "zombie"
                            ELSE IF Woke(t, f) /\ x = f THEN "ready" ELSE t.pcb[x].state)
       /\ v.pcb[x].context = t.pcb[x].context

LEMMA ParentIs ==
  ASSUME NEW t, NEW q, NEW K, Good(t, q, K), NEW f, f = t.pcb[t.cur].parent
  PROVE  /\ f # None => f \in BLOCKS /\ f # t.cur
         /\ Woke(t, f) => f \in BLOCKS /\ f # t.cur /\ t.pcb[f].taken /\ ~In(q, f)
<1>1. t \in SysType /\ t.cur \in BLOCKS /\ t.pcb[t.cur] \in PCB /\ t.pcb[t.cur].taken
  BY SysFields DEF Good, Turns
<1>2. f \in Links
  BY <1>1, PcbFields
<1>3. f # None => f \in BLOCKS /\ f # t.cur
  BY <1>1, <1>2 DEF Good, Family, Links
<1>4. Woke(t, f) => f \in BLOCKS /\ t.pcb[f].taken /\ ~In(q, f)
  BY <1>3 DEF Woke, Good, Freed, Queued
<1> QED
  BY <1>3, <1>4 DEF Woke

LEMMA WakeIs ==
  ASSUME NEW t, NEW q, NEW K, Good(t, q, K), NEW p, p = t.cur, NEW f, f = t.pcb[p].parent,
         NEW missed \in BOOLEAN,
         NEW z, Dies(t, z, p, f, missed), NEW v, v = WakeParent(z, f)
  PROVE  \E r : Woken(t, v, p, f, missed, q, r)
<1>1. z \in SysType /\ z.cur = t.cur /\ z.at = t.at /\ z.ready = t.ready
      /\ \A x \in BLOCKS :
           /\ SameKin(z.pcb[x], t.pcb[x])
           /\ (z.pcb[x].raced <=> (missed /\ x = f) \/ t.pcb[x].raced)
           /\ z.pcb[x].state = (IF x = p THEN "zombie" ELSE t.pcb[x].state)
           /\ z.pcb[x].context = t.pcb[x].context /\ z.pcb[x].next = t.pcb[x].next
  BY DEF Dies
<1>2. IsList(z.ready, NextOf(z), q)
  <2>1. NextOf(z) = NextOf(t)
    BY <1>1 DEF NextOf
  <2> QED
    BY <1>1, <2>1 DEF Good, Queued
<1>3. /\ f # None => f \in BLOCKS /\ f # p
      /\ Woke(t, f) => f \in BLOCKS /\ f # p /\ t.pcb[f].taken /\ ~In(q, f)
  BY ParentIs
<1>4. CASE ~Woke(t, f)
  <2>1. v = z
    <3>1. f # None => z.pcb[f].state # "blocked"
      BY <1>1, <1>3, <1>4 DEF Woke
    <3> QED
      BY <3>1 DEF WakeParent
  <2>2. Woken(t, z, p, f, missed, q, q)
    BY <1>1, <1>2, <1>4 DEF Woken
  <2> QED
    BY <2>1, <2>2
<1>5. CASE Woke(t, f)
  <2>1. f \in BLOCKS /\ f # p /\ ~In(q, f) /\ f # None
    BY <1>3, <1>5 DEF Woke
  <2>2. z.pcb[f].state = "blocked"
    BY <1>1, <1>5, <2>1 DEF Woke
  <2>3. v = process_unblock(z, f)
    BY <2>1, <2>2 DEF WakeParent
  <2>4. PICK r : Unblocked(z, v, f, q, r)
    BY <1>1, <1>2, <2>1, <2>3, UnblockIs
  <2>5. /\ v \in SysType /\ v.cur = z.cur /\ v.at = z.at
        /\ IsList(v.ready, NextOf(v), r)
        /\ \A x : In(r, x) <=> In(q, x) \/ x = f
        /\ \A x \in BLOCKS :
             /\ SameKin(v.pcb[x], z.pcb[x]) /\ v.pcb[x].raced = z.pcb[x].raced
             /\ v.pcb[x].state = (IF x = f THEN "ready" ELSE z.pcb[x].state)
             /\ v.pcb[x].context = z.pcb[x].context
    BY <2>4 DEF Unblocked
  <2>6. ASSUME NEW x \in BLOCKS
        PROVE  /\ SameKin(v.pcb[x], t.pcb[x])
               /\ (v.pcb[x].raced <=> (missed /\ x = f) \/ t.pcb[x].raced)
               /\ v.pcb[x].state = (IF x = p THEN "zombie"
                                    ELSE IF Woke(t, f) /\ x = f THEN "ready" ELSE t.pcb[x].state)
               /\ v.pcb[x].context = t.pcb[x].context
    <3>1. SameKin(v.pcb[x], z.pcb[x]) /\ SameKin(z.pcb[x], t.pcb[x])
      BY <1>1, <2>5, <2>6
    <3>2. SameKin(v.pcb[x], t.pcb[x])
      BY <3>1 DEF SameKin
    <3>3. (v.pcb[x].raced <=> (missed /\ x = f) \/ t.pcb[x].raced)
          /\ v.pcb[x].context = t.pcb[x].context
      <4>1. v.pcb[x].raced = z.pcb[x].raced /\ v.pcb[x].context = z.pcb[x].context
        BY <2>5, <2>6
      <4>2. (z.pcb[x].raced <=> (missed /\ x = f) \/ t.pcb[x].raced)
            /\ z.pcb[x].context = t.pcb[x].context
        BY <1>1, <2>6
      <4> QED
        BY <4>1, <4>2
    <3>4. v.pcb[x].state = (IF x = f THEN "ready" ELSE z.pcb[x].state)
          /\ z.pcb[x].state = (IF x = p THEN "zombie" ELSE t.pcb[x].state)
      BY <1>1, <2>5, <2>6
    <3> QED
      BY <1>5, <2>1, <3>2, <3>3, <3>4
  <2>7. Woken(t, v, p, f, missed, q, r)
    BY <1>1, <1>5, <2>5, <2>6 DEF Woken
  <2> QED
    BY <2>7
<1> QED
  BY <1>4, <1>5

LEMMA ExitIs ==
  ASSUME NEW t, NEW q, NEW K, Good(t, q, K), t.at = "user",
         NEW p, p = t.cur, NEW f, f = t.pcb[p].parent, NEW missed \in BOOLEAN,
         Lost(t, p) /\ t.pcb[f].context = "window" => missed,
         NEW v, NEW r, Woken(t, v, p, f, missed, q, r), NEW u, SameView(v, u)
  PROVE  Good(u, r, K)
<1>1. t \in SysType /\ p \in BLOCKS /\ t.pcb[p].taken /\ t.pcb[p].state # "ready"
  BY DEF Good, Turns
<1>2. PICK woke \in BOOLEAN : woke <=> Woke(t, f)
  OBVIOUS
<1>3. /\ f # None => f \in BLOCKS /\ f # p
      /\ woke => f \in BLOCKS /\ f # p /\ f # None /\ t.pcb[f].taken /\ ~In(q, f)
                 /\ t.pcb[f].state = "blocked"
  BY <1>2, ParentIs DEF Woke
<1>4. /\ v \in SysType /\ v.cur = t.cur /\ v.at = t.at
      /\ IsList(v.ready, NextOf(v), r)
      /\ \A x : In(r, x) <=> In(q, x) \/ (woke /\ x = f)
      /\ \A x \in BLOCKS :
           /\ SameKin(v.pcb[x], t.pcb[x])
           /\ (v.pcb[x].raced <=> (missed /\ x = f) \/ t.pcb[x].raced)
           /\ v.pcb[x].state = (IF x = p THEN "zombie"
                                ELSE IF woke /\ x = f THEN "ready" ELSE t.pcb[x].state)
           /\ v.pcb[x].context = t.pcb[x].context
  BY <1>2 DEF Woken
<1>6. u \in SysType /\ u.cur = t.cur /\ u.at = t.at /\ u.ready = v.ready
       /\ \A x \in BLOCKS :
            /\ SameKin(u.pcb[x], t.pcb[x])
            /\ (u.pcb[x].raced <=> (missed /\ x = f) \/ t.pcb[x].raced)
            /\ u.pcb[x].state = v.pcb[x].state /\ u.pcb[x].next = v.pcb[x].next
            /\ u.pcb[x].context = t.pcb[x].context
  BY <1>4 DEF SameView, View, SameKin
<1>7. \A x \in BLOCKS :
         /\ u.pcb[x].taken = t.pcb[x].taken
         /\ u.pcb[x].state = (IF x = p THEN "zombie"
                              ELSE IF woke /\ x = f THEN "ready" ELSE t.pcb[x].state)
  BY <1>4, <1>6 DEF SameKin
<1>8. Queued(u, r)
  <2>1. NextOf(u) = NextOf(v)
    BY <1>6 DEF NextOf
  <2>2. IsList(u.ready, NextOf(u), r)
    BY <1>4, <1>6, <2>1
  <2>3. \A x \in BLOCKS : In(q, x) <=> t.pcb[x].taken /\ t.pcb[x].state = "ready"
    BY DEF Good, Queued
  <2> QED
    BY <1>1, <1>3, <1>4, <1>7, <2>2, <2>3 DEF Queued
<1>9. Family(u, K) /\ \A x, c \in BLOCKS : Child(u, x, c) <=> Child(t, x, c)
  <2>1. KinKept(t, u)
    BY <1>6 DEF KinKept
  <2> QED
    BY <1>1, <2>1, FamilyFrame DEF Good
<1>10. Turns(u)
  BY <1>1, <1>6, <1>7 DEF Good, Turns
<1>11. Freed(u)
  BY <1>1, <1>3, <1>7 DEF Good, Freed
<1>12. ASSUME NEW x \in BLOCKS, u.pcb[x].taken, ~u.pcb[x].raced, Seeking(u, x),
              NEW c \in BLOCKS, Child(u, x, c)
       PROVE  u.pcb[c].state # "zombie"
  <2>1. x # p /\ x # u.cur
    BY <1>6, <1>7, <1>12 DEF Seeking, Asleep
  <2>2. Child(t, x, c)
    BY <1>9, <1>12
  <2>3. CASE c = p
    <3>1. x = f /\ ~t.pcb[p].orphan /\ f # None
      BY <1>12, <2>2, <2>3, ForkSizes DEF Child
    <3>2. ~missed
      BY <1>6, <1>12, <3>1
    <3>3. t.pcb[f].context # "window"
      BY <3>1, <3>2 DEF Lost
    <3>4. u.pcb[f].context # "window" /\ u.pcb[f].state # "blocked"
      BY <1>2, <1>6, <1>7, <1>12, <2>1, <3>1, <3>3 DEF Woke
    <3> QED
      BY <1>12, <2>1, <3>1, <3>4 DEF Seeking, Asleep
  <2>4. CASE c # p
    <3>1. Seeking(t, x)
      BY <1>3, <1>6, <1>7, <1>12, <2>1 DEF Seeking, Asleep
    <3>2. t.pcb[x].taken /\ ~t.pcb[x].raced
      BY <1>6, <1>7, <1>12
    <3>3. t.pcb[c].state # "zombie"
      BY <1>12, <2>2, <3>1, <3>2 DEF Good, Waits, NoZombieOf
    <3> QED
      BY <1>7, <1>12, <2>4, <3>3
  <2> QED
    BY <2>3, <2>4
<1>13. Waits(u)
  BY <1>12 DEF Waits, NoZombieOf
<1> QED
  BY <1>6, <1>8, <1>9, <1>10, <1>11, <1>13 DEF Good

LEMMA ExitKeeps ==
  ASSUME NEW t, NEW q, NEW K, Good(t, q, K), t.at = "user",
         NEW p, p = t.cur, NEW f, f = t.pcb[p].parent, NEW missed \in BOOLEAN,
         Lost(t, p) /\ t.pcb[f].context = "window" => missed,
         NEW z, Dies(t, z, p, f, missed), NEW u, u = schedule(WakeParent(z, f))
  PROVE  \E r : Good(u, r, K)
<1>1. t \in SysType /\ p \in BLOCKS
  BY DEF Good, Turns
<1>2. PICK v : v = WakeParent(z, f)
  OBVIOUS
<1>3. PICK r : Woken(t, v, p, f, missed, q, r)
  BY <1>2, WakeIs
<1>4. v \in SysType /\ v.cur = p
  BY <1>3 DEF Woken
<1>5. SameView(v, u)
  <2>1. u = [v EXCEPT !.pcb[p].ticks = 0]
    BY <1>2, <1>4 DEF schedule
  <2>2. 0 \in 0..(TickMod - 1)
    BY ForkSizes
  <2> QED
    BY <1>1, <1>4, <2>1, <2>2, TicksPut
<1>6. Good(u, r, K)
  BY <1>3, <1>5, ExitIs
<1> QED
  BY <1>6

\* A tick finds the marked process: it goes on, or loses the CPU.
LEMMA TicksLeave ==
  ASSUME NEW v, NEW q, NEW K, Good(v, q, K), v.at = "user", v.pcb[v.cur].state # "zombie",
         NEW t, t = Marked(v), NEW n \in 0..(TickMod - 1),
         NEW s, s = [t EXCEPT !.pcb[t.cur].ticks = n]
  PROVE  Leaving(s, q, K)
<1>1. v \in SysType /\ v.cur \in BLOCKS
  BY DEF Good, Turns
<1>2. PICK p : p = v.cur
  OBVIOUS
<1>3. v.pcb[p] \in PCB /\ v.pcb \in [BLOCKS -> PCB] /\ p \in BLOCKS
  BY <1>1, <1>2, SysFields
<1>4. Mark(t, v) /\ t.pcb = [v.pcb EXCEPT ![p] = [v.pcb[p] EXCEPT !.state = "zombie"]]
  BY <1>1, <1>2, MarkIs
<1>5. PICK x : x = [v EXCEPT !.pcb[p].ticks = n]
  OBVIOUS
<1>6. Good(x, q, K)
  BY <1>2, <1>5, TicksIs
<1>7. PICK e : e = [v.pcb[p] EXCEPT !.ticks = n]
  OBVIOUS
<1>8. PICK g : g = [v.pcb EXCEPT ![p] = e]
  OBVIOUS
<1>9. /\ x.stage = v.stage /\ x.pcb = g /\ x.ready = v.ready /\ x.cur = p /\ x.at = v.at
      /\ x \in SysType
  BY <1>1, <1>2, <1>5, <1>6, <1>7, <1>8 DEF SysType, Good
<1>10. g[p] = e /\ e.state = v.pcb[p].state
  BY <1>3, <1>7, <1>8 DEF PCB
<1>11. s.pcb = Marked(x).pcb
  <2>1. Marked(x).pcb = [g EXCEPT ![p] = [g[p] EXCEPT !.state = "zombie"]]
    BY <1>1, <1>2, <1>3, <1>9, MarkIs
  <2>2. s.pcb = [t.pcb EXCEPT ![p].ticks = n]
    BY <1>2, <1>4 DEF Mark
  <2>3. PICK d : d = [v.pcb[p] EXCEPT !.state = "zombie"]
    OBVIOUS
  <2>4. PICK c : c = [d EXCEPT !.ticks = n]
    OBVIOUS
  <2>5. c = [e EXCEPT !.state = "zombie"]
    BY <1>3, <1>7, <2>3, <2>4 DEF PCB
  <2>6. s.pcb = [t.pcb EXCEPT ![p] = c]
    <3>1. t.pcb[p] = d
      BY <1>3, <1>4, <2>3
    <3> QED
      BY <2>2, <2>4, <3>1
  <2>7. t.pcb = [v.pcb EXCEPT ![p] = d]
    BY <1>4, <2>3
  <2>8. s.pcb = [v.pcb EXCEPT ![p] = c]
    BY <1>3, <2>6, <2>7
  <2>9. Marked(x).pcb = [g EXCEPT ![p] = c]
    BY <1>10, <2>1, <2>5
  <2> QED
    BY <1>3, <1>8, <2>8, <2>9
<1>12. s = Marked(x)
  <2>1. Mark(Marked(x), x)
    BY <1>1, <1>2, <1>9, MarkIs
  <2>2. PICK y : y = Marked(x)
    OBVIOUS
  <2>3. y = [stage |-> v.stage, pcb |-> y.pcb, ready |-> v.ready, cur |-> p, at |-> "exit"]
    BY <1>9, <2>1, <2>2 DEF Mark, Marked
  <2>4. s = [stage |-> v.stage, pcb |-> s.pcb, ready |-> v.ready, cur |-> p, at |-> "exit"]
    BY <1>2, <1>4 DEF Mark, Marked
  <2> QED
    BY <1>11, <2>2, <2>3, <2>4
<1> QED
  BY <1>2, <1>6, <1>9, <1>10, <1>12 DEF Leaving

----------------------------------------------------------------------------
LEMMA LeastIs ==
  ASSUME NEW T \in SUBSET Nat, T # {}
  PROVE  (CHOOSE i \in T : \A j \in T : i <= j) \in T
BY LeastNat

LEMMA KmallocIs ==
  ASSUME NEW t, FreeBlocks(t) # {}
  PROVE  kmalloc(t) \in BLOCKS /\ ~t.pcb[kmalloc(t)].taken
<1>1. FreeBlocks(t) \in SUBSET Nat
  BY ForkSizes DEF FreeBlocks
<1>2. kmalloc(t) \in FreeBlocks(t)
  BY <1>1, LeastIs DEF kmalloc
<1> QED
  BY <1>2 DEF FreeBlocks

LEMMA NewPcbIs ==
  ASSUME NEW t, FreePids(t) # {}, NEW a, a = NewPCB(t)
  PROVE  /\ a \in PCB /\ a.taken /\ ~a.orphan /\ ~a.raced /\ a.state = "ready"
         /\ a.context = "user" /\ a.parent = None /\ a.first_child = None
         /\ a.next_sibling = None /\ a.next = None /\ a.pid = allocate_pid(t)
<1>1. FreePids(t) \in SUBSET Nat /\ \A i \in FreePids(t) : i \in 0..LastPid
  BY ForkSizes DEF FreePids
<1>2. allocate_pid(t) \in 0..LastPid
  <2>1. allocate_pid(t) \in FreePids(t)
    BY <1>1, LeastIs DEF allocate_pid
  <2> QED
    BY <1>1, <2>1
<1>3. TimeSlice \in 0..(TickMod - 1) /\ 0 \in 0..(TickMod - 1)
  BY ForkSizes
<1>4. None \in Links
  BY ForkSizes
<1>5. PICK pid : pid = allocate_pid(t)
  OBVIOUS
<1>6. a = [Blank EXCEPT !.taken = TRUE, !.pid = pid, !.ticks = TimeSlice]
  BY <1>5 DEF NewPCB
<1>7. a = [taken |-> TRUE, pid |-> pid, state |-> "ready", ticks |-> TimeSlice,
           context |-> "user", parent |-> None, first_child |-> None,
           next_sibling |-> None, next |-> None, orphan |-> FALSE, raced |-> FALSE]
  BY <1>6 DEF Blank
<1>8. a \in PCB
  BY <1>2, <1>3, <1>4, <1>5, <1>7 DEF PCB, States, Places
<1> QED
  BY <1>5, <1>7, <1>8

LEMMA ForkKeeps ==
  ASSUME NEW t, NEW q, NEW K, Good(t, q, K), t.at = "user", t.pcb[t.cur].state # "zombie",
         FreePids(t) # {}, FreeBlocks(t) # {}, NEW u, u = fork(t, kmalloc(t))
  PROVE  \E r, L : Good(u, r, L)
<1>1. t \in SysType /\ t.cur \in BLOCKS /\ t.pcb[t.cur] \in PCB /\ t.pcb[t.cur].taken
      /\ t.pcb[t.cur].state # "ready"
  BY SysFields DEF Good, Turns
<1>2. PICK p : p = t.cur
  OBVIOUS
<1>3. PICK c : c = kmalloc(t)
  OBVIOUS
<1>4. c \in BLOCKS /\ ~t.pcb[c].taken /\ c # p /\ c # None /\ p # None /\ c \in Links /\ p \in Links
  BY <1>1, <1>2, <1>3, KmallocIs, ForkSizes
<1>5. PICK a : a = NewPCB(t)
  OBVIOUS
<1>6. /\ a \in PCB /\ a.taken /\ ~a.orphan /\ ~a.raced /\ a.state = "ready"
      /\ a.context = "user" /\ a.first_child = None
  BY <1>5, NewPcbIs
<1>7. PICK h \in Links : h = t.pcb[p].first_child
  BY <1>1, <1>2, PcbFields
<1>8. PICK e : e = [a EXCEPT !.parent = p, !.next_sibling = h]
  OBVIOUS
<1>9. /\ e \in PCB /\ e.taken /\ ~e.orphan /\ ~e.raced /\ e.state = "ready"
      /\ e.context = "user" /\ e.first_child = None /\ e.parent = p /\ e.next_sibling = h
  BY <1>4, <1>6, <1>7, <1>8 DEF PCB
<1>10. PICK f : f = [t.pcb EXCEPT ![c] = e]
  OBVIOUS
<1>11. PICK s : s = [t EXCEPT !.pcb = f]
  OBVIOUS
<1>12. Put(t, s, c, e)
  BY <1>1, <1>4, <1>9, <1>10, <1>11, PutIs
<1>13. /\ s \in SysType /\ s.cur = t.cur /\ s.at = t.at /\ s.ready = t.ready
       /\ \A x \in BLOCKS : s.pcb[x] = IF x = c THEN e ELSE t.pcb[x]
  BY <1>12 DEF Put
<1>14. PICK d : d = [s.pcb[p] EXCEPT !.first_child = c]
  OBVIOUS
<1>15. s.pcb[p] \in PCB /\ s.pcb[p] = t.pcb[p]
  BY <1>1, <1>2, <1>4, <1>13
<1>16. /\ d \in PCB /\ d.taken = t.pcb[p].taken /\ d.orphan = t.pcb[p].orphan
       /\ d.raced = t.pcb[p].raced /\ d.state = t.pcb[p].state /\ d.context = t.pcb[p].context
       /\ d.parent = t.pcb[p].parent /\ d.next_sibling = t.pcb[p].next_sibling
       /\ d.next = t.pcb[p].next /\ d.first_child = c
  BY <1>4, <1>14, <1>15 DEF PCB
<1>17. PICK g : g = [s.pcb EXCEPT ![p] = d]
  OBVIOUS
<1>18. PICK v : v = [s EXCEPT !.pcb = g]
  OBVIOUS
<1>19. Put(s, v, p, d)
  BY <1>1, <1>2, <1>13, <1>16, <1>17, <1>18, PutIs
<1>20. /\ v \in SysType /\ v.cur = t.cur /\ v.at = t.at /\ v.ready = t.ready
       /\ \A x \in BLOCKS : v.pcb[x] = IF x = p THEN d ELSE IF x = c THEN e ELSE t.pcb[x]
  BY <1>13, <1>19 DEF Put
<1>21. u = process_unblock(v, c)
  <2>1. v = [s EXCEPT !.pcb[p].first_child = c]
    BY <1>14, <1>17, <1>18
  <2>2. s = [t EXCEPT !.pcb[c] = e]
    BY <1>10, <1>11
  <2>3. v = [t EXCEPT !.pcb[c] = e, !.pcb[p].first_child = c]
    BY <2>1, <2>2
  <2> QED
    BY <1>2, <1>3, <1>5, <1>7, <1>8, <2>3 DEF fork
<1>22. \A x \in BLOCKS : x # c =>
         /\ v.pcb[x].taken = t.pcb[x].taken /\ v.pcb[x].orphan = t.pcb[x].orphan
         /\ v.pcb[x].raced = t.pcb[x].raced /\ v.pcb[x].state = t.pcb[x].state
         /\ v.pcb[x].context = t.pcb[x].context /\ v.pcb[x].parent = t.pcb[x].parent
         /\ v.pcb[x].next_sibling = t.pcb[x].next_sibling /\ v.pcb[x].next = t.pcb[x].next
         /\ v.pcb[x].first_child = IF x = p THEN c ELSE t.pcb[x].first_child
  BY <1>16, <1>20
<1>23. v.pcb[c] = e
  BY <1>4, <1>20
<1>24. ~In(q, c)
  BY <1>4 DEF Good, Queued
<1>25. IsList(v.ready, NextOf(v), q)
  <2>1. PICK N, M : N = NextOf(t) /\ M = NextOf(v)
    OBVIOUS
  <2>2. \A x \in BLOCKS : In(q, x) => M[x] = N[x]
    BY <1>22, <1>24, <2>1 DEF NextOf
  <2>3. IsList(t.ready, N, q)
    BY <2>1 DEF Good, Queued
  <2>4. IsList(t.ready, M, q)
    BY <2>2, <2>3, ListFrame
  <2> QED
    BY <1>20, <2>1, <2>4
<1>26. PICK r : Unblocked(v, u, c, q, r)
  BY <1>4, <1>20, <1>21, <1>24, <1>25, UnblockIs
<1>27. PICK L : L = [x \in BLOCKS |-> IF x = p THEN Pushed(K[p], c)
                                      ELSE IF x = c THEN << >> ELSE K[x]]
  OBVIOUS
<1>28. \A x, y \in BLOCKS : Child(v, x, y) <=> Child(t, x, y) \/ (x = p /\ y = c)
  <2>1. ASSUME NEW x \in BLOCKS, NEW y \in BLOCKS
        PROVE  Child(v, x, y) <=> Child(t, x, y) \/ (x = p /\ y = c)
    <3>1. CASE y = c
      BY <1>4, <1>9, <1>23, <3>1 DEF Child
    <3>2. CASE y # c
      BY <1>22, <3>2 DEF Child
    <3> QED
      BY <3>1, <3>2
  <2> QED
    BY <2>1
<1>29. /\ \A x \in BLOCKS : ~Child(t, x, c)
       /\ \A x \in BLOCKS : ~Child(t, c, x)
  BY <1>4 DEF Child, Good, Family
<1>30. \A x \in BLOCKS : t.pcb[x].taken =>
         /\ IsList(t.pcb[x].first_child, SibOf(t), K[x]) /\ ~In(K[x], c)
         /\ \A y \in BLOCKS : In(K[x], y) <=> Child(t, x, y)
  BY <1>4, <1>29 DEF Good, Family
<1>31. PICK N, M : N = SibOf(t) /\ M = SibOf(v)
  OBVIOUS
<1>32. M[c] = h /\ \A x \in BLOCKS : x # c => M[x] = N[x]
  BY <1>4, <1>9, <1>22, <1>23, <1>31 DEF SibOf
<1>33. ASSUME NEW x \in BLOCKS, v.pcb[x].taken
       PROVE  /\ IsList(v.pcb[x].first_child, SibOf(v), L[x])
              /\ \A y \in BLOCKS : In(L[x], y) <=> Child(v, x, y)
  <2>1. CASE x = p
    <3>1. IsList(h, N, K[p]) /\ ~In(K[p], c)
      BY <1>1, <1>2, <1>7, <1>30, <1>31
    <3>2. \A y \in BLOCKS : In(K[p], y) => M[y] = N[y]
      BY <1>32, <3>1
    <3>3. PICK Y : Y = Pushed(K[p], c)
      OBVIOUS
    <3>4. IsList(c, M, Y) /\ \A y : In(Y, y) <=> In(K[p], y) \/ y = c
      BY <1>4, <1>32, <3>1, <3>2, <3>3, ListPush
    <3>5. L[x] = Y /\ v.pcb[x].first_child = c
      BY <1>4, <1>22, <1>27, <2>1, <3>3
    <3>6. \A y \in BLOCKS : In(K[p], y) <=> Child(t, p, y)
      BY <1>1, <1>2, <1>30
    <3> QED
      BY <1>28, <1>31, <2>1, <3>4, <3>5, <3>6
  <2>2. CASE x = c
    <3>1. L[x] = << >> /\ v.pcb[x].first_child = None
      BY <1>4, <1>9, <1>23, <1>27, <2>2
    <3>2. IsList(None, M, << >>) /\ \A y : ~In(<< >>, y)
      BY DEF IsList, Once, In
    <3>3. \A y \in BLOCKS : ~Child(v, x, y)
      BY <1>4, <1>28, <1>29, <2>2
    <3> QED
      BY <1>31, <3>1, <3>2, <3>3
  <2>3. CASE x # p /\ x # c
    <3>1. L[x] = K[x] /\ v.pcb[x].first_child = t.pcb[x].first_child /\ t.pcb[x].taken
      BY <1>22, <1>27, <1>33, <2>3
    <3>2. PICK Y, j : Y = K[x] /\ j = t.pcb[x].first_child
      OBVIOUS
    <3>3. IsList(j, N, Y) /\ ~In(Y, c) /\ \A y \in BLOCKS : In(Y, y) <=> Child(t, x, y)
      BY <1>30, <1>31, <3>1, <3>2
    <3>4. \A y \in BLOCKS : In(Y, y) => M[y] = N[y]
      BY <1>32, <3>3
    <3>5. IsList(j, M, Y)
      BY <3>3, <3>4, ListFrame
    <3> QED
      BY <1>28, <1>31, <2>3, <3>1, <3>2, <3>3, <3>5
  <2> QED
    BY <2>1, <2>2, <2>3
<1>34. ASSUME NEW y \in BLOCKS, v.pcb[y].taken
       PROVE  /\ v.pcb[y].parent # y
              /\ ~v.pcb[y].orphan /\ v.pcb[y].parent # None => v.pcb[v.pcb[y].parent].taken
  <2>1. CASE y = c
    <3>1. v.pcb[p].taken
      BY <1>1, <1>2, <1>4, <1>22
    <3> QED
      BY <1>4, <1>9, <1>23, <2>1, <3>1
  <2>2. CASE y # c
    <3>1. t.pcb[y].parent # y
          /\ (~t.pcb[y].orphan /\ t.pcb[y].parent # None => t.pcb[t.pcb[y].parent].taken)
      BY <1>22, <1>34, <2>2 DEF Good, Family
    <3>2. t.pcb[y].parent # None => t.pcb[y].parent \in BLOCKS
      <4>1. t.pcb[y].parent \in Links
        BY <1>1, SysFields, PcbFields
      <4> QED
        BY <4>1 DEF Links
    <3>3. \A x \in BLOCKS : t.pcb[x].taken => v.pcb[x].taken
      BY <1>4, <1>22
    <3> QED
      BY <1>22, <2>2, <3>1, <3>2, <3>3
  <2> QED
    BY <2>1, <2>2
<1>35. Family(v, L)
  BY <1>33, <1>34 DEF Family
<1>36. Family(u, L) /\ \A x, y \in BLOCKS : Child(u, x, y) <=> Child(v, x, y)
  <2>1. KinKept(v, u)
    BY <1>26 DEF KinKept, Unblocked
  <2> QED
    BY <1>20, <1>35, <2>1, FamilyFrame
<1>37. \A x \in BLOCKS :
         /\ (u.pcb[x].taken <=> t.pcb[x].taken \/ x = c)
         /\ (u.pcb[x].raced <=> t.pcb[x].raced /\ x # c)
         /\ u.pcb[x].state = (IF x = c THEN "ready" ELSE t.pcb[x].state)
         /\ u.pcb[x].context = (IF x = c THEN "user" ELSE t.pcb[x].context)
  <2>1. \A x \in BLOCKS : t.pcb[x].taken \in BOOLEAN /\ t.pcb[x].raced \in BOOLEAN
    BY <1>1, SysFields, PcbFields
  <2>2. ASSUME NEW x \in BLOCKS, x # c
        PROVE  /\ u.pcb[x].taken = t.pcb[x].taken /\ u.pcb[x].raced = t.pcb[x].raced
               /\ u.pcb[x].state = t.pcb[x].state /\ u.pcb[x].context = t.pcb[x].context
    BY <1>22, <1>26, <2>2 DEF SameKin, Unblocked
  <2>3. u.pcb[c].taken = TRUE /\ u.pcb[c].raced = FALSE /\ u.pcb[c].state = "ready"
        /\ u.pcb[c].context = "user"
    <3>1. e.taken \in BOOLEAN /\ e.raced \in BOOLEAN
      BY <1>9, PcbFields
    <3> QED
      BY <1>4, <1>9, <1>23, <1>26, <3>1 DEF SameKin, Unblocked
  <2> QED
    BY <1>4, <2>1, <2>2, <2>3
<1>38. Queued(u, r)
  <2>1. \A x \in BLOCKS : In(q, x) <=> t.pcb[x].taken /\ t.pcb[x].state = "ready"
    BY DEF Good, Queued
  <2>2. IsList(u.ready, NextOf(u), r) /\ \A x : In(r, x) <=> In(q, x) \/ x = c
    BY <1>26 DEF Unblocked
  <2>3. \A x \in BLOCKS : In(r, x) <=> u.pcb[x].taken /\ u.pcb[x].state = "ready"
    BY <1>37, <2>1, <2>2
  <2> QED
    BY <2>2, <2>3 DEF Queued
<1>39. u \in SysType /\ u.cur = t.cur /\ u.at = t.at
  BY <1>20, <1>26 DEF Unblocked
<1>40. Turns(u)
  <2>1. u.pcb[p].taken /\ u.pcb[p].state = t.pcb[p].state
    BY <1>1, <1>2, <1>4, <1>37
  <2>2. \A x \in BLOCKS : x # p => t.pcb[x].state # "running"
    BY <1>2 DEF Good, Turns
  <2>3. \A x \in BLOCKS : x # p => u.pcb[x].state # "running"
    BY <1>37, <2>2
  <2>4. t.at = "window" => t.pcb[p].state # "zombie"
    BY <1>2 DEF Good, Turns
  <2> QED
    BY <1>1, <1>2, <1>39, <2>1, <2>3, <2>4 DEF Turns
<1>41. Freed(u)
  BY <1>37 DEF Good, Freed
<1>42. ASSUME NEW x \in BLOCKS, u.pcb[x].taken, ~u.pcb[x].raced, Seeking(u, x),
              NEW y \in BLOCKS, Child(u, x, y)
       PROVE  u.pcb[y].state # "zombie"
  <2>1. x # c
    BY <1>2, <1>4, <1>37, <1>39, <1>42 DEF Seeking, Asleep
  <2>2. Seeking(t, x) /\ t.pcb[x].taken /\ ~t.pcb[x].raced
    BY <1>37, <1>39, <1>42, <2>1 DEF Seeking, Asleep
  <2>3. CASE y = c
    BY <1>4, <1>37, <2>3
  <2>4. CASE y # c
    <3>1. Child(t, x, y)
      BY <1>28, <1>36, <1>42, <2>4
    <3>2. t.pcb[y].state # "zombie"
      BY <1>42, <2>2, <3>1 DEF Good, Waits, NoZombieOf
    <3> QED
      BY <1>37, <2>4, <3>2
  <2> QED
    BY <2>3, <2>4
<1>43. Waits(u)
  BY <1>42 DEF Waits, NoZombieOf
<1> QED
  BY <1>39, <1>36, <1>38, <1>40, <1>41, <1>43 DEF Good

----------------------------------------------------------------------------
(***************************************************************************)
(* sys_wait takes a zombie c out of the list of p and frees its block.     *)
(***************************************************************************)
\* What no step of it changes.
Rest(a, b) ==
  a.parent = b.parent /\ a.state = b.state /\ a.next = b.next /\ a.context = b.context
SameTurn(t, u) == u \in SysType /\ u.cur = t.cur /\ u.at = t.at /\ u.ready = t.ready

\* The block is freed; the children in R become orphans.
Frees(t, v, c, R) ==
  /\ SameTurn(t, v)
  /\ \A x \in BLOCKS :
       /\ Rest(v.pcb[x], t.pcb[x])
       /\ (v.pcb[x].taken <=> t.pcb[x].taken /\ x # c)
       /\ (v.pcb[x].orphan <=> t.pcb[x].orphan \/ x \in R)
       /\ (v.pcb[x].raced <=> t.pcb[x].raced)
       /\ v.pcb[x].first_child = t.pcb[x].first_child
       /\ v.pcb[x].next_sibling = t.pcb[x].next_sibling

LEMMA FreeIs ==
  ASSUME NEW t \in SysType, NEW c \in BLOCKS, NEW R, R = Elements(Kids(t, c)),
         NEW v, v = free(t, c)
  PROVE  Frees(t, v, c, R)
<1>1. PICK h : h = [x \in BLOCKS |-> IF x \in R THEN [t.pcb[x] EXCEPT !.orphan = TRUE]
                                     ELSE t.pcb[x]]
  OBVIOUS
<1>2. ASSUME NEW x \in BLOCKS
      PROVE  /\ h[x] \in PCB /\ Rest(h[x], t.pcb[x]) /\ (h[x].taken <=> t.pcb[x].taken)
             /\ (h[x].orphan <=> t.pcb[x].orphan \/ x \in R) /\ (h[x].raced <=> t.pcb[x].raced)
             /\ h[x].first_child = t.pcb[x].first_child
             /\ h[x].next_sibling = t.pcb[x].next_sibling
  <2>1. t.pcb[x] \in PCB
    BY SysFields
  <2>2. CASE x \in R
    <3>1. h[x] = [t.pcb[x] EXCEPT !.orphan = TRUE]
      BY <1>1, <2>2
    <3> QED
      BY <2>1, <2>2, <3>1 DEF PCB, Rest
  <2>3. CASE x \notin R
    <3>1. h[x] = t.pcb[x]
      BY <1>1, <2>3
    <3> QED
      BY <2>1, <2>3, <3>1 DEF Rest
  <2> QED
    BY <2>2, <2>3
<1>3. h \in [BLOCKS -> PCB]
  BY <1>1, <1>2
<1>4. PICK s : s = [t EXCEPT !.pcb = h]
  OBVIOUS
<1>5. s \in SysType /\ s.cur = t.cur /\ s.at = t.at /\ s.ready = t.ready /\ s.pcb = h
  BY <1>3, <1>4 DEF SysType
<1>6. PICK e : e = [s.pcb[c] EXCEPT !.taken = FALSE]
  OBVIOUS
<1>7. s.pcb[c] \in PCB
  BY <1>5, SysFields
<1>8. /\ e \in PCB /\ Rest(e, s.pcb[c]) /\ ~e.taken /\ (e.orphan <=> s.pcb[c].orphan)
      /\ (e.raced <=> s.pcb[c].raced) /\ e.first_child = s.pcb[c].first_child
      /\ e.next_sibling = s.pcb[c].next_sibling
  BY <1>6, <1>7 DEF PCB, Rest
<1>9. PICK f : f = [s.pcb EXCEPT ![c] = e]
  OBVIOUS
<1>10. v = [s EXCEPT !.pcb = f]
  <2>1. v = [s EXCEPT !.pcb[c].taken = FALSE]
    BY <1>1, <1>4 DEF free
  <2> QED
    BY <1>6, <1>9, <2>1
<1>11. Put(s, v, c, e)
  BY <1>5, <1>8, <1>9, <1>10, PutIs
<1>12. SameTurn(t, v)
  BY <1>5, <1>11 DEF Put, SameTurn
<1>13. ASSUME NEW x \in BLOCKS
       PROVE  /\ Rest(v.pcb[x], t.pcb[x])
              /\ (v.pcb[x].taken <=> t.pcb[x].taken /\ x # c)
              /\ (v.pcb[x].orphan <=> t.pcb[x].orphan \/ x \in R)
              /\ (v.pcb[x].raced <=> t.pcb[x].raced)
              /\ v.pcb[x].first_child = t.pcb[x].first_child
              /\ v.pcb[x].next_sibling = t.pcb[x].next_sibling
  <2>1. CASE x = c
    <3>1. v.pcb[x] = e /\ s.pcb[c] = h[x]
      BY <1>5, <1>11, <1>13, <2>1 DEF Put
    <3> QED
      BY <1>2, <1>8, <2>1, <3>1 DEF Rest
  <2>2. CASE x # c
    <3>1. v.pcb[x] = h[x]
      BY <1>5, <1>11, <1>13, <2>2 DEF Put
    <3> QED
      BY <1>2, <2>2, <3>1
  <2> QED
    BY <2>1, <2>2
<1> QED
  BY <1>12, <1>13 DEF Frees

\* Two links and a mark.
FirstSet(t, u, p, l) ==
  /\ SameTurn(t, u)
  /\ \A x \in BLOCKS :
       /\ Rest(u.pcb[x], t.pcb[x]) /\ (u.pcb[x].taken <=> t.pcb[x].taken)
       /\ (u.pcb[x].orphan <=> t.pcb[x].orphan) /\ (u.pcb[x].raced <=> t.pcb[x].raced)
       /\ u.pcb[x].first_child = (IF x = p THEN l ELSE t.pcb[x].first_child)
       /\ u.pcb[x].next_sibling = t.pcb[x].next_sibling

LEMMA SetFirstChild ==
  ASSUME NEW t \in SysType, NEW p \in BLOCKS, NEW l \in Links,
         NEW u, u = [t EXCEPT !.pcb[p].first_child = l]
  PROVE  FirstSet(t, u, p, l)
<1>1. PICK e : e = [t.pcb[p] EXCEPT !.first_child = l]
  OBVIOUS
<1>2. t.pcb[p] \in PCB
  BY SysFields
<1>3. /\ e \in PCB /\ Rest(e, t.pcb[p]) /\ (e.taken <=> t.pcb[p].taken)
      /\ (e.orphan <=> t.pcb[p].orphan) /\ (e.raced <=> t.pcb[p].raced)
      /\ e.first_child = l /\ e.next_sibling = t.pcb[p].next_sibling
  BY <1>1, <1>2 DEF PCB, Rest
<1>4. PICK f : f = [t.pcb EXCEPT ![p] = e]
  OBVIOUS
<1>5. u = [t EXCEPT !.pcb = f]
  BY <1>1, <1>4
<1>6. Put(t, u, p, e)
  BY <1>3, <1>4, <1>5, PutIs
<1> QED
  BY <1>3, <1>6 DEF Put, SameTurn, Rest, FirstSet

SiblingSet(t, u, p, l) ==
  /\ SameTurn(t, u)
  /\ \A x \in BLOCKS :
       /\ Rest(u.pcb[x], t.pcb[x]) /\ (u.pcb[x].taken <=> t.pcb[x].taken)
       /\ (u.pcb[x].orphan <=> t.pcb[x].orphan) /\ (u.pcb[x].raced <=> t.pcb[x].raced)
       /\ u.pcb[x].first_child = t.pcb[x].first_child
       /\ u.pcb[x].next_sibling = (IF x = p THEN l ELSE t.pcb[x].next_sibling)

LEMMA SetSibling ==
  ASSUME NEW t \in SysType, NEW p \in BLOCKS, NEW l \in Links,
         NEW u, u = [t EXCEPT !.pcb[p].next_sibling = l]
  PROVE  SiblingSet(t, u, p, l)
<1>1. PICK e : e = [t.pcb[p] EXCEPT !.next_sibling = l]
  OBVIOUS
<1>2. t.pcb[p] \in PCB
  BY SysFields
<1>3. /\ e \in PCB /\ Rest(e, t.pcb[p]) /\ (e.taken <=> t.pcb[p].taken)
      /\ (e.orphan <=> t.pcb[p].orphan) /\ (e.raced <=> t.pcb[p].raced)
      /\ e.first_child = t.pcb[p].first_child /\ e.next_sibling = l
  BY <1>1, <1>2 DEF PCB, Rest
<1>4. PICK f : f = [t.pcb EXCEPT ![p] = e]
  OBVIOUS
<1>5. u = [t EXCEPT !.pcb = f]
  BY <1>1, <1>4
<1>6. Put(t, u, p, e)
  BY <1>3, <1>4, <1>5, PutIs
<1> QED
  BY <1>3, <1>6 DEF Put, SameTurn, Rest, SiblingSet

RacedSet(t, u, p, b) ==
  /\ SameTurn(t, u)
  /\ \A x \in BLOCKS :
       /\ Rest(u.pcb[x], t.pcb[x]) /\ (u.pcb[x].taken <=> t.pcb[x].taken)
       /\ (u.pcb[x].orphan <=> t.pcb[x].orphan)
       /\ (u.pcb[x].raced <=> IF x = p THEN b ELSE t.pcb[x].raced)
       /\ u.pcb[x].first_child = t.pcb[x].first_child
       /\ u.pcb[x].next_sibling = t.pcb[x].next_sibling

LEMMA SetRaced ==
  ASSUME NEW t \in SysType, NEW p \in BLOCKS, NEW b \in BOOLEAN,
         NEW u, u = [t EXCEPT !.pcb[p].raced = b]
  PROVE  RacedSet(t, u, p, b)
<1>1. PICK e : e = [t.pcb[p] EXCEPT !.raced = b]
  OBVIOUS
<1>2. t.pcb[p] \in PCB
  BY SysFields
<1>3. /\ e \in PCB /\ Rest(e, t.pcb[p]) /\ (e.taken <=> t.pcb[p].taken)
      /\ (e.orphan <=> t.pcb[p].orphan) /\ (e.raced <=> b)
      /\ e.first_child = t.pcb[p].first_child /\ e.next_sibling = t.pcb[p].next_sibling
  BY <1>1, <1>2 DEF PCB, Rest
<1>4. PICK f : f = [t.pcb EXCEPT ![p] = e]
  OBVIOUS
<1>5. u = [t EXCEPT !.pcb = f]
  BY <1>1, <1>4
<1>6. Put(t, u, p, e)
  BY <1>3, <1>4, <1>5, PutIs
<1> QED
  BY <1>3, <1>6 DEF Put, SameTurn, Rest, RacedSet

\* s is the sibling before c, or None when c is the first; l comes after c.
Reaped(t, w, p, c, s, l, more, R) ==
  /\ SameTurn(t, w)
  /\ \A x \in BLOCKS :
       /\ Rest(w.pcb[x], t.pcb[x])
       /\ (w.pcb[x].taken <=> t.pcb[x].taken /\ x # c)
       /\ (w.pcb[x].orphan <=> t.pcb[x].orphan \/ x \in R)
       /\ (w.pcb[x].raced <=> t.pcb[x].raced /\ (x # p \/ more))
       /\ w.pcb[x].first_child = (IF s = None /\ x = p THEN l ELSE t.pcb[x].first_child)
       /\ w.pcb[x].next_sibling = (IF s # None /\ x = s THEN l ELSE t.pcb[x].next_sibling)

\* The list is closed behind s, and raced is set.
Spliced(v, y, p, s, l) ==
  y = IF s = None THEN [v EXCEPT !.pcb[p].first_child = l] ELSE [v EXCEPT !.pcb[s].next_sibling = l]
Recalled(y, w, p, b) == w = [y EXCEPT !.pcb[p].raced = b]

LEMMA ReapedIs ==
  ASSUME NEW t \in SysType, NEW p \in BLOCKS, NEW c \in BLOCKS, NEW R, R = Elements(Kids(t, c)),
         NEW s \in Links, NEW l \in Links, NEW v, v = free(t, c),
         NEW y, Spliced(v, y, p, s, l), NEW more \in BOOLEAN,
         NEW b \in BOOLEAN, b <=> y.pcb[p].raced /\ more, NEW w, Recalled(y, w, p, b)
  PROVE  Reaped(t, w, p, c, s, l, more, R)
<1>1. Frees(t, v, c, R)
  BY FreeIs
<1>2. v \in SysType
  BY <1>1 DEF Frees, SameTurn
<1>3. /\ SameTurn(v, y)
      /\ \A x \in BLOCKS :
           /\ Rest(y.pcb[x], v.pcb[x]) /\ (y.pcb[x].taken <=> v.pcb[x].taken)
           /\ (y.pcb[x].orphan <=> v.pcb[x].orphan) /\ (y.pcb[x].raced <=> v.pcb[x].raced)
           /\ y.pcb[x].first_child = (IF s = None /\ x = p THEN l ELSE v.pcb[x].first_child)
           /\ y.pcb[x].next_sibling = (IF s # None /\ x = s THEN l ELSE v.pcb[x].next_sibling)
  <2>1. CASE s = None
    <3>1. y = [v EXCEPT !.pcb[p].first_child = l]
      BY <2>1 DEF Spliced
    <3>2. FirstSet(v, y, p, l)
      BY <1>2, <3>1, SetFirstChild
    <3> QED
      BY <2>1, <3>2 DEF FirstSet
  <2>2. CASE s # None
    <3>1. y = [v EXCEPT !.pcb[s].next_sibling = l] /\ s \in BLOCKS
      BY <2>2 DEF Links, Spliced
    <3>2. SiblingSet(v, y, s, l)
      BY <1>2, <3>1, SetSibling
    <3> QED
      BY <2>2, <3>2 DEF SiblingSet
  <2> QED
    BY <2>1, <2>2
<1>4. y \in SysType /\ b \in BOOLEAN
  BY <1>3 DEF SameTurn
<1>5. /\ SameTurn(y, w)
      /\ \A x \in BLOCKS :
           /\ Rest(w.pcb[x], y.pcb[x]) /\ (w.pcb[x].taken <=> y.pcb[x].taken)
           /\ (w.pcb[x].orphan <=> y.pcb[x].orphan)
           /\ (w.pcb[x].raced <=> IF x = p THEN b ELSE y.pcb[x].raced)
           /\ w.pcb[x].first_child = y.pcb[x].first_child
           /\ w.pcb[x].next_sibling = y.pcb[x].next_sibling
  <2>1. RacedSet(y, w, p, b)
    BY <1>4, SetRaced DEF Recalled
  <2> QED
    BY <2>1 DEF RacedSet
<1>6. SameTurn(t, w)
  BY <1>1, <1>3, <1>5 DEF Frees, SameTurn
<1>7. ASSUME NEW x \in BLOCKS
      PROVE  /\ Rest(w.pcb[x], t.pcb[x])
             /\ (w.pcb[x].taken <=> t.pcb[x].taken /\ x # c)
             /\ (w.pcb[x].orphan <=> t.pcb[x].orphan \/ x \in R)
             /\ (w.pcb[x].raced <=> t.pcb[x].raced /\ (x # p \/ more))
             /\ w.pcb[x].first_child = (IF s = None /\ x = p THEN l ELSE t.pcb[x].first_child)
             /\ w.pcb[x].next_sibling = (IF s # None /\ x = s THEN l ELSE t.pcb[x].next_sibling)
  <2>1. /\ Rest(v.pcb[x], t.pcb[x])
        /\ (v.pcb[x].taken <=> t.pcb[x].taken /\ x # c)
        /\ (v.pcb[x].orphan <=> t.pcb[x].orphan \/ x \in R)
        /\ (v.pcb[x].raced <=> t.pcb[x].raced)
        /\ v.pcb[x].first_child = t.pcb[x].first_child
        /\ v.pcb[x].next_sibling = t.pcb[x].next_sibling
    BY <1>1, <1>7 DEF Frees
  <2>2. Rest(w.pcb[x], t.pcb[x])
    <3>1. Rest(y.pcb[x], v.pcb[x]) /\ Rest(w.pcb[x], y.pcb[x])
      BY <1>3, <1>5, <1>7
    <3> QED
      BY <2>1, <3>1 DEF Rest
  <2>3. w.pcb[x].raced <=> t.pcb[x].raced /\ (x # p \/ more)
    <3>1. CASE x = p
      BY <1>3, <1>5, <1>7, <2>1, <3>1
    <3>2. CASE x # p
      BY <1>3, <1>5, <1>7, <2>1, <3>2
    <3> QED
      BY <3>1, <3>2
  <2>4. (w.pcb[x].taken <=> t.pcb[x].taken /\ x # c)
        /\ (w.pcb[x].orphan <=> t.pcb[x].orphan \/ x \in R)
    BY <1>3, <1>5, <1>7, <2>1
  <2>5. w.pcb[x].first_child = (IF s = None /\ x = p THEN l ELSE t.pcb[x].first_child)
        /\ w.pcb[x].next_sibling = (IF s # None /\ x = s THEN l ELSE t.pcb[x].next_sibling)
    <3>1. w.pcb[x].first_child = y.pcb[x].first_child
          /\ w.pcb[x].next_sibling = y.pcb[x].next_sibling
      BY <1>5, <1>7
    <3>2. /\ y.pcb[x].first_child = (IF s = None /\ x = p THEN l ELSE v.pcb[x].first_child)
          /\ y.pcb[x].next_sibling = (IF s # None /\ x = s THEN l ELSE v.pcb[x].next_sibling)
      BY <1>3, <1>7
    <3> QED
      BY <2>1, <3>1, <3>2
  <2> QED
    BY <2>2, <2>3, <2>4, <2>5
<1> QED
  BY <1>6, <1>7 DEF Reaped

\* The sibling ahead of the d-th child, and the only zombie left.
Ahead(q, d, s) == s = IF d = 1 THEN None ELSE q[d - 1]
OnlyZombie(t, p, c) == \A x \in BLOCKS : Child(t, p, x) /\ t.pcb[x].state = "zombie" => x = c

LEMMA ReapKeeps ==
  ASSUME NEW t, NEW q, NEW K, Good(t, q, K), t.at = "user",
         NEW p, p = t.cur, t.pcb[p].state # "zombie",
         NEW d \in 1..Len(K[p]), NEW c, c = K[p][d], t.pcb[c].state = "zombie",
         NEW s, Ahead(K[p], d, s),
         NEW l, l = t.pcb[c].next_sibling, NEW more \in BOOLEAN,
         more \/ OnlyZombie(t, p, c),
         NEW R, R = {x \in BLOCKS : Child(t, c, x)},
         NEW w, Reaped(t, w, p, c, s, l, more, R)
  PROVE  \E L : Good(w, q, L)
<1>1. t \in SysType /\ p \in BLOCKS /\ t.pcb[p].taken /\ t.pcb[p].state # "ready"
  BY DEF Good, Turns
<1>2. /\ IsList(t.pcb[p].first_child, SibOf(t), K[p])
      /\ \A x \in BLOCKS : In(K[p], x) <=> Child(t, p, x)
  BY <1>1 DEF Good, Family
<1>3. c \in BLOCKS /\ In(K[p], c) /\ Child(t, p, c)
  <2>1. c \in BLOCKS /\ In(K[p], c)
    BY <1>2, ListTypes DEF In
  <2> QED
    BY <1>2, <2>1
<1>4. c # p /\ p # None /\ t.pcb[c].taken /\ ~t.pcb[c].orphan /\ t.pcb[c].parent = p
  BY <1>1, <1>3, ForkSizes DEF Child
<1>5. SameTurn(t, w)
  BY DEF Reaped
<1>6. \A x \in BLOCKS :
        /\ w.pcb[x].parent = t.pcb[x].parent /\ w.pcb[x].state = t.pcb[x].state
        /\ w.pcb[x].next = t.pcb[x].next /\ w.pcb[x].context = t.pcb[x].context
        /\ (w.pcb[x].taken <=> t.pcb[x].taken /\ x # c)
        /\ (w.pcb[x].orphan <=> t.pcb[x].orphan \/ Child(t, c, x))
        /\ (w.pcb[x].raced <=> t.pcb[x].raced /\ (x # p \/ more))
        /\ w.pcb[x].first_child = (IF s = None /\ x = p THEN l ELSE t.pcb[x].first_child)
        /\ w.pcb[x].next_sibling = (IF s # None /\ x = s THEN l ELSE t.pcb[x].next_sibling)
  BY DEF Reaped, Rest
<1>a. \A x \in BLOCKS : w.pcb[x].state = t.pcb[x].state
                       /\ (w.pcb[x].taken <=> t.pcb[x].taken /\ x # c)
  BY <1>6
<1>7. \A x, y \in BLOCKS : Child(w, x, y) <=> Child(t, x, y) /\ x # c /\ y # c
  <2>1. ASSUME NEW x \in BLOCKS, NEW y \in BLOCKS
        PROVE  Child(w, x, y) <=> Child(t, x, y) /\ x # c /\ y # c
    <3>1. (w.pcb[y].taken <=> t.pcb[y].taken /\ y # c) /\ w.pcb[y].parent = t.pcb[y].parent
          /\ (w.pcb[y].orphan <=> t.pcb[y].orphan \/ Child(t, c, y))
      BY <1>6
    <3> QED
      BY <3>1 DEF Child
  <2> QED
    BY <2>1
<1>8. PICK N, M, A, h : N = SibOf(t) /\ M = SibOf(w) /\ A = K[p] /\ h = t.pcb[p].first_child
  OBVIOUS
<1>9. /\ IsList(h, N, A) /\ d \in 1..Len(A) /\ c = A[d] /\ N[c] = l /\ l = Succ(A, d)
      /\ \A i \in 1..Len(A) : A[i] \in BLOCKS /\ A[i] # None
  <2>1. IsList(h, N, A)
    BY <1>2, <1>8
  <2>2. N[c] = l
    BY <1>3, <1>8 DEF SibOf
  <2>3. d \in 1..Len(A) /\ c = A[d]
    BY <1>8
  <2>4. N[A[d]] = Succ(A, d)
    BY <2>1, <2>3 DEF IsList
  <2>5. \A i \in 1..Len(A) : A[i] \in BLOCKS /\ A[i] # None
    BY <2>1, ListTypes
  <2> QED
    BY <2>1, <2>2, <2>3, <2>4, <2>5
<1>10. s = None <=> d = 1
  <2>1. d # 1 => d - 1 \in 1..Len(A)
    BY <1>9, ListTypes
  <2>2. s = IF d = 1 THEN None ELSE A[d - 1]
    BY <1>8 DEF Ahead
  <2> QED
    BY <1>8, <1>9, <2>1, <2>2
<1>11. \A x \in BLOCKS : M[x] = IF s # None /\ x = s THEN l ELSE N[x]
  BY <1>6, <1>8 DEF SibOf
<1>12. PICK g : g = IF s = None THEN l ELSE h
  OBVIOUS
<1>13. w.pcb[p].first_child = g
  BY <1>1, <1>6, <1>8, <1>12
<1>14. PICK B : B = Without(A, d)
  OBVIOUS
<1>15. IsList(g, M, B) /\ \A x : In(B, x) <=> In(A, x) /\ x # c
  <2>1. d = 1 => g = Succ(A, d)
    BY <1>9, <1>10, <1>12
  <2>2. d # 1 => g = h /\ M[A[d - 1]] = Succ(A, d)
    <3>1. d # 1 => d - 1 \in 1..Len(A) /\ A[d - 1] = s /\ s # None
      BY <1>8, <1>9, <1>10, ListTypes DEF Ahead
    <3> QED
      BY <1>9, <1>11, <1>12, <3>1
  <2>3. \A i \in 1..Len(A) : i # d /\ i # d - 1 => M[A[i]] = N[A[i]]
    <3>1. ASSUME NEW i \in 1..Len(A), i # d, i # d - 1, s # None PROVE A[i] # s
      <4>1. d - 1 \in 1..Len(A) /\ s = A[d - 1]
        BY <1>8, <1>9, <1>10, <3>1, ListTypes DEF Ahead
      <4> QED
        BY <1>9, <3>1, <4>1 DEF IsList, Once
    <3> QED
      BY <1>9, <1>11, <3>1
  <2>4. IsList(h, N, A) /\ d \in 1..Len(A) /\ c = A[d]
    BY <1>9
  <2>5. IsList(g, M, Without(A, d)) /\ \A x : In(Without(A, d), x) <=> In(A, x) /\ x # A[d]
    <3>1. CutAt(h, g, N, M, A, d)
      BY <2>1, <2>2, <2>3 DEF CutAt
    <3> QED
      BY <2>4, <3>1, ListWithout
  <2> QED
    BY <1>14, <2>4, <2>5
<1>16. PICK L : L = [x \in BLOCKS |-> IF x = p THEN B ELSE K[x]]
  OBVIOUS
<1>17. ASSUME NEW x \in BLOCKS, w.pcb[x].taken
       PROVE  /\ IsList(w.pcb[x].first_child, SibOf(w), L[x])
              /\ \A y \in BLOCKS : In(L[x], y) <=> Child(w, x, y)
  <2>1. CASE x = p
    <3>1. L[x] = B
      BY <1>16, <2>1
    <3>2. \A y \in BLOCKS : In(B, y) <=> Child(t, p, y) /\ y # c
      BY <1>2, <1>8, <1>15
    <3>3. IsList(w.pcb[x].first_child, M, L[x])
      BY <1>13, <1>15, <2>1, <3>1
    <3> QED
      BY <1>4, <1>7, <1>8, <2>1, <3>1, <3>2, <3>3
  <2>2. CASE x # p
    <3>1. t.pcb[x].taken /\ x # c /\ w.pcb[x].first_child = t.pcb[x].first_child /\ L[x] = K[x]
      BY <1>6, <1>16, <1>17, <2>2
    <3>2. PICK Y, j : Y = K[x] /\ j = t.pcb[x].first_child
      OBVIOUS
    <3>3. IsList(j, N, Y) /\ \A y \in BLOCKS : In(Y, y) <=> Child(t, x, y)
      BY <1>8, <3>1, <3>2 DEF Good, Family
    <3>4. s # None => s \in BLOCKS /\ Child(t, p, s)
      <4>1. s # None => d - 1 \in 1..Len(A) /\ s = A[d - 1] /\ s \in BLOCKS
        BY <1>8, <1>9, <1>10, ListTypes DEF Ahead
      <4> QED
        BY <1>2, <1>8, <4>1 DEF In
    <3>5. s # None => ~In(Y, s)
      BY <2>2, <3>3, <3>4 DEF Child
    <3>6. \A y \in BLOCKS : In(Y, y) => M[y] = N[y]
      BY <1>11, <3>5
    <3>7. IsList(j, M, Y)
      BY <3>3, <3>6, ListFrame
    <3>8. ~Child(t, x, c)
      BY <1>4, <2>2 DEF Child
    <3> QED
      BY <1>3, <1>7, <1>8, <1>17, <3>1, <3>2, <3>3, <3>7, <3>8
  <2> QED
    BY <2>1, <2>2
<1>18. ASSUME NEW y \in BLOCKS, w.pcb[y].taken
       PROVE  /\ w.pcb[y].parent # y
              /\ ~w.pcb[y].orphan /\ w.pcb[y].parent # None => w.pcb[w.pcb[y].parent].taken
  <2>1. t.pcb[y].taken /\ w.pcb[y].parent = t.pcb[y].parent
        /\ (w.pcb[y].orphan <=> t.pcb[y].orphan \/ Child(t, c, y))
    BY <1>6, <1>18
  <2>2. t.pcb[y].parent # y
        /\ (~t.pcb[y].orphan /\ t.pcb[y].parent # None => t.pcb[t.pcb[y].parent].taken)
    BY <1>18, <2>1 DEF Good, Family
  <2>3. t.pcb[y].parent # None => t.pcb[y].parent \in BLOCKS
    <3>1. t.pcb[y].parent \in Links
      BY <1>1, <1>18, SysFields, PcbFields
    <3> QED
      BY <3>1 DEF Links
  <2>4. ASSUME ~w.pcb[y].orphan, w.pcb[y].parent # None PROVE w.pcb[w.pcb[y].parent].taken
    <3>1. PICK z \in BLOCKS : z = t.pcb[y].parent
      BY <2>1, <2>3, <2>4
    <3>2. z # c
      BY <2>1, <2>4, <3>1 DEF Child
    <3>3. t.pcb[z].taken
      BY <2>1, <2>2, <2>4, <3>1
    <3> QED
      BY <1>6, <2>1, <3>1, <3>2, <3>3
  <2> QED
    BY <2>1, <2>2, <2>4
<1>19. Family(w, L)
  BY <1>17, <1>18 DEF Family
<1>20. w \in SysType /\ w.cur = t.cur /\ w.at = t.at /\ w.ready = t.ready
  BY <1>5 DEF SameTurn
<1>21. Queued(w, q)
  <2>1. \A x \in BLOCKS : In(q, x) <=> t.pcb[x].taken /\ t.pcb[x].state = "ready"
    BY DEF Good, Queued
  <2>2. NextOf(w) = NextOf(t)
    BY <1>6 DEF NextOf
  <2>3. IsList(w.ready, NextOf(w), q)
    BY <1>20, <2>2 DEF Good, Queued
  <2>4. \A x \in BLOCKS : In(q, x) <=> w.pcb[x].taken /\ w.pcb[x].state = "ready"
    BY <1>a, <2>1
  <2> QED
    BY <2>3, <2>4 DEF Queued
<1>22. Turns(w)
  <2>1. w.pcb[p].taken /\ w.pcb[p].state = t.pcb[p].state
    BY <1>1, <1>4, <1>a
  <2>2. \A x \in BLOCKS : x # p => w.pcb[x].state # "running"
    BY <1>a DEF Good, Turns
  <2> QED
    BY <1>1, <1>20, <2>1, <2>2 DEF Turns
<1>23. Freed(w)
  BY <1>a DEF Good, Freed
<1>24. ASSUME NEW x \in BLOCKS, w.pcb[x].taken, ~w.pcb[x].raced, Seeking(w, x),
              NEW y \in BLOCKS, Child(w, x, y)
       PROVE  w.pcb[y].state # "zombie"
  <2>1. Child(t, x, y) /\ y # c /\ t.pcb[x].taken /\ w.pcb[y].state = t.pcb[y].state
    BY <1>a, <1>7, <1>24
  <2>2. Seeking(t, x)
    BY <1>6, <1>20, <1>24 DEF Seeking, Asleep
  <2>3. CASE t.pcb[x].raced
    <3>1. x = p /\ ~more
      BY <1>6, <1>24, <2>3
    <3> QED
      BY <1>24, <2>1, <3>1 DEF OnlyZombie
  <2>4. CASE ~t.pcb[x].raced
    BY <1>24, <2>1, <2>2, <2>4 DEF Good, Waits, NoZombieOf
  <2> QED
    BY <2>3, <2>4
<1>25. Waits(w)
  BY <1>24 DEF Waits, NoZombieOf
<1> QED
  BY <1>19, <1>20, <1>21, <1>22, <1>23, <1>25 DEF Good

LEMMA FirstOf ==
  ASSUME NEW kids, Len(kids) \in Nat, NEW Z, Z \in SUBSET Elements(kids), Z # {}
  PROVE  kids[CHOOSE i \in 1..Len(kids) :
                kids[i] \in Z /\ \A j \in 1..(i - 1) : kids[j] \notin Z] \in Z
<1>1. PICK T : T = {i \in 1..Len(kids) : kids[i] \in Z}
  OBVIOUS
<1>2. T \in SUBSET Nat /\ T # {}
  <2>1. PICK x \in Z : x \in Elements(kids)
    OBVIOUS
  <2>2. PICK i \in 1..Len(kids) : kids[i] = x
    BY <2>1 DEF Elements
  <2>3. i \in T
    BY <1>1, <2>2
  <2> QED
    BY <1>1, <2>3
<1>3. PICK i \in T : \A j \in T : i <= j
  BY <1>2, LeastNat
<1>4. i \in 1..Len(kids) /\ kids[i] \in Z
  BY <1>1, <1>3
<1>5. ASSUME NEW j \in 1..(i - 1) PROVE kids[j] \notin Z
  <2>1. j \in 1..Len(kids) /\ ~ i <= j
    BY <1>4
  <2> QED
    BY <1>1, <1>3, <2>1
<1> QED
  BY <1>4, <1>5

LEMMA ReapIs ==
  ASSUME NEW t, NEW c, NEW p, p = t.cur, NEW kids, kids = Kids(t, p),
         NEW d, d = CHOOSE i \in 1..Len(kids) : kids[i] = c,
         NEW l, l = t.pcb[c].next_sibling, NEW v, v = free(t, c),
         NEW s, s = IF d = 1 THEN None ELSE kids[d - 1], s = None <=> d = 1
  PROVE  Spliced(v, reap(t, c), p, s, l)
<1>1. reap(t, c) = IF d = 1 THEN [v EXCEPT !.pcb[p].first_child = l]
                   ELSE [v EXCEPT !.pcb[kids[d - 1]].next_sibling = l]
  BY DEF reap
<1>2. PICK y, r : y = reap(t, c) /\ r = kids[d - 1]
  OBVIOUS
<1>3. CASE d = 1
  <2>1. y = [v EXCEPT !.pcb[p].first_child = l] /\ s = None
    BY <1>1, <1>2, <1>3
  <2> QED
    BY <1>2, <2>1 DEF Spliced
<1>4. CASE d # 1
  <2>1. y = [v EXCEPT !.pcb[r].next_sibling = l] /\ s = r /\ s # None
    BY <1>1, <1>2, <1>4
  <2>2. y = [v EXCEPT !.pcb[s].next_sibling = l]
    BY <2>1
  <2> QED
    BY <1>2, <2>1, <2>2 DEF Spliced
<1> QED
  BY <1>3, <1>4

LEMMA WaitReapKeeps ==
  ASSUME NEW t, NEW q, NEW K, Good(t, q, K), t.at = "user", t.pcb[t.cur].state # "zombie",
         NEW c \in ZombiesOf(t), NEW more \in BOOLEAN, more <=> ZombiesOf(t) # {c},
         NEW b \in BOOLEAN, b <=> reap(t, c).pcb[t.cur].raced /\ more,
         NEW w, Recalled(reap(t, c), w, t.cur, b)
  PROVE  \E L : Good(w, q, L)
<1>1. t \in SysType /\ t.cur \in BLOCKS /\ t.pcb[t.cur].taken
  BY DEF Good, Turns
<1>2. PICK p : p = t.cur
  OBVIOUS
<1>a. PICK kids : kids = Kids(t, p)
  OBVIOUS
<1>b. PICK Z : Z = ZombiesOf(t)
  OBVIOUS
<1>3. /\ kids = K[p] /\ IsList(t.pcb[p].first_child, SibOf(t), K[p])
      /\ Elements(kids) = {x \in BLOCKS : Child(t, p, x)}
  BY <1>1, <1>2, <1>a, KidsOf
<1>4. Z = {x \in BLOCKS : Child(t, p, x) /\ t.pcb[x].state = "zombie"}
  BY <1>2, <1>3, <1>a, <1>b DEF ZombiesOf
<1>5. Len(kids) \in Nat /\ \A i \in 1..Len(kids) : kids[i] \in BLOCKS /\ kids[i] # None
  <2>1. IsList(t.pcb[p].first_child, SibOf(t), kids)
    BY <1>3
  <2> QED
    BY <2>1, ListTypes
<1>6. c \in Z
  BY <1>b
<1>7. PICK d : d = CHOOSE i \in 1..Len(kids) : kids[i] = c
  OBVIOUS
<1>8. d \in 1..Len(kids) /\ kids[d] = c
  <2>1. \E i \in 1..Len(kids) : kids[i] = c
    BY <1>3, <1>4, <1>6 DEF Elements
  <2> QED
    BY <1>7, <2>1
<1>9. c \in BLOCKS /\ Child(t, p, c) /\ t.pcb[c].state = "zombie" /\ t.pcb[c].taken
  BY <1>4, <1>6 DEF Child
<1>10. PICK l \in Links : l = t.pcb[c].next_sibling
  BY <1>1, <1>9, SysFields, PcbFields
<1>11. PICK s : s = IF d = 1 THEN None ELSE kids[d - 1]
  OBVIOUS
<1>12. s \in Links /\ (s = None <=> d = 1)
  <2>1. d # 1 => d - 1 \in 1..Len(kids)
    BY <1>5, <1>8
  <2> QED
    BY <1>5, <1>11, <2>1, ForkSizes
<1>13. PICK v : v = free(t, c)
  OBVIOUS
<1>14. Spliced(v, reap(t, c), p, s, l)
  BY <1>2, <1>a, <1>7, <1>10, <1>11, <1>12, <1>13, ReapIs
<1>15. PICK R : R = Elements(Kids(t, c))
  OBVIOUS
<1>16. more <=> Z # {c}
  BY <1>b
<1>17. R = {x \in BLOCKS : Child(t, c, x)}
  BY <1>9, <1>15, KidsOf
<1>18. Reaped(t, w, p, c, s, l, more, R)
  <2>1. PICK y : y = reap(t, c)
    OBVIOUS
  <2>2. b <=> y.pcb[p].raced /\ more
    BY <1>2, <2>1
  <2>3. Recalled(y, w, p, b) /\ Spliced(v, y, p, s, l)
    BY <1>2, <1>14, <2>1
  <2> QED
    BY <1>1, <1>2, <1>9, <1>10, <1>12, <1>13, <1>15, <2>2, <2>3, ReapedIs
<1>19. more \/ OnlyZombie(t, p, c)
  BY <1>4, <1>16 DEF OnlyZombie
<1>20. d \in 1..Len(K[p]) /\ c = K[p][d] /\ Ahead(K[p], d, s)
  BY <1>3, <1>8, <1>11 DEF Ahead
<1>21. t.pcb[p].state # "zombie"
  BY <1>2
<1> QED
  BY <1>2, <1>9, <1>10, <1>17, <1>18, <1>19, <1>20, <1>21, ReapKeeps

----------------------------------------------------------------------------
(***************************************************************************)
(* kernel_main.                                                            *)
(***************************************************************************)
MadePCB(x, l) ==
  [taken |-> TRUE, pid |-> x, state |-> "ready", ticks |-> TimeSlice, context |-> "user",
   parent |-> None, first_child |-> None, next_sibling |-> None, next |-> l,
   orphan |-> FALSE, raced |-> FALSE]
MadePcbs(i) ==
  [x \in BLOCKS |-> IF x < i THEN MadePCB(x, x + 1) ELSE IF x = i THEN MadePCB(x, None)
                    ELSE Blank]
Made(stage, i) ==
  [stage |-> stage, pcb |-> MadePcbs(i), ready |-> IF i = 0 THEN None ELSE 1,
   cur |-> None, at |-> "user"]
UpTo(i) == [j \in 1..i |-> j]

LEMMA MadeNext ==
  ASSUME NEW x, NEW l, NEW n, NEW a, a = MadePCB(x, l), NEW e, e = [a EXCEPT !.next = n]
  PROVE  e = MadePCB(x, n)
BY DEF MadePCB

LEMMA MadeIs ==
  ASSUME NEW stage \in {11, 12}, NEW i \in 0..Boot, NEW t, t = Made(stage, i)
  PROVE  /\ t \in SysType /\ t.cur = None /\ t.at = "user"
         /\ IsList(t.ready, NextOf(t), UpTo(i)) /\ Len(UpTo(i)) = i
         /\ \A x \in BLOCKS :
              /\ ~t.pcb[x].orphan /\ ~t.pcb[x].raced /\ t.pcb[x].state = "ready"
              /\ t.pcb[x].parent = None /\ t.pcb[x].first_child = None
              /\ t.pcb[x].context = "user" /\ (t.pcb[x].taken <=> x <= i)
              /\ t.pcb[x].pid = (IF x <= i THEN x ELSE 0)
<1>1. /\ i \in Nat /\ i <= Boot /\ i <= Blocks /\ i <= LastPid
  BY ForkSizes
<1>2. /\ TimeSlice \in 0..(TickMod - 1) /\ 0 \in 0..(TickMod - 1) /\ None \in Links
      /\ 0 \in 0..LastPid
  BY ForkSizes
<1>3. ASSUME NEW x \in 0..LastPid, NEW l \in Links PROVE MadePCB(x, l) \in PCB
  BY <1>2 DEF MadePCB, PCB, States, Places
<1>4. Blank \in PCB
  BY <1>2 DEF Blank, PCB, States, Places
<1>5. ASSUME NEW x \in BLOCKS PROVE
        /\ x < i => x \in 0..LastPid /\ x + 1 \in Links
        /\ x = i => x \in 0..LastPid
  BY <1>1, ForkSizes DEF BLOCKS, Links
<1>6. \A x \in BLOCKS : MadePcbs(i)[x] = IF x < i THEN MadePCB(x, x + 1)
                                         ELSE IF x = i THEN MadePCB(x, None) ELSE Blank
  BY DEF MadePcbs
<1>7. \A x \in BLOCKS : MadePcbs(i)[x] \in PCB
  BY <1>2, <1>3, <1>4, <1>5, <1>6
<1>8. MadePcbs(i) \in [BLOCKS -> PCB]
  BY <1>7 DEF MadePcbs
<1>9. (IF i = 0 THEN None ELSE 1) \in Links
  BY <1>1, <1>2, ForkSizes DEF BLOCKS, Links
<1>10. t \in SysType /\ t.cur = None /\ t.at = "user" /\ t.pcb = MadePcbs(i)
       /\ t.ready = IF i = 0 THEN None ELSE 1
  BY <1>2, <1>8, <1>9 DEF SysType, Made, Places
<1>11. ASSUME NEW x \in BLOCKS
       PROVE  /\ ~t.pcb[x].orphan /\ ~t.pcb[x].raced /\ t.pcb[x].state = "ready"
              /\ t.pcb[x].parent = None /\ t.pcb[x].first_child = None
              /\ t.pcb[x].context = "user" /\ (t.pcb[x].taken <=> x <= i)
              /\ t.pcb[x].pid = (IF x <= i THEN x ELSE 0)
              /\ t.pcb[x].next = (IF x < i THEN x + 1 ELSE None)
  <2>1. x \in Nat
    BY ForkSizes
  <2>2. CASE x < i
    <3>1. t.pcb[x] = MadePCB(x, x + 1) /\ x <= i
      BY <1>1, <1>6, <1>10, <2>1, <2>2
    <3> QED
      BY <2>2, <3>1 DEF MadePCB
  <2>3. CASE x = i
    <3>1. t.pcb[x] = MadePCB(x, None) /\ x <= i /\ ~ x < i
      BY <1>1, <1>6, <1>10, <1>11, <2>1, <2>3
    <3> QED
      BY <3>1 DEF MadePCB
  <2>4. CASE x > i
    <3>1. t.pcb[x] = Blank /\ ~ x <= i /\ ~ x < i
      BY <1>1, <1>6, <1>10, <1>11, <2>1, <2>4
    <3> QED
      BY <3>1 DEF Blank
  <2> QED
    BY <1>1, <2>1, <2>2, <2>3, <2>4
<1>12. PICK q : q = UpTo(i)
  OBVIOUS
<1>13. q \in Seq(BLOCKS) /\ Len(q) = i /\ \A j \in 1..i : q[j] = j
  <2>1. \A j \in 1..i : j \in BLOCKS
    BY <1>1, ForkSizes DEF BLOCKS
  <2>2. q \in [1..i -> BLOCKS] /\ \A j \in 1..i : q[j] = j
    BY <1>12, <2>1 DEF UpTo
  <2> QED
    BY <1>1, <2>2
<1>14. IsList(t.ready, NextOf(t), q)
  <2>1. Once(q)
    BY <1>13 DEF Once
  <2>2. t.ready = IF Len(q) = 0 THEN None ELSE q[1]
    BY <1>1, <1>10, <1>13
  <2>3. ASSUME NEW j \in 1..Len(q) PROVE NextOf(t)[q[j]] = Succ(q, j)
    <3>1. q[j] = j /\ j \in BLOCKS /\ j \in Nat
      BY <1>1, <1>13, ForkSizes DEF BLOCKS
    <3>2. NextOf(t)[j] = IF j < i THEN j + 1 ELSE None
      BY <1>11, <3>1 DEF NextOf
    <3>3. j < i => q[j + 1] = j + 1
      BY <1>1, <1>13, <3>1
    <3> QED
      BY <1>13, <3>1, <3>2, <3>3 DEF Succ
  <2> QED
    BY <1>13, <2>1, <2>2, <2>3 DEF IsList
<1> QED
  BY <1>10, <1>11, <1>12, <1>13, <1>14

\* The least number that is not among the first i.
LEMMA LeastAfter ==
  ASSUME NEW m \in Nat, NEW i \in Nat, i < m, NEW T, T = (1..m) \ (1..i)
  PROVE  (CHOOSE a \in T : \A b \in T : a <= b) = i + 1
<1>1. i + 1 \in T /\ \A b \in T : i + 1 <= b /\ b \in Nat
  OBVIOUS
<1>2. \A a \in T : (\A b \in T : a <= b) => a = i + 1
  BY <1>1
<1> QED
  BY <1>1, <1>2

LEMMA MadeGrows ==
  ASSUME NEW stage \in {11, 12}, NEW i \in 0..Boot, i < Boot
  PROVE  process_create_11(Made(stage, i)) = Made(stage, i + 1)
<1>1. PICK t : t = Made(stage, i)
  OBVIOUS
<1>2. /\ t \in SysType /\ t.cur = None /\ t.at = "user"
      /\ IsList(t.ready, NextOf(t), UpTo(i)) /\ Len(UpTo(i)) = i
      /\ \A x \in BLOCKS :
           /\ ~t.pcb[x].orphan /\ ~t.pcb[x].raced /\ t.pcb[x].state = "ready"
           /\ t.pcb[x].parent = None /\ t.pcb[x].first_child = None
           /\ t.pcb[x].context = "user" /\ (t.pcb[x].taken <=> x <= i)
           /\ t.pcb[x].pid = (IF x <= i THEN x ELSE 0)
  BY <1>1, MadeIs
<1>3. PICK p : p = i + 1
  OBVIOUS
<1>4. /\ i \in Nat /\ i < Blocks /\ i < LastPid /\ p \in BLOCKS /\ p # None /\ p \in Links
      /\ Blocks \in Nat /\ LastPid \in Nat
  BY <1>3, ForkSizes DEF BLOCKS, Links
<1>5. kmalloc(t) = p
  <2>1. FreeBlocks(t) = (1..Blocks) \ (1..i)
    <3>1. \A x \in 1..Blocks : t.pcb[x].taken <=> x \in 1..i
      BY <1>2, <1>4 DEF BLOCKS
    <3> QED
      BY <3>1 DEF FreeBlocks, BLOCKS
  <2> QED
    BY <1>3, <1>4, <2>1, LeastAfter DEF kmalloc
<1>6. allocate_pid(t) = p
  <2>1. InTable(t) = 1..i
    <3>1. \A x \in BLOCKS : t.pcb[x].taken /\ t.pcb[x].parent = None <=> x \in 1..i
      BY <1>2, <1>4 DEF BLOCKS
    <3>2. 1..i \subseteq BLOCKS
      BY <1>4 DEF BLOCKS
    <3> QED
      BY <3>1, <3>2 DEF InTable
  <2>2. {t.pcb[x].pid : x \in InTable(t)} = 1..i
    <3>1. \A x \in 1..i : x \in BLOCKS /\ t.pcb[x].pid = x
      BY <1>2, <1>4 DEF BLOCKS
    <3> QED
      BY <2>1, <3>1
  <2>3. FreePids(t) = (1..LastPid) \ (1..i)
    BY <2>2 DEF FreePids
  <2> QED
    BY <1>3, <1>4, <2>3, LeastAfter DEF allocate_pid
<1>7. NewPCB(t) = MadePCB(p, None)
  <2>1. PICK a : a = NewPCB(t)
    OBVIOUS
  <2>2. a = [Blank EXCEPT !.taken = TRUE, !.pid = p, !.ticks = TimeSlice]
    BY <1>6, <2>1 DEF NewPCB
  <2>3. a = MadePCB(p, None)
    BY <2>2 DEF Blank, MadePCB
  <2> QED
    BY <2>1, <2>3
<1>8. PICK a, f : a = MadePCB(p, None) /\ f = [t.pcb EXCEPT ![p] = a]
  OBVIOUS
<1>9. PICK v : v = [stage |-> stage, pcb |-> f, ready |-> t.ready, cur |-> None, at |-> "user"]
  OBVIOUS
<1>10. t.pcb \in [BLOCKS -> PCB] /\ t.pcb = MadePcbs(i)
       /\ t.ready = (IF i = 0 THEN None ELSE 1)
  BY <1>1, <1>2, SysFields DEF Made
<1>11. [t EXCEPT !.pcb[p] = NewPCB(t)] = v
  <2>1. [t EXCEPT !.pcb[p] = NewPCB(t)] = [t EXCEPT !.pcb = f]
    BY <1>7, <1>8
  <2> QED
    BY <1>1, <1>9, <1>10, <2>1 DEF Made
<1>12. process_create_11(t) = append(v, p)
  BY <1>5, <1>11 DEF process_create_11
<1>13. \A x \in BLOCKS : f[x] = IF x = p THEN a ELSE t.pcb[x]
  BY <1>4, <1>8, <1>10
<1>14. Queue(v) = UpTo(i)
  <2>1. PICK N, M : N = NextOf(t) /\ M = NextOf(v)
    OBVIOUS
  <2>2. \A x \in BLOCKS : x # p => M[x] = N[x]
    BY <1>9, <1>13, <2>1 DEF NextOf
  <2>3. ~In(UpTo(i), p)
    BY <1>2, <1>3, <1>4 DEF In, UpTo
  <2>4. \A x \in BLOCKS : In(UpTo(i), x) => M[x] = N[x]
    BY <2>2, <2>3
  <2>5. IsList(t.ready, N, UpTo(i))
    BY <1>2, <2>1
  <2>6. IsList(t.ready, M, UpTo(i))
    BY <2>4, <2>5, ListFrame
  <2>7. v.ready = t.ready
    BY <1>9
  <2> QED
    BY <2>1, <2>6, <2>7, QueueIs
<1>15. [v EXCEPT !.pcb[p].next = None] = v
  <2>1. [a EXCEPT !.next = None] = a
    BY <1>8, MadeNext
  <2>2. f \in [BLOCKS -> {f[x] : x \in BLOCKS}] /\ f[p] = a
    BY <1>4, <1>8, <1>10, <1>13
  <2>3. [f EXCEPT ![p] = a] = f
    BY <2>2
  <2>4. [v EXCEPT !.pcb = f] = v
    BY <1>9
  <2>5. v.pcb = f
    BY <1>9
  <2> QED
    BY <2>1, <2>2, <2>3, <2>4, <2>5
<1>16. append(v, p) = IF UpTo(i) = << >> THEN [v EXCEPT !.ready = p]
                      ELSE [v EXCEPT !.pcb[UpTo(i)[i]].next = p]
  <2>1. PICK x, q, j : x = [v EXCEPT !.pcb[p].next = None] /\ q = Queue(v) /\ j = q[Len(q)]
    OBVIOUS
  <2>2. append(v, p) = IF q = << >> THEN [x EXCEPT !.ready = p] ELSE [x EXCEPT !.pcb[j].next = p]
    BY <2>1 DEF append
  <2>3. x = v /\ q = UpTo(i) /\ j = UpTo(i)[i]
    BY <1>2, <1>14, <1>15, <2>1
  <2> QED
    BY <2>2, <2>3
<1>17. CASE i = 0
  <2>1. UpTo(i) = << >>
    BY <1>17 DEF UpTo
  <2>2. append(v, p) = [stage |-> stage, pcb |-> f, ready |-> p, cur |-> None, at |-> "user"]
    BY <1>9, <1>16, <2>1
  <2>3. f = MadePcbs(i + 1)
    <3>1. \A x \in BLOCKS : f[x] = MadePcbs(i + 1)[x]
      <4>1. \A x \in BLOCKS : x # p => t.pcb[x] = Blank
        BY <1>3, <1>10, <1>17 DEF MadePcbs, BLOCKS
      <4>2. \A x \in BLOCKS : MadePcbs(i + 1)[x] = IF x = p THEN a ELSE Blank
        BY <1>3, <1>8, <1>17 DEF MadePcbs, BLOCKS
      <4> QED
        BY <1>13, <4>1, <4>2
    <3> QED
      BY <1>8, <1>10, <3>1 DEF MadePcbs
  <2>4. p = 1 /\ i + 1 # 0
    BY <1>3, <1>17
  <2> QED
    BY <1>1, <1>12, <2>2, <2>3, <2>4 DEF Made
<1>18. CASE i # 0
  <2>1. i \in 1..i /\ i \in BLOCKS /\ i # p /\ UpTo(i)[i] = i /\ UpTo(i) # << >>
    <3>1. i \in 1..i /\ i \in BLOCKS /\ i # p
      BY <1>3, <1>4, <1>18 DEF BLOCKS
    <3>2. Len(UpTo(i)) # 0
      BY <1>2, <1>18
    <3> QED
      BY <3>1, <3>2 DEF UpTo
  <2>2. PICK e, g : e = MadePCB(i, p) /\ g = [f EXCEPT ![i] = e]
    OBVIOUS
  <2>3. f[i] = MadePCB(i, None)
    BY <1>4, <1>10, <1>13, <2>1 DEF MadePcbs
  <2>4. [f[i] EXCEPT !.next = p] = e
    BY <2>2, <2>3, MadeNext
  <2>5. append(v, p) = [v EXCEPT !.pcb = g]
    <3>1. append(v, p) = [v EXCEPT !.pcb[i].next = p] /\ v.pcb = f
      BY <1>9, <1>16, <2>1
    <3> QED
      BY <2>2, <2>4, <3>1
  <2>6. append(v, p) = [stage |-> stage, pcb |-> g, ready |-> t.ready, cur |-> None, at |-> "user"]
    BY <1>9, <2>5
  <2>7. g = MadePcbs(i + 1)
    <3>1. ASSUME NEW x \in BLOCKS PROVE g[x] = MadePcbs(i + 1)[x]
      <4>1. g[x] = IF x = i THEN e ELSE IF x = p THEN a ELSE MadePcbs(i)[x]
        BY <1>4, <1>8, <1>10, <1>13, <2>1, <2>2
      <4>2. MadePcbs(i + 1)[x] = IF x < p THEN MadePCB(x, x + 1)
                                 ELSE IF x = p THEN MadePCB(x, None) ELSE Blank
        BY <1>3 DEF MadePcbs
      <4>3. MadePcbs(i)[x] = IF x < i THEN MadePCB(x, x + 1)
                             ELSE IF x = i THEN MadePCB(x, None) ELSE Blank
        BY DEF MadePcbs
      <4>4. x \in Nat
        BY ForkSizes
      <4>5. CASE x = i
        <5>1. x < p /\ x + 1 = p
          BY <1>3, <1>4, <4>5
        <5> QED
          BY <2>2, <4>1, <4>2, <4>5, <5>1
      <4>6. CASE x = p
        <5>1. x # i /\ ~ x < p
          BY <2>1, <1>4, <1>3, <4>6
        <5> QED
          BY <1>8, <4>1, <4>2, <4>6, <5>1
      <4>7. CASE x < i
        <5>1. x # i /\ x # p /\ x < p
          BY <1>3, <1>4, <4>4, <4>7
        <5> QED
          BY <4>1, <4>2, <4>3, <4>7, <5>1
      <4>8. CASE x > p
        <5>1. x # i /\ x # p /\ ~ x < p /\ ~ x < i
          BY <1>3, <1>4, <4>4, <4>8
        <5> QED
          BY <4>1, <4>2, <4>3, <5>1
      <4>9. x = i \/ x = p \/ x < i \/ x > p
        BY <1>3, <1>4, <4>4
      <4> QED
        BY <4>5, <4>6, <4>7, <4>8, <4>9
    <3>2. g = [x \in BLOCKS |-> g[x]]
      BY <1>8, <1>10, <2>2
    <3> QED
      BY <3>1, <3>2 DEF MadePcbs
  <2>8. t.ready = 1 /\ i + 1 # 0
    BY <1>4, <1>10, <1>18
  <2> QED
    BY <1>1, <1>12, <2>6, <2>7, <2>8 DEF Made
<1> QED
  BY <1>17, <1>18

\* The recursion of kernel_main.
IsMade(g, stage) ==
  g = [i \in 0..Boot |->
         IF i = 0
         THEN [stage |-> stage, pcb |-> [p \in BLOCKS |-> Blank],
               ready |-> None, cur |-> None, at |-> "user"]
         ELSE process_create_11(g[i - 1])]

LEMMA MadeFirst ==
  ASSUME NEW stage \in {11, 12}
  PROVE  Made(stage, 0) = [stage |-> stage, pcb |-> [p \in BLOCKS |-> Blank],
                           ready |-> None, cur |-> None, at |-> "user"]
<1>1. \A x \in BLOCKS : ~ x < 0 /\ x # 0
  BY ForkSizes DEF BLOCKS
<1>2. MadePcbs(0) = [p \in BLOCKS |-> Blank]
  BY <1>1 DEF MadePcbs
<1> QED
  BY <1>2 DEF Made

LEMMA BootedIs ==
  ASSUME NEW stage \in {11, 12}
  PROVE  Booted(stage) = process_set_current(Made(stage, Boot), 1)
<1> DEFINE g == [i \in 0..Boot |-> Made(stage, i)]
           h == CHOOSE w : IsMade(w, stage)
<1>1. PICK z : z = [stage |-> stage, pcb |-> [p \in BLOCKS |-> Blank],
                    ready |-> None, cur |-> None, at |-> "user"]
  OBVIOUS
<1>2. ASSUME NEW i \in 0..Boot
      PROVE  /\ i = 0 => Made(stage, i) = z
             /\ i # 0 => i - 1 \in 0..Boot /\ Made(stage, i) = process_create_11(Made(stage, i - 1))
  <2>1. i # 0 => i - 1 \in 0..Boot /\ i - 1 < Boot /\ (i - 1) + 1 = i
    BY ForkSizes
  <2> QED
    BY <1>1, <2>1, MadeFirst, MadeGrows
<1>3. IsMade(g, stage)
  <2>1. ASSUME NEW i \in 0..Boot
        PROVE  g[i] = IF i = 0 THEN z ELSE process_create_11(g[i - 1])
    BY <1>2
  <2>2. g = [i \in 0..Boot |-> g[i]]
    OBVIOUS
  <2> HIDE DEF g
  <2>3. g = [i \in 0..Boot |-> IF i = 0 THEN z ELSE process_create_11(g[i - 1])]
    BY <2>1, <2>2
  <2> QED
    BY <1>1, <2>3 DEF IsMade
<1>4. IsMade(h, stage)
  BY <1>3
<1>5. Booted(stage) = process_set_current(h[Boot], 1)
  BY DEF Booted, IsMade
<1> HIDE DEF h, g
<1>6. \A i \in 0..Boot : h[i] = IF i = 0 THEN z ELSE process_create_11(h[i - 1])
  BY <1>1, <1>4 DEF IsMade
<1>7. PICK T : T = {i \in 0..Boot : h[i] # Made(stage, i)}
  OBVIOUS
<1>8. T = {}
  <2> SUFFICES ASSUME T # {} PROVE FALSE
    OBVIOUS
  <2>1. T \in SUBSET Nat
    BY <1>7
  <2>2. PICK i \in T : \A j \in T : i <= j
    BY <2>1, LeastNat
  <2>3. i \in 0..Boot /\ h[i] # Made(stage, i)
    BY <1>7, <2>2
  <2>4. i # 0
    BY <1>2, <1>6, <2>3
  <2>5. i - 1 \in 0..Boot /\ ~ i <= i - 1
    BY <1>2, <2>3, <2>4
  <2>6. h[i - 1] = Made(stage, i - 1)
    BY <1>7, <2>2, <2>5
  <2> QED
    BY <1>2, <1>6, <2>3, <2>4, <2>6
<1>9. Boot \in 0..Boot
  BY ForkSizes
<1> QED
  BY <1>5, <1>7, <1>8, <1>9

LEMMA BootKeeps ==
  ASSUME NEW stage \in {11, 12}, NEW u, u = Booted(stage)
  PROVE  \E q, K : Good(u, q, K)
<1>1. PICK t : t = Made(stage, Boot)
  OBVIOUS
<1>2. /\ Boot \in 0..Boot /\ Boot # 0 /\ 1 \in BLOCKS /\ 1 <= Boot /\ 1 # None /\ 1 \in Links
      /\ Boot \in Nat
  BY ForkSizes DEF BLOCKS, None, Links
<1>3. PICK q : q = UpTo(Boot)
  OBVIOUS
<1>4. /\ t \in SysType /\ t.cur = None /\ t.at = "user"
      /\ IsList(t.ready, NextOf(t), q) /\ Len(q) = Boot
      /\ \A x \in BLOCKS :
           /\ ~t.pcb[x].orphan /\ ~t.pcb[x].raced /\ t.pcb[x].state = "ready"
           /\ t.pcb[x].parent = None /\ t.pcb[x].first_child = None
           /\ t.pcb[x].context = "user" /\ (t.pcb[x].taken <=> x <= Boot)
           /\ t.pcb[x].pid = (IF x <= Boot THEN x ELSE 0)
  BY <1>1, <1>2, <1>3, MadeIs
<1>5. t.ready = 1
  BY <1>1, <1>2 DEF Made
<1>6. \A x : In(q, x) <=> x \in 1..Boot
  BY <1>2, <1>3, <1>4 DEF In, UpTo
<1>7. PICK y : y = [t EXCEPT !.cur = 1]
  OBVIOUS
<1>8. y \in SysType /\ y.cur = 1 /\ y.at = "user" /\ y.ready = 1 /\ y.pcb = t.pcb
  BY <1>2, <1>4, <1>5, <1>7 DEF SysType
<1>9. PICK e : e = [t.pcb[1] EXCEPT !.state = "running"]
  OBVIOUS
<1>10. /\ e \in PCB /\ SameKin(e, t.pcb[1]) /\ e.state = "running" /\ e.next = t.pcb[1].next
       /\ e.context = t.pcb[1].context /\ e.raced = t.pcb[1].raced
  <2>1. t.pcb[1] \in PCB
    BY <1>2, <1>4, SysFields
  <2> QED
    BY <1>9, <2>1 DEF PCB, States, SameKin
<1>11. PICK f : f = [y.pcb EXCEPT ![1] = e]
  OBVIOUS
<1>12. PICK z : z = [y EXCEPT !.pcb = f]
  OBVIOUS
<1>13. [t EXCEPT !.cur = 1, !.pcb[1].state = "running"] = z
  <2>1. z = [t EXCEPT !.cur = 1, !.pcb = f]
    BY <1>4, <1>7, <1>12 DEF SysType
  <2>2. f = [t.pcb EXCEPT ![1] = [t.pcb[1] EXCEPT !.state = "running"]]
    BY <1>8, <1>9, <1>11
  <2> QED
    BY <1>4, <2>1, <2>2 DEF SysType
<1>14. Put(y, z, 1, e)
  BY <1>2, <1>8, <1>10, <1>11, <1>12, PutIs
<1>15. /\ z \in SysType /\ z.cur = 1 /\ z.at = "user" /\ z.ready = 1
       /\ \A x \in BLOCKS : z.pcb[x] = IF x = 1 THEN e ELSE t.pcb[x]
  BY <1>8, <1>14 DEF Put
<1>16. u = Unlink(z, z.ready)
  <2>1. process_set_current(t, 1) = Unlink(z, 1)
    BY <1>13 DEF process_set_current
  <2> QED
    BY <1>1, <1>15, <2>1, BootedIs
<1>17. IsList(z.ready, NextOf(z), q)
  <2>1. NextOf(z) = NextOf(t)
    BY <1>10, <1>15 DEF NextOf
  <2> QED
    BY <1>4, <1>5, <1>15, <2>1
<1>18. PICK r : r = Without(q, 1)
  OBVIOUS
<1>19. /\ Like(z, u) /\ IsList(u.ready, NextOf(u), r)
       /\ \A x : In(r, x) <=> In(q, x) /\ x # 1
  BY <1>2, <1>4, <1>15, <1>16, <1>17, <1>18, UnlinkHeadIs
<1>20. u \in SysType /\ u.cur = 1 /\ u.at = "user"
  BY <1>15, <1>19 DEF Like
<1>21. \A x \in BLOCKS :
         /\ ~u.pcb[x].orphan /\ ~u.pcb[x].raced /\ u.pcb[x].parent = None
         /\ u.pcb[x].first_child = None /\ u.pcb[x].context = "user"
         /\ (u.pcb[x].taken <=> x <= Boot)
         /\ u.pcb[x].state = IF x = 1 THEN "running" ELSE "ready"
  BY <1>4, <1>10, <1>15, <1>19, SMTT(30) DEF Like, SameProc, SameKin
<1>22. Queued(u, r)
  <2>1. \A x \in BLOCKS : In(r, x) <=> u.pcb[x].taken /\ u.pcb[x].state = "ready"
    <3>1. \A x \in BLOCKS : x \in 1..Boot <=> x <= Boot
      BY <1>2, ForkSizes DEF BLOCKS
    <3> QED
      BY <1>6, <1>19, <1>21, <3>1
  <2> QED
    BY <1>19, <2>1 DEF Queued
<1>23. Turns(u) /\ Freed(u)
  BY <1>2, <1>20, <1>21 DEF Turns, Freed
<1>24. PICK K : K = [x \in BLOCKS |-> << >>]
  OBVIOUS
<1>25. Family(u, K)
  <2>1. \A c, p \in BLOCKS : ~Child(u, p, c)
    BY <1>21, ForkSizes DEF Child
  <2>2. IsList(None, SibOf(u), << >>)
    BY DEF IsList, Once
  <2>3. ASSUME NEW p \in BLOCKS, u.pcb[p].taken
        PROVE  /\ IsList(u.pcb[p].first_child, SibOf(u), K[p])
               /\ \A c \in BLOCKS : In(K[p], c) <=> Child(u, p, c)
    <3>1. u.pcb[p].first_child = None /\ K[p] = << >>
      BY <1>21, <1>24
    <3>2. \A c : ~In(<< >>, c)
      BY DEF In
    <3> QED
      BY <2>1, <2>2, <3>1, <3>2
  <2> QED
    BY <1>21, <2>3, ForkSizes DEF Family
<1>26. Waits(u)
  BY <1>20, <1>21 DEF Waits, Seeking, Asleep
<1>27. Good(u, r, K)
  BY <1>20, <1>22, <1>23, <1>25, <1>26 DEF Good
<1> QED
  BY <1>27

----------------------------------------------------------------------------
(***************************************************************************)
(* The theorems of stages 11 and 12.                                       *)
(***************************************************************************)
\* The queue from ready_queue and the child lists are there.
ForkInv == \E q, K : Good(sys, q, K) \/ Leaving(sys, q, K)

LEMMA KidsLength ==
  ASSUME NEW t, NEW q, NEW K, Good(t, q, K)
  PROVE  Len(Kids(t, t.cur)) \in Nat
<1>1. PICK p : p = t.cur
  OBVIOUS
<1>2. p \in BLOCKS /\ t.pcb[p].taken
  BY <1>1 DEF Good, Turns
<1>3. Kids(t, p) = K[p] /\ IsList(t.pcb[p].first_child, SibOf(t), K[p])
  BY <1>2, KidsOf
<1> QED
  BY <1>1, <1>3, ListTypes

\* What sys_wait does to a zombie.
Reaps(t, u) ==
  LET Z == ZombiesOf(t)
      kids == Kids(t, t.cur)
      c == kids[CHOOSE i \in 1..Len(kids) :
                  kids[i] \in Z /\ \A j \in 1..(i - 1) : kids[j] \notin Z]
  IN u = [reap(t, c) EXCEPT !.pcb[t.cur].raced = @ /\ Z # {c}]

LEMMA WaitReapStep ==
  ASSUME NEW t, NEW q, NEW K, Good(t, q, K), t.at = "user", t.pcb[t.cur].state # "zombie",
         ZombiesOf(t) # {}, NEW u, Reaps(t, u)
  PROVE  \E r, L : Good(u, r, L)
<1>1. PICK Z, kids : Z = ZombiesOf(t) /\ kids = Kids(t, t.cur)
  OBVIOUS
<1>2. PICK c : c = kids[CHOOSE i \in 1..Len(kids) :
                          kids[i] \in Z /\ \A j \in 1..(i - 1) : kids[j] \notin Z]
  OBVIOUS
<1>3. u = [reap(t, c) EXCEPT !.pcb[t.cur].raced = @ /\ Z # {c}]
  BY <1>1, <1>2 DEF Reaps
<1>4. Len(kids) \in Nat /\ Z \in SUBSET Elements(kids) /\ Z # {}
  BY <1>1, KidsLength DEF ZombiesOf
<1>5. c \in ZombiesOf(t)
  BY <1>1, <1>2, <1>4, FirstOf
<1>6. PICK p, y : p = t.cur /\ y = reap(t, c)
  OBVIOUS
<1>7. PICK more : more = (Z # {c})
  OBVIOUS
<1>8. PICK b : b = (y.pcb[p].raced /\ more)
  OBVIOUS
<1>9. Recalled(y, u, p, b)
  BY <1>3, <1>6, <1>7, <1>8 DEF Recalled
<1> QED
  BY <1>1, <1>5, <1>6, <1>7, <1>8, <1>9, WaitReapKeeps

\* The marked process that loses the CPU, its parent having missed the exit.
LEMMA MissKeeps ==
  ASSUME NEW t, NEW q, NEW K, Good(t, q, K), t.at = "user",
         NEW p, p = t.cur, NEW f, f = t.pcb[p].parent, NEW missed \in BOOLEAN,
         missed <=> Lost(t, p), NEW y, Dies(t, y, p, f, missed)
  PROVE  Good(y, q, K)
<1>1. t \in SysType /\ p \in BLOCKS /\ t.pcb[p].taken /\ t.pcb[p].state # "ready"
  BY DEF Good, Turns
<1>2. y \in SysType /\ y.cur = t.cur /\ y.at = t.at /\ y.ready = t.ready
      /\ \A x \in BLOCKS :
           /\ SameKin(y.pcb[x], t.pcb[x])
           /\ (y.pcb[x].raced <=> (missed /\ x = f) \/ t.pcb[x].raced)
           /\ y.pcb[x].state = (IF x = p THEN "zombie" ELSE t.pcb[x].state)
           /\ y.pcb[x].context = t.pcb[x].context /\ y.pcb[x].next = t.pcb[x].next
           /\ y.pcb[x].taken = t.pcb[x].taken
  BY DEF Dies, SameKin
<1>3. Queued(y, q)
  <2>1. NextOf(y) = NextOf(t)
    BY <1>2 DEF NextOf
  <2> QED
    BY <1>1, <1>2, <2>1 DEF Good, Queued
<1>4. Family(y, K) /\ \A x, c \in BLOCKS : Child(y, x, c) <=> Child(t, x, c)
  <2>1. KinKept(t, y)
    BY <1>2 DEF KinKept
  <2> QED
    BY <1>1, <2>1, FamilyFrame DEF Good
<1>5. Turns(y) /\ Freed(y)
  BY <1>1, <1>2 DEF Good, Turns, Freed
<1>6. ASSUME NEW x \in BLOCKS, y.pcb[x].taken, ~y.pcb[x].raced, Seeking(y, x),
             NEW c \in BLOCKS, Child(y, x, c)
      PROVE  y.pcb[c].state # "zombie"
  <2>1. x # p
    BY <1>2, <1>6 DEF Seeking, Asleep
  <2>2. Child(t, x, c)
    BY <1>4, <1>6
  <2>3. c # p
    <3> SUFFICES ASSUME c = p PROVE FALSE
      OBVIOUS
    <3>1. x = f /\ missed
      BY <2>2, ForkSizes DEF Child, Lost
    <3> QED
      BY <1>2, <1>6, <3>1
  <2>4. Seeking(t, x) /\ t.pcb[x].taken /\ ~t.pcb[x].raced
    BY <1>2, <1>6, <2>1 DEF Seeking, Asleep
  <2>5. t.pcb[c].state # "zombie"
    BY <1>6, <2>2, <2>4 DEF Good, Waits, NoZombieOf
  <2> QED
    BY <1>2, <1>6, <2>3, <2>5
<1> QED
  BY <1>2, <1>3, <1>4, <1>5, <1>6 DEF Good, Waits, NoZombieOf

LEMMA DispatchedIs ==
  ASSUME NEW h \in [BLOCKS -> PCB], NEW nx \in BLOCKS, NEW st, NEW rd, NEW p, NEW at,
         NEW s, s = [stage |-> st, pcb |-> h, ready |-> rd, cur |-> p, at |-> at],
         NEW w, Dispatched(s, w, nx)
  PROVE  w = [stage |-> st, pcb |-> [h EXCEPT ![nx] = [h[nx] EXCEPT !.next = None, !.state = "running"]],
              ready |-> h[nx].next, cur |-> nx, at |-> h[nx].context]
<1>1. PICK e : e = [h[nx] EXCEPT !.next = None, !.state = "running"]
  OBVIOUS
<1>2. PICK g : g = [h EXCEPT ![nx] = e]
  OBVIOUS
<1>3. w = [s EXCEPT !.ready = h[nx].next, !.cur = nx, !.at = h[nx].context, !.pcb = g]
  <2>1. w = [s EXCEPT !.ready = h[nx].next, !.cur = nx, !.at = h[nx].context,
                      !.pcb[nx].next = None, !.pcb[nx].state = "running"]
    BY DEF Dispatched
  <2> QED
    BY <1>1, <1>2, <2>1, ZenonT(30)
<1> QED
  BY <1>1, <1>2, <1>3

\* Whether sys_exit had cleared the ticks and was left is lost with the CPU.
LEMMA LostCpu ==
  ASSUME NEW t, NEW p \in BLOCKS, NEW st, NEW nx \in BLOCKS, nx # p, nx # None, NEW e \in PCB,
         NEW F \in [BLOCKS -> PCB], F[p] = e, e.state = "zombie",
         t = [stage |-> st, pcb |-> F, ready |-> nx, cur |-> p, at |-> "exit"],
         (e.ticks + TickMod - 1) % TickMod = 0,
         NEW f, f = e.parent, f # None => f \in BLOCKS /\ f # p,
         NEW z, Cleared(t, z, p, 0), NEW y, y = Miss(z),
         NEW u, u = timer_handler(Miss(t))
  PROVE  Dispatched(y, u, nx)
<1>1. PICK lost \in BOOLEAN : lost <=> ~e.orphan /\ f # None
  OBVIOUS
<1>2. PICK d : d = [e EXCEPT !.ticks = 0]
  OBVIOUS
<1>3. d \in PCB /\ d.parent = e.parent /\ d.orphan = e.orphan /\ d.state = "zombie"
  BY <1>2, ForkSizes DEF PCB
<1>4. PICK g : g = [F EXCEPT ![p] = d]
  OBVIOUS
<1>5. g \in [BLOCKS -> PCB] /\ g[p] = d /\ \A x \in BLOCKS : x # p => g[x] = F[x]
  BY <1>3, <1>4, PcbPut
<1>6. z = [stage |-> st, pcb |-> g, ready |-> nx, cur |-> p, at |-> "user"]
  <2>1. z = [t EXCEPT !.pcb = g, !.at = "user"]
    BY <1>2, <1>4 DEF Cleared
  <2> QED
    BY <2>1
<1>7. PICK h : h = IF lost THEN [g EXCEPT ![f].raced = TRUE] ELSE g
  OBVIOUS
<1>8. y = [stage |-> st, pcb |-> h, ready |-> nx, cur |-> p, at |-> "user"]
  BY <1>1, <1>3, <1>5, <1>6, <1>7 DEF Miss
<1>9. PICK j : j = IF lost THEN [F EXCEPT ![f].raced = TRUE] ELSE F
  OBVIOUS
<1>10. PICK m : m = Miss(t)
  OBVIOUS
<1>11. m = [stage |-> st, pcb |-> j, ready |-> nx, cur |-> p, at |-> "exit"]
  BY <1>1, <1>9, <1>10 DEF Miss
<1>12. j[p] = e
  BY <1>1, <1>9
<1>13. h = [j EXCEPT ![p].ticks = 0]
  <2>1. CASE ~lost
    BY <1>2, <1>4, <1>7, <1>9, <2>1
  <2>2. CASE lost
    <3>1. f \in BLOCKS /\ f # p
      BY <1>1, <2>2
    <3>2. PICK b : b = [F[f] EXCEPT !.raced = TRUE]
      OBVIOUS
    <3>3. h = [g EXCEPT ![f] = b] /\ j = [F EXCEPT ![f] = b]
      BY <1>5, <1>7, <1>9, <2>2, <3>1, <3>2
    <3>4. [j EXCEPT ![p].ticks = 0] = [j EXCEPT ![p] = d]
      BY <1>2, <1>12
    <3>5. [[F EXCEPT ![p] = d] EXCEPT ![f] = b] = [[F EXCEPT ![f] = b] EXCEPT ![p] = d]
      BY <3>1
    <3> QED
      BY <1>4, <3>3, <3>4, <3>5
  <2> QED
    BY <2>1, <2>2
<1>14. PICK s : s = [m EXCEPT !.pcb[m.cur].ticks = 0]
  OBVIOUS
<1>15. s = [stage |-> st, pcb |-> h, ready |-> nx, cur |-> p, at |-> "exit"]
  BY <1>11, <1>13, <1>14
<1>16. u = schedule_from_interrupt(s)
  <2>1. m.pcb[m.cur].ticks = e.ticks
    BY <1>11, <1>12
  <2>2. (m.pcb[m.cur].ticks + TickMod - 1) % TickMod = 0
    BY <2>1
  <2>3. u = timer_handler(m)
    BY <1>10
  <2> QED
    BY <1>14, <2>2, <2>3 DEF timer_handler
<1>17. h[p].state = "zombie"
  <2>1. h[p] = d
    BY <1>1, <1>5, <1>7
  <2> QED
    BY <1>3, <2>1
<1>18. Requeue(s) = s
  BY <1>15, <1>17 DEF Requeue
<1>19. u = [s EXCEPT !.ready = s.pcb[nx].next, !.cur = nx, !.at = s.pcb[nx].context,
                     !.pcb[nx].next = None, !.pcb[nx].state = "running"]
  <2>1. s.ready = nx /\ s.cur = p
    BY <1>15
  <2>2. nx # None
    OBVIOUS
  <2> QED
    BY <1>16, <1>18, <2>1, <2>2 DEF schedule_from_interrupt
<1>20. Dispatched(s, u, nx)
  BY <1>19 DEF Dispatched
<1>21. PICK w : Dispatched(y, w, nx)
  BY DEF Dispatched
<1>22. h \in [BLOCKS -> PCB]
  <2>1. CASE ~lost
    BY <1>5, <1>7, <2>1
  <2>2. CASE lost
    <3>1. f \in BLOCKS
      BY <1>1, <2>2
    <3>2. PICK b : b = [g[f] EXCEPT !.raced = TRUE]
      OBVIOUS
    <3>3. b \in PCB
      <4>1. g[f] \in PCB
        BY <1>5, <3>1
      <4> QED
        BY <3>2, <4>1 DEF PCB
    <3> QED
      BY <1>5, <1>7, <2>2, <3>1, <3>2, <3>3
  <2> QED
    BY <2>1, <2>2
<1>23. u = w
  <2>1. PICK x : x = [stage |-> st, pcb |-> [h EXCEPT ![nx] = [h[nx] EXCEPT !.next = None, !.state = "running"]],
                      ready |-> h[nx].next, cur |-> nx, at |-> h[nx].context]
    OBVIOUS
  <2>2. u = x
    BY <1>15, <1>20, <1>22, <2>1, DispatchedIs
  <2>3. w = x
    BY <1>8, <1>21, <1>22, <2>1, DispatchedIs
  <2> QED
    BY <2>2, <2>3
<1> QED
  BY <1>21, <1>23

Exits(t, u, p, f, z, y) ==
  /\ f = t.pcb[p].parent
  /\ z = [t EXCEPT !.pcb[p].ticks = 0, !.at = "user"]
  /\ y = IF f # None /\ t.pcb[f].context = "window" THEN Miss(z) ELSE z
  /\ u = schedule(WakeParent(y, f))

LEMMA ExitStep ==
  ASSUME NEW v, NEW q, NEW K, Good(v, q, K), v.at = "user", NEW t, t = Marked(v),
         NEW p, p = v.cur, NEW u, NEW f, NEW z, NEW y, Exits(t, u, p, f, z, y)
  PROVE  \E r : Good(u, r, K)
<1>1. v \in SysType /\ p \in BLOCKS
  BY DEF Good, Turns
<1>2. v.pcb[p] \in PCB
  BY <1>1, SysFields
<1>3. Mark(t, v)
  BY <1>1, MarkIs
<1>4. t.cur = p /\ t.pcb[p].parent = v.pcb[p].parent /\ \A x \in BLOCKS : t.pcb[x].context = v.pcb[x].context
  BY <1>2, <1>3 DEF Mark, PCB
<1>5. f = v.pcb[p].parent
  BY <1>4 DEF Exits
<1>6. f # None => f \in BLOCKS
  BY <1>5, ParentIs
<1>7. PICK late \in BOOLEAN : late <=> f # None /\ v.pcb[f].context = "window"
  OBVIOUS
<1>8. Dies(v, z, p, f, FALSE)
  <2>1. Cleared(t, z, p, 0)
    BY DEF Exits, Cleared
  <2>2. 0 \in 0..(TickMod - 1)
    BY ForkSizes
  <2> QED
    BY <1>1, <2>1, <2>2, DiesIs
<1>9. y = IF late THEN Miss(z) ELSE z
  BY <1>4, <1>6, <1>7 DEF Exits
<1>10. u = schedule(WakeParent(y, f))
  BY DEF Exits
<1>11. PICK missed \in BOOLEAN : missed <=> late /\ Lost(v, p)
  OBVIOUS
<1>12. Dies(v, y, p, f, missed)
  <2>1. CASE late
    <3>1. missed <=> Lost(v, p)
      BY <1>11, <2>1
    <3>2. y = Miss(z)
      BY <1>9, <2>1
    <3> QED
      BY <1>1, <1>5, <1>6, <1>8, <3>1, <3>2, MissIs
  <2>2. CASE ~late
    <3>1. y = z /\ missed = FALSE
      BY <1>9, <1>11, <2>2
    <3> QED
      BY <1>8, <3>1
  <2> QED
    BY <2>1, <2>2
<1>13. Lost(v, p) /\ v.pcb[f].context = "window" => missed
  BY <1>5, <1>7, <1>11 DEF Lost
<1> QED
  BY <1>5, <1>10, <1>12, <1>13, ExitKeeps

\* Timer, with the zombie in sys_exit that loses the CPU.
Ticks(t, u) ==
  u = IF t.at = "exit" /\ timer_handler(t).cur # t.cur
      THEN timer_handler(Miss(t)) ELSE timer_handler(t)

LEMMA TimerLeave ==
  ASSUME NEW v, NEW q, NEW K, Good(v, q, K), v.at = "user", v.pcb[v.cur].state # "zombie",
         NEW t, t = Marked(v), NEW u, Ticks(t, u)
  PROVE  \E r : Good(u, r, K) \/ Leaving(u, r, K)
<1>1. PICK p : p = v.cur
  OBVIOUS
<1>2. v \in SysType /\ p \in BLOCKS
  BY <1>1 DEF Good, Turns
<1>3. v.pcb[p] \in PCB /\ v.pcb \in [BLOCKS -> PCB]
  BY <1>2, SysFields
<1>4. PICK e : e = [v.pcb[p] EXCEPT !.state = "zombie"]
  OBVIOUS
<1>5. e \in PCB /\ e.state = "zombie" /\ e.ticks \in 0..(TickMod - 1)
      /\ e.parent = v.pcb[p].parent /\ e.orphan = v.pcb[p].orphan
  BY <1>3, <1>4 DEF PCB, States
<1>6. Mark(t, v) /\ t.pcb = [v.pcb EXCEPT ![p] = e]
  BY <1>1, <1>2, <1>4, MarkIs
<1>7. /\ t.cur = p /\ t.at = "exit" /\ t.stage = v.stage /\ t.ready = v.ready
      /\ t.pcb \in [BLOCKS -> PCB] /\ t.pcb[p] = e
      /\ t = [stage |-> v.stage, pcb |-> t.pcb, ready |-> v.ready, cur |-> p, at |-> "exit"]
  BY <1>1, <1>3, <1>4, <1>6 DEF Mark, Marked
<1>8. PICK n : n = (t.pcb[p].ticks + TickMod - 1) % TickMod
  OBVIOUS
<1>9. n \in 0..(TickMod - 1)
  BY <1>5, <1>7, <1>8, TicksFit
<1>10. PICK s : s = [t EXCEPT !.pcb[t.cur].ticks = n]
  OBVIOUS
<1>11. timer_handler(t) = IF n = 0 THEN schedule_from_interrupt(s) ELSE s
  BY <1>7, <1>8, <1>10 DEF timer_handler
<1>12. Leaving(s, q, K)
  BY <1>9, <1>10, TicksLeave
<1>13. /\ s.cur = p /\ s.ready = v.ready /\ s.pcb[p].state = "zombie"
  <2>1. s.pcb = [t.pcb EXCEPT ![p] = [e EXCEPT !.ticks = n]]
    BY <1>7, <1>10
  <2>2. s.pcb[p] = [e EXCEPT !.ticks = n]
    BY <1>2, <1>7, <2>1
  <2> QED
    BY <1>5, <1>7, <1>10, <2>2 DEF PCB
<1>14. Requeue(s) = s
  BY <1>13 DEF Requeue
<1>15. CASE n # 0
  <2>1. timer_handler(t) = s /\ s.cur = t.cur
    BY <1>7, <1>11, <1>13, <1>15
  <2>2. u = s
    BY <2>1 DEF Ticks
  <2> QED
    BY <1>12, <2>2
<1>16. CASE n = 0 /\ v.ready = None
  <2>1. PICK x : x = [s EXCEPT !.pcb[s.cur].ticks = TimeSlice]
    OBVIOUS
  <2>2. timer_handler(t) = x
    BY <1>11, <1>13, <1>14, <1>16, <2>1 DEF schedule_from_interrupt
  <2>3. x = [t EXCEPT !.pcb[t.cur].ticks = TimeSlice]
    <3>1. s.pcb = [t.pcb EXCEPT ![p] = [e EXCEPT !.ticks = n]]
      BY <1>7, <1>10
    <3>2. x.pcb = [t.pcb EXCEPT ![p] = [e EXCEPT !.ticks = TimeSlice]]
      <4>1. x.pcb = [s.pcb EXCEPT ![p].ticks = TimeSlice]
        BY <1>7, <1>10, <1>13, <2>1
      <4>2. [[e EXCEPT !.ticks = n] EXCEPT !.ticks = TimeSlice] = [e EXCEPT !.ticks = TimeSlice]
        BY <1>5 DEF PCB
      <4> QED
        BY <1>2, <1>7, <3>1, <4>1, <4>2
    <3>3. [t EXCEPT !.pcb[t.cur].ticks = TimeSlice].pcb = [t.pcb EXCEPT ![p] = [e EXCEPT !.ticks = TimeSlice]]
      BY <1>7
    <3> QED
      BY <1>7, <1>10, <1>13, <2>1, <3>2, <3>3, ZenonT(30)
  <2>4. TimeSlice \in 0..(TickMod - 1)
    BY ForkSizes
  <2>5. Leaving(x, q, K)
    BY <2>3, <2>4, TicksLeave
  <2>6. x.cur = t.cur
    BY <2>3, <1>7
  <2>7. u = x
    BY <2>2, <2>6 DEF Ticks
  <2> QED
    BY <2>5, <2>7
<1>17. CASE n = 0 /\ v.ready # None
  <2>1. PICK nx : nx = v.ready
    OBVIOUS
  <2>2. nx \in BLOCKS /\ nx # p
    <3>1. IsList(v.ready, NextOf(v), q) /\ \A x \in BLOCKS : In(q, x) <=> v.pcb[x].taken /\ v.pcb[x].state = "ready"
      BY DEF Good, Queued
    <3>2. nx \in BLOCKS /\ In(q, nx)
      BY <1>2, <1>17, <2>1, <3>1, ListHead
    <3> QED
      BY <1>1, <3>1, <3>2 DEF Good, Turns
  <2>3. timer_handler(t).cur = nx
    <3>1. s.ready = nx /\ nx # None
      BY <1>13, <1>17, <2>1
    <3>2. timer_handler(t) = schedule_from_interrupt(s)
      BY <1>11, <1>17
    <3>3. timer_handler(t) =
            [s EXCEPT !.ready = s.pcb[nx].next, !.cur = nx, !.at = s.pcb[nx].context,
                      !.pcb[nx].next = None, !.pcb[nx].state = "running"]
      BY <1>14, <3>1, <3>2 DEF schedule_from_interrupt
    <3>4. "cur" \in DOMAIN s
      BY <1>7, <1>10
    <3> QED
      BY <3>3, <3>4
  <2>4. u = timer_handler(Miss(t))
    BY <1>7, <2>2, <2>3 DEF Ticks
  <2>5. PICK z : Cleared(t, z, p, 0)
    BY DEF Cleared
  <2>6. PICK y : y = Miss(z)
    OBVIOUS
  <2>7. PICK f : f = v.pcb[p].parent
    OBVIOUS
  <2>8. (f # None => f \in BLOCKS /\ f # p)
    BY <1>1, <2>7, ParentIs
  <2>9. PICK missed \in BOOLEAN : missed <=> Lost(v, p)
    OBVIOUS
  <2>10. Dies(v, y, p, f, missed)
    <3>1. Dies(v, z, p, f, FALSE)
      <4>1. 0 \in 0..(TickMod - 1)
        BY ForkSizes
      <4> QED
        BY <1>1, <1>2, <2>5, <4>1, DiesIs
    <3> QED
      BY <1>1, <1>2, <2>6, <2>7, <2>8, <2>9, <3>1, MissIs
  <2>11. Good(y, q, K)
    BY <1>1, <2>7, <2>9, <2>10, MissKeeps
  <2>12. Between(y, q, K)
    <3>1. y.cur = p /\ y.pcb[p].state = "zombie"
      BY <1>1, <1>2, <2>10 DEF Dies
    <3>2. \A x \in BLOCKS : y.pcb[x].state # "running"
      BY <2>11, <3>1 DEF Good, Turns
    <3> QED
      BY <2>11, <3>2 DEF Good, Between, Waits, Seeking
  <2>13. y.ready = nx
    BY <2>1, <2>10 DEF Dies
  <2>14. Dispatched(y, u, nx)
    <3>1. PICK F \in [BLOCKS -> PCB] : F = t.pcb
      BY <1>7
    <3>2. F[p] = e /\ (e.ticks + TickMod - 1) % TickMod = 0
      BY <1>7, <1>8, <1>17, <3>1
    <3>3. t = [stage |-> v.stage, pcb |-> F, ready |-> nx, cur |-> p, at |-> "exit"]
      BY <1>7, <2>1, <3>1
    <3>4. nx # None /\ f = e.parent
      BY <1>5, <1>17, <2>1, <2>7
    <3> QED
      BY <1>2, <1>5, <2>2, <2>4, <2>5, <2>6, <2>8, <3>2, <3>3, <3>4, LostCpu
  <2>15. nx # None
    BY <1>17, <2>1
  <2> QED
    BY <2>12, <2>13, <2>14, <2>15, DispatchIs
<1> QED
  BY <1>15, <1>16, <1>17

LEMMA TimerStep ==
  ASSUME NEW t, NEW q, NEW K, Good(t, q, K) \/ Leaving(t, q, K), NEW u, Ticks(t, u)
  PROVE  \E r : Good(u, r, K) \/ Leaving(u, r, K)
<1>1. CASE Good(t, q, K)
  <2>1. t.at # "exit"
    BY <1>1, SysFields DEF Good, Places
  <2>2. u = timer_handler(t)
    BY <2>1 DEF Ticks
  <2> QED
    BY <1>1, <2>2, TimerKeeps
<1>2. CASE Leaving(t, q, K)
  <2>1. PICK v : Good(v, q, K) /\ v.at = "user" /\ v.pcb[v.cur].state # "zombie" /\ t = Marked(v)
    BY <1>2 DEF Leaving
  <2> QED
    BY <2>1, TimerLeave
<1> QED
  BY <1>1, <1>2

LEMMA ForkInvInit == ForkInit => ForkInv
<1> SUFFICES ASSUME ForkInit PROVE ForkInv
  OBVIOUS
<1>1. PICK stage \in {11, 12} : sys = Booted(stage)
  BY DEF ForkInit
<1> QED
  BY <1>1, BootKeeps DEF ForkInv

LEMMA ForkInvNext == ForkInv /\ [ForkNext]_sys => ForkInv'
<1> SUFFICES ASSUME ForkInv, [ForkNext]_sys PROVE ForkInv'
  OBVIOUS
<1>1. PICK q, K : Good(sys, q, K) \/ Leaving(sys, q, K)
  BY DEF ForkInv
<1>2. PICK t : t = sys
  OBVIOUS
<1>3. PICK u : u = sys'
  OBVIOUS
<1>4. /\ Good(t, q, K) \/ Leaving(t, q, K)
      /\ t.at # "exit" => Good(t, q, K)
  <2>1. Leaving(t, q, K) => t.at = "exit"
    <3> SUFFICES ASSUME Leaving(t, q, K) PROVE t.at = "exit"
      OBVIOUS
    <3>1. PICK v : Good(v, q, K) /\ t = Marked(v)
      BY DEF Leaving
    <3> QED
      BY <3>1, MarkIs DEF Good, Turns, Mark
  <2> QED
    BY <1>1, <1>2, <2>1
<1>5. (\E r, L : Good(u, r, L) \/ Leaving(u, r, L)) => ForkInv'
  BY <1>3 DEF ForkInv
<1>6. Running => t.at = "user" /\ t.pcb[t.cur].state # "zombie"
  BY <1>2 DEF Running
<1>7. CASE Timer
  <2>1. Ticks(t, u)
    BY <1>2, <1>3, <1>7 DEF Timer, Ticks
  <2>2. \E r : Good(u, r, K) \/ Leaving(u, r, K)
    BY <1>4, <2>1, TimerStep
  <2> QED
    BY <1>5, <2>2
<1>8. CASE Fork
  <2>1. Running /\ FreePids(t) # {} /\ FreeBlocks(t) # {} /\ u = fork(t, kmalloc(t))
    BY <1>2, <1>3, <1>8 DEF Fork
  <2> QED
    BY <1>4, <1>5, <1>6, <2>1, ForkKeeps
<1>9. CASE Exec
  <2>1. Running /\ Execs(t, u)
    BY <1>2, <1>3, <1>9 DEF Exec, Execs
  <2> QED
    BY <1>4, <1>5, <1>6, <2>1, ExecKeeps
<1>10. CASE WaitReap
  <2>1. Zombies = ZombiesOf(sys)
    BY DEF Zombies, ZombiesOf
  <2>2. Reaps(sys, sys')
    BY <1>10, <2>1 DEF WaitReap, Reaps
  <2>3. Running /\ ZombiesOf(sys) # {}
    BY <1>10, <2>1 DEF WaitReap
  <2>4. Running /\ ZombiesOf(t) # {} /\ Reaps(t, u)
    BY <1>2, <1>3, <2>2, <2>3
  <2> QED
    BY <1>4, <1>5, <1>6, <2>4, WaitReapStep
<1>11. CASE WaitSearch
  <2>1. Running /\ ZombiesOf(t) = {} /\ u = [t EXCEPT !.at = "window"]
    BY <1>2, <1>3, <1>11 DEF WaitSearch, Zombies, ZombiesOf
  <2> QED
    BY <1>4, <1>5, <1>6, <2>1, WaitSearchKeeps
<1>12. CASE WaitBlock
  <2>1. t.at = "window" /\ u = [schedule(process_block(t, t.cur)) EXCEPT !.at = "user"]
    BY <1>2, <1>3, <1>12 DEF WaitBlock
  <2> QED
    BY <1>4, <1>5, <2>1, WaitBlockKeeps DEF Places
<1>13. CASE ExitMark
  <2>1. Running /\ u = Marked(t)
    BY <1>2, <1>3, <1>13 DEF ExitMark, Marked
  <2>2. Good(t, q, K) /\ t.at = "user" /\ t.pcb[t.cur].state # "zombie"
    BY <1>4, <1>6, <2>1
  <2>3. Leaving(u, q, K)
    BY <2>1, <2>2 DEF Leaving
  <2> QED
    BY <1>5, <2>3
<1>14. CASE ExitWake
  <2>1. t.at = "exit"
    BY <1>2, <1>14 DEF ExitWake
  <2>2. Leaving(t, q, K)
    <3>1. Good(t, q, K) => t.at # "exit"
      BY SysFields DEF Good, Places
    <3> QED
      BY <1>4, <2>1, <3>1
  <2>3. PICK v : Good(v, q, K) /\ v.at = "user" /\ v.pcb[v.cur].state # "zombie" /\ t = Marked(v)
    BY <2>2 DEF Leaving
  <2>4. PICK p : p = v.cur
    OBVIOUS
  <2>5. t.cur = p
    BY <2>3, <2>4, MarkIs DEF Good, Turns, Mark
  <2>6. PICK f : f = t.pcb[p].parent
    OBVIOUS
  <2>7. PICK z : z = [t EXCEPT !.pcb[p].ticks = 0, !.at = "user"]
    OBVIOUS
  <2>8. PICK y : y = IF f # None /\ t.pcb[f].context = "window" THEN Miss(z) ELSE z
    OBVIOUS
  <2>9. u = schedule(WakeParent(y, f))
    BY <1>2, <1>3, <1>14, <2>5, <2>6, <2>7, <2>8 DEF ExitWake
  <2>10. Exits(t, u, p, f, z, y)
    BY <2>6, <2>7, <2>8, <2>9 DEF Exits
  <2> QED
    BY <1>5, <2>3, <2>4, <2>10, ExitStep
<1>15. CASE UNCHANGED sys
  BY <1>2, <1>3, <1>4, <1>5, <1>15
<1> QED
  BY <1>7, <1>8, <1>9, <1>10, <1>11, <1>12, <1>13, <1>14, <1>15 DEF ForkNext

\* The inductive invariant of stages 11 and 12: some sequence q is the list of
\* next links from ready_queue and holds the ready processes, and some K[p] is
\* the list of sibling links of each process p and holds its children; who waits
\* in sys_wait has no zombie child but one that raced with it.
THEOREM ForkHolds == ForkSpec => []ForkInv
<1> QED
  BY ForkInvInit, ForkInvNext, PTL DEF ForkSpec

\* What the properties speak of, but for the state of the zombie in sys_exit.
LEMMA InvIs ==
  ASSUME ForkInv
  PROVE  \E v, q, K :
           /\ Good(v, q, K) /\ sys.ready = v.ready /\ sys.cur = v.cur /\ sys.pcb \in [BLOCKS -> PCB]
           /\ sys.stage = v.stage /\ sys.at \in Places \cup {"exit"}
           /\ sys = [stage |-> sys.stage, pcb |-> sys.pcb, ready |-> sys.ready,
                     cur |-> sys.cur, at |-> sys.at]
           /\ \A x \in BLOCKS :
                /\ SameKin(sys.pcb[x], v.pcb[x]) /\ sys.pcb[x].next = v.pcb[x].next
                /\ sys.pcb[x].raced = v.pcb[x].raced
                /\ sys.pcb[x].state = v.pcb[x].state
                   \/ (x = v.cur /\ sys.at = "exit" /\ sys.pcb[x].state = "zombie")
<1>1. PICK q, K : Good(sys, q, K) \/ Leaving(sys, q, K)
  BY DEF ForkInv
<1>2. CASE Good(sys, q, K)
  <2>1. sys \in SysType /\ sys.pcb \in [BLOCKS -> PCB] /\ sys.at \in Places
        /\ sys = [stage |-> sys.stage, pcb |-> sys.pcb, ready |-> sys.ready,
                  cur |-> sys.cur, at |-> sys.at]
    BY <1>2, SysFields DEF Good, SysType
  <2> QED
    BY <1>2, <2>1 DEF SameKin
<1>3. CASE Leaving(sys, q, K)
  <2>1. PICK v : Good(v, q, K) /\ sys = Marked(v)
    BY <1>3 DEF Leaving
  <2>2. v \in SysType /\ v.cur \in BLOCKS
    BY <2>1 DEF Good, Turns
  <2>3. Mark(sys, v)
    BY <2>1, <2>2, MarkIs
  <2>4. v.pcb[v.cur] \in PCB
    BY <2>2, SysFields
  <2>5. ASSUME NEW x \in BLOCKS
        PROVE  /\ SameKin(sys.pcb[x], v.pcb[x]) /\ sys.pcb[x].next = v.pcb[x].next
               /\ sys.pcb[x].raced = v.pcb[x].raced
               /\ sys.pcb[x].state = v.pcb[x].state
                  \/ (x = v.cur /\ sys.at = "exit" /\ sys.pcb[x].state = "zombie")
    <3>1. CASE x = v.cur
      BY <2>3, <2>4, <3>1 DEF Mark, SameKin, PCB
    <3>2. CASE x # v.cur
      BY <2>3, <2>5, <3>2 DEF Mark, SameKin
    <3> QED
      BY <3>1, <3>2
  <2>6. sys = [stage |-> sys.stage, pcb |-> sys.pcb, ready |-> sys.ready,
               cur |-> sys.cur, at |-> sys.at]
    BY <2>1, <2>2 DEF Marked, SysType
  <2> QED
    BY <2>1, <2>3, <2>5, <2>6 DEF Mark
<1> QED
  BY <1>1, <1>2, <1>3

\* The lists of the state are those of v.
Alike(t, v) ==
  /\ t.ready = v.ready /\ t.cur = v.cur
  /\ \A x \in BLOCKS :
       /\ SameKin(t.pcb[x], v.pcb[x]) /\ t.pcb[x].next = v.pcb[x].next
       /\ t.pcb[x].raced = v.pcb[x].raced
       /\ t.pcb[x].state = v.pcb[x].state
          \/ (x = v.cur /\ t.at = "exit" /\ t.pcb[x].state = "zombie")

LEMMA InvAlike ==
  ASSUME ForkInv
  PROVE  \E v, q, K : Good(v, q, K) /\ Alike(sys, v)
BY InvIs DEF Alike

LEMMA AlikeKids ==
  ASSUME NEW v, NEW q, NEW K, Good(v, q, K), NEW t, Alike(t, v), NEW p \in BLOCKS, t.pcb[p].taken
  PROVE  /\ Kids(t, p) = K[p] /\ IsList(t.pcb[p].first_child, SibOf(t), K[p])
         /\ Elements(Kids(t, p)) = {c \in BLOCKS : Child(t, p, c)}
         /\ \A c \in BLOCKS : Child(t, p, c) <=> Child(v, p, c)
<1>1. KinKept(v, t)
  BY DEF Alike, KinKept
<1>2. Family(t, K) /\ \A x, c \in BLOCKS : Child(t, x, c) <=> Child(v, x, c)
  BY <1>1, FamilyFrame DEF Good
<1>3. /\ IsList(t.pcb[p].first_child, SibOf(t), K[p])
      /\ \A c \in BLOCKS : In(K[p], c) <=> Child(t, p, c)
  BY <1>2 DEF Family
<1>4. Kids(t, p) = K[p]
  BY <1>3, KidsIs
<1>5. \A c : c \in Elements(K[p]) <=> In(K[p], c)
  BY DEF Elements, In
<1>6. \A c : In(K[p], c) => c \in BLOCKS
  BY <1>3, ListTypes DEF In
<1> QED
  BY <1>2, <1>3, <1>4, <1>5, <1>6

\* Type correctness of stages 11 and 12.
THEOREM ForkTypes == ForkSpec => []ForkTypeOK
<1>1. ASSUME ForkInv PROVE ForkTypeOK
  <2>1. PICK v, q, K :
          /\ Good(v, q, K) /\ sys.ready = v.ready /\ sys.cur = v.cur /\ sys.pcb \in [BLOCKS -> PCB]
          /\ sys.stage = v.stage /\ sys.at \in Places \cup {"exit"}
          /\ sys = [stage |-> sys.stage, pcb |-> sys.pcb, ready |-> sys.ready,
                    cur |-> sys.cur, at |-> sys.at]
    BY <1>1, InvIs
  <2>2. v \in SysType
    BY <2>1 DEF Good
  <2> QED
    BY <2>1, <2>2, SysFields DEF ForkTypeOK
<1> QED
  BY <1>1, ForkHolds, PTL

\* Whatever ticks, forks, waits and exits come, the links from ready_queue visit
\* each ready process of stages 11 and 12 once, and no other and no freed block.
THEOREM ForkQueueIsReadySet == ForkSpec => []QueueIsReadySet
<1>1. ASSUME ForkInv PROVE QueueIsReadySet
  <2>1. PICK v, q, K : Good(v, q, K) /\ Alike(sys, v)
    BY <1>1, InvAlike
  <2>2. PICK t : t = sys
    OBVIOUS
  <2>3. /\ IsList(t.ready, NextOf(t), q)
        /\ \A p \in BLOCKS : In(q, p) <=> t.pcb[p].taken /\ t.pcb[p].state = "ready"
        /\ t.cur \in BLOCKS /\ t.pcb[t.cur].taken
    <3>1. /\ t.ready = v.ready /\ t.cur = v.cur
          /\ \A x \in BLOCKS :
               /\ t.pcb[x].taken = v.pcb[x].taken /\ t.pcb[x].next = v.pcb[x].next
               /\ t.pcb[x].state = v.pcb[x].state \/ (x = v.cur /\ t.pcb[x].state = "zombie")
      BY <2>1, <2>2 DEF Alike, SameKin
    <3>2. NextOf(t) = NextOf(v)
      BY <3>1 DEF NextOf
    <3>3. IsList(t.ready, NextOf(t), q)
      BY <2>1, <3>1, <3>2 DEF Good, Queued
    <3> QED
      BY <2>1, <3>1, <3>3 DEF Good, Queued, Turns
  <2>4. Queue(t) = q
    BY <2>3, QueueIs
  <2>5. Len(q) = Cardinality(Elements(q))
    BY <2>3, BlocksFit DEF IsList
  <2>6. \A p : p \in Elements(q) <=> In(q, p)
    BY DEF Elements, In
  <2>7. \A p : In(q, p) => p \in BLOCKS
    BY <2>3, ListTypes DEF In
  <2>8. Taken = {p \in BLOCKS : t.pcb[p].taken}
    BY <2>2 DEF Taken
  <2>9. Elements(q) = {p \in Taken : t.pcb[p].state = "ready"}
    BY <2>3, <2>6, <2>7, <2>8
  <2> QED
    BY <2>2, <2>3, <2>4, <2>5, <2>8, <2>9 DEF QueueIsReadySet
<1> QED
  BY <1>1, ForkHolds, PTL

\* In stages 11 and 12 the child list of each process visits each child that is
\* not reaped yet once, so wait finds them all; an orphan is in no list.
THEOREM ForkChildrenListed == ForkSpec => []ChildrenListed
<1>1. ASSUME ForkInv PROVE ChildrenListed
  <2>1. PICK v, q, K : Good(v, q, K) /\ Alike(sys, v)
    BY <1>1, InvAlike
  <2>2. PICK t : t = sys
    OBVIOUS
  <2>3. Taken = {c \in BLOCKS : t.pcb[c].taken}
    BY <2>2 DEF Taken
  <2>4. ASSUME NEW p \in Taken
        PROVE  /\ Elements(Kids(t, p)) = {c \in Taken : t.pcb[c].parent = p /\ ~t.pcb[c].orphan}
               /\ Len(Kids(t, p)) = Cardinality(Elements(Kids(t, p)))
    <3>1. p \in BLOCKS /\ t.pcb[p].taken
      BY <2>3
    <3>2. /\ Kids(t, p) = K[p] /\ IsList(t.pcb[p].first_child, SibOf(t), K[p])
          /\ Elements(Kids(t, p)) = {c \in BLOCKS : Child(t, p, c)}
      BY <2>1, <2>2, <3>1, AlikeKids
    <3>3. Len(K[p]) = Cardinality(Elements(K[p]))
      BY <3>2, BlocksFit DEF IsList
    <3> QED
      BY <2>3, <3>2, <3>3 DEF Child
  <2> QED
    BY <2>2, <2>4 DEF ChildrenListed
<1> QED
  BY <1>1, ForkHolds, PTL

\* A process of stages 11 and 12 sleeps over a zombie child only if the child is
\* about to look whether to wake it, exited while a tick had stopped the parent
\* between its search and process_block, or lost the CPU before that look.
THEOREM ForkWakeLostOnlyInWindow == ForkSpec => []WakeLostOnlyInWindow
<1>1. ASSUME ForkInv PROVE WakeLostOnlyInWindow
  <2>1. PICK v, q, K : Good(v, q, K) /\ Alike(sys, v)
    BY <1>1, InvAlike
  <2>2. PICK t : t = sys
    OBVIOUS
  <2>3. ASSUME NEW p \in Taken, t.pcb[p].state = "blocked", ~t.pcb[p].raced,
               NEW c \in Elements(Kids(t, p)), t.pcb[c].state = "zombie"
        PROVE  c = t.cur /\ t.at = "exit"
    <3>1. p \in BLOCKS /\ t.pcb[p].taken
      BY <2>2 DEF Taken
    <3>2. c \in BLOCKS /\ Child(v, p, c)
      BY <2>1, <2>2, <2>3, <3>1, AlikeKids
    <3>3. v.pcb[p].state = "blocked" /\ ~v.pcb[p].raced /\ v.pcb[p].taken
      BY <2>1, <2>2, <2>3, <3>1 DEF Alike, SameKin
    <3>4. NoZombieOf(v, p)
      BY <2>1, <3>1, <3>3 DEF Good, Waits, Seeking, Asleep
    <3>5. v.pcb[c].state # "zombie"
      BY <3>2, <3>4 DEF NoZombieOf
    <3> QED
      BY <2>1, <2>2, <2>3, <3>2, <3>5 DEF Alike
  <2> QED
    BY <2>2, <2>3 DEF WakeLostOnlyInWindow
<1> QED
  BY <1>1, ForkHolds, PTL
=============================================================================
