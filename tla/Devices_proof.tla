---------------------------- MODULE Devices_proof ----------------------------
(***************************************************************************)
(* The disk driver, for any drive, any bounds of the polling loops and any *)
(* size of the count register: what a read returns was read, and what was  *)
(* written and flushed stays.  Then the interrupts, for any of the stages: *)
(* who is interrupted comes back, and every line is served by its handler. *)
(***************************************************************************)
EXTENDS Disk, Interrupts, TLAPS

----------------------------------------------------------------------------
\* The inductive invariant.
Stored(l) == [for |-> l, val |-> req.val]
InCall == pc \in {"ready", "transfer", "flush"}

\* How many sectors the drive takes the count register to mean.
Asked == LET n == CountRegister(req.count) IN IF n = 0 THEN CountMod ELSE n

\* A drive that is not busy waits for the host or has nothing to do.
DriveInv ==
  /\ drive.at + drive.left <= MaxLba + CountMod
  /\ ~ drive.busy /\ drive.phase # "idle" =>
       drive.phase # "flush" /\ drive.left > 0 /\ drive.at \in LBA
  /\ drive.phase = "idle" => ~ drive.busy
  /\ drive.phase = "flush" => drive.left = 0
  /\ InCall => req.lba + req.count <= MaxLba

\* Unless it ignored the command, the drive stands where the driver thinks.
InStep ==
  pc = "transfer" /\ ~ crossed =>
    /\ s <= SectorsToMove(req.count)
    /\ \/ drive.phase = req.op /\ ~ drive.err /\ drive.at = req.lba + s /\ drive.left = Asked - s
       \/ drive.phase = "idle" /\ (drive.err \/ s = Asked)

\* What has been read so far.
ReadInv ==
  /\ pc = "probe" => result = -1
  /\ ~ crossed /\ req.op = "read" =>
       /\ pc = "ready" => buffer = << >>
       /\ pc = "transfer" => Len(buffer) = s
       /\ pc = "idle" /\ result = 0 => Len(buffer) = req.count
       /\ pc = "transfer" \/ (pc = "idle" /\ result = 0) =>
            \A i \in 1..Len(buffer) : /\ req.lba + i - 1 \in LBA
                                      /\ buffer[i] = Content(req.lba + i - 1)

\* What has been written so far is in the cache, or on the medium after the flush.
WrittenInv ==
  /\ pc = "transfer" /\ req.op = "write" /\ ~ crossed =>
       \A l \in LBA : req.lba <= l /\ l < req.lba + s => cache[l] = Stored(l)
  /\ pc = "flush" => req.op = "write" /\ s = SectorsToMove(req.count)
  /\ pc = "flush" /\ ~ crossed =>
       \A l \in LBA : req.lba <= l /\ l < req.lba + s =>
         IF flushed THEN media[l] = Stored(l) ELSE cache[l] = Stored(l)
  /\ pc = "flush" /\ flushed => \A l \in LBA : cache[l] = None

\* The sectors a write command in progress will still store to, although the
\* driver may have abandoned it and be in another call.
StillToStore(l) == drive.phase = "write" /\ drive.at <= l /\ l < drive.at + drive.left

\* A sector that was acknowledged waits for nothing, and a write in progress
\* has no acknowledged sector in its reach.
AckedInv ==
  /\ pc = "flush" /\ flushed => drive.phase = "idle"
  /\ \A l \in LBA : StillToStore(l) => acked[l] = None
  /\ InCall /\ req.op = "write" => \A l \in Range(req) : acked[l] = None
  /\ \A l \in LBA : acked[l] # None => media[l] = acked[l] /\ cache[l] = None

DiskInv == TypeOK /\ DriveInv /\ InStep /\ ReadInv /\ WrittenInv /\ AckedInv

----------------------------------------------------------------------------
LEMMA Register ==
  ASSUME NEW n \in Nat \ {0}
  PROVE  /\ CountRegister(n) = IF n < CountMod THEN n ELSE 0
         /\ SectorsToMove(n) = CountRegister(n)
<1>1. n < CountMod => n % CountMod = n
  BY DiskAssumption
<1>2. n = CountMod => n % CountMod = 0
  BY DiskAssumption
<1> QED
  BY <1>1, <1>2, DiskAssumption DEF CountRegister, SectorsToMove

LEMMA RequestFields ==
  ASSUME TypeOK
  PROVE  /\ req.op \in {"read", "write"} /\ req.lba \in 0..MaxLba
         /\ req.count \in 1..MaxCount /\ req.count \in Nat \ {0} /\ req.val \in Vals
         /\ Asked \in 1..CountMod /\ SectorsToMove(req.count) \in 0..(CountMod - 1)
         /\ SectorsToMove(req.count) = (IF req.count < CountMod THEN req.count ELSE 0)
         /\ Asked = (IF req.count < CountMod THEN req.count ELSE CountMod)
<1>1. /\ req.op \in {"read", "write"} /\ req.lba \in 0..MaxLba
      /\ req.count \in 1..MaxCount /\ req.count \in Nat \ {0} /\ req.val \in Vals
  BY DiskAssumption DEF TypeOK, Requests
<1>2. SectorsToMove(req.count) = (IF req.count < CountMod THEN req.count ELSE 0)
  BY <1>1, Register
<1>3. Asked = (IF req.count < CountMod THEN req.count ELSE CountMod)
  BY <1>1, Register DEF Asked
<1> QED
  BY <1>1, <1>2, <1>3, DiskAssumption

LEMMA DriveFields ==
  ASSUME TypeOK
  PROVE  /\ drive.phase \in {"idle", "read", "write", "flush"} /\ drive.busy \in BOOLEAN
         /\ drive.err \in BOOLEAN /\ drive.at \in 0..(MaxLba + CountMod)
         /\ drive.left \in 0..CountMod
BY DEF TypeOK, DriveType

LEMMA NothingAsked == NoCommand \in DriveType /\ NoRequest \in Requests
<1>1. NoCommand \in DriveType
  BY DiskAssumption DEF NoCommand, DriveType
<1>2. (CHOOSE v \in Vals : TRUE) \in Vals
  BY DiskAssumption
<1> QED
  BY <1>1, <1>2, DiskAssumption DEF NoRequest, Requests

\* A loop that goes on has moved nothing.
LEMMA NextCommandKeeps ==
  ASSUME TypeOK, NextCommand
  PROVE  /\ req' = req /\ s' = 0 /\ polls' = Polls
         /\ \/ /\ req.count = SectorsToMove(req.count)
               /\ pc' = "idle" /\ result' = 0
            \/ /\ req.count # SectorsToMove(req.count) /\ SectorsToMove(req.count) = 0
               /\ pc' = "ready" /\ result' = result
<1> DEFINE n == SectorsToMove(req.count)
<1>1. req.lba \in Int /\ req.count \in Int /\ (n = 0 \/ n = req.count)
  BY RequestFields
<1>2. CASE req.count = n
  BY <1>2 DEF NextCommand, Return
<1>3. CASE req.count # n
  <2>1. n = 0 /\ req.lba + n = req.lba /\ req.count - n = req.count
    BY <1>1, <1>3
  <2>2. /\ req' = [req EXCEPT !.lba = @ + n, !.count = @ - n]
        /\ pc' = "ready" /\ s' = 0 /\ polls' = Polls /\ result' = result
    BY <1>3 DEF NextCommand
  <2> HIDE DEF n
  <2>3. [req EXCEPT !.lba = @ + n, !.count = @ - n] = req
    BY <2>1 DEF TypeOK, Requests
  <2> QED
    BY <1>3, <2>1, <2>2, <2>3 DEF n
<1> QED
  BY <1>2, <1>3

LEMMA ContentIsContent ==
  ASSUME TypeOK, NEW l \in LBA PROVE Content(l) \in Contents
BY DEF TypeOK, Content

----------------------------------------------------------------------------
\* The drive.

LEMMA InitDisk == Init => DiskInv
<1> SUFFICES ASSUME Init PROVE DiskInv
  OBVIOUS
<1>1. TypeOK
  <2>1. media \in [LBA -> Contents]
    BY DEF Init, Contents
  <2> QED
    BY <2>1, NothingAsked, DiskAssumption DEF Init, TypeOK
<1>2. DriveInv
  BY DiskAssumption DEF Init, DriveInv, NoCommand, InCall
<1> QED
  BY <1>1, <1>2 DEF Init, DiskInv, InStep, ReadInv, WrittenInv, AckedInv, InCall

LEMMA DriveErrorKeeps == ASSUME DiskInv, DriveError PROVE DiskInv'
<1>1. /\ drive.busy /\ drive' = [NoCommand EXCEPT !.err = TRUE]
      /\ UNCHANGED << driverVars, media, cache, pc, req, s, polls, buffer, result, historyVars >>
  BY DEF DriveError
<1>2. /\ drive' \in DriveType /\ drive'.phase = "idle" /\ drive'.err /\ ~ drive'.busy
      /\ drive'.at = 0 /\ drive'.left = 0
  <2>1. drive' = [phase |-> "idle", busy |-> FALSE, err |-> TRUE, at |-> 0, left |-> 0]
    BY <1>1 DEF NoCommand
  <2> QED
    BY <2>1, DiskAssumption DEF DriveType
<1>3. TypeOK'
  BY <1>1, <1>2 DEF DiskInv, TypeOK, historyVars
<1>4. DriveInv'
  BY <1>1, <1>2, DiskAssumption DEF DiskInv, DriveInv, InCall
<1>5. InStep'
  BY <1>1, <1>2 DEF DiskInv, InStep, historyVars
<1>6. ReadInv'
  BY <1>1 DEF DiskInv, ReadInv, Content, historyVars
<1>7. WrittenInv'
  BY <1>1 DEF DiskInv, WrittenInv, Stored, historyVars
<1>8. AckedInv'
  BY <1>1, <1>2 DEF DiskInv, AckedInv, StillToStore, InCall, Range, historyVars
<1> QED
  BY <1>3, <1>4, <1>5, <1>6, <1>7, <1>8 DEF DiskInv

LEMMA DriveReadyKeeps == ASSUME DiskInv, DriveReady PROVE DiskInv'
<1>1. /\ drive.busy /\ (drive.left = 0 \/ drive.at \in LBA)
      /\ drive' = IF drive.left = 0 THEN NoCommand ELSE [drive EXCEPT !.busy = FALSE]
      /\ IF drive.phase = "flush"
         THEN /\ media' = [l \in LBA |-> Content(l)]
              /\ cache' = [l \in LBA |-> None]
              /\ flushed' = TRUE
         ELSE UNCHANGED << media, cache, flushed >>
      /\ UNCHANGED << driverVars, pc, req, s, polls, buffer, result, crossed, acked >>
  BY DEF DriveReady
<1>2. TypeOK /\ DriveInv /\ InStep /\ ReadInv /\ WrittenInv /\ AckedInv
  BY DEF DiskInv
<1>3. TypeOK'
  <2>1. drive' \in DriveType
    BY <1>1, <1>2, NothingAsked DEF TypeOK, DriveType
  <2>2. media' \in [LBA -> Contents] /\ cache' \in [LBA -> Contents \cup {None}]
    BY <1>1, <1>2, ContentIsContent DEF TypeOK
  <2> QED
    BY <1>1, <1>2, <2>1, <2>2 DEF TypeOK
<1>4. /\ drive'.phase = (IF drive.left = 0 THEN "idle" ELSE drive.phase)
      /\ drive'.at = (IF drive.left = 0 THEN 0 ELSE drive.at)
      /\ drive'.left = drive.left /\ ~ drive'.busy
      /\ drive'.err = (IF drive.left = 0 THEN FALSE ELSE drive.err)
  BY <1>1, <1>2 DEF NoCommand, TypeOK, DriveType
<1>5. /\ drive.phase \in {"idle", "read", "write", "flush"}
      /\ drive.at \in 0..(MaxLba + CountMod) /\ drive.left \in 0..CountMod
      /\ drive.phase # "idle"
  BY <1>1, <1>2, DriveFields DEF DriveInv
<1>6. DriveInv'
  BY <1>1, <1>2, <1>4, <1>5, DiskAssumption DEF DriveInv, InCall
<1>7. pc = "transfer" /\ ~ crossed => drive.phase = req.op /\ drive.phase # "flush"
  BY <1>2, <1>5, RequestFields DEF InStep
<1>8. InStep'
  <2>1. s \in 0..CountMod /\ Asked \in 1..CountMod
    BY <1>2, RequestFields DEF TypeOK
  <2>2. Asked' = Asked
    BY <1>1 DEF Asked
  <2> QED
    BY <1>1, <1>2, <1>4, <1>5, <2>1, <2>2, DiskAssumption DEF InStep
<1>9. \A l \in LBA : Content(l)' = Content(l)
  BY <1>1 DEF Content
<1>10. ReadInv'
  BY <1>1, <1>2, <1>9 DEF ReadInv
<1>11. \A l \in LBA : Stored(l) # None
  BY DEF Stored, None, LBA
<1>12. WrittenInv'
  <2>1. CASE drive.phase # "flush"
    BY <1>1, <1>2, <2>1 DEF WrittenInv, Stored
  <2>2. CASE drive.phase = "flush"
    <3>1. \A l \in LBA : cache'[l] = None /\ media'[l] = Content(l)
      BY <1>1, <2>2
    <3>2. pc = "flush" /\ ~ crossed =>
            \A l \in LBA : req.lba <= l /\ l < req.lba + s => media'[l] = Stored(l)
      BY <1>2, <1>11, <3>1 DEF WrittenInv, Content
    <3> QED
      BY <1>1, <1>2, <1>7, <2>2, <3>1, <3>2 DEF WrittenInv, Stored
  <2> QED
    BY <2>1, <2>2
<1>13. AckedInv'
  <2>1. \A l \in LBA : acked[l] # None => media'[l] = acked[l] /\ cache'[l] = None
    BY <1>1, <1>2 DEF AckedInv, Content
  <2>2. \A l \in LBA : StillToStore(l)' => StillToStore(l)
    BY <1>4, <1>5 DEF StillToStore
  <2>3. pc = "flush" /\ flushed' => drive'.phase = "idle"
    BY <1>1, <1>2, <1>4 DEF AckedInv, DriveInv
  <2> QED
    BY <1>1, <1>2, <2>1, <2>2, <2>3 DEF AckedInv, InCall, Range
<1> QED
  BY <1>3, <1>6, <1>8, <1>10, <1>12, <1>13 DEF DiskInv

LEMMA PowerFailKeeps == ASSUME DiskInv, PowerFail PROVE DiskInv'
<1>1. /\ drive' = NoCommand /\ cache' = [l \in LBA |-> None]
      /\ pc' = "probe" /\ req' = NoRequest /\ s' = 0 /\ polls' = Polls
      /\ buffer' = << >> /\ result' = -1 /\ media' = media /\ acked' = acked
  BY DEF PowerFail
<1>2. TypeOK'
  BY <1>1, NothingAsked, DiskAssumption DEF DiskInv, TypeOK
<1>3. DriveInv'
  BY <1>1, DiskAssumption DEF DriveInv, NoCommand, InCall
<1>4. InStep' /\ ReadInv' /\ WrittenInv' /\ AckedInv'
  BY <1>1 DEF DiskInv, InStep, ReadInv, WrittenInv, AckedInv, StillToStore, NoCommand, InCall
<1> QED
  BY <1>2, <1>3, <1>4 DEF DiskInv

----------------------------------------------------------------------------
\* The driver.

LEMMA InitStepKeeps == ASSUME DiskInv, disk_init PROVE DiskInv'
<1>1. /\ pc = "probe" /\ pc' \in {"idle", "probe"}
      /\ UNCHANGED << drive, media, cache, req, s, polls, buffer, result, historyVars >>
  BY DEF disk_init
<1>2. TypeOK' /\ DriveInv'
  BY <1>1 DEF DiskInv, TypeOK, DriveInv, InCall, historyVars
<1>3. InStep' /\ ReadInv' /\ WrittenInv' /\ AckedInv'
  BY <1>1 DEF DiskInv, InStep, ReadInv, WrittenInv, AckedInv, StillToStore, InCall, historyVars
<1> QED
  BY <1>2, <1>3 DEF DiskInv

LEMMA CallKeeps == ASSUME DiskInv, NEW r \in Requests, Call(r) PROVE DiskInv'
<1> DEFINE fails == disk_get_primary = 0 \/ r.lba + r.count > MaxLba
<1>1. /\ pc = "idle" /\ req' = r /\ buffer' = << >> /\ ~ crossed' /\ ~ flushed'
      /\ s' = 0 /\ polls' = Polls
      /\ IF fails THEN pc' = "idle" /\ result' = -1 /\ acked' = acked
         ELSE /\ pc' = "ready" /\ result' = result
              /\ acked' = [l \in LBA |-> IF r.op = "write" /\ l \in Range(r) THEN None ELSE acked[l]]
      /\ drive' = drive /\ media' = media /\ cache' = cache
  BY DEF Call, Return
<1>2. TypeOK /\ DriveInv /\ InStep /\ ReadInv /\ WrittenInv /\ AckedInv
  BY DEF DiskInv
<1>3. acked' \in [LBA -> Contents \cup {None}]
  BY <1>1, <1>2 DEF TypeOK
<1>4. TypeOK'
  BY <1>1, <1>2, <1>3, DiskAssumption DEF TypeOK
<1>5. DriveInv'
  <2>1. r.lba \in Nat /\ r.count \in Nat
    BY DiskAssumption DEF Requests
  <2> QED
    BY <1>1, <1>2, <2>1, DiskAssumption DEF DriveInv, InCall
<1>6. InStep' /\ ReadInv' /\ WrittenInv'
  BY <1>1 DEF InStep, ReadInv, WrittenInv
<1>7. AckedInv'
  <2>1. \A l \in LBA : acked'[l] = acked[l] \/ acked'[l] = None
    BY <1>1
  <2>2. pc' = "ready" /\ r.op = "write" => \A l \in Range(r) : acked'[l] = None
    BY <1>1 DEF Range
  <2>3. \A l \in LBA : acked'[l] # None => media'[l] = acked'[l] /\ cache'[l] = None
    BY <1>1, <1>2, <2>1 DEF AckedInv
  <2> QED
    BY <1>1, <1>2, <2>1, <2>2, <2>3 DEF AckedInv, StillToStore, InCall, Range
<1> QED
  BY <1>4, <1>5, <1>6, <1>7 DEF DiskInv

\* A poll that decides nothing: the call goes on or fails.
LEMMA PollAgainMoves ==
  ASSUME TypeOK, PollAgain
  PROVE  /\ polls' \in 0..Polls
         /\ \/ pc' = pc /\ s' = s /\ result' = result
            \/ pc' = "idle" /\ s' = 0 /\ result' = -1
<1>1. CASE polls > 1
  BY <1>1, DiskAssumption DEF PollAgain, TypeOK
<1>2. CASE ~ polls > 1
  BY <1>2, DiskAssumption DEF PollAgain, Return
<1> QED
  BY <1>1, <1>2

LEMMA PollKeeps ==
  ASSUME DiskInv, PollAgain, pc # "flush",
         UNCHANGED << drive, media, cache, req, buffer, historyVars >>
  PROVE  DiskInv'
<1>1. TypeOK /\ DriveInv /\ InStep /\ ReadInv /\ WrittenInv /\ AckedInv
  BY DEF DiskInv
<1>2. /\ polls' \in 0..Polls
      /\ \/ pc' = pc /\ s' = s /\ result' = result
         \/ pc' = "idle" /\ s' = 0 /\ result' = -1
  BY <1>1, PollAgainMoves
<1>3. TypeOK'
  BY <1>1, <1>2, DiskAssumption DEF TypeOK, historyVars
<1>4. CASE pc' = pc /\ s' = s /\ result' = result
  BY <1>1, <1>3, <1>4 DEF DiskInv, DriveInv, InStep, ReadInv, WrittenInv, AckedInv,
                          StillToStore, Asked, Content, InCall, Stored, Range, historyVars
<1>5. CASE pc' = "idle" /\ result' = -1
  <2>1. DriveInv' /\ InStep' /\ ReadInv' /\ WrittenInv'
    BY <1>1, <1>5 DEF DriveInv, InStep, ReadInv, WrittenInv, InCall
  <2>2. AckedInv'
    BY <1>1, <1>5 DEF AckedInv, StillToStore, InCall, historyVars
  <2> QED
    BY <1>3, <2>1, <2>2 DEF DiskInv
<1> QED
  BY <1>2, <1>4, <1>5

LEMMA ReadyKeeps == ASSUME DiskInv, Ready PROVE DiskInv'
<1>1. TypeOK /\ DriveInv /\ InStep /\ ReadInv /\ WrittenInv /\ AckedInv
  BY DEF DiskInv
<1>2. /\ pc = "ready"
      /\ UNCHANGED << driverVars, media, cache, req, buffer, flushed, acked >>
  BY DEF Ready
<1>3. CASE drive.busy
  <2>1. PollAgain /\ UNCHANGED << drive, crossed >>
    BY <1>3 DEF Ready
  <2> QED
    BY <1>2, <2>1, PollKeeps DEF historyVars
<1>4. CASE ~ drive.busy
  <2>1. /\ pc' = "transfer" /\ s' = 0 /\ polls' = Polls /\ result' = result
        /\ \/ /\ drive' = Accept(drive, req.op, LbaRegisters(req.lba), CountRegister(req.count))
              /\ UNCHANGED crossed
           \/ /\ Drq(drive)
              /\ crossed' = TRUE
              /\ UNCHANGED drive
    BY <1>4 DEF Ready
  <2>2. /\ req.op \in {"read", "write"} /\ req.lba \in 0..MaxLba
        /\ Asked \in 1..CountMod /\ SectorsToMove(req.count) \in 0..(CountMod - 1)
        /\ Asked' = Asked /\ req' = req
    BY <1>1, <1>2, RequestFields DEF Asked
  <2>3. 0 \in 0..CountMod /\ Polls \in 0..Polls /\ MaxLba \in Nat /\ CountMod \in Nat
    BY DiskAssumption
  <2>4. CASE /\ drive' = Accept(drive, req.op, LbaRegisters(req.lba), CountRegister(req.count))
             /\ UNCHANGED crossed
    <3>1. drive' = [phase |-> req.op, busy |-> TRUE, err |-> FALSE, at |-> req.lba, left |-> Asked]
      BY <2>2, <2>4 DEF Accept, LbaRegisters, Asked
    <3>2. drive' \in DriveType
      BY <2>2, <2>3, <3>1 DEF DriveType
    <3>3. TypeOK'
      BY <1>1, <1>2, <2>1, <2>3, <2>4, <3>2 DEF TypeOK
    <3>4. DriveInv'
      BY <1>1, <1>2, <2>1, <2>2, <2>3, <3>1 DEF DriveInv, InCall
    <3>5. InStep'
      BY <2>1, <2>2, <2>3, <3>1 DEF InStep
    <3>6. ReadInv'
      BY <1>1, <1>2, <2>1, <2>4 DEF ReadInv
    <3>7. WrittenInv'
      BY <2>1, <2>2 DEF WrittenInv, LBA
    <3>8. AckedInv'
      <4>1. req.count \in Nat \ {0} /\ Asked <= req.count
        BY <1>1, RequestFields, DiskAssumption
      <4>2. ASSUME NEW l \in LBA, StillToStore(l)' PROVE acked[l] = None
        <5>1. req.op = "write" /\ req.lba <= l /\ l < req.lba + Asked
          BY <3>1, <4>2 DEF StillToStore
        <5>2. l \in Range(req)
          BY <2>2, <4>1, <5>1 DEF Range, LBA
        <5> QED
          BY <1>1, <1>2, <5>1, <5>2 DEF AckedInv, InCall
      <4> QED
        BY <1>1, <1>2, <2>1, <2>4, <4>2 DEF AckedInv, InCall, Range
    <3> QED
      BY <3>3, <3>4, <3>5, <3>6, <3>7, <3>8 DEF DiskInv
  <2>5. CASE crossed' = TRUE /\ UNCHANGED drive
    <3>1. TypeOK'
      BY <1>1, <1>2, <2>1, <2>3, <2>5 DEF TypeOK
    <3>2. DriveInv' /\ InStep' /\ ReadInv' /\ WrittenInv'
      BY <1>1, <1>2, <2>1, <2>5 DEF DriveInv, InStep, ReadInv, WrittenInv, InCall
    <3>3. AckedInv'
      BY <1>1, <1>2, <2>1, <2>5 DEF AckedInv, StillToStore, InCall, Range
    <3> QED
      BY <3>1, <3>2, <3>3 DEF DiskInv
  <2> QED
    BY <2>1, <2>4, <2>5
<1> QED
  BY <1>3, <1>4

\* One sector moves.
LEMMA TransferKeeps == ASSUME DiskInv, Transfer PROVE DiskInv'
<1>1. TypeOK /\ DriveInv /\ InStep /\ ReadInv /\ WrittenInv /\ AckedInv
  BY DEF DiskInv
<1>2. /\ pc = "transfer" /\ s < SectorsToMove(req.count)
      /\ UNCHANGED << driverVars, media, req, historyVars >>
  BY DEF Transfer
<1>3. CASE drive.err \/ (~ drive.busy /\ ~ Drq(drive))
  <2>1. /\ pc' = "idle" /\ result' = -1 /\ s' = 0 /\ polls' = Polls
        /\ UNCHANGED << drive, cache, buffer >>
    BY <1>3 DEF Transfer, Return
  <2>2. TypeOK'
    BY <1>1, <1>2, <2>1, DiskAssumption DEF TypeOK, historyVars
  <2>3. DriveInv' /\ InStep' /\ ReadInv' /\ WrittenInv'
    BY <1>1, <2>1 DEF DriveInv, InStep, ReadInv, WrittenInv, InCall
  <2>4. AckedInv'
    BY <1>1, <1>2, <2>1 DEF AckedInv, StillToStore, InCall, historyVars
  <2> QED
    BY <2>2, <2>3, <2>4 DEF DiskInv
<1>4. CASE ~ (drive.err \/ (~ drive.busy /\ ~ Drq(drive))) /\ drive.busy
  <2>1. PollAgain /\ UNCHANGED << drive, cache, buffer >>
    BY <1>4 DEF Transfer
  <2> QED
    BY <1>2, <2>1, PollKeeps
<1>5. CASE ~ (drive.err \/ (~ drive.busy /\ ~ Drq(drive))) /\ ~ drive.busy
  <2> DEFINE written == IF req.op = "write" /\ req.lba + s \in LBA
                        THEN [for |-> req.lba + s, val |-> req.val] ELSE Junk
             read == IF drive.phase = "read" THEN Content(drive.at) ELSE Junk
  <2>1. /\ s' = s + 1 /\ polls' = Polls /\ pc' = pc /\ result' = result
        /\ drive' = Moved(drive)
        /\ buffer' = IF req.op = "write" THEN buffer ELSE Append(buffer, read)
        /\ cache' = IF drive.phase = "read" THEN cache ELSE [cache EXCEPT ![drive.at] = written]
    BY <1>5 DEF Transfer
  <2>2. /\ drive.phase \in {"read", "write"} /\ ~ drive.busy /\ ~ drive.err
        /\ drive.left > 0 /\ drive.at \in LBA
    BY <1>1, <1>5 DEF Drq, DriveInv
  <2>3. /\ req.op \in {"read", "write"} /\ req.lba \in 0..MaxLba /\ req.val \in Vals
        /\ SectorsToMove(req.count) = req.count /\ Asked = req.count
        /\ req.count \in Nat \ {0} /\ req.count < CountMod /\ s \in Nat
        /\ drive.at \in 0..(MaxLba + CountMod) /\ drive.left \in 0..CountMod
        /\ Asked' = Asked /\ req' = req /\ crossed' = crossed
        /\ acked' = acked /\ media' = media /\ flushed' = flushed
    <3>1. s \in Nat
      BY <1>1, DiskAssumption DEF TypeOK
    <3> QED
      BY <1>1, <1>2, <3>1, RequestFields, DriveFields DEF Asked, historyVars
  <2>4. written \in Contents /\ read \in Contents /\ Junk \in Contents
    BY <1>1, <2>2, <2>3, ContentIsContent DEF Contents
  <2> HIDE DEF written, read
  <2>5. /\ drive.phase = "read" /\ drive.left = 1 => drive' = NoCommand
        /\ ~ (drive.phase = "read" /\ drive.left = 1) =>
             /\ drive'.phase = drive.phase /\ drive'.busy /\ drive'.err = drive.err
             /\ drive'.at = drive.at + 1 /\ drive'.left = drive.left - 1
        /\ drive' \in DriveType
    <3>1. CASE drive.phase = "read" /\ drive.left = 1
      BY <2>1, <3>1, NothingAsked DEF Moved
    <3>2. CASE ~ (drive.phase = "read" /\ drive.left = 1)
      <4>1. drive' = [drive EXCEPT !.busy = TRUE, !.at = @ + 1, !.left = @ - 1]
        BY <2>1, <3>2 DEF Moved
      <4>2. drive.at + 1 \in 0..(MaxLba + CountMod) /\ drive.left - 1 \in 0..CountMod
        BY <1>1, <2>2, <2>3, DiskAssumption DEF DriveInv
      <4> QED
        BY <1>1, <3>2, <4>1, <4>2 DEF TypeOK, DriveType
    <3> QED
      BY <3>1, <3>2
  <2>6. NoCommand.phase = "idle" /\ ~ NoCommand.busy /\ NoCommand.at = 0 /\ NoCommand.left = 0
    BY DEF NoCommand
  <2>7. TypeOK'
    <3>1. s' \in 0..CountMod
      BY <1>2, <2>1, <2>3, DiskAssumption
    <3>2. buffer' \in Seq(Contents)
      BY <1>1, <2>1, <2>4 DEF TypeOK
    <3>3. cache' \in [LBA -> Contents \cup {None}]
      BY <1>1, <2>1, <2>4 DEF TypeOK
    <3> QED
      <4>1. pc' = pc /\ result' = result /\ polls' \in 0..Polls /\ drive' \in DriveType
        BY <2>1, <2>5, DiskAssumption
      <4>2. req' = req /\ media' = media /\ acked' = acked
        BY <2>3
      <4> QED
        BY <1>1, <3>1, <3>2, <3>3, <4>1, <4>2 DEF TypeOK
  <2>8. DriveInv'
    BY <1>1, <1>2, <2>1, <2>2, <2>3, <2>5, <2>6, DiskAssumption DEF DriveInv, InCall
  <2>9. ~ crossed => drive.phase = req.op /\ drive.at = req.lba + s /\ drive.left = req.count - s
    BY <1>1, <1>2, <2>2, <2>3 DEF InStep
  <2>10. InStep'
    <3> SUFFICES ASSUME ~ crossed PROVE InStep'
      BY <2>3 DEF InStep
    <3>1. SectorsToMove(req.count)' = req.count /\ s + 1 <= req.count /\ s' = s + 1
      BY <1>2, <2>1, <2>3
    <3>2. CASE drive.phase = "read" /\ drive.left = 1
      <4>1. s + 1 = req.count
        BY <2>3, <2>9, <3>2
      <4> QED
        BY <2>3, <2>5, <2>6, <3>1, <3>2, <4>1 DEF InStep
    <3>3. CASE ~ (drive.phase = "read" /\ drive.left = 1)
      <4>1. drive.at + 1 = req.lba + (s + 1) /\ drive.left - 1 = req.count - (s + 1)
        BY <2>3, <2>9
      <4> QED
        BY <2>2, <2>3, <2>5, <2>9, <3>1, <3>3, <4>1 DEF InStep
    <3> QED
      BY <3>2, <3>3
  <2>11. ReadInv'
    <3> SUFFICES ASSUME ~ crossed, req.op = "read" PROVE ReadInv'
      BY <1>1, <1>2, <2>1, <2>3 DEF ReadInv
    <3>1. /\ drive.phase = "read" /\ cache' = cache /\ buffer' = Append(buffer, Content(drive.at))
          /\ drive.at = req.lba + s /\ Len(buffer) = s /\ buffer \in Seq(Contents)
      BY <1>1, <1>2, <2>1, <2>9 DEF ReadInv, TypeOK, read
    <3>2. \A l : Content(l)' = Content(l)
      BY <2>3, <3>1 DEF Content
    <3>3. /\ Len(buffer') = s + 1 /\ buffer'[s + 1] = Content(drive.at)
          /\ \A i \in 1..s : buffer'[i] = buffer[i]
      BY <2>3, <3>1
    <3>4. ASSUME NEW i \in 1..Len(buffer')
          PROVE  req.lba + i - 1 \in LBA /\ buffer'[i] = Content(req.lba + i - 1)
      <4>1. CASE i = s + 1
        <5>1. req.lba + i - 1 = drive.at
          BY <2>3, <3>1, <4>1
        <5> QED
          BY <2>2, <3>3, <4>1, <5>1
      <4>2. CASE i \in 1..s
        BY <1>1, <1>2, <3>1, <3>3, <4>2 DEF ReadInv
      <4> QED
        BY <2>3, <3>3, <4>1, <4>2
    <3> QED
      BY <1>2, <2>1, <2>3, <3>2, <3>3, <3>4 DEF ReadInv
  <2>12. WrittenInv'
    <3>1. ASSUME req.op = "write", ~ crossed, NEW l \in LBA, req.lba <= l, l < req.lba + s + 1
          PROVE  cache'[l] = Stored(l)
      <4>1. drive.at = req.lba + s /\ written = Stored(drive.at) /\ drive.phase = "write"
        BY <2>2, <2>9, <3>1 DEF written, Stored
      <4>2. cache' = [cache EXCEPT ![drive.at] = Stored(drive.at)] /\ cache \in [LBA -> Contents \cup {None}]
        BY <1>1, <2>1, <4>1 DEF TypeOK
      <4>3. CASE l = drive.at
        BY <2>2, <4>2, <4>3
      <4>4. CASE l # drive.at
        <5>1. l < req.lba + s
          BY <2>3, <3>1, <4>1, <4>4 DEF LBA
        <5> QED
          BY <1>1, <1>2, <3>1, <4>2, <4>4, <5>1 DEF WrittenInv
      <4> QED
        BY <4>3, <4>4
    <3>2. \A l : Stored(l)' = Stored(l)
      BY <2>3 DEF Stored
    <3>3. req.lba + s + 1 = req.lba + (s + 1)
      BY <2>3
    <3> QED
      BY <1>2, <2>1, <2>3, <3>1, <3>2, <3>3 DEF WrittenInv
  <2>13. AckedInv'
    <3>1. ASSUME NEW l \in LBA, acked[l] # None PROVE cache'[l] = cache[l]
      <4>1. CASE drive.phase = "read"
        BY <2>1, <4>1
      <4>2. CASE drive.phase = "write"
        <5>1. StillToStore(drive.at)
          BY <2>2, <2>3, <4>2 DEF StillToStore
        <5>2. l # drive.at
          BY <1>1, <2>2, <3>1, <5>1 DEF AckedInv
        <5> QED
          BY <1>1, <2>1, <5>2 DEF TypeOK
      <4> QED
        BY <2>2, <4>1, <4>2
    <3>2. ASSUME NEW l \in LBA, StillToStore(l)' PROVE StillToStore(l)
      <4>1. l \in Int
        BY <3>2 DEF LBA
      <4> QED
        BY <2>3, <2>5, <2>6, <3>2, <4>1 DEF StillToStore
    <3> QED
      BY <1>1, <1>2, <2>1, <2>3, <3>1, <3>2 DEF AckedInv, InCall
  <2> QED
    BY <2>7, <2>8, <2>10, <2>11, <2>12, <2>13 DEF DiskInv
<1> QED
  BY <1>3, <1>4, <1>5

LEMMA ReadDoneKeeps == ASSUME DiskInv, ReadDone PROVE DiskInv'
<1>1. TypeOK /\ DriveInv /\ InStep /\ ReadInv /\ WrittenInv /\ AckedInv
  BY DEF DiskInv
<1>2. /\ pc = "transfer" /\ req.op = "read" /\ s = SectorsToMove(req.count)
      /\ NextCommand
      /\ UNCHANGED << driverVars, drive, media, cache, buffer, historyVars >>
  BY DEF ReadDone
<1>3. /\ req' = req /\ s' = 0 /\ polls' = Polls
      /\ \/ /\ req.count = SectorsToMove(req.count)
            /\ pc' = "idle" /\ result' = 0
         \/ /\ req.count # SectorsToMove(req.count) /\ SectorsToMove(req.count) = 0
            /\ pc' = "ready" /\ result' = result
  BY <1>1, <1>2, NextCommandKeeps
<1>4. TypeOK'
  BY <1>1, <1>2, <1>3, DiskAssumption DEF TypeOK, historyVars
<1>5. DriveInv' /\ InStep' /\ WrittenInv'
  BY <1>1, <1>2, <1>3 DEF DriveInv, InStep, WrittenInv, InCall
<1>6. ReadInv'
  <2> SUFFICES ASSUME ~ crossed PROVE ReadInv'
    BY <1>2, <1>3 DEF ReadInv, historyVars
  <2>1. Len(buffer) = s /\ buffer \in Seq(Contents)
    BY <1>1, <1>2 DEF ReadInv, TypeOK
  <2>2. s = 0 => buffer = << >>
    BY <2>1
  <2>3. \A l : Content(l)' = Content(l)
    BY <1>2 DEF Content
  <2>4. \A i \in 1..Len(buffer) : req.lba + i - 1 \in LBA /\ buffer[i] = Content(req.lba + i - 1)
    BY <1>1, <1>2 DEF ReadInv
  <2> QED
    BY <1>2, <1>3, <2>1, <2>2, <2>3, <2>4 DEF ReadInv
<1>7. AckedInv'
  BY <1>1, <1>2, <1>3 DEF AckedInv, StillToStore, InCall, historyVars
<1> QED
  BY <1>4, <1>5, <1>6, <1>7 DEF DiskInv

LEMMA FlushKeeps == ASSUME DiskInv, Flush PROVE DiskInv'
<1>1. TypeOK /\ DriveInv /\ InStep /\ ReadInv /\ WrittenInv /\ AckedInv
  BY DEF DiskInv
<1>2. /\ pc = "transfer" /\ req.op = "write" /\ s = SectorsToMove(req.count)
      /\ pc' = "flush" /\ polls' = Polls /\ flushed' = FALSE
      /\ drive' = IF drive.busy \/ Drq(drive) THEN drive ELSE Accept(drive, "flush", 0, 0)
      /\ UNCHANGED << driverVars, media, cache, req, s, buffer, result, crossed, acked >>
  BY DEF Flush
<1>3. Accept(drive, "flush", 0, 0) =
        [phase |-> "flush", busy |-> TRUE, err |-> FALSE, at |-> 0, left |-> 0]
  BY DEF Accept
<1>4. drive' \in DriveType
  <2>1. Accept(drive, "flush", 0, 0) \in DriveType
    <3>1. 0 \in 0..(MaxLba + CountMod) /\ 0 \in 0..CountMod
      BY DiskAssumption
    <3>2. [phase |-> "flush", busy |-> TRUE, err |-> FALSE, at |-> 0, left |-> 0] \in DriveType
      BY <3>1 DEF DriveType
    <3> QED
      BY <1>3, <3>2
  <2> QED
    BY <1>1, <1>2, <2>1 DEF TypeOK
<1>5. TypeOK'
  BY <1>1, <1>2, <1>4, DiskAssumption DEF TypeOK
<1>6. DriveInv'
  BY <1>1, <1>2, <1>3, DiskAssumption DEF DriveInv, InCall
<1>7. InStep' /\ ReadInv'
  BY <1>2 DEF InStep, ReadInv
<1>8. WrittenInv'
  BY <1>1, <1>2 DEF WrittenInv, Stored
<1>9. AckedInv'
  <2>1. \A l \in LBA : StillToStore(l)' => StillToStore(l)
    BY <1>2, <1>3 DEF StillToStore
  <2> QED
    BY <1>1, <1>2, <2>1 DEF AckedInv, InCall
<1> QED
  BY <1>5, <1>6, <1>7, <1>8, <1>9 DEF DiskInv

\* The call that saw its flush finish acknowledges what it wrote.
LEMMA FlushDoneKeeps == ASSUME DiskInv, FlushDone PROVE DiskInv'
<1>1. TypeOK /\ DriveInv /\ InStep /\ ReadInv /\ WrittenInv /\ AckedInv
  BY DEF DiskInv
<1>2. /\ pc = "flush" /\ req.op = "write" /\ s = SectorsToMove(req.count)
      /\ UNCHANGED << driverVars, drive, media, cache, buffer, crossed, flushed >>
  BY <1>1 DEF FlushDone, WrittenInv
<1>3. CASE drive.busy /\ polls > 1
  <2>1. polls' = polls - 1 /\ UNCHANGED << pc, req, s, result, acked >>
    BY <1>3 DEF FlushDone
  <2>2. TypeOK'
    BY <1>1, <1>2, <1>3, <2>1, DiskAssumption DEF TypeOK
  <2>3. DriveInv' /\ InStep' /\ ReadInv'
    BY <1>1, <1>2, <2>1 DEF DriveInv, InStep, ReadInv, InCall
  <2>4. WrittenInv'
    BY <1>1, <1>2, <2>1 DEF WrittenInv, Stored
  <2>5. AckedInv'
    BY <1>1, <1>2, <2>1 DEF AckedInv, StillToStore, InCall
  <2> QED
    BY <2>2, <2>3, <2>4, <2>5 DEF DiskInv
<1>4. CASE ~ (drive.busy /\ polls > 1)
  <2>1. /\ NextCommand
        /\ acked' = [l \in LBA |-> IF flushed /\ ~ crossed /\ pc' = "idle" /\ l \in Range(req)
                                   THEN Stored(l) ELSE acked[l]]
    BY <1>4 DEF FlushDone, Stored
  <2>2. /\ req' = req /\ s' = 0 /\ polls' = Polls
        /\ \/ /\ req.count = SectorsToMove(req.count)
              /\ pc' = "idle" /\ result' = 0
           \/ /\ req.count # SectorsToMove(req.count) /\ SectorsToMove(req.count) = 0
              /\ pc' = "ready" /\ result' = result
    BY <1>1, <2>1, NextCommandKeeps
  <2>3. /\ req.lba \in Nat /\ req.count \in Nat /\ req.val \in Vals
    BY <1>1, RequestFields, DiskAssumption
  <2>4. \A l \in LBA : Stored(l) \in Contents
    BY <2>3 DEF Stored, Contents
  <2>5. TypeOK'
    <3>1. acked' \in [LBA -> Contents \cup {None}]
      BY <1>1, <2>1, <2>4 DEF TypeOK
    <3> QED
      BY <1>1, <1>2, <2>2, <3>1, DiskAssumption DEF TypeOK
  <2>6. DriveInv' /\ InStep' /\ ReadInv' /\ WrittenInv'
    BY <1>1, <1>2, <2>2 DEF DriveInv, InStep, ReadInv, WrittenInv, InCall
  <2>7. AckedInv'
    <3>1. ASSUME NEW l \in LBA, acked'[l] # None
          PROVE  media[l] = acked'[l] /\ cache[l] = None
      <4>1. CASE acked'[l] = acked[l]
        BY <1>1, <3>1, <4>1 DEF AckedInv
      <4>2. CASE acked'[l] # acked[l]
        <5>1. /\ flushed /\ ~ crossed /\ pc' = "idle" /\ l \in Range(req)
              /\ acked'[l] = Stored(l)
          BY <2>1, <4>2
        <5>2. req.lba <= l /\ l < req.lba + s
          BY <1>2, <2>2, <5>1 DEF Range
        <5> QED
          BY <1>1, <1>2, <5>1, <5>2 DEF WrittenInv
      <4> QED
        BY <4>1, <4>2
    <3>2. pc' = "ready" => acked' = acked
      BY <1>1, <2>1 DEF TypeOK
    <3>3. InCall' => pc' = "ready"
      BY <2>2 DEF InCall
    <3>4. ASSUME NEW l \in LBA, StillToStore(l)' PROVE acked'[l] = None
      <4>1. StillToStore(l) /\ drive.phase = "write"
        BY <1>2, <3>4 DEF StillToStore
      <4>2. acked[l] = None /\ ~ flushed
        BY <1>1, <1>2, <4>1 DEF AckedInv
      <4> QED
        BY <2>1, <4>2
    <3> QED
      BY <1>1, <1>2, <2>2, <3>1, <3>2, <3>3, <3>4 DEF AckedInv, InCall
  <2> QED
    BY <2>5, <2>6, <2>7 DEF DiskInv
<1> QED
  BY <1>3, <1>4

----------------------------------------------------------------------------
\* Where the driver is in its loop and what the drive is doing always fit
\* together (disk_read_sectors, disk_write_sectors, flush_cache).
THEOREM DiskHolds == Spec => []DiskInv
<1>1. DiskInv /\ [Next]_vars => DiskInv'
  <2> SUFFICES ASSUME DiskInv, [Next]_vars PROVE DiskInv'
    OBVIOUS
  <2>1. CASE UNCHANGED vars
    BY <2>1 DEF vars, driverVars, historyVars, DiskInv, TypeOK, DriveInv, InStep, ReadInv,
                WrittenInv, AckedInv, StillToStore, Asked, Content, InCall, Stored, Range
  <2>2. CASE Next
    BY <2>2, DriveReadyKeeps, DriveErrorKeeps, PowerFailKeeps, InitStepKeeps, CallKeeps,
       ReadyKeeps, TransferKeeps, ReadDoneKeeps, FlushKeeps, FlushDoneKeeps DEF Next, Driver
  <2> QED
    BY <2>1, <2>2
<1> QED
  BY <1>1, InitDisk, PTL DEF Spec

\* disk_read_sectors that returns 0 has stored the sectors asked for, all of them
\* and in order, unless the drive ignored its command; whatever the drive's pace,
\* its errors and the power did before.
THEOREM ReadsAreRight == Spec => []ReadsWhatWasAsked
<1>1. DiskInv => ReadsWhatWasAsked
  BY DEF DiskInv, ReadInv, ReadsWhatWasAsked
<1> QED
  BY <1>1, DiskHolds, PTL

\* A sector whose disk_write_sectors returned 0 after a finished flush keeps its
\* content on the medium until it is written again.
THEOREM AcknowledgedStays == Spec => []AckedStays
<1>1. DiskInv => AckedStays
  BY DEF DiskInv, AckedInv, AckedStays
<1> QED
  BY <1>1, DiskHolds, PTL

----------------------------------------------------------------------------
(***************************************************************************)
(* The interrupts: how the record m of Interrupts is made up.              *)
(***************************************************************************)

Calls ==
  {"idt_init", "pic_init", "sti", "hlt", "divide", "poll", "usermode_init", "jump_user",
   "timer", "keyboard", "syscall", "unmask_timer", "unmask_keyboard", "switch_to_first"}
FrameType ==
  [vec : VECTORS, line : LINES \cup {NoLine}, todo : Seq(Actions), on : BOOLEAN, ring : {0, 3}]
IrqType ==
  [stage : Stages, boot : Seq(Calls), gates : [VECTORS -> Gates], reg : [VECTORS -> Handlers],
   remapped : BOOLEAN, imr : SUBSET LINES, irr : SUBSET LINES, isr : SUBSET LINES,
   on : BOOLEAN, ring : {0, 3}, tss : BOOLEAN, frames : Seq(FrameType),
   key : BOOLEAN, dead : BOOLEAN]

\* The calls kernel_main has made when n are behind it, and what it has yet to do.
Made(stage, n) == {kernel_main(stage)[j] : j \in 1..n}
Ahead(stage, n) == SubSeq(kernel_main(stage), n + 1, Len(kernel_main(stage)))

\* What there is to serve a line with, as far as the calls C have set it up.
Installed(r, C) ==
  /\ "sti" \in C => {"pic_init", "idt_init"} \subseteq C
  /\ "pic_init" \in C =>
       /\ r.remapped /\ DiskLine \in r.imr
       /\ Timer \notin r.imr => "timer" \in C
       /\ Keyboard \notin r.imr => "keyboard" \in C
  /\ "idt_init" \in C =>
       /\ \A v \in VECTORS : v < 48 => r.gates[v] = "interrupt"
       /\ r.stage \in {11, 13} => r.gates[128] = "trap"
  /\ "timer" \in C => r.stage \in {10, 11, 13} /\ r.reg[32] = "timer"
  /\ "keyboard" \in C => r.stage \in {10, 11, 13} /\ r.reg[33] = "keyboard"
  /\ r.reg[13] = "none" /\ r.reg[128] \in {"none", "syscall"}
  /\ "usermode_init" \in C => r.tss

\* Nothing is interrupted before sti, and the hlt of stage 03 never ends.
Guarded(r, C) ==
  /\ r.on \/ r.frames # << >> => "sti" \in C
  /\ "hlt" \notin C
  /\ r.irr \subseteq {Timer, Keyboard, DiskLine}

Booted(r) ==
  \E n \in 0..Len(kernel_main(r.stage)) :
    /\ r.boot = Ahead(r.stage, n)
    /\ Installed(r, Made(r.stage, n)) /\ Guarded(r, Made(r.stage, n))

IsCall(f) == f.vec = 128 /\ f.line = NoLine /\ f.todo \in {<< "call" >>, << >>}
IsFault(f) == f.vec = 13 /\ f.line = NoLine /\ f.todo = << "hang" >>
IsService(f) ==
  /\ f.line \in {Timer, Keyboard} /\ f.vec = 32 + f.line
  /\ f.todo \in {<< "count", "eoi" >>, << "read", "eoi" >>, << "eoi" >>, << >>}

\* A service is on top of what it interrupted, which is no service.
Nested(r) ==
  \/ r.frames = << >> /\ r.isr = {}
  \/ Len(r.frames) = 1 /\ IsCall(r.frames[1]) /\ r.isr = {}
  \/ Len(r.frames) = 1 /\ IsFault(r.frames[1]) /\ r.isr = {} /\ ~r.on
  \/ /\ Len(r.frames) \in {1, 2} /\ (Len(r.frames) = 2 => IsCall(r.frames[1]))
     /\ LET f == r.frames[Len(r.frames)]
        IN /\ IsService(f) /\ ~r.on /\ f.line \notin r.imr
           /\ r.isr = IF f.todo = << >> THEN {} ELSE {f.line}

\* Who runs in ring 3, or returns there, has a kernel stack to come back on.
Stacked(r) ==
  /\ r.ring = 3 => r.tss
  /\ \A i \in 1..Len(r.frames) : r.frames[i].ring = 3 => r.tss

Sound(r) == r \in IrqType /\ ~r.dead /\ Booted(r) /\ Nested(r) /\ Stacked(r)
IrqInv == Sound(m)
----------------------------------------------------------------------------
\* Words and lines the provers have to tell apart.
LEMMA Lines ==
  /\ Timer = 0 /\ Keyboard = 1 /\ Cascade = 2 /\ DiskLine = 14 /\ NoLine = 16
  /\ LINES = {0, 1, 2, 14}
BY DEF Timer, Keyboard, Cascade, DiskLine, NoLine, LINES

\* What is left of a handler's program when its first action is done.
LEMMA Words ==
  /\ << "call" >> # << >> /\ Tail(<< "call" >>) = << >>
  /\ << "eoi" >> # << >> /\ Tail(<< "eoi" >>) = << >>
  /\ << "count", "eoi" >> # << >> /\ Tail(<< "count", "eoi" >>) = << "eoi" >>
  /\ << "read", "eoi" >> # << >> /\ Tail(<< "read", "eoi" >>) = << "eoi" >>
<1>1. << "call" >> # << >> /\ Tail(<< "call" >>) = << >>
  OBVIOUS
<1>2. << "eoi" >> # << >> /\ Tail(<< "eoi" >>) = << >>
  OBVIOUS
<1>3. << "count", "eoi" >> # << >> /\ Tail(<< "count", "eoi" >>) = << "eoi" >>
  OBVIOUS
<1>4. << "read", "eoi" >> # << >> /\ Tail(<< "read", "eoi" >>) = << "eoi" >>
  OBVIOUS
<1> QED
  BY <1>1, <1>2, <1>3, <1>4

\* A service goes on as a service.
LEMMA ServiceGoesOn ==
  ASSUME NEW f, NEW w, IsService(f), w.line = f.line, w.vec = f.vec,
         w.todo \in {<< "eoi" >>, << >>}
  PROVE  IsService(w)
BY DEF IsService

LEMMA ProgramIs ==
  ASSUME NEW stage \in AllStages
  PROVE  kernel_main(stage) \in Seq(Calls)
<1>1. CASE stage = 3
  BY <1>1 DEF kernel_main, kernel_main_03, Calls
<1>2. CASE stage = 4
  BY <1>2 DEF kernel_main, kernel_main_04, Calls
<1>3. CASE stage = 9
  BY <1>3 DEF kernel_main, kernel_main_09, Calls
<1>4. CASE stage = 10
  BY <1>4 DEF kernel_main, kernel_main_10, Calls
<1>5. CASE stage = 11
  BY <1>5 DEF kernel_main, kernel_main_11, Calls
<1>6. CASE stage = 13
  BY <1>6 DEF kernel_main, kernel_main_13, Calls
<1> QED
  BY <1>1, <1>2, <1>3, <1>4, <1>5, <1>6 DEF AllStages

LEMMA AheadIs ==
  ASSUME NEW stage \in AllStages, NEW n \in 0..Len(kernel_main(stage))
  PROVE  /\ Ahead(stage, n) \in Seq(Calls)
         /\ Ahead(stage, n) = << >> <=> n = Len(kernel_main(stage))
         /\ n < Len(kernel_main(stage)) =>
              /\ Head(Ahead(stage, n)) = kernel_main(stage)[n + 1]
              /\ Tail(Ahead(stage, n)) = Ahead(stage, n + 1)
              /\ Made(stage, n + 1) = Made(stage, n) \cup {kernel_main(stage)[n + 1]}
<1>1. PICK k : k = kernel_main(stage)
  OBVIOUS
<1>2. k \in Seq(Calls) /\ Len(k) \in Nat /\ n \in 0..Len(k) /\ n \in Nat
  BY <1>1, ProgramIs
<1>3. PICK a : a = SubSeq(k, n + 1, Len(k))
  OBVIOUS
<1>4. a \in Seq(Calls) /\ Len(a) = Len(k) - n /\ \A i \in 1..Len(a) : a[i] = k[n + i]
  BY <1>2, <1>3
<1>5. a = << >> <=> n = Len(k)
  BY <1>2, <1>4
<1>6. ASSUME n < Len(k)
      PROVE  Head(a) = k[n + 1] /\ Tail(a) = SubSeq(k, n + 1 + 1, Len(k))
  <2>1. Len(a) > 0 /\ Head(a) = k[n + 1]
    BY <1>2, <1>4, <1>6
  <2>2. PICK b : b = SubSeq(k, n + 1 + 1, Len(k))
    OBVIOUS
  <2>3. b \in Seq(Calls) /\ Len(b) = Len(k) - n - 1 /\ \A i \in 1..Len(b) : b[i] = k[n + 1 + i]
    BY <1>2, <1>6, <2>2
  <2>4. Tail(a) \in Seq(Calls) /\ Len(Tail(a)) = Len(a) - 1
        /\ \A i \in 1..(Len(a) - 1) : Tail(a)[i] = a[i + 1]
    BY <1>4, <2>1
  <2>5. \A i \in 1..Len(b) : Tail(a)[i] = b[i]
    BY <1>2, <1>4, <2>3, <2>4
  <2>6. Len(Tail(a)) = Len(b)
    BY <1>2, <1>4, <2>3, <2>4
  <2>7. Tail(a) = b
    BY <2>3, <2>4, <2>5, <2>6
  <2> QED
    BY <2>1, <2>2, <2>7
<1>7. Made(stage, n + 1) = Made(stage, n) \cup {k[n + 1]}
  <2>1. 1..(n + 1) = (1..n) \cup {n + 1}
    BY <1>2
  <2> QED
    BY <1>1, <2>1 DEF Made
<1> QED
  BY <1>1, <1>2, <1>3, <1>4, <1>5, <1>6, <1>7 DEF Ahead

\* The order of the calls in each kernel_main, as far as the proof needs it.
Ordered(stage, op, C) ==
  /\ op \in Calls
  /\ op = "sti" => {"pic_init", "idt_init"} \subseteq C
  /\ op = "switch_to_first" => {"sti", "usermode_init"} \subseteq C
  /\ op = "jump_user" => "usermode_init" \in C
  /\ op = "unmask_timer" => {"timer", "pic_init"} \subseteq C
  /\ op = "unmask_keyboard" => {"keyboard", "pic_init"} \subseteq C
  /\ op \in {"timer", "keyboard"} => stage \in {10, 11, 13}
  /\ op = "idt_init" => C \cap {"timer", "keyboard", "sti"} = {}
  /\ op = "divide" => "hlt" \in C
  /\ op = "hlt" => stage = 3

LEMMA Order ==
  ASSUME NEW stage \in AllStages, NEW n \in Nat, n < Len(kernel_main(stage))
  PROVE  Ordered(stage, kernel_main(stage)[n + 1], Made(stage, n))
<1>1. CASE stage = 3
  <2>1. kernel_main(stage) = << "idt_init", "pic_init", "sti", "hlt", "divide" >>
    BY <1>1 DEF kernel_main, kernel_main_03
  <2>2. n \in 0..4
    BY <2>1
  <2> QED
    BY <1>1, <2>1, <2>2 DEF Ordered, Made, Calls
<1>2. CASE stage = 4
  <2>1. kernel_main(stage) = << "idt_init", "pic_init", "poll" >>
    BY <1>2 DEF kernel_main, kernel_main_04
  <2>2. n \in 0..2
    BY <2>1
  <2> QED
    BY <1>2, <2>1, <2>2 DEF Ordered, Made, Calls
<1>3. CASE stage = 9
  <2>1. kernel_main(stage) = << "usermode_init", "jump_user" >>
    BY <1>3 DEF kernel_main, kernel_main_09
  <2>2. n \in 0..1
    BY <2>1
  <2> QED
    BY <1>3, <2>1, <2>2 DEF Ordered, Made, Calls
<1>4. CASE stage \in {10, 13}
  <2>1. kernel_main(stage) = << "pic_init", "idt_init", "timer", "keyboard", "sti",
                                "unmask_timer", "unmask_keyboard" >>
    BY <1>4 DEF kernel_main, kernel_main_10, kernel_main_13
  <2>2. n \in 0..6
    BY <2>1
  <2> QED
    BY <1>4, <2>1, <2>2 DEF Ordered, Made, Calls
<1>5. CASE stage = 11
  <2>1. kernel_main(stage) = << "pic_init", "idt_init", "usermode_init", "syscall", "timer",
                                "keyboard", "sti", "unmask_timer", "unmask_keyboard",
                                "switch_to_first" >>
    BY <1>5 DEF kernel_main, kernel_main_11
  <2>2. n \in 0..9
    BY <2>1
  <2>3. CASE n \in 0..4
    BY <1>5, <2>1, <2>3 DEF Ordered, Made, Calls
  <2>4. CASE n \in 5..9
    <3>1. {"pic_init", "idt_init", "usermode_init", "timer"} \subseteq Made(stage, n)
      BY <2>1, <2>4 DEF Made
    <3>2. n > 5 => "keyboard" \in Made(stage, n)
      BY <2>1, <2>4 DEF Made
    <3>3. n > 6 => "sti" \in Made(stage, n)
      BY <2>1, <2>4 DEF Made
    <3> QED
      BY <1>5, <2>1, <2>4, <3>1, <3>2, <3>3 DEF Ordered, Calls
  <2> QED
    BY <2>2, <2>3, <2>4
<1> QED
  BY <1>1, <1>2, <1>3, <1>4, <1>5 DEF AllStages

\* When the kernels with programs have booted, everything is in place.
LEMMA Finished ==
  /\ {"sti", "idt_init", "pic_init"} \subseteq Made(11, Len(kernel_main(11)))
  /\ "usermode_init" \in Made(11, Len(kernel_main(11)))
  /\ {"sti", "idt_init", "pic_init"} \subseteq Made(13, Len(kernel_main(13)))
<1>1. kernel_main(11) = << "pic_init", "idt_init", "usermode_init", "syscall", "timer",
                           "keyboard", "sti", "unmask_timer", "unmask_keyboard",
                           "switch_to_first" >>
  BY DEF kernel_main, kernel_main_11
<1>2. kernel_main(13) = << "pic_init", "idt_init", "timer", "keyboard", "sti",
                           "unmask_timer", "unmask_keyboard" >>
  BY DEF kernel_main, kernel_main_13
<1>3. PICK k, n : k = kernel_main(11) /\ n = Len(k)
  OBVIOUS
<1>4. n = 10 /\ 1 \in 1..n /\ 2 \in 1..n /\ 3 \in 1..n /\ 7 \in 1..n
  <2>1. Len(k) = 10
    BY <1>1, <1>3
  <2>2. n = 10
    BY <1>3, <2>1
  <2> QED
    BY <2>2
<1>5. k[1] = "pic_init" /\ k[2] = "idt_init" /\ k[3] = "usermode_init" /\ k[7] = "sti"
  BY <1>1, <1>3
<1>6. k[1] \in Made(11, n) /\ k[2] \in Made(11, n) /\ k[3] \in Made(11, n) /\ k[7] \in Made(11, n)
  BY <1>3, <1>4 DEF Made
<1>7. PICK h, o : h = kernel_main(13) /\ o = Len(h)
  OBVIOUS
<1>8. o = 7 /\ 1 \in 1..o /\ 2 \in 1..o /\ 5 \in 1..o
  <2>1. Len(h) = 7
    BY <1>2, <1>7
  <2>2. o = 7
    BY <1>7, <2>1
  <2> QED
    BY <2>2
<1>9. h[1] = "pic_init" /\ h[2] = "idt_init" /\ h[5] = "sti"
  BY <1>2, <1>7
<1>10. h[1] \in Made(13, o) /\ h[2] \in Made(13, o) /\ h[5] \in Made(13, o)
  BY <1>7, <1>8 DEF Made
<1> QED
  BY <1>3, <1>5, <1>6, <1>7, <1>9, <1>10

LEMMA StageIs ==
  ASSUME NEW r \in IrqType
  PROVE  r.stage \in AllStages
BY InterruptsAssumption DEF IrqType

\* Once kernel_main is through, programs run in a kernel that serves them.
LEMMA ProgramsAreServed ==
  ASSUME NEW r \in IrqType, Booted(r), r.boot = << >>, r.stage \in {11, 13}
  PROVE  /\ \A v \in VECTORS : v < 48 => r.gates[v] = "interrupt"
         /\ r.gates[128] = "trap" /\ r.reg[13] = "none" /\ r.reg[128] \in {"none", "syscall"}
         /\ r.stage = 11 => r.tss
         /\ \E n \in 0..Len(kernel_main(r.stage)) :
              r.boot = Ahead(r.stage, n) /\ "sti" \in Made(r.stage, n)
<1>1. PICK n \in 0..Len(kernel_main(r.stage)) :
        /\ r.boot = Ahead(r.stage, n)
        /\ Installed(r, Made(r.stage, n)) /\ Guarded(r, Made(r.stage, n))
  BY DEF Booted
<1>2. r.stage \in AllStages
  BY StageIs
<1>3. n = Len(kernel_main(r.stage))
  BY <1>1, <1>2, AheadIs
<1>4. PICK C : C = Made(r.stage, n)
  OBVIOUS
<1>5. {"sti", "idt_init", "pic_init"} \subseteq C /\ (r.stage = 11 => "usermode_init" \in C)
  BY <1>3, <1>4, Finished
<1>6. Installed(r, C)
  BY <1>1, <1>4
<1> QED
  BY <1>1, <1>4, <1>5, <1>6 DEF Installed

SameKernel(r, u) ==
  /\ u.stage = r.stage /\ u.boot = r.boot /\ u.gates = r.gates /\ u.reg = r.reg
  /\ u.remapped = r.remapped /\ u.imr = r.imr /\ u.tss = r.tss

\* After booting nothing is taken away again.
LEMMA BootKept ==
  ASSUME NEW r \in IrqType, Booted(r), NEW u, SameKernel(r, u),
         u.irr \subseteq r.irr \cup {Timer, Keyboard, DiskLine},
         \/ r.on \/ r.frames # << >>
         \/ r.boot = << >> /\ r.stage \in {11, 13}
         \/ ~u.on /\ u.frames = << >>
  PROVE  Booted(u)
<1>1. PICK n \in 0..Len(kernel_main(r.stage)) :
        /\ r.boot = Ahead(r.stage, n)
        /\ Installed(r, Made(r.stage, n)) /\ Guarded(r, Made(r.stage, n))
  BY DEF Booted
<1>2. PICK C : C = Made(r.stage, n)
  OBVIOUS
<1>3. Installed(r, C) /\ Guarded(r, C)
  BY <1>1, <1>2
<1>4. Installed(u, C)
  BY <1>3 DEF Installed, SameKernel
<1>5. "sti" \in C \/ (~u.on /\ u.frames = << >>)
  <2>1. CASE r.boot = << >> /\ r.stage \in {11, 13}
    <3>1. r.stage \in AllStages
      BY StageIs
    <3>2. n = Len(kernel_main(r.stage))
      BY <1>1, <2>1, <3>1, AheadIs
    <3> QED
      BY <1>2, <2>1, <3>2, Finished
  <2>2. CASE r.on \/ r.frames # << >>
    BY <1>3, <2>2 DEF Guarded
  <2> QED
    BY <2>1, <2>2
<1>6. Guarded(u, C)
  BY <1>3, <1>5 DEF Guarded
<1> QED
  BY <1>1, <1>2, <1>4, <1>6 DEF Booted, SameKernel

\* A line that is offered while interrupts are on has all it takes to be served.
LEMMA OfferedIsServed ==
  ASSUME NEW r \in IrqType, Booted(r), r.on, NEW l \in Offered(r)
  PROVE  /\ l \in {Timer, Keyboard} /\ l \notin r.imr /\ l \in r.irr
         /\ r.remapped /\ 32 + l \in VECTORS /\ r.gates[32 + l] = "interrupt"
         /\ Handling(r, 32 + l) = IF l = Timer THEN << "count", "eoi" >> ELSE << "read", "eoi" >>
         /\ ~(r.boot # << >> /\ Head(r.boot) = "hlt")
<1>1. PICK n \in 0..Len(kernel_main(r.stage)) :
        /\ r.boot = Ahead(r.stage, n)
        /\ Installed(r, Made(r.stage, n)) /\ Guarded(r, Made(r.stage, n))
  BY DEF Booted
<1>2. PICK C : C = Made(r.stage, n)
  OBVIOUS
<1>3. Installed(r, C) /\ Guarded(r, C)
  BY <1>1, <1>2
<1>4. {"sti", "pic_init", "idt_init"} \subseteq C
  BY <1>3 DEF Installed, Guarded
<1>5. l \in r.irr /\ l \notin r.imr
  BY DEF Offered, Highest
<1>6. l \in {Timer, Keyboard}
  BY <1>3, <1>4, <1>5 DEF Installed, Guarded
<1>7. 32 + l \in VECTORS /\ 32 + l < 48
  BY <1>6, Lines DEF VECTORS
<1>8. r.remapped /\ r.gates[32 + l] = "interrupt"
  BY <1>3, <1>4, <1>7 DEF Installed
<1>9. r.stage \in {10, 11, 13} /\ r.reg[32 + l] = IF l = Timer THEN "timer" ELSE "keyboard"
  BY <1>3, <1>4, <1>5, <1>6, Lines DEF Installed
<1>10. Handling(r, 32 + l) = IF l = Timer THEN << "count", "eoi" >> ELSE << "read", "eoi" >>
  <2>1. Handling(r, 32 + l) = interrupt_handler(r, 32 + l)
    BY <1>9 DEF Handling
  <2>2. CASE l = Timer
    BY <1>9, <2>1, <2>2 DEF interrupt_handler, timer_handler
  <2>3. CASE l # Timer
    BY <1>9, <2>1, <2>3 DEF interrupt_handler, keyboard_handler
  <2> QED
    BY <2>2, <2>3
<1>11. ~(r.boot # << >> /\ Head(r.boot) = "hlt")
  <2>1. SUFFICES ASSUME r.boot # << >>, Head(r.boot) = "hlt"
                 PROVE  FALSE
    OBVIOUS
  <2>2. r.stage \in AllStages /\ Len(kernel_main(r.stage)) \in Nat
    BY StageIs, ProgramIs
  <2>3. n \in Nat /\ n < Len(kernel_main(r.stage)) /\ kernel_main(r.stage)[n + 1] = "hlt"
    BY <1>1, <2>1, <2>2, AheadIs
  <2>4. Ordered(r.stage, "hlt", C)
    BY <1>2, <2>2, <2>3, Order
  <2> QED
    BY <1>9, <2>4 DEF Ordered
<1> QED
  BY <1>5, <1>6, <1>7, <1>8, <1>10, <1>11

----------------------------------------------------------------------------
\* What entering a handler and going on in it change.
LEMMA EnterIs ==
  ASSUME NEW r \in IrqType, Stacked(r), NEW v \in VECTORS, NEW l \in LINES \cup {NoLine},
         r.gates[v] # "none", Handling(r, v) \in Seq(Actions),
         NEW f, f = [vec |-> v, line |-> l, todo |-> Handling(r, v), on |-> r.on, ring |-> r.ring],
         NEW u, u = Enter(r, v, l)
  PROVE  /\ u \in IrqType /\ SameKernel(r, u) /\ u.irr = r.irr /\ u.isr = r.isr
         /\ u.dead = r.dead /\ (u.on <=> r.on /\ r.gates[v] = "trap")
         /\ f \in FrameType /\ u.frames = Append(r.frames, f) /\ Stacked(u)
<1>1. PICK o \in BOOLEAN : o <=> r.on /\ r.gates[v] = "trap"
  OBVIOUS
<1>2. u = [r EXCEPT !.frames = Append(@, f), !.on = r.on /\ r.gates[v] = "trap", !.ring = 0]
  BY DEF Enter, Stacked
<1>3. f \in FrameType
  BY DEF FrameType, IrqType
<1>4. PICK F : F = Append(r.frames, f)
  OBVIOUS
<1>5. r.frames \in Seq(FrameType)
  BY DEF IrqType
<1>6. /\ F \in Seq(FrameType) /\ Len(F) = Len(r.frames) + 1 /\ F[Len(F)] = f
      /\ \A i \in 1..Len(r.frames) : F[i] = r.frames[i]
  BY <1>3, <1>4, <1>5
<1>7. u.on <=> r.on /\ r.gates[v] = "trap"
  BY <1>2 DEF IrqType
<1>8. u \in IrqType /\ SameKernel(r, u) /\ u.irr = r.irr /\ u.isr = r.isr /\ u.dead = r.dead
      /\ u.frames = F /\ u.ring = 0
  BY <1>2, <1>4, <1>6 DEF IrqType, SameKernel
<1>9. Stacked(u)
  <2>1. ASSUME NEW i \in 1..Len(F), F[i].ring = 3
        PROVE  u.tss
    <3>1. CASE i = Len(F)
      BY <1>6, <1>8, <2>1, <3>1 DEF Stacked, SameKernel
    <3>2. CASE i # Len(F)
      <4>1. i \in 1..Len(r.frames)
        BY <1>5, <1>6, <3>2
      <4> QED
        BY <1>6, <1>8, <2>1, <4>1 DEF Stacked, SameKernel
    <3> QED
      BY <3>1, <3>2
  <2> QED
    BY <1>8, <2>1 DEF Stacked
<1> QED
  BY <1>3, <1>4, <1>7, <1>8, <1>9

LEMMA DoneIs ==
  ASSUME NEW r \in IrqType, Stacked(r), r.frames # << >>,
         NEW f, f = r.frames[Len(r.frames)], f.todo # << >>, NEW u, u = Done(r)
  PROVE  /\ u \in IrqType /\ SameKernel(r, u) /\ u.irr = r.irr /\ u.isr = r.isr
         /\ u.dead = r.dead /\ u.on = r.on /\ Stacked(u)
         /\ Len(u.frames) = Len(r.frames) /\ Len(r.frames) \in Nat
         /\ \A i \in 1..Len(r.frames) : i # Len(r.frames) => u.frames[i] = r.frames[i]
         /\ u.frames[Len(r.frames)].todo = Tail(f.todo)
         /\ u.frames[Len(r.frames)].vec = f.vec /\ u.frames[Len(r.frames)].line = f.line
<1>1. r.frames \in Seq(FrameType) /\ Len(r.frames) \in Nat /\ Len(r.frames) > 0
  BY DEF IrqType
<1>2. PICK n \in Nat : n = Len(r.frames)
  BY <1>1
<1>3. n \in 1..n /\ f = r.frames[n] /\ f \in FrameType
  BY <1>1, <1>2
<1>4. PICK g : g = [f EXCEPT !.todo = Tail(@)]
  OBVIOUS
<1>5. f.todo \in Seq(Actions) /\ Tail(f.todo) \in Seq(Actions)
  BY <1>3 DEF FrameType
<1>6. /\ g \in FrameType /\ g.todo = Tail(f.todo) /\ g.vec = f.vec /\ g.line = f.line
      /\ g.on = f.on /\ g.ring = f.ring
  BY <1>3, <1>4, <1>5 DEF FrameType
<1>7. PICK F : F = [r.frames EXCEPT ![n] = g]
  OBVIOUS
<1>8. /\ F \in Seq(FrameType) /\ Len(F) = n /\ F[n] = g
      /\ \A i \in 1..n : i # n => F[i] = r.frames[i]
  BY <1>1, <1>2, <1>3, <1>6, <1>7
<1>9. u = [r EXCEPT !.frames = F]
  BY <1>2, <1>3, <1>4, <1>7 DEF Done
<1>10. u \in IrqType /\ SameKernel(r, u) /\ u.irr = r.irr /\ u.isr = r.isr /\ u.dead = r.dead
       /\ u.on = r.on /\ u.frames = F /\ u.ring = r.ring
  BY <1>8, <1>9 DEF IrqType, SameKernel
<1>11. Stacked(u)
  BY <1>2, <1>3, <1>6, <1>8, <1>10 DEF Stacked, SameKernel
<1> QED
  BY <1>2, <1>6, <1>8, <1>10, <1>11

LEMMA NestedIs ==
  ASSUME NEW r \in IrqType, Nested(r), r.frames # << >>,
         NEW f, f = r.frames[Len(r.frames)]
  PROVE  /\ f \in FrameType /\ Len(r.frames) \in {1, 2}
         /\ Len(r.frames) = 2 => IsCall(r.frames[1])
         /\ \/ IsCall(f) /\ Len(r.frames) = 1 /\ r.isr = {}
            \/ IsFault(f) /\ Len(r.frames) = 1 /\ r.isr = {} /\ ~r.on
            \/ /\ IsService(f) /\ ~r.on /\ f.line \notin r.imr
               /\ r.isr = IF f.todo = << >> THEN {} ELSE {f.line}
<1>1. r.frames \in Seq(FrameType) /\ Len(r.frames) \in Nat /\ Len(r.frames) > 0
  BY DEF IrqType
<1>2. f \in FrameType
  BY <1>1
<1> QED
  BY <1>2 DEF Nested

----------------------------------------------------------------------------
\* Each action.
LEMMA RaiseKeeps ==
  ASSUME NEW r, Sound(r), NEW l \in {Timer, Keyboard, DiskLine}, NEW k \in BOOLEAN,
         NEW u, u = [r EXCEPT !.key = k, !.irr = @ \cup {l}]
  PROVE  Sound(u)
<1>1. r \in IrqType /\ l \in LINES
  BY Lines DEF Sound
<1>2. u \in IrqType /\ SameKernel(r, u) /\ u.irr = r.irr \cup {l} /\ u.isr = r.isr
      /\ u.dead = r.dead /\ u.on = r.on /\ u.frames = r.frames /\ u.ring = r.ring
  BY <1>1 DEF IrqType, SameKernel
<1>3. Booted(u)
  BY <1>1, <1>2, BootKept DEF Sound, SameKernel
<1>4. Nested(u) /\ Stacked(u)
  BY <1>2 DEF Sound, Nested, Stacked, SameKernel
<1> QED
  BY <1>2, <1>3, <1>4 DEF Sound

LEMMA DeliverKeeps ==
  ASSUME IrqInv, NEW l \in LINES, Deliver(l)
  PROVE  IrqInv'
<1>1. m \in IrqType /\ Booted(m) /\ Nested(m) /\ Stacked(m) /\ ~m.dead /\ m.on /\ l \in Offered(m)
  BY DEF IrqInv, Sound, Deliver
<1>2. PICK h : h = IF l = Timer THEN << "count", "eoi" >> ELSE << "read", "eoi" >>
  OBVIOUS
<1>3. /\ l \in {Timer, Keyboard} /\ l \notin m.imr /\ l \in m.irr
      /\ m.remapped /\ 32 + l \in VECTORS /\ m.gates[32 + l] = "interrupt"
      /\ Handling(m, 32 + l) = h /\ ~(m.boot # << >> /\ Head(m.boot) = "hlt")
  BY <1>1, <1>2, OfferedIsServed
<1>4. l # DiskLine
  BY <1>3, Lines
<1>5. PICK a : a = [m EXCEPT !.irr = @ \ {l}, !.isr = @ \cup {l}]
  OBVIOUS
<1>6. a = [m EXCEPT !.irr = @ \ {l},
                    !.isr = @ \cup (IF l = DiskLine THEN {Cascade, DiskLine} ELSE {l}),
                    !.boot = IF m.frames = << >> /\ @ # << >> /\ Head(@) = "hlt"
                             THEN Tail(@) ELSE @]
  <2>1. (IF l = DiskLine THEN {Cascade, DiskLine} ELSE {l}) = {l}
    BY <1>4
  <2>2. (IF m.frames = << >> /\ m.boot # << >> /\ Head(m.boot) = "hlt"
         THEN Tail(m.boot) ELSE m.boot) = m.boot
    BY <1>3
  <2> QED
    BY <1>1, <1>5, <2>1, <2>2 DEF IrqType
<1>7. a \in IrqType /\ SameKernel(m, a) /\ a.irr = m.irr \ {l} /\ a.isr = m.isr \cup {l}
      /\ a.dead = m.dead /\ a.on = m.on /\ a.frames = m.frames /\ a.ring = m.ring
  BY <1>1, <1>5 DEF IrqType, SameKernel
<1>8. Booted(a) /\ Stacked(a)
  <2>1. Booted(a)
    BY <1>1, <1>7, BootKept
  <2> QED
    BY <1>1, <1>7, <2>1 DEF Stacked, SameKernel
<1>9. Handling(a, 32 + l) = h /\ h \in Seq(Actions)
  <2>1. Handling(a, 32 + l) = Handling(m, 32 + l)
    BY <1>7 DEF Handling, interrupt_handler, SameKernel
  <2>2. << "count", "eoi" >> \in Seq(Actions) /\ << "read", "eoi" >> \in Seq(Actions)
    BY DEF Actions
  <2> QED
    BY <1>2, <1>3, <2>1, <2>2
<1>10. m' = Enter(a, 32 + l, l)
  <2>1. IrqVector(a, l) = 32 + l
    BY <1>3, <1>7 DEF IrqVector, SameKernel
  <2> QED
    BY <1>6, <2>1 DEF Deliver
<1>11. PICK f : f = [vec |-> 32 + l, line |-> l, todo |-> h, on |-> a.on, ring |-> a.ring]
  OBVIOUS
<1>12. /\ m' \in IrqType /\ SameKernel(a, m') /\ m'.irr = a.irr /\ m'.isr = a.isr
       /\ m'.dead = a.dead /\ ~m'.on /\ f \in FrameType /\ m'.frames = Append(a.frames, f)
       /\ Stacked(m')
  <2>1. a.gates[32 + l] = "interrupt"
    BY <1>3, <1>7 DEF SameKernel
  <2>2. a.gates[32 + l] # "none" /\ a.gates[32 + l] # "trap"
    BY <2>1
  <2>3. f = [vec |-> 32 + l, line |-> l, todo |-> Handling(a, 32 + l), on |-> a.on, ring |-> a.ring]
    BY <1>9, <1>11
  <2>4. /\ m' \in IrqType /\ SameKernel(a, m') /\ m'.irr = a.irr /\ m'.isr = a.isr
        /\ m'.dead = a.dead /\ (m'.on <=> a.on /\ a.gates[32 + l] = "trap")
        /\ f \in FrameType /\ m'.frames = Append(a.frames, f) /\ Stacked(m')
    BY <1>3, <1>7, <1>8, <1>9, <1>10, <2>2, <2>3, EnterIs
  <2> QED
    BY <2>2, <2>4
<1>13. Booted(m')
  BY <1>1, <1>7, <1>8, <1>12, BootKept
<1>14. /\ m.frames \in Seq(FrameType) /\ Len(m.frames) \in {0, 1} /\ m.isr = {}
       /\ (Len(m.frames) = 1 => IsCall(m.frames[1]))
  <2>1. CASE m.frames = << >>
    BY <1>1, <2>1 DEF Nested, IrqType
  <2>2. CASE m.frames # << >>
    <3>1. m.frames \in Seq(FrameType) /\ Len(m.frames) = 1 /\ m.isr = {}
          /\ IsCall(m.frames[Len(m.frames)])
      BY <1>1, <2>2, NestedIs DEF IrqType
    <3> QED
      BY <3>1
  <2> QED
    BY <2>1, <2>2
<1>15. /\ Len(m'.frames) \in {1, 2} /\ m'.frames[Len(m'.frames)] = f
       /\ (Len(m'.frames) = 2 => IsCall(m'.frames[1]))
  <2>1. m'.frames = Append(m.frames, f)
    BY <1>7, <1>12
  <2>2. Len(m'.frames) = Len(m.frames) + 1 /\ m'.frames[Len(m.frames) + 1] = f
        /\ \A i \in 1..Len(m.frames) : m'.frames[i] = m.frames[i]
    BY <1>12, <1>14, <2>1
  <2> QED
    BY <1>14, <2>2
<1>16. IsService(f) /\ f.line = l /\ f.todo # << >>
  <2>1. f.line = l /\ f.vec = 32 + l /\ f.todo = h
    BY <1>11
  <2>2. h # << >>
    BY <1>2
  <2> QED
    BY <1>2, <1>3, <2>1, <2>2 DEF IsService
<1>17. m'.isr = {l} /\ l \notin m'.imr
  BY <1>3, <1>7, <1>12, <1>14 DEF SameKernel
<1>18. Nested(m')
  BY <1>12, <1>15, <1>16, <1>17 DEF Nested
<1> QED
  BY <1>1, <1>7, <1>12, <1>13, <1>18 DEF IrqInv, Sound

\* What a handler has before it that is not an end of interrupt.
GoesOn(f) ==
  \/ f.todo = << "call" >>
  \/ f.todo \in {<< "count", "eoi" >>, << "read", "eoi" >>} /\ IsService(f)

\* The innermost handler goes on by something that ends no service.
LEMMA DoneKeeps ==
  ASSUME NEW r, Sound(r), r.frames # << >>, NEW f, f = r.frames[Len(r.frames)],
         GoesOn(f), NEW k \in BOOLEAN, NEW u, u = Done([r EXCEPT !.key = k])
  PROVE  Sound(u)
<1>1. r \in IrqType /\ Booted(r) /\ Nested(r) /\ Stacked(r) /\ ~r.dead
  BY DEF Sound
<1>2. PICK a : a = [r EXCEPT !.key = k]
  OBVIOUS
<1>3. a \in IrqType /\ SameKernel(r, a) /\ a.irr = r.irr /\ a.isr = r.isr /\ a.dead = r.dead
      /\ a.on = r.on /\ a.frames = r.frames /\ a.ring = r.ring
  BY <1>1, <1>2 DEF IrqType, SameKernel
<1>4. Stacked(a)
  BY <1>1, <1>3 DEF Stacked, SameKernel
<1>5. PICK n : n = Len(r.frames)
  OBVIOUS
<1>6. /\ f \in FrameType /\ n \in {1, 2} /\ (n = 2 => IsCall(r.frames[1]))
      /\ \/ IsCall(f) /\ n = 1 /\ r.isr = {}
         \/ IsFault(f) /\ n = 1 /\ r.isr = {} /\ ~r.on
         \/ /\ IsService(f) /\ ~r.on /\ f.line \notin r.imr
            /\ r.isr = IF f.todo = << >> THEN {} ELSE {f.line}
  BY <1>1, <1>5, NestedIs
<1>7. PICK g : g = Tail(f.todo)
  OBVIOUS
<1>8. f.todo # << >>
  BY Words DEF GoesOn
<1>9. /\ u \in IrqType /\ SameKernel(a, u) /\ u.irr = a.irr /\ u.isr = a.isr
      /\ u.dead = a.dead /\ u.on = a.on /\ Stacked(u) /\ Len(u.frames) = n
      /\ \A i \in 1..n : i # n => u.frames[i] = a.frames[i]
      /\ u.frames[n].todo = g /\ u.frames[n].vec = f.vec /\ u.frames[n].line = f.line
  <2>1. a.frames # << >> /\ f = a.frames[Len(a.frames)] /\ u = Done(a) /\ Len(a.frames) = n
    BY <1>2, <1>3, <1>5
  <2>2. PICK z, w : z = a.frames /\ w = Done(a)
    OBVIOUS
  <2>3. /\ w \in IrqType /\ SameKernel(a, w) /\ w.irr = a.irr /\ w.isr = a.isr
        /\ w.dead = a.dead /\ w.on = a.on /\ Stacked(w)
        /\ Len(w.frames) = Len(z) /\ Len(z) \in Nat
        /\ \A i \in 1..Len(z) : i # Len(z) => w.frames[i] = z[i]
        /\ w.frames[Len(z)].todo = Tail(f.todo)
        /\ w.frames[Len(z)].vec = f.vec /\ w.frames[Len(z)].line = f.line
    <3>1. a \in IrqType /\ Stacked(a) /\ a.frames # << >> /\ f = a.frames[Len(a.frames)]
          /\ f.todo # << >> /\ w = Done(a)
      BY <1>3, <1>4, <1>8, <2>1, <2>2
    <3>2. w \in IrqType /\ SameKernel(a, w) /\ w.irr = a.irr /\ w.isr = a.isr
          /\ w.dead = a.dead /\ w.on = a.on /\ Stacked(w)
      BY <3>1, DoneIs
    <3>3. /\ Len(w.frames) = Len(a.frames) /\ Len(a.frames) \in Nat
          /\ \A i \in 1..Len(a.frames) : i # Len(a.frames) => w.frames[i] = a.frames[i]
      BY <3>1, DoneIs
    <3>4. /\ w.frames[Len(a.frames)].todo = Tail(f.todo)
          /\ w.frames[Len(a.frames)].vec = f.vec /\ w.frames[Len(a.frames)].line = f.line
      BY <3>1, DoneIs
    <3> QED
      BY <2>2, <3>2, <3>3, <3>4
  <2> QED
    BY <1>7, <2>1, <2>2, <2>3
<1>10. u.frames # << >>
  BY <1>6, <1>9
<1>11. Booted(u)
  <2>1. SameKernel(r, u)
    BY <1>3, <1>9 DEF SameKernel
  <2>2. u.irr \subseteq r.irr \cup {Timer, Keyboard, DiskLine}
    BY <1>3, <1>9
  <2>3. r \in IrqType /\ Booted(r) /\ r.frames # << >>
    BY <1>1
  <2> QED
    BY <2>1, <2>2, <2>3, BootKept
<1>12. n = 2 => IsCall(u.frames[1])
  BY <1>3, <1>6, <1>9
<1>13. CASE f.todo = << "call" >>
  <2>1. IsCall(f) /\ n = 1 /\ r.isr = {}
    <3>1. ~IsService(f) /\ ~IsFault(f)
      BY <1>13 DEF IsService, IsFault
    <3> QED
      BY <1>6, <3>1
  <2>2. g = << >>
    BY <1>7, <1>13
  <2>3. IsCall(u.frames[1])
    BY <1>9, <2>1, <2>2 DEF IsCall
  <2> QED
    BY <1>1, <1>3, <1>9, <1>11, <2>1, <2>3 DEF Sound, Nested
<1>14. CASE f.todo \in {<< "count", "eoi" >>, << "read", "eoi" >>} /\ IsService(f)
  <2>1. g = << "eoi" >>
    BY <1>7, <1>14, Words
  <2>2. ~IsCall(f) /\ ~IsFault(f)
    BY <1>14 DEF IsCall, IsFault
  <2>3. ~r.on /\ f.line \notin r.imr /\ r.isr = {f.line}
    BY <1>6, <1>8, <2>2
  <2>4. IsService(u.frames[n]) /\ u.frames[n].todo # << >>
    BY <1>9, <1>14, <2>1, Words, ServiceGoesOn
  <2>5. ~u.on /\ u.frames[n].line \notin u.imr /\ u.isr = {u.frames[n].line}
    BY <1>3, <1>9, <2>3 DEF SameKernel
  <2>6. Nested(u)
    BY <1>6, <1>9, <1>12, <2>4, <2>5 DEF Nested
  <2> QED
    BY <1>1, <1>3, <1>9, <1>11, <2>6 DEF Sound
<1> QED
  BY <1>13, <1>14 DEF GoesOn

\* The end of interrupt ends the one service there is.
LEMMA EoiIs ==
  ASSUME NEW r \in IrqType, NEW l \in {Timer, Keyboard}, r.isr = {l}
  PROVE  pic_send_eoi(r, l) = [r EXCEPT !.isr = {}]
<1>1. ~(l >= 8)
  BY Lines
<1>2. pic_send_eoi(r, l) = [r EXCEPT !.isr = @ \ Highest(@ \cap {Timer, Keyboard, Cascade})]
  BY <1>1 DEF pic_send_eoi, EndOn
<1>3. Highest({l}) = {l}
  <2>1. Rank(l) <= Rank(l)
    BY Lines DEF Rank
  <2> QED
    BY <2>1 DEF Highest
<1>4. r.isr \cap {Timer, Keyboard, Cascade} = {l}
  OBVIOUS
<1>5. r.isr \ Highest(r.isr \cap {Timer, Keyboard, Cascade}) = {}
  BY <1>3, <1>4
<1> QED
  BY <1>2, <1>5

LEMMA AcknowledgeKeeps ==
  ASSUME NEW r, Sound(r), r.frames # << >>, NEW f, f = r.frames[Len(r.frames)],
         f.todo # << >>, Head(f.todo) = "eoi",
         NEW u, u = Done(pic_send_eoi(r, f.line))
  PROVE  Sound(u)
<1>1. r \in IrqType /\ Booted(r) /\ Nested(r) /\ Stacked(r) /\ ~r.dead
  BY DEF Sound
<1>2. PICK n : n = Len(r.frames)
  OBVIOUS
<1>3. /\ f \in FrameType /\ n \in {1, 2} /\ (n = 2 => IsCall(r.frames[1]))
      /\ \/ IsCall(f) /\ n = 1 /\ r.isr = {}
         \/ IsFault(f) /\ n = 1 /\ r.isr = {} /\ ~r.on
         \/ /\ IsService(f) /\ ~r.on /\ f.line \notin r.imr
            /\ r.isr = IF f.todo = << >> THEN {} ELSE {f.line}
  BY <1>1, <1>2, NestedIs
<1>4. ~IsCall(f) /\ ~IsFault(f)
  BY DEF IsCall, IsFault
<1>5. IsService(f) /\ ~r.on /\ f.line \notin r.imr /\ r.isr = {f.line}
  BY <1>3, <1>4
<1>6. f.todo = << "eoi" >> /\ f.line \in {Timer, Keyboard}
  BY <1>5 DEF IsService
<1>7. Tail(f.todo) = << >>
  BY <1>6
<1>8. PICK a : a = [r EXCEPT !.isr = {}]
  OBVIOUS
<1>9. a \in IrqType /\ SameKernel(r, a) /\ a.irr = r.irr /\ a.isr = {} /\ a.dead = r.dead
      /\ a.on = r.on /\ a.frames = r.frames /\ a.ring = r.ring
  BY <1>1, <1>8 DEF IrqType, SameKernel
<1>10. Stacked(a)
  BY <1>1, <1>9 DEF Stacked, SameKernel
<1>11. u = Done(a)
  BY <1>1, <1>5, <1>6, <1>8, EoiIs
<1>12. /\ u \in IrqType /\ SameKernel(a, u) /\ u.irr = a.irr /\ u.isr = a.isr
       /\ u.dead = a.dead /\ u.on = a.on /\ Stacked(u) /\ Len(u.frames) = n
       /\ \A i \in 1..n : i # n => u.frames[i] = a.frames[i]
       /\ u.frames[n].todo = << >> /\ u.frames[n].vec = f.vec /\ u.frames[n].line = f.line
  <2>1. a.frames # << >> /\ f = a.frames[Len(a.frames)] /\ Len(a.frames) = n
    BY <1>2, <1>9
  <2>2. PICK z : z = a.frames
    OBVIOUS
  <2>3. /\ u \in IrqType /\ SameKernel(a, u) /\ u.irr = a.irr /\ u.isr = a.isr
        /\ u.dead = a.dead /\ u.on = a.on /\ Stacked(u)
        /\ Len(u.frames) = Len(z) /\ Len(z) \in Nat
        /\ \A i \in 1..Len(z) : i # Len(z) => u.frames[i] = z[i]
        /\ u.frames[Len(z)].todo = Tail(f.todo)
        /\ u.frames[Len(z)].vec = f.vec /\ u.frames[Len(z)].line = f.line
    BY <1>9, <1>10, <1>11, <2>1, <2>2, DoneIs
  <2> QED
    BY <1>7, <2>1, <2>2, <2>3
<1>13. Booted(u)
  <2>1. SameKernel(r, u)
    BY <1>9, <1>12 DEF SameKernel
  <2>2. u.irr \subseteq r.irr \cup {Timer, Keyboard, DiskLine}
    BY <1>9, <1>12
  <2>3. r \in IrqType /\ Booted(r) /\ r.frames # << >>
    BY <1>1
  <2> QED
    BY <2>1, <2>2, <2>3, BootKept
<1>14. Nested(u)
  <2>1. n = 2 => IsCall(u.frames[1])
    BY <1>3, <1>9, <1>12, SMTT(30)
  <2>2. IsService(u.frames[n])
    BY <1>5, <1>12, ServiceGoesOn
  <2>3. ~u.on /\ u.frames[n].line \notin u.imr /\ u.isr = {}
    BY <1>5, <1>9, <1>12 DEF SameKernel
  <2> QED
    BY <1>3, <1>12, <2>1, <2>2, <2>3 DEF Nested
<1> QED
  BY <1>1, <1>9, <1>12, <1>13, <1>14 DEF Sound

LEMMA StepKeeps ==
  ASSUME IrqInv, Step
  PROVE  IrqInv'
<1>1. Sound(m) /\ m \in IrqType /\ m.frames # << >> /\ Nested(m)
  BY DEF IrqInv, Sound, Step
<1>2. PICK f : f = m.frames[Len(m.frames)]
  OBVIOUS
<1>3. Top = f /\ f.todo # << >>
  BY <1>2 DEF Top, Step
<1>4. \/ IsCall(f) \/ IsFault(f) \/ IsService(f)
  BY <1>1, <1>2, NestedIs
<1>5. CASE Head(f.todo) = "eoi" /\ m' = Done(pic_send_eoi(m, f.line))
  BY <1>1, <1>2, <1>3, <1>5, AcknowledgeKeeps DEF IrqInv
<1>6. CASE Head(f.todo) = "count" /\ m' = Done(m)
  <2>1. f.todo = << "count", "eoi" >> /\ IsService(f)
    BY <1>3, <1>4, <1>6 DEF IsCall, IsFault, IsService
  <2>2. m.key \in BOOLEAN /\ m' = Done([m EXCEPT !.key = m.key])
    BY <1>1, <1>6 DEF IrqType
  <2> QED
    BY <1>1, <1>2, <2>1, <2>2, DoneKeeps DEF IrqInv, GoesOn
<1>7. CASE Head(f.todo) = "read" /\ m' = Done([m EXCEPT !.key = FALSE])
  <2>1. f.todo = << "read", "eoi" >> /\ IsService(f)
    BY <1>3, <1>4, <1>7 DEF IsCall, IsFault, IsService
  <2> QED
    BY <1>1, <1>2, <1>7, <2>1, DoneKeeps DEF IrqInv, GoesOn
<1> QED
  BY <1>3, <1>5, <1>6, <1>7 DEF Step

LEMMA CallKeepsIrq ==
  ASSUME IrqInv, ReturnCall \/ sys_read
  PROVE  IrqInv'
<1>1. Sound(m) /\ m \in IrqType /\ m.frames # << >>
  BY DEF IrqInv, Sound, ReturnCall, sys_read
<1>2. PICK f : f = m.frames[Len(m.frames)]
  OBVIOUS
<1>3. f.todo = << "call" >>
  BY <1>2 DEF Top, ReturnCall, sys_read
<1>4. CASE ReturnCall
  <2>1. m.key \in BOOLEAN /\ m' = Done([m EXCEPT !.key = m.key])
    BY <1>1, <1>4 DEF IrqType, ReturnCall
  <2> QED
    BY <1>1, <1>2, <1>3, <2>1, DoneKeeps DEF IrqInv, GoesOn
<1>5. CASE sys_read
  <2>1. m' = Done([m EXCEPT !.key = FALSE])
    BY <1>5 DEF sys_read
  <2> QED
    BY <1>1, <1>2, <1>3, <2>1, DoneKeeps DEF IrqInv, GoesOn
<1> QED
  BY <1>4, <1>5

LEMMA IretKeeps ==
  ASSUME IrqInv, Iret
  PROVE  IrqInv'
<1>1. m \in IrqType /\ Booted(m) /\ Nested(m) /\ Stacked(m) /\ ~m.dead /\ m.frames # << >>
  BY DEF IrqInv, Sound, Iret
<1>2. PICK n, f : n = Len(m.frames) /\ f = m.frames[n]
  OBVIOUS
<1>3. /\ f \in FrameType /\ n \in {1, 2} /\ (n = 2 => IsCall(m.frames[1]))
      /\ \/ IsCall(f) /\ n = 1 /\ m.isr = {}
         \/ IsFault(f) /\ n = 1 /\ m.isr = {} /\ ~m.on
         \/ /\ IsService(f) /\ ~m.on /\ f.line \notin m.imr
            /\ m.isr = IF f.todo = << >> THEN {} ELSE {f.line}
  BY <1>1, <1>2, NestedIs
<1>4. f.todo = << >> /\ f.on \in BOOLEAN /\ f.ring \in {0, 3} /\ Top = f
  BY <1>2, <1>3 DEF Iret, Top, FrameType
<1>5. m.isr = {}
  BY <1>3, <1>4 DEF IsFault
<1>6. PICK F : F = SubSeq(m.frames, 1, n - 1)
  OBVIOUS
<1>7. m.frames \in Seq(FrameType)
  BY <1>1 DEF IrqType
<1>8. F \in Seq(FrameType) /\ Len(F) = n - 1 /\ \A i \in 1..(n - 1) : F[i] = m.frames[i]
  <2>1. PICK z : z = m.frames
    OBVIOUS
  <2>2. z \in Seq(FrameType) /\ Len(z) = n /\ n \in Nat /\ n - 1 \in Nat /\ n - 1 <= Len(z)
    <3>1. z \in Seq(FrameType) /\ Len(z) = n
      BY <1>2, <1>7, <2>1
    <3>2. n \in Nat /\ n - 1 \in Nat /\ n - 1 <= n
      BY <1>3
    <3> QED
      BY <3>1, <3>2
  <2>3. F = SubSeq(z, 1, n - 1)
    BY <1>6, <2>1
  <2>4. F \in Seq(FrameType) /\ Len(F) = n - 1 /\ \A i \in 1..(n - 1) : F[i] = z[i]
    BY <2>2, <2>3
  <2> QED
    BY <2>1, <2>4
<1>9. m' = [m EXCEPT !.frames = F, !.on = f.on, !.ring = f.ring]
  BY <1>2, <1>4, <1>6 DEF Iret
<1>10. m' \in IrqType /\ SameKernel(m, m') /\ m'.irr = m.irr /\ m'.isr = {} /\ m'.dead = m.dead
       /\ m'.frames = F /\ m'.ring = f.ring
  BY <1>1, <1>4, <1>5, <1>8, <1>9 DEF IrqType, SameKernel
<1>11. Booted(m')
  BY <1>1, <1>10, BootKept
<1>12. Nested(m')
  <2>1. CASE n = 1
    <3>1. F = << >>
      BY <1>8, <2>1
    <3> QED
      BY <1>10, <3>1 DEF Nested
  <2>2. CASE n = 2
    <3>1. Len(F) = 1 /\ F[1] = m.frames[1]
      BY <1>8, <2>2
    <3> QED
      BY <1>3, <1>10, <2>2, <3>1 DEF Nested
  <2> QED
    BY <1>3, <2>1, <2>2
<1>13. Stacked(m')
  <2>1. m'.tss = m.tss /\ n \in 1..Len(m.frames)
    <3>1. m'.tss = m.tss
      BY <1>10 DEF SameKernel
    <3>2. n \in 1..n
      BY <1>3
    <3> QED
      BY <1>2, <3>1, <3>2
  <2>2. m'.ring = 3 => m'.tss
    BY <1>1, <1>2, <1>10, <2>1 DEF Stacked
  <2>3. \A i \in 1..Len(F) : F[i].ring = 3 => m'.tss
    BY <1>1, <1>2, <1>3, <1>8, <2>1 DEF Stacked
  <2> QED
    BY <1>10, <2>2, <2>3 DEF Stacked
<1> QED
  BY <1>1, <1>10, <1>11, <1>12, <1>13 DEF IrqInv, Sound

\* A system call, and a fault of a program.
LEMMA EntryKeeps ==
  ASSUME IrqInv, Syscall \/ Fault
  PROVE  IrqInv'
<1>1. /\ m \in IrqType /\ Booted(m) /\ Nested(m) /\ Stacked(m) /\ ~m.dead
      /\ m.frames = << >> /\ m.boot = << >> /\ m.stage \in {11, 13}
  BY DEF IrqInv, Sound, Syscall, Fault, AtBase
<1>2. m.isr = {}
  BY <1>1 DEF Nested
<1>3. /\ \A v \in VECTORS : v < 48 => m.gates[v] = "interrupt"
      /\ m.gates[128] = "trap" /\ m.reg[13] = "none" /\ m.reg[128] \in {"none", "syscall"}
  BY <1>1, ProgramsAreServed
<1>4. PICK v : v \in {13, 128} /\ m' = Enter(m, v, NoLine)
  BY DEF Syscall, Fault
<1>5. v \in VECTORS /\ m.gates[v] = IF v = 128 THEN "trap" ELSE "interrupt"
  <2>1. 13 \in VECTORS /\ 128 \in VECTORS /\ 13 < 48
    BY DEF VECTORS
  <2>2. m.gates[13] = "interrupt" /\ m.gates[128] = "trap"
    BY <1>3, <2>1
  <2> QED
    BY <1>4, <2>1, <2>2
<1>6. PICK h : h = Handling(m, v)
  OBVIOUS
<1>7. PICK f : f = [vec |-> v, line |-> NoLine, todo |-> h, on |-> m.on, ring |-> m.ring]
  OBVIOUS
<1>8. h = IF v = 13 THEN << "hang" >> ELSE IF m.reg[128] = "none" THEN << >> ELSE << "call" >>
  <2>1. h = interrupt_handler(m, v)
    BY <1>1, <1>6 DEF Handling
  <2>2. CASE v = 13
    BY <1>3, <2>1, <2>2 DEF interrupt_handler, exception_handler
  <2>3. CASE v = 128
    BY <1>3, <2>1, <2>3 DEF interrupt_handler
  <2> QED
    BY <1>4, <2>2, <2>3
<1>9. h \in Seq(Actions)
  <2>1. << "hang" >> \in Seq(Actions)
    BY DEF Actions
  <2>2. << "call" >> \in Seq(Actions)
    BY DEF Actions
  <2>3. << >> \in Seq(Actions)
    OBVIOUS
  <2> QED
    BY <1>8, <2>1, <2>2, <2>3
<1>10. /\ m' \in IrqType /\ SameKernel(m, m') /\ m'.irr = m.irr /\ m'.isr = m.isr
       /\ m'.dead = m.dead /\ (m'.on <=> m.on /\ m.gates[v] = "trap")
       /\ f \in FrameType /\ m'.frames = Append(m.frames, f) /\ Stacked(m')
  <2>1. m.gates[v] # "none"
    BY <1>5
  <2> QED
    BY <1>1, <1>4, <1>5, <1>6, <1>7, <1>9, <2>1, EnterIs
<1>11. Len(m'.frames) = 1 /\ m'.frames[1] = f
  BY <1>1, <1>10
<1>12. Booted(m')
  BY <1>1, <1>10, BootKept
<1>13. f.vec = v /\ f.line = NoLine /\ f.todo = h
  BY <1>7
<1>14. Nested(m')
  <2>1. CASE v = 13
    <3>1. IsFault(f) /\ ~m'.on
      BY <1>5, <1>8, <1>10, <1>13, <2>1 DEF IsFault
    <3> QED
      BY <1>2, <1>10, <1>11, <3>1 DEF Nested
  <2>2. CASE v = 128
    <3>1. IsCall(f)
      BY <1>8, <1>13, <2>2 DEF IsCall
    <3> QED
      BY <1>2, <1>10, <1>11, <3>1 DEF Nested
  <2> QED
    BY <1>4, <2>1, <2>2
<1> QED
  BY <1>1, <1>10, <1>12, <1>14 DEF IrqInv, Sound

----------------------------------------------------------------------------
\* Booting.  What holds of t after a call that leaves the calls C behind.
Prepared(r, t, C) ==
  /\ t \in IrqType /\ t.stage = r.stage /\ t.boot = r.boot
  /\ t.frames = << >> /\ t.isr = {} /\ ~t.dead /\ (t.ring = 3 => t.tss)
  /\ Installed(t, C) /\ Guarded(t, C)

\* What idt_init makes of the IDT and of the table of handlers.
Tables(r, G, R) ==
  /\ G \in [VECTORS -> Gates] /\ R \in [VECTORS -> Handlers]
  /\ Do(r, "idt_init") = [r EXCEPT !.gates = G, !.reg = R]
  /\ \A v \in VECTORS : v < 48 => G[v] = "interrupt"
  /\ r.stage \in {11, 13} => G[128] = "trap"
  /\ R[13] = "none" /\ (R[128] = "none" \/ R = r.reg)

LEMMA IdtInitIs ==
  ASSUME NEW r \in IrqType, r.reg[13] = "none"
  PROVE  \E G, R : Tables(r, G, R)
<1>1. r.gates \in [VECTORS -> Gates] /\ r.reg \in [VECTORS -> Handlers] /\ r.stage \in AllStages
  BY StageIs DEF IrqType
<1>2. 13 \in VECTORS /\ 128 \in VECTORS /\ ~(128 < 48)
  BY DEF VECTORS
<1>3. PICK G : G = [v \in VECTORS |-> IF v \in {w \in VECTORS : w < 48} THEN "interrupt" ELSE "none"]
  OBVIOUS
<1>4. G \in [VECTORS -> Gates] /\ \A v \in VECTORS : v < 48 => G[v] = "interrupt"
  BY <1>3 DEF Gates
<1>5. idt_init_03(r) = [r EXCEPT !.gates = G]
  BY <1>3 DEF idt_init_03, SetGates
<1>6. CASE r.stage \in {3, 4}
  <2>1. Do(r, "idt_init") = idt_init_03(r)
    BY <1>6 DEF Do, idt_init_04
  <2>2. Do(r, "idt_init") = [r EXCEPT !.gates = G, !.reg = r.reg]
    BY <1>1, <1>5, <2>1 DEF IrqType
  <2>3. Tables(r, G, r.reg)
    BY <1>1, <1>4, <1>6, <2>2 DEF Tables
  <2> QED
    BY <2>3
<1>7. PICK R : R = [v \in VECTORS |-> "none"]
  OBVIOUS
<1>8. R \in [VECTORS -> Handlers] /\ R[13] = "none" /\ R[128] = "none"
  BY <1>2, <1>7 DEF Handlers
<1>9. PICK I : I = [G EXCEPT ![128] = "interrupt"]
  OBVIOUS
<1>10. I \in [VECTORS -> Gates] /\ \A v \in VECTORS : v < 48 => I[v] = "interrupt"
  BY <1>2, <1>4, <1>9 DEF Gates
<1>11. idt_init_10(r) = [r EXCEPT !.gates = I, !.reg = R]
  BY <1>1, <1>5, <1>7, <1>9, ZenonT(30) DEF idt_init_10, IrqType
<1>12. CASE r.stage = 10
  <2>1. Do(r, "idt_init") = idt_init_10(r)
    BY <1>12 DEF Do
  <2>2. Tables(r, I, R)
    BY <1>8, <1>12, <1>10, <1>11, <2>1 DEF Tables
  <2> QED
    BY <2>2
<1>13. CASE r.stage \notin {3, 4, 10}
  <2>1. PICK H : H = [I EXCEPT ![128] = "trap"]
    OBVIOUS
  <2>2. H \in [VECTORS -> Gates] /\ H[128] = "trap" /\ \A v \in VECTORS : v < 48 => H[v] = "interrupt"
    BY <1>2, <1>10, <2>1 DEF Gates
  <2>3. Do(r, "idt_init") = idt_init_13(r)
    BY <1>13 DEF Do
  <2>4. idt_init_13(r) = [r EXCEPT !.gates = H, !.reg = R]
    BY <1>1, <1>11, <2>1 DEF idt_init_13, IrqType
  <2>5. Tables(r, H, R)
    BY <1>8, <2>2, <2>3, <2>4 DEF Tables
  <2> QED
    BY <2>5
<1> QED
  BY <1>6, <1>12, <1>13

LEMMA PicInitIs ==
  ASSUME NEW r \in IrqType
  PROVE  \E M \in SUBSET LINES :
           /\ Do(r, "pic_init") = [r EXCEPT !.remapped = TRUE, !.imr = M, !.irr = {}, !.isr = {}]
           /\ {Timer, Keyboard, DiskLine} \subseteq M
<1>1. {Timer, Keyboard, DiskLine} \subseteq LINES \ {Cascade}
  BY Lines
<1>2. pic_init_03(r) = [r EXCEPT !.remapped = TRUE, !.imr = LINES, !.irr = {}, !.isr = {}]
  BY DEF pic_init_03
<1>3. CASE r.stage \in {3, 4}
  <2>1. Do(r, "pic_init") = pic_init_03(r)
    BY <1>3 DEF Do, pic_init_04
  <2> QED
    BY <1>1, <1>2, <2>1
<1>4. CASE r.stage \notin {3, 4}
  <2>1. Do(r, "pic_init") = pic_init_10(r)
    BY <1>4 DEF Do
  <2>2. pic_init_10(r) = [r EXCEPT !.remapped = TRUE, !.imr = LINES \ {Cascade}, !.irr = {}, !.isr = {}]
    BY <1>2 DEF pic_init_10, IrqType
  <2> QED
    BY <1>1, <2>1, <2>2
<1> QED
  BY <1>3, <1>4

LEMMA RegisterPrepares ==
  ASSUME NEW r, NEW C, Prepared(r, r, C), NEW op \in {"timer", "keyboard", "syscall"},
         Ordered(r.stage, op, C)
  PROVE  Prepared(r, Do(r, op), C \cup {op})
<1>1. PICK v : v = IF op = "timer" THEN 32 ELSE IF op = "keyboard" THEN 33 ELSE 128
  OBVIOUS
<1>2. Do(r, op) = [r EXCEPT !.reg[v] = op]
  BY <1>1 DEF Do, idt_register_handler
<1>3. v \in VECTORS /\ 13 \in VECTORS /\ 32 \in VECTORS /\ 33 \in VECTORS /\ 128 \in VECTORS
      /\ op \in Handlers
  BY <1>1 DEF VECTORS, Handlers
<1>4. PICK R : R = [r.reg EXCEPT ![v] = op]
  OBVIOUS
<1>5. r \in IrqType /\ r.reg \in [VECTORS -> Handlers]
  BY DEF Prepared, IrqType
<1>6. R \in [VECTORS -> Handlers] /\ R[v] = op /\ \A w \in VECTORS : w # v => R[w] = r.reg[w]
  BY <1>3, <1>4, <1>5
<1>7. PICK t : t = [r EXCEPT !.reg = R]
  OBVIOUS
<1>8. /\ t \in IrqType /\ t.stage = r.stage /\ t.boot = r.boot /\ t.reg = R /\ t.gates = r.gates
      /\ t.remapped = r.remapped /\ t.imr = r.imr /\ t.irr = r.irr /\ t.isr = r.isr
      /\ t.on = r.on /\ t.ring = r.ring /\ t.tss = r.tss /\ t.frames = r.frames /\ t.dead = r.dead
  BY <1>5, <1>6, <1>7 DEF IrqType
<1>9. Installed(r, C) /\ Guarded(r, C)
  BY DEF Prepared
<1>10. R[13] = "none" /\ R[128] \in {"none", "syscall"}
  BY <1>1, <1>3, <1>6, <1>9 DEF Installed
<1>11. /\ ("timer" \in C \cup {op} => r.stage \in {10, 11, 13} /\ R[32] = "timer")
       /\ ("keyboard" \in C \cup {op} => r.stage \in {10, 11, 13} /\ R[33] = "keyboard")
  BY <1>1, <1>3, <1>6, <1>9 DEF Installed, Ordered
<1>12. Installed(t, C \cup {op})
  BY <1>8, <1>9, <1>10, <1>11 DEF Installed
<1>13. Guarded(t, C \cup {op})
  BY <1>8, <1>9 DEF Guarded
<1>14. t = Do(r, op)
  BY <1>2, <1>4, <1>7
<1> QED
  BY <1>8, <1>12, <1>13, <1>14 DEF Prepared

LEMMA UnmaskPrepares ==
  ASSUME NEW r, NEW C, Prepared(r, r, C), NEW op \in {"unmask_timer", "unmask_keyboard"},
         Ordered(r.stage, op, C)
  PROVE  Prepared(r, Do(r, op), C \cup {op})
<1>1. PICK l : l = IF op = "unmask_timer" THEN Timer ELSE Keyboard
  OBVIOUS
<1>2. PICK t : t = [r EXCEPT !.imr = @ \ {l}]
  OBVIOUS
<1>3. Do(r, op) = t
  BY <1>1, <1>2 DEF Do, pic_unmask_irq
<1>4. r \in IrqType /\ l \in {Timer, Keyboard} /\ Installed(r, C) /\ Guarded(r, C)
  BY <1>1 DEF Prepared
<1>5. /\ t \in IrqType /\ t.stage = r.stage /\ t.boot = r.boot /\ t.reg = r.reg /\ t.gates = r.gates
      /\ t.remapped = r.remapped /\ t.imr = r.imr \ {l} /\ t.irr = r.irr /\ t.isr = r.isr
      /\ t.on = r.on /\ t.ring = r.ring /\ t.tss = r.tss /\ t.frames = r.frames /\ t.dead = r.dead
  BY <1>2, <1>4 DEF IrqType
<1>6. l # DiskLine /\ Timer # Keyboard
  BY <1>4, Lines
<1>7. (IF l = Timer THEN "timer" ELSE "keyboard") \in C
  BY <1>1, <1>6 DEF Ordered
<1>8. Installed(t, C \cup {op})
  BY <1>4, <1>5, <1>6, <1>7 DEF Installed
<1>9. Guarded(t, C \cup {op})
  BY <1>4, <1>5 DEF Guarded
<1> QED
  BY <1>3, <1>5, <1>8, <1>9 DEF Prepared

\* The calls that set only the interrupt flag, the privilege or the TSS.
LEMMA ModePrepares ==
  ASSUME NEW r, NEW C, Prepared(r, r, C),
         NEW op \in {"usermode_init", "sti", "jump_user", "switch_to_first"},
         Ordered(r.stage, op, C)
  PROVE  Prepared(r, Do(r, op), C \cup {op})
<1>1. r \in IrqType /\ Installed(r, C) /\ Guarded(r, C)
  BY DEF Prepared
<1>2. PICK o \in BOOLEAN : o = IF op = "jump_user" THEN FALSE
                               ELSE IF op = "usermode_init" THEN r.on ELSE TRUE
  BY <1>1 DEF IrqType
<1>3. PICK g \in {0, 3} : g = IF op \in {"jump_user", "switch_to_first"} THEN 3 ELSE r.ring
  BY <1>1 DEF IrqType
<1>4. PICK b \in BOOLEAN : b = IF op = "usermode_init" THEN TRUE ELSE r.tss
  BY <1>1 DEF IrqType
<1>5. PICK t : t = [r EXCEPT !.on = o, !.ring = g, !.tss = b]
  OBVIOUS
<1>6. Do(r, op) = t
  <2>1. CASE op = "usermode_init"
    BY <1>1, <1>2, <1>3, <1>4, <1>5, <2>1 DEF Do, usermode_init, IrqType
  <2>2. CASE op = "sti"
    BY <1>1, <1>2, <1>3, <1>4, <1>5, <2>2 DEF Do, IrqType
  <2>3. CASE op = "jump_user"
    BY <1>1, <1>2, <1>3, <1>4, <1>5, <2>3 DEF Do, jump_user_mode, IrqType
  <2>4. CASE op = "switch_to_first"
    BY <1>1, <1>2, <1>3, <1>4, <1>5, <2>4 DEF Do, switch_to_first, IrqType
  <2> QED
    BY <2>1, <2>2, <2>3, <2>4
<1>7. /\ t \in IrqType /\ t.stage = r.stage /\ t.boot = r.boot /\ t.reg = r.reg /\ t.gates = r.gates
      /\ t.remapped = r.remapped /\ t.imr = r.imr /\ t.irr = r.irr /\ t.isr = r.isr
      /\ t.on = o /\ t.ring = g /\ t.tss = b /\ t.frames = r.frames /\ t.dead = r.dead
  BY <1>1, <1>5 DEF IrqType
<1>8. ("usermode_init" \in C \cup {op} => b) /\ (g = 3 => b)
  BY <1>1, <1>3, <1>4 DEF Installed, Ordered, Prepared
<1>9. ("sti" \in C \cup {op} => {"pic_init", "idt_init"} \subseteq C) /\ (o => "sti" \in C \cup {op})
  BY <1>1, <1>2 DEF Installed, Guarded, Ordered
<1>10. Installed(t, C \cup {op})
  BY <1>1, <1>7, <1>8, <1>9 DEF Installed
<1>11. Guarded(t, C \cup {op})
  BY <1>1, <1>7, <1>9 DEF Guarded, Prepared
<1> QED
  BY <1>6, <1>7, <1>8, <1>10, <1>11 DEF Prepared

LEMMA TablesPrepare ==
  ASSUME NEW r, NEW C, Prepared(r, r, C), NEW op \in {"idt_init", "pic_init"},
         Ordered(r.stage, op, C)
  PROVE  Prepared(r, Do(r, op), C \cup {op})
<1>1. r \in IrqType /\ Installed(r, C) /\ Guarded(r, C)
  BY DEF Prepared
<1>2. CASE op = "idt_init"
  <2>1. r.reg[13] = "none"
    BY <1>1 DEF Installed
  <2>2. PICK G, R : Tables(r, G, R)
    BY <1>1, <2>1, IdtInitIs
  <2>3. PICK t : t = [r EXCEPT !.gates = G, !.reg = R]
    OBVIOUS
  <2>4. /\ t \in IrqType /\ t.stage = r.stage /\ t.boot = r.boot /\ t.reg = R /\ t.gates = G
        /\ t.remapped = r.remapped /\ t.imr = r.imr /\ t.irr = r.irr /\ t.isr = r.isr
        /\ t.on = r.on /\ t.ring = r.ring /\ t.tss = r.tss /\ t.frames = r.frames /\ t.dead = r.dead
    <3>1. G \in [VECTORS -> Gates] /\ R \in [VECTORS -> Handlers]
      BY <2>2 DEF Tables
    <3> QED
      BY <1>1, <2>3, <3>1 DEF IrqType
  <2>5. R[13] = "none" /\ R[128] \in {"none", "syscall"}
    BY <1>1, <2>2 DEF Installed, Tables
  <2>6. "timer" \notin C /\ "keyboard" \notin C /\ "sti" \notin C
    BY <1>2 DEF Ordered
  <2>7. Installed(t, C \cup {"idt_init"})
    BY <1>1, <2>2, <2>4, <2>5, <2>6 DEF Installed, Tables
  <2>8. Guarded(t, C \cup {"idt_init"})
    BY <1>1, <2>4 DEF Guarded
  <2>9. Prepared(r, t, C \cup {"idt_init"})
    BY <2>4, <2>7, <2>8 DEF Prepared
  <2>10. Do(r, "idt_init") = t
    BY <2>2, <2>3 DEF Tables
  <2> QED
    BY <1>2, <2>9, <2>10
<1>3. CASE op = "pic_init"
  <2>1. PICK M \in SUBSET LINES :
          /\ Do(r, "pic_init") = [r EXCEPT !.remapped = TRUE, !.imr = M, !.irr = {}, !.isr = {}]
          /\ {Timer, Keyboard, DiskLine} \subseteq M
    BY <1>1, PicInitIs
  <2>2. PICK t : t = [r EXCEPT !.remapped = TRUE, !.imr = M, !.irr = {}, !.isr = {}]
    OBVIOUS
  <2>3. /\ t \in IrqType /\ t.stage = r.stage /\ t.boot = r.boot /\ t.reg = r.reg /\ t.gates = r.gates
        /\ t.remapped /\ t.imr = M /\ t.irr = {} /\ t.isr = {}
        /\ t.on = r.on /\ t.ring = r.ring /\ t.tss = r.tss /\ t.frames = r.frames /\ t.dead = r.dead
    BY <1>1, <2>2 DEF IrqType
  <2>4. Installed(t, C \cup {"pic_init"})
    BY <1>1, <2>1, <2>3 DEF Installed
  <2>5. Guarded(t, C \cup {"pic_init"})
    BY <1>1, <2>3 DEF Guarded
  <2> QED
    BY <1>3, <2>1, <2>2, <2>3, <2>4, <2>5 DEF Prepared
<1> QED
  BY <1>2, <1>3

LEMMA BootKeeps ==
  ASSUME IrqInv, Boot
  PROVE  IrqInv'
<1>1. /\ m \in IrqType /\ Booted(m) /\ Nested(m) /\ Stacked(m) /\ ~m.dead /\ m.frames = << >>
      /\ m.boot # << >> /\ Head(m.boot) \notin {"hlt", "poll"}
  BY DEF IrqInv, Sound, Boot, AtBase
<1>2. PICK n \in 0..Len(kernel_main(m.stage)) :
        /\ m.boot = Ahead(m.stage, n)
        /\ Installed(m, Made(m.stage, n)) /\ Guarded(m, Made(m.stage, n))
  BY <1>1 DEF Booted
<1>3. PICK k, C, op : k = kernel_main(m.stage) /\ C = Made(m.stage, n) /\ op = Head(m.boot)
  OBVIOUS
<1>4. m.stage \in AllStages /\ Len(k) \in Nat
  BY <1>1, <1>3, StageIs, ProgramIs
<1>5. /\ n \in Nat /\ n < Len(k) /\ op = k[n + 1] /\ Tail(m.boot) = Ahead(m.stage, n + 1)
      /\ Made(m.stage, n + 1) = C \cup {op} /\ Tail(m.boot) \in Seq(Calls) /\ n + 1 \in 0..Len(k)
  <2>1. n \in Nat /\ n <= Len(k) /\ n # Len(k)
    BY <1>1, <1>2, <1>3, <1>4, AheadIs
  <2>2. n < Len(k) /\ n + 1 \in 0..Len(k)
    BY <1>4, <2>1
  <2>3. op = k[n + 1] /\ Tail(m.boot) = Ahead(m.stage, n + 1) /\ Made(m.stage, n + 1) = C \cup {op}
    BY <1>2, <1>3, <1>4, <2>2, AheadIs
  <2>4. Ahead(m.stage, n + 1) \in Seq(Calls)
    BY <1>3, <1>4, <2>2, AheadIs
  <2> QED
    BY <2>1, <2>2, <2>3, <2>4
<1>6. Ordered(m.stage, op, C)
  BY <1>3, <1>4, <1>5, Order
<1>7. m.isr = {}
  BY <1>1 DEF Nested
<1>8. Prepared(m, m, C)
  BY <1>1, <1>2, <1>3, <1>7 DEF Prepared, Stacked
<1>9. PICK t : t = Do(m, op)
  OBVIOUS
<1>10. op \notin {"hlt", "poll", "divide"} /\ op \in Calls
  BY <1>1, <1>3, <1>6, <1>8 DEF Ordered, Prepared, Guarded
<1>11. Prepared(m, t, C \cup {op})
  <2>1. CASE op \in {"timer", "keyboard", "syscall"}
    BY <1>6, <1>8, <1>9, <2>1, RegisterPrepares
  <2>2. CASE op \in {"unmask_timer", "unmask_keyboard"}
    BY <1>6, <1>8, <1>9, <2>2, UnmaskPrepares
  <2>3. CASE op \in {"usermode_init", "sti", "jump_user", "switch_to_first"}
    BY <1>6, <1>8, <1>9, <2>3, ModePrepares
  <2>4. CASE op \in {"idt_init", "pic_init"}
    BY <1>6, <1>8, <1>9, <2>4, TablesPrepare
  <2> QED
    BY <1>10, <2>1, <2>2, <2>3, <2>4 DEF Calls
<1>12. t \in IrqType /\ t.stage = m.stage /\ t.boot = m.boot /\ t.frames = << >> /\ t.isr = {}
       /\ ~t.dead /\ (t.ring = 3 => t.tss) /\ Installed(t, C \cup {op}) /\ Guarded(t, C \cup {op})
  BY <1>11 DEF Prepared
<1>13. m' = [t EXCEPT !.boot = Tail(m.boot)]
  BY <1>3, <1>9, <1>12 DEF Boot, IrqType
<1>14. /\ m' \in IrqType /\ m'.stage = t.stage /\ m'.boot = Tail(m.boot) /\ m'.reg = t.reg
       /\ m'.gates = t.gates /\ m'.remapped = t.remapped /\ m'.imr = t.imr /\ m'.irr = t.irr
       /\ m'.isr = t.isr /\ m'.on = t.on /\ m'.ring = t.ring /\ m'.tss = t.tss
       /\ m'.frames = t.frames /\ m'.dead = t.dead
  BY <1>5, <1>12, <1>13 DEF IrqType
<1>15. Installed(m', C \cup {op}) /\ Guarded(m', C \cup {op})
  BY <1>12, <1>14 DEF Installed, Guarded
<1>16. Booted(m')
  <2>1. PICK j : j = n + 1
    OBVIOUS
  <2>2. j \in 0..Len(kernel_main(m'.stage)) /\ m'.boot = Ahead(m'.stage, j)
        /\ Made(m'.stage, j) = C \cup {op}
    BY <1>3, <1>5, <1>12, <1>14, <2>1
  <2> QED
    BY <1>15, <2>2 DEF Booted
<1>17. Nested(m') /\ Stacked(m')
  <2>1. m'.frames = << >> /\ m'.isr = {} /\ (m'.ring = 3 => m'.tss) /\ Len(m'.frames) = 0
    BY <1>12, <1>14
  <2> QED
    BY <2>1 DEF Nested, Stacked
<1> QED
  BY <1>12, <1>14, <1>16, <1>17 DEF IrqInv, Sound

LEMMA PollKeepsIrq ==
  ASSUME IrqInv, poll_keyboard
  PROVE  IrqInv'
<1>1. m \in IrqType /\ Booted(m) /\ Nested(m) /\ Stacked(m) /\ ~m.dead /\ m.frames = << >>
      /\ m' = [m EXCEPT !.key = FALSE]
  BY DEF IrqInv, Sound, poll_keyboard, AtBase
<1>2. m' \in IrqType /\ SameKernel(m, m') /\ m'.irr = m.irr /\ m'.isr = m.isr
      /\ m'.dead = m.dead /\ m'.on = m.on /\ m'.frames = m.frames /\ m'.ring = m.ring
  BY <1>1 DEF IrqType, SameKernel
<1>3. Booted(m')
  BY <1>1, <1>2, BootKept
<1>4. Nested(m') /\ Stacked(m')
  BY <1>1, <1>2 DEF Nested, Stacked, SameKernel
<1> QED
  BY <1>1, <1>2, <1>3, <1>4 DEF IrqInv, Sound

----------------------------------------------------------------------------
(***************************************************************************)
(* The theorems of the interrupts.                                         *)
(***************************************************************************)
LEMMA IrqInvInit ==
  ASSUME IrqInit
  PROVE  IrqInv
<1>1. PICK stage \in Stages :
        m = [stage |-> stage, boot |-> kernel_main(stage),
             gates |-> [v \in VECTORS |-> "none"], reg |-> [v \in VECTORS |-> "none"],
             remapped |-> FALSE, imr |-> {}, irr |-> {}, isr |-> {},
             on |-> FALSE, ring |-> 0, tss |-> FALSE, frames |-> << >>,
             key |-> FALSE, dead |-> FALSE]
  BY DEF IrqInit
<1>2. stage \in AllStages /\ kernel_main(stage) \in Seq(Calls)
  BY InterruptsAssumption, ProgramIs
<1>3. m \in IrqType
  BY <1>1, <1>2 DEF IrqType, Gates, Handlers
<1>4. Ahead(stage, 0) = kernel_main(stage)
  BY <1>2 DEF Ahead
<1>5. Made(stage, 0) = {}
  BY DEF Made
<1>6. m.reg[13] = "none" /\ m.reg[128] = "none"
  <2>1. 13 \in VECTORS /\ 128 \in VECTORS
    BY DEF VECTORS
  <2> QED
    BY <1>1, <2>1
<1>7. m.stage = stage /\ m.boot = kernel_main(stage) /\ m.irr = {} /\ m.isr = {} /\ ~m.on
      /\ m.ring = 0 /\ m.frames = << >> /\ ~m.dead
  BY <1>1
<1>8. Installed(m, {}) /\ Guarded(m, {})
  BY <1>6, <1>7 DEF Installed, Guarded
<1>9. Booted(m)
  <2>1. 0 \in 0..Len(kernel_main(stage))
    BY <1>2
  <2> QED
    BY <1>4, <1>5, <1>7, <1>8, <2>1 DEF Booted
<1>10. Nested(m) /\ Stacked(m)
  BY <1>7 DEF Nested, Stacked
<1> QED
  BY <1>3, <1>7, <1>9, <1>10 DEF IrqInv, Sound

LEMMA IrqInvNext ==
  ASSUME IrqInv, [IrqNext]_m
  PROVE  IrqInv'
<1>1. CASE Raise
  <2>1. PICK l \in {Timer, DiskLine} : m' = [m EXCEPT !.irr = @ \cup {l}]
    BY <1>1 DEF Raise
  <2>2. m \in IrqType /\ Sound(m)
    BY DEF IrqInv, Sound
  <2>3. m.key \in BOOLEAN /\ m' = [m EXCEPT !.key = m.key, !.irr = @ \cup {l}]
    BY <2>1, <2>2 DEF IrqType
  <2> QED
    BY <2>1, <2>2, <2>3, RaiseKeeps DEF IrqInv
<1>2. CASE Type
  <2>1. m' = [m EXCEPT !.key = TRUE, !.irr = @ \cup {Keyboard}]
    BY <1>2 DEF Type
  <2> QED
    BY <2>1, RaiseKeeps DEF IrqInv
<1>3. CASE \E l \in LINES : Deliver(l)
  BY <1>3, DeliverKeeps
<1>4. CASE Kernel
  BY <1>4, BootKeeps, StepKeeps, IretKeeps DEF Kernel
<1>5. CASE poll_keyboard
  BY <1>5, PollKeepsIrq
<1>6. CASE ReturnCall \/ sys_read
  BY <1>6, CallKeepsIrq
<1>7. CASE Syscall \/ Fault
  BY <1>7, EntryKeeps
<1>8. CASE StayHung \/ UNCHANGED m
  <2>1. m' = m
    BY <1>8 DEF StayHung
  <2> QED
    BY <2>1 DEF IrqInv
<1> QED
  BY <1>1, <1>2, <1>3, <1>4, <1>5, <1>6, <1>7, <1>8 DEF IrqNext

\* The inductive invariant of the interrupts: whatever line is open has had its
\* gate and its handler set up by the calls kernel_main has made, interrupts are
\* off until then, and on the stack of frames a service is above at most one call.
THEOREM InterruptsHold == IrqSpec => []IrqInv
<1> QED
  BY IrqInvInit, IrqInvNext, PTL DEF IrqSpec

\* Type correctness of the interrupts.
THEOREM InterruptTypes == IrqSpec => []IrqTypeOK
<1>1. ASSUME IrqInv PROVE IrqTypeOK
  <2>1. m \in IrqType
    BY <1>1 DEF IrqInv, Sound
  <2>2. \A i \in 1..Len(m.frames) : m.frames[i] \in FrameType
    BY <2>1 DEF IrqType
  <2> QED
    BY <2>1, <2>2 DEF IrqTypeOK, IrqType, FrameType
<1> QED
  BY <1>1, InterruptsHold, PTL

\* In each kernel of the series, whatever lines are raised while it boots or
\* runs, a delivered IRQ finds the gate, the kernel stack and the handler that
\* belong to it, and that handler acknowledges it.
THEOREM IrqsAreHandled == IrqSpec => []IrqsReachHandlers
<1>1. ASSUME IrqInv PROVE IrqsReachHandlers
  <2>1. m \in IrqType /\ Booted(m) /\ Nested(m) /\ ~m.dead
    BY <1>1 DEF IrqInv, Sound
  <2>2. ASSUME NEW i \in Irqs
        PROVE  /\ m.frames[i].vec = 32 + m.frames[i].line
               /\ \E j \in 1..Len(Handling(m, m.frames[i].vec)) :
                    Handling(m, m.frames[i].vec)[j] = "eoi"
    <3>1. i \in 1..Len(m.frames) /\ m.frames[i].line # NoLine
      BY <2>2 DEF Irqs
    <3>2. m.frames # << >> /\ Len(m.frames) \in {1, 2}
      <4>1. m.frames # << >>
        BY <3>1
      <4> QED
        BY <2>1, <4>1, NestedIs
    <3>3. PICK f : f = m.frames[i]
      OBVIOUS
    <3>4. IsService(f) /\ f.line \notin m.imr
      <4>1. /\ Len(m.frames) = 2 => IsCall(m.frames[1])
            /\ \/ IsCall(m.frames[Len(m.frames)])
               \/ IsFault(m.frames[Len(m.frames)])
               \/ IsService(m.frames[Len(m.frames)]) /\ m.frames[Len(m.frames)].line \notin m.imr
        BY <2>1, <3>2, NestedIs
      <4>2. ~IsCall(f) /\ ~IsFault(f)
        BY <3>1, <3>3 DEF IsCall, IsFault
      <4>3. i = Len(m.frames)
        BY <3>1, <3>2, <3>3, <4>1, <4>2
      <4> QED
        BY <3>3, <4>1, <4>2, <4>3
    <3>5. PICK C : Installed(m, C) /\ Guarded(m, C)
      BY <2>1 DEF Booted
    <3>6. {"sti", "pic_init"} \subseteq C
      BY <3>2, <3>5 DEF Installed, Guarded
    <3>7. PICK l : l = f.line
      OBVIOUS
    <3>8. l \in {Timer, Keyboard} /\ f.vec = 32 + l
      BY <3>4, <3>7 DEF IsService
    <3>9. m.stage \in {10, 11, 13} /\ m.reg[32 + l] = IF l = Timer THEN "timer" ELSE "keyboard"
      BY <3>4, <3>5, <3>6, <3>7, <3>8, Lines DEF Installed
    <3>10. PICK h : h = Handling(m, 32 + l)
      OBVIOUS
    <3>11. h = interrupt_handler(m, 32 + l)
      BY <3>9, <3>10 DEF Handling
    <3>12. h = IF l = Timer THEN << "count", "eoi" >> ELSE << "read", "eoi" >>
      BY <3>9, <3>11 DEF interrupt_handler, timer_handler, keyboard_handler
    <3>13. 2 \in 1..Len(h) /\ h[2] = "eoi"
      BY <3>12
    <3> QED
      BY <3>3, <3>7, <3>8, <3>10, <3>13
  <2> QED
    BY <2>1, <2>2 DEF IrqsReachHandlers
<1> QED
  BY <1>1, InterruptsHold, PTL

\* IRQ handlers do not nest, and the lines the PICs hold in service are that of
\* the one handler that has yet to acknowledge, or none.
THEOREM ServicesDoNotNest == IrqSpec => []OneServiceAtATime
<1>1. ASSUME IrqInv PROVE OneServiceAtATime
  <2>1. m \in IrqType /\ Nested(m)
    BY <1>1 DEF IrqInv, Sound
  <2>2. PICK n, F : n = Len(m.frames) /\ F = m.frames
    OBVIOUS
  <2>3. PICK Due : Due = {j \in Irqs : \E a \in 1..Len(m.frames[j].todo) : m.frames[j].todo[a] = "eoi"}
    OBVIOUS
  <2>4. SUFFICES (\A i \in Irqs : i = n) /\ m.isr = {F[i].line : i \in Due}
    BY <2>2, <2>3 DEF OneServiceAtATime
  <2>5. CASE F = << >>
    <3>1. Irqs = {} /\ Due = {}
      BY <2>2, <2>3, <2>5 DEF Irqs
    <3>2. m.isr = {}
      BY <2>1, <2>2, <2>5 DEF Nested
    <3> QED
      BY <3>1, <3>2
  <2>6. CASE F # << >>
    <3>1. PICK f : f = F[n]
      OBVIOUS
    <3>2. /\ n \in {1, 2} /\ (n = 2 => IsCall(F[1]))
          /\ \/ IsCall(f) /\ n = 1 /\ m.isr = {}
             \/ IsFault(f) /\ n = 1 /\ m.isr = {} /\ ~m.on
             \/ /\ IsService(f) /\ ~m.on /\ f.line \notin m.imr
                /\ m.isr = IF f.todo = << >> THEN {} ELSE {f.line}
      BY <2>1, <2>2, <2>6, <3>1, NestedIs
    <3>3. \A i : i \in Irqs <=> i \in 1..n /\ F[i].line # NoLine
      BY <2>2 DEF Irqs
    <3>4. \A i \in Irqs : i = n
      BY <3>2, <3>3 DEF IsCall
    <3>5. CASE ~IsService(f)
      <4>1. f.line = NoLine /\ m.isr = {}
        BY <3>2, <3>5 DEF IsCall, IsFault
      <4>2. Irqs = {}
        BY <3>1, <3>3, <3>4, <4>1
      <4> QED
        BY <2>3, <4>1, <4>2
    <3>6. CASE IsService(f)
      <4>1. f.line # NoLine /\ ~IsCall(f) /\ ~IsFault(f)
        BY <3>6, Lines DEF IsService, IsCall, IsFault
      <4>2. n \in Irqs /\ m.isr = IF f.todo = << >> THEN {} ELSE {f.line}
        BY <3>1, <3>2, <3>3, <4>1
      <4>3. (\E a \in 1..Len(f.todo) : f.todo[a] = "eoi") <=> f.todo # << >>
        <5>1. CASE f.todo = << >>
          BY <5>1
        <5>2. CASE f.todo = << "eoi" >>
          <6>1. 1 \in 1..Len(f.todo) /\ f.todo[1] = "eoi"
            BY <5>2
          <6> QED
            BY <5>2, <6>1, Words
        <5>3. CASE f.todo \in {<< "count", "eoi" >>, << "read", "eoi" >>}
          <6>1. 2 \in 1..Len(f.todo) /\ f.todo[2] = "eoi"
            <7>1. 2 \in 1..Len(<< "count", "eoi" >>) /\ << "count", "eoi" >>[2] = "eoi"
              OBVIOUS
            <7>2. 2 \in 1..Len(<< "read", "eoi" >>) /\ << "read", "eoi" >>[2] = "eoi"
              OBVIOUS
            <7> QED
              BY <5>3, <7>1, <7>2
          <6> QED
            BY <5>3, <6>1, Words
        <5> QED
          BY <3>6, <5>1, <5>2, <5>3 DEF IsService
      <4>4. Due = IF f.todo = << >> THEN {} ELSE {n}
        BY <2>2, <2>3, <3>1, <3>4, <4>2, <4>3
      <4>5. {F[i].line : i \in Due} = IF f.todo = << >> THEN {} ELSE {f.line}
        BY <3>1, <4>4
      <4> QED
        BY <3>4, <4>2, <4>5
    <3> QED
      BY <3>4, <3>5, <3>6
  <2> QED
    BY <2>5, <2>6
<1> QED
  BY <1>1, InterruptsHold, PTL
=============================================================================
