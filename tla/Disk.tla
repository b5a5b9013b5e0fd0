-------------------------------- MODULE Disk --------------------------------
(***************************************************************************)
(* disk.c: the ATA driver, which reads and writes sectors by programmed    *)
(* I/O and polls the status register a bounded number of times, against a  *)
(* drive that works at its own pace, may fail, and may be slower than the  *)
(* driver's patience.  One read of the status register is one step, as is  *)
(* the transfer of one sector; the drive may act between any two.          *)
(*                                                                         *)
(* The drive is not part of the repository.  It has a volatile cache.  It  *)
(* takes no command while it is busy.  A command written while it still    *)
(* asks for the data of an earlier one is ignored or starts afresh: both   *)
(* kinds of drive exist.                                                   *)
(***************************************************************************)
EXTENDS Integers, Sequences, FiniteSets

CONSTANTS
  Positions,  \* places disk_init looks at, in its order: 1..4 in the code
  Attached,   \* the one of them that has a drive
  Sectors,    \* number of sectors of the drive
  MaxLba,     \* the bound on lba + count: 0x0FFFFFFF in the code
  CountMod,   \* number of values of the sector count register: 256
  MaxCount,   \* largest count a caller asks for
  Polls,      \* polls of the status register: 100000
  Vals        \* what a sector written may contain

ASSUME DiskAssumption ==
  /\ Positions \in Nat \ {0} /\ Attached \in 1..Positions
  /\ Sectors \in Nat \ {0} /\ MaxLba \in Nat
  /\ CountMod \in Nat \ {0} /\ MaxCount \in Nat \ {0}
  /\ Polls \in Nat \ {0}
  /\ Vals # {}

VARIABLES
  detected_disks,  \* the places of drives found; the first is the primary
  probe,           \* the next place disk_init looks at
  drive,           \* the command the drive works on: see DriveType
  media, cache,    \* what is on the medium and what waits in the cache
  pc, req,         \* the driver: where it is, and the arguments of the call
  s, polls,        \* sectors transferred, polls left
  buffer,          \* what a read has stored
  result,          \* of the last call that returned
  crossed,         \* history: the call's command was ignored by the drive
  flushed,         \* history: the drive took and finished the flush
  acked            \* history: the sectors that were written and flushed

driverVars == << detected_disks, probe >>
historyVars == << crossed, flushed, acked >>
vars == << driverVars, drive, media, cache, pc, req, s, polls, buffer, result, historyVars >>

LBA == 0..(Sectors - 1)
None == [for |-> -1, val |-> -1]
Junk == [for |-> -2, val |-> -1]
\* A sector says where it was meant to be written.
Contents == [for : LBA, val : Vals \cup {0}] \cup {Junk}

\* phase: the command; at, left: next sector and how many are left to
\* transfer; held: the last sector of a write, not stored yet; err: ERR.
DriveType ==
  [phase : {"idle", "read", "write", "flush"}, busy : BOOLEAN, err : BOOLEAN,
   at : 0..(MaxLba + CountMod), left : 0..CountMod]
Requests == [op : {"read", "write"}, lba : 0..MaxLba, count : 1..MaxCount, val : Vals]

TypeOK ==
  /\ drive \in DriveType
  /\ media \in [LBA -> Contents]
  /\ cache \in [LBA -> Contents \cup {None}]
  /\ pc \in {"probe", "idle", "ready", "transfer", "flush"}
  /\ req \in Requests
  /\ s \in 0..CountMod /\ polls \in 0..Polls
  /\ buffer \in Seq(Contents)
  /\ result \in {-1, 0}
  /\ acked \in [LBA -> Contents \cup {None}]

NoCommand == [phase |-> "idle", busy |-> FALSE, err |-> FALSE, at |-> 0, left |-> 0]
NoRequest == [op |-> "read", lba |-> 0, count |-> 1, val |-> CHOOSE v \in Vals : TRUE]

Init ==
  /\ detected_disks = << >> /\ probe = 1
  /\ drive = NoCommand
  /\ media = [l \in LBA |-> [for |-> l, val |-> 0]]
  /\ cache = [l \in LBA |-> None]
  /\ pc = "probe" /\ req = NoRequest
  /\ s = 0 /\ polls = Polls /\ buffer = << >> /\ result = -1
  /\ crossed = FALSE /\ flushed = FALSE
  /\ acked = [l \in LBA |-> None]

----------------------------------------------------------------------------
(***************************************************************************)
(* The drive.                                                              *)
(***************************************************************************)
Drq(d) == d.phase \in {"read", "write"} /\ ~ d.busy
Content(l) == IF cache[l] # None THEN cache[l] ELSE media[l]

\* What the drive becomes when a command is written to it.
Accept(d, phase, lba, n) ==
  [phase |-> phase, busy |-> TRUE, err |-> FALSE, at |-> lba,
   left |-> IF phase = "flush" THEN 0 ELSE IF n = 0 THEN CountMod ELSE n]

\* It gets ready for the next sector, or is done with the command.
DriveReady ==
  /\ drive.busy
  /\ drive.left = 0 \/ drive.at \in LBA
  /\ drive' = IF drive.left = 0 THEN NoCommand ELSE [drive EXCEPT !.busy = FALSE]
  /\ IF drive.phase = "flush"
     THEN /\ media' = [l \in LBA |-> Content(l)]
          /\ cache' = [l \in LBA |-> None]
          /\ flushed' = TRUE
     ELSE UNCHANGED << media, cache, flushed >>
  /\ UNCHANGED << driverVars, pc, req, s, polls, buffer, result, crossed, acked >>

\* It gives the command up: a bad sector, or one that does not exist.
DriveError ==
  /\ drive.busy
  /\ drive' = [NoCommand EXCEPT !.err = TRUE]
  /\ UNCHANGED << driverVars, media, cache, pc, req, s, polls, buffer, result, historyVars >>

\* The power fails: the cache is lost and the machine starts again.
PowerFail ==
  /\ pc # "probe"
  /\ drive' = NoCommand
  /\ cache' = [l \in LBA |-> None]
  /\ pc' = "probe" /\ probe' = 1 /\ detected_disks' = << >>
  /\ req' = NoRequest /\ s' = 0 /\ polls' = Polls /\ buffer' = << >> /\ result' = -1
  /\ crossed' = FALSE /\ flushed' = FALSE
  /\ UNCHANGED << media, acked >>

----------------------------------------------------------------------------
(***************************************************************************)
(* The driver.                                                             *)
(***************************************************************************)
\* disk_detect returns -1 where there is no drive, and where there is one that
\* reports an error or lets a timeout pass while it identifies itself.
disk_detect(p) == IF p = Attached THEN {0, -1} ELSE {-1}

\* One place of disk_init.
disk_init ==
  /\ pc = "probe"
  /\ \E found \in disk_detect(probe) :
       detected_disks' = IF found = 0 THEN Append(detected_disks, probe) ELSE detected_disks
  /\ probe' = IF probe = Positions THEN 1 ELSE probe + 1
  /\ pc' = IF probe = Positions THEN "idle" ELSE "probe"
  /\ UNCHANGED << drive, media, cache, req, s, polls, buffer, result, historyVars >>

disk_get_primary == IF detected_disks = << >> THEN 0 ELSE detected_disks[1]

Range(r) == {l \in LBA : r.lba <= l /\ l < r.lba + r.count}

Return(r) ==
  /\ pc' = "idle" /\ result' = r
  /\ s' = 0 /\ polls' = Polls

\* disk_read_sectors and disk_write_sectors up to their loop.
Call(r) ==
  /\ pc = "idle"
  /\ req' = r /\ buffer' = << >>
  /\ crossed' = FALSE /\ flushed' = FALSE
  /\ IF disk_get_primary = 0 \/ r.lba + r.count > MaxLba
     THEN Return(-1) /\ UNCHANGED acked
     ELSE /\ pc' = "ready" /\ s' = 0 /\ polls' = Polls
          /\ acked' = [l \in LBA |-> IF r.op = "write" /\ l \in Range(r) THEN None ELSE acked[l]]
          /\ UNCHANGED result
  /\ UNCHANGED << driverVars, drive, media, cache >>

\* sectors_to_read: 256 and more are cut to eight bits.
CountRegister(n) == IF n > CountMod THEN 0 ELSE n % CountMod

\* sectors_read: 256 does not fit in it either, so 0 stays 0.
SectorsToMove(n) == CountRegister(n)

\* Faulty variant: the low byte of the address is not written.
LbaRegistersUnset(lba) == 0

\* The four registers hold the 28 bits of every address that passed the check.
LbaRegisters(lba) == lba

\* Faulty variant: the timeout is not counted down.
PollForever == UNCHANGED << pc, s, polls, result >>

\* A status read that did not decide: another poll, or the call fails.
PollAgain ==
  IF polls > 1
  THEN polls' = polls - 1 /\ UNCHANGED << pc, s, result >>
  ELSE Return(-1)

\* wait_for_ready at the head of the loop, then the registers and the command.
Ready ==
  /\ pc = "ready"
  /\ IF drive.busy
     THEN PollAgain /\ UNCHANGED << drive, crossed >>
     ELSE /\ pc' = "transfer" /\ s' = 0 /\ polls' = Polls
          /\ \/ /\ drive' = Accept(drive, req.op, LbaRegisters(req.lba), CountRegister(req.count))
                /\ UNCHANGED crossed
             \/ /\ Drq(drive)  \* the drive goes on with the old command
                /\ crossed' = TRUE
                /\ UNCHANGED drive
          /\ UNCHANGED result
  /\ UNCHANGED << driverVars, media, cache, req, buffer, flushed, acked >>

\* The drive after the host has moved one sector of data.
Moved(d) ==
  IF d.phase = "read" /\ d.left = 1 THEN NoCommand
  ELSE [d EXCEPT !.busy = TRUE, !.at = @ + 1, !.left = @ - 1]

\* wait_for_drq, then 256 words.  Words moved in the wrong direction are junk.
Transfer ==
  /\ pc = "transfer" /\ s < SectorsToMove(req.count)
  /\ IF drive.err \/ (~ drive.busy /\ ~ Drq(drive))
     THEN Return(-1) /\ UNCHANGED << drive, cache, buffer >>
     ELSE IF drive.busy
     THEN PollAgain /\ UNCHANGED << drive, cache, buffer >>
     ELSE /\ s' = s + 1 /\ polls' = Polls
          /\ drive' = Moved(drive)
          /\ buffer' = IF req.op = "write" THEN buffer
                       ELSE Append(buffer, IF drive.phase = "read" THEN Content(drive.at) ELSE Junk)
          /\ cache' = IF drive.phase = "read" THEN cache
                      ELSE [cache EXCEPT ![drive.at] =
                              IF req.op = "write" /\ req.lba + s \in LBA
                              THEN [for |-> req.lba + s, val |-> req.val] ELSE Junk]
          /\ UNCHANGED << pc, result >>
  /\ UNCHANGED << driverVars, media, req, historyVars >>

\* Faulty variant: the loop ends with the command.
NextCommandOnce == Return(0) /\ UNCHANGED req

\* lba and count are advanced; the loop goes on while count is not 0.
NextCommand ==
  LET n == SectorsToMove(req.count)
  IN IF req.count = n
     THEN Return(0) /\ UNCHANGED req
     ELSE /\ req' = [req EXCEPT !.lba = @ + n, !.count = @ - n]
          /\ pc' = "ready" /\ s' = 0 /\ polls' = Polls
          /\ UNCHANGED result

ReadDone ==
  /\ pc = "transfer" /\ req.op = "read" /\ s = SectorsToMove(req.count)
  /\ NextCommand
  /\ UNCHANGED << driverVars, drive, media, cache, buffer, historyVars >>

\* The flush command.  A drive that is still busy with the last sector, or
\* asks for data, does not take it.
Flush ==
  /\ pc = "transfer" /\ req.op = "write" /\ s = SectorsToMove(req.count)
  /\ pc' = "flush" /\ polls' = Polls
  /\ flushed' = FALSE
  /\ drive' = IF drive.busy \/ Drq(drive) THEN drive ELSE Accept(drive, "flush", 0, 0)
  /\ UNCHANGED << driverVars, media, cache, req, s, buffer, result, crossed, acked >>

\* wait_for_ready, whatever it returns.
FlushDone ==
  /\ pc = "flush"
  /\ IF drive.busy /\ polls > 1
     THEN polls' = polls - 1 /\ UNCHANGED << pc, req, s, result, acked >>
     ELSE /\ NextCommand
          /\ acked' = [l \in LBA |->
                        IF flushed /\ ~ crossed /\ pc' = "idle" /\ l \in Range(req)
                        THEN [for |-> l, val |-> req.val] ELSE acked[l]]
  /\ UNCHANGED << driverVars, drive, media, cache, buffer, crossed, flushed >>

Driver == disk_init \/ Ready \/ Transfer \/ ReadDone \/ Flush \/ FlushDone

Next ==
  \/ Driver
  \/ \E r \in Requests : Call(r)
  \/ DriveReady \/ DriveError \/ PowerFail

Spec == Init /\ [][Next]_vars

\* The CPU runs the driver.  The drive need not do anything.
FairSpec == Spec /\ WF_vars(Driver)

----------------------------------------------------------------------------
\* A read that returns 0 has stored the sectors asked for, all of them and in
\* their order (disk_read_sectors), unless the drive ignored the command
\* because the driver had abandoned an earlier one in the middle of its data.
ReadsWhatWasAsked ==
  pc = "idle" /\ req.op = "read" /\ result = 0 /\ ~ crossed =>
    /\ Len(buffer) = req.count
    /\ \A i \in 1..Len(buffer) : buffer[i] = Content(req.lba + i - 1)

\* A sector whose write returned 0 after a finished flush keeps its content on
\* the medium until it is written again: no write to other sectors, error,
\* timeout, command the drive ignored for an earlier one, or loss of power
\* touches it (disk_write_sectors).
AckedStays == \A l \in LBA : acked[l] # None => media[l] = acked[l]

\* A call of fewer than 256 sectors returns, whatever the drive does and fails
\* to do: both waits are bounded.
CallsEnd ==
  [](pc \notin {"probe", "idle"} /\ req.count < CountMod => <>(pc = "idle" \/ pc = "probe"))
=============================================================================
