-------------------------------- MODULE Shell --------------------------------
(***************************************************************************)
(* The commands of shell.c that use files, as the sequences of file calls  *)
(* they make, and the part of SYS_EXEC that reads the program.  Each call  *)
(* is an action of FileSystem, here without its restrictions on callers:   *)
(* the shell is shown to keep them by itself.  A failed call changes       *)
(* nothing, and most commands end there.  If the power fails in a call,    *)
(* the shell starts again at its prompt.                                   *)
(***************************************************************************)
EXTENDS FileSystem

CONSTANTS
  Line,   \* longest text a command line holds: SHELL_BUFFER_SIZE less command
          \* and name
  Chunk   \* sizeof(buf) - 1 in cmd_cat

ASSUME ShellAssumption ==
  /\ Line \in 1..ClusterSize /\ Chunk \in 1..MaxFileSize /\ ClusterSize <= MaxFileSize
  /\ Overlap /\ LongModes = {WRITE, APPEND}

VARIABLES
  pc,     \* where the command is
  name,   \* its file
  fd,     \* the descriptor it has opened
  todo    \* the sizes of the writes it has yet to make

shellVars == << pc, name, fd, todo >>
allVars == << vars, shellVars >>

ShellInit ==
  /\ Init
  /\ pc = "prompt" /\ name \in Names /\ fd = 0 /\ todo = << >>

\* The command goes on at p, unless the machine has just booted.
Goes(p) == pc' = IF failures' # failures THEN "prompt" ELSE p

CanOpen(n) == Valid /\ find_file_by_name(Mem, n) # {} /\ FreeFds(Mem) # {}

Opens(n, mode, p) ==
  /\ fs_open(n, mode)
  /\ fd' = Least(FreeFds(Mem))
  /\ pc' = p

Closes == fs_close(fd) /\ Goes("prompt") /\ UNCHANGED << name, fd, todo >>

\* kernel_main, before the shell starts.
Format == pc = "prompt" /\ fs_format /\ Goes("prompt") /\ UNCHANGED << name, fd, todo >>

----------------------------------------------------------------------------
cmd_touch(n) == pc = "prompt" /\ fs_create(n) /\ Goes("prompt") /\ UNCHANGED << name, fd, todo >>

cmd_rm(n) == pc = "prompt" /\ fs_delete(n) /\ Goes("prompt") /\ UNCHANGED << name, fd, todo >>

cmd_cat(n) == pc = "prompt" /\ Opens(n, READ, "cat") /\ UNCHANGED << name, todo >>

\* fs_read returns 0 at the end of the file, and where a chain is broken.
AtEnd(count) == fd_table[fd].size = 0 \/ AfterRead(fd, count).pos = fd_table[fd].pos

\* Faulty variant: an empty file is not closed.
CatLoop_leaks ==
  /\ pc = "cat"
  /\ IF fd_table[fd].size = 0
     THEN pc' = "prompt" /\ UNCHANGED << vars, name, fd, todo >>
     ELSE IF AtEnd(Chunk) THEN Closes
     ELSE fs_read(fd, Chunk) /\ UNCHANGED shellVars

CatLoop ==
  /\ pc = "cat"
  /\ IF AtEnd(Chunk) THEN Closes ELSE fs_read(fd, Chunk) /\ UNCHANGED shellVars

----------------------------------------------------------------------------
(***************************************************************************)
(* write, mkexec and mkbin: open, or create and open, then write and close *)
(* whatever the writes return.                                             *)
(***************************************************************************)
Begin(n, sizes) ==
  /\ pc = "prompt"
  /\ name' = n /\ todo' = sizes
  /\ IF CanOpen(n) THEN Opens(n, WRITE, "data")
     ELSE pc' = "create" /\ UNCHANGED << vars, fd >>

cmd_write(n) == \E count \in 1..Line : Begin(n, << count >>)

\* "HELLO".
cmd_mkexec(n) == Begin(n, << 1 >>)

\* The header, and the code behind it, within one cluster.
cmd_mkbin(n) == ClusterSize > 1 /\ Begin(n, << 1, ClusterSize - 1 >>)

Create ==
  /\ pc = "create"
  /\ \/ fs_create(name) /\ Goes("reopen")
     \/ /\ ~ Valid \/ find_file_by_name(Mem, name) # {} \/ FreeSlots(Mem) = {}
        /\ pc' = "reopen" /\ UNCHANGED vars
  /\ UNCHANGED << name, fd, todo >>

Reopen ==
  /\ pc = "reopen"
  /\ IF CanOpen(name) THEN Opens(name, WRITE, "data") ELSE pc' = "prompt" /\ UNCHANGED << vars, fd >>
  /\ UNCHANGED << name, todo >>

Data ==
  /\ pc = "data" /\ todo # << >>
  /\ fs_write(fd, Head(todo)) /\ Goes("data")
  /\ todo' = Tail(todo)
  /\ UNCHANGED << name, fd >>

\* Faulty variant: a write that wrote nothing ends the command.
CloseWritten_not_full ==
  /\ pc = "data" /\ todo = << >>
  /\ IF fd_table[fd].pos = 0 THEN pc' = "prompt" /\ UNCHANGED << vars, name, fd, todo >> ELSE Closes

CloseWritten == pc = "data" /\ todo = << >> /\ Closes

----------------------------------------------------------------------------
\* SYS_EXEC: an empty file is refused, any other read at one go; both times the
\* descriptor is closed.
cmd_exec(n) == pc = "prompt" /\ Opens(n, READ, "exec") /\ UNCHANGED << name, todo >>

ExecRead ==
  /\ pc = "exec"
  /\ IF fd_table[fd].size = 0 THEN Closes
     ELSE fs_read(fd, fd_table[fd].size) /\ pc' = "loaded" /\ UNCHANGED << name, fd, todo >>

ExecClose == pc = "loaded" /\ Closes

execute_command ==
  \E n \in Names :
    cmd_touch(n) \/ cmd_rm(n) \/ cmd_cat(n) \/ cmd_write(n) \/ cmd_mkexec(n) \/ cmd_mkbin(n)
      \/ cmd_exec(n)

ShellNext ==
  \/ Format \/ execute_command
  \/ CatLoop \/ Create \/ Reopen \/ Data \/ CloseWritten \/ ExecRead \/ ExecClose

ShellSpec == ShellInit /\ [][ShellNext]_allVars

----------------------------------------------------------------------------
Rules == INSTANCE FileSystem WITH Overlap <- FALSE, LongModes <- {}

\* The commands of the shell keep to what FileSystem assumes of programs: no file
\* is opened twice or deleted while it is open, and none longer than a cluster is
\* opened for writing, whatever fails and however full the disk is.
KeepsTheRules == Rules!Spec

\* At the prompt every descriptor is closed again, on each path through each
\* command (cmd_cat, cmd_write, cmd_mkexec, cmd_mkbin, SYS_EXEC).
NothingLeftOpen == pc = "prompt" => FreeFds(Mem) = Fds
=============================================================================
