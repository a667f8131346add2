------------------------------ MODULE DaemonFiles ------------------------------
(***************************************************************************)
(* The two files of sct-daemon, in smaller steps than DaemonRecovery has:  *)
(* append_event writes a line and its newline separately, and              *)
(* persist_records writes a temporary file, whose name is the same for     *)
(* every caller, and renames it.  Handlers and workers do both at any      *)
(* time; nothing orders them.                                              *)
(*                                                                         *)
(* A directory entry refers to an inode; one that is renamed away stays    *)
(* open for whoever is still writing to it.                                *)
(***************************************************************************)
EXTENDS Integers, FiniteSets, Sequences

CONSTANTS
    FileTasks,  \* handlers and workers that write
    MaxLines    \* bound: lines written to the event log

ASSUME FilesAssumption == IsFiniteSet(FileTasks) /\ MaxLines \in Nat

VARIABLES
    daemon,     \* "up", "down" or "stuck": it cannot load its files
    lines,      \* events.jsonl: lines and newlines
    task,       \* what each task is doing
    tmp,        \* the inode of transfers.json.tmp, 0 if there is none
    snapshot,   \* the inode of transfers.json, 0 if there is none
    content,    \* of each inode: "empty", "whole" or "mixed"
    fd,         \* the inode a task has open
    appends,    \* history: two tasks were appending to the log at once
    writes,     \* history: two tasks were writing a snapshot at once
    torn        \* history: a crash came between a line and its newline

causes == <<appends, writes, torn>>
filesVars == <<daemon, lines, task, tmp, snapshot, content, fd, causes>>

(* One inode for each open file, and one for each name. *)
Inodes == 1 .. Cardinality(FileTasks) + 2

FilesInit ==
    /\ daemon = "up" /\ lines = <<>> /\ task = [t \in FileTasks |-> "idle"]
    /\ tmp = 0 /\ snapshot = 0 /\ content = [i \in Inodes |-> "empty"]
    /\ fd = [t \in FileTasks |-> 0]
    /\ appends = FALSE /\ writes = FALSE /\ torn = FALSE

Others(t, states) == \E u \in FileTasks \ {t} : task[u] \in states

(* append_event: the line, then the newline. *)
WriteLine(t) ==
    /\ daemon = "up" /\ task[t] = "idle"
    /\ Cardinality({i \in DOMAIN lines : lines[i] = "line"}) < MaxLines
    /\ lines' = Append(lines, "line")
    /\ task' = [task EXCEPT ![t] = "line"]
    /\ appends' = (appends \/ Others(t, {"line"}))
    /\ UNCHANGED <<daemon, tmp, snapshot, content, fd, writes, torn>>

WriteNewline(t) ==
    /\ task[t] = "line"
    /\ lines' = Append(lines, "newline")
    /\ task' = [task EXCEPT ![t] = "idle"]
    /\ UNCHANGED <<daemon, tmp, snapshot, content, fd, causes>>

(* OpenTemporary that writes transfers.json in place *)
OpenInPlace(t) ==
    /\ daemon = "up" /\ task[t] = "idle"
    /\ LET i == IF snapshot # 0 THEN snapshot ELSE CHOOSE j \in Inodes : TRUE
       IN /\ content' = [content EXCEPT ![i] = "empty"]
          /\ snapshot' = i /\ fd' = [fd EXCEPT ![t] = i]
    /\ task' = [task EXCEPT ![t] = "opened"]
    /\ writes' = (writes \/ Others(t, {"opened", "written"}))
    /\ UNCHANGED <<daemon, lines, tmp, appends, torn>>

(* tokio::fs::write opens the file, creating or truncating it, and writes. *)
OpenTemporary(t) ==
    /\ daemon = "up" /\ task[t] = "idle"
    /\ LET free == Inodes \ ({snapshot} \cup {fd[u] : u \in FileTasks})
           i == IF tmp # 0 THEN tmp ELSE CHOOSE j \in free : TRUE
       IN /\ content' = [content EXCEPT ![i] = "empty"]
          /\ tmp' = i /\ fd' = [fd EXCEPT ![t] = i]
    /\ task' = [task EXCEPT ![t] = "opened"]
    /\ writes' = (writes \/ Others(t, {"opened", "written"}))
    /\ UNCHANGED <<daemon, lines, snapshot, appends, torn>>

(* A write over another one's leaves the end of the longer of the two. *)
WriteTemporary(t) ==
    /\ task[t] = "opened"
    /\ \E c \in IF content[fd[t]] = "empty" THEN {"whole"} ELSE {"whole", "mixed"} :
         content' = [content EXCEPT ![fd[t]] = c]
    /\ fd' = [fd EXCEPT ![t] = 0]
    /\ task' = [task EXCEPT ![t] = "written"]
    /\ UNCHANGED <<daemon, lines, tmp, snapshot, causes>>

(* Whatever the temporary file then is becomes the snapshot; the rename    *)
(* fails if another task has renamed it before.                            *)
RenameTemporary(t) ==
    /\ task[t] = "written"
    /\ snapshot' = IF tmp # 0 THEN tmp ELSE snapshot
    /\ tmp' = 0
    /\ task' = [task EXCEPT ![t] = "idle"]
    /\ UNCHANGED <<daemon, lines, content, fd, causes>>

(* The files as load_records_into_state reads them.  A line has to be one  *)
(* event; a missing file or a missing last newline does no harm.           *)
LogLoads ==
    \A i \in 2 .. Len(lines) : ~(lines[i - 1] = "line" /\ lines[i] = "line")
SnapshotLoads == snapshot = 0 \/ content[snapshot] = "whole"

CrashDaemon ==
    /\ daemon = "up" /\ daemon' = "down"
    /\ torn' = (torn \/ \E t \in FileTasks : task[t] = "line")
    /\ task' = [t \in FileTasks |-> "idle"] /\ fd' = [t \in FileTasks |-> 0]
    /\ UNCHANGED <<lines, tmp, snapshot, content, appends, writes>>

StartDaemon ==
    /\ daemon = "down"
    /\ daemon' = IF SnapshotLoads /\ LogLoads THEN "up" ELSE "stuck"
    /\ UNCHANGED <<lines, task, tmp, snapshot, content, fd, causes>>

FilesNext ==
    \/ CrashDaemon \/ StartDaemon
    \/ \E t \in FileTasks : \/ WriteLine(t) \/ WriteNewline(t) \/ OpenTemporary(t)
                            \/ WriteTemporary(t) \/ RenameTemporary(t)

FilesSpec == FilesInit /\ [][FilesNext]_filesVars

-----------------------------------------------------------------------------
(* What can make a file unreadable, and that nothing else can: a crash at  *)
(* any point, even with a half-written temporary file, leaves a snapshot   *)
(* that loads unless two tasks have been writing one at once, and a log    *)
(* that loads unless two tasks have been appending at once or a crash has  *)
(* cut off a newline.  Trouble with one file never spoils the other.       *)
FilesLoad == (writes \/ SnapshotLoads) /\ (appends \/ torn \/ LogLoads)
=============================================================================
