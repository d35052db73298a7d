------------------------------ MODULE Sysfile ------------------------------
(***************************************************************************)
(* The open-file table of GLM OS (src/src/fs/sysfile.rs), the working       *)
(* directories and the shell's file redirects (src/src/shell.rs).           *)
(*                                                                         *)
(* An open file is a buffer with a cursor: open loads it, close writes it   *)
(* back whole.  The disk is what module Fat32 promises: a map from paths to *)
(* what they name, on which every operation is all or nothing; a write may  *)
(* find the disk full.  Task 1 is the shell; the other tasks are programs   *)
(* that make any of the calls below.                                       *)
(***************************************************************************)
EXTENDS Integers, Sequences, FiniteSets, SequencesExt

CONSTANTS
    NTasks,    \* task 1 is the shell
    NFiles,    \* NFILES
    MAX_FILE,
    Paths,     \* normalized absolute paths, as sequences of names
    Raws,      \* the path arguments of calls, [abs |-> BOOLEAN, parts |-> sequence]
    Flags,     \* the flag sets of open
    Seeks,     \* the offsets of seek from the end of the file
    Abilities, \* of "unlink", "dirs", "redirect", "inherit", "kill"
    MaxCalls,  \* bound: calls that change something
    MaxFull    \* bound: writes that find the disk full

ASSUME SysfileAssumption ==
    /\ {NTasks, NFiles, MAX_FILE} \subseteq Nat \ {0} /\ {MaxCalls, MaxFull} \subseteq Nat
    /\ \A f \in Flags : f \subseteq {"CREATE", "RDWR", "APPEND"}
    /\ Seeks \subseteq Int
    /\ Paths \subseteq Seq(STRING) /\ \A p \in Paths : Len(p) \in {1, 2}

Shell == 1
Tasks == 1..NTasks
Fds == 1..NFiles
Root == <<>>

Absent == <<"absent">>
ADir == <<"dir">>
AFile(content) == <<"file", content>>

NoFile == [owner |-> 0, name |-> Root, buf |-> <<>>, pos |-> 0, dirty |-> FALSE]
NoPath == <<"no", "path", "at all">>

VARIABLES
    files,   \* FILES
    disk,    \* what the paths name
    cwd,     \* Task::cwd
    st,      \* "none", "live", "zombie" (its files are not closed yet), "dead", "killed"
    dest,    \* Task::out_dst, an fd of the shell or 0
    job,     \* the redirected program the shell waits for, or 0
    unlink,  \* the path a task is about to delete
    calls, full,
    last,    \* history: what the last write to each path should leave there
    unsure,  \* history: the paths of which that cannot be said
    borrowed,\* history: the file each redirected task was given
    panicked

vars == <<files, disk, cwd, st, dest, job, unlink, calls, full, last, unsure, borrowed, panicked>>

Init ==
    /\ files = [f \in Fds |-> NoFile]
    /\ disk = [p \in Paths |-> Absent]
    /\ cwd = [t \in Tasks |-> Root]
    /\ st = [t \in Tasks |-> IF t = Shell THEN "live" ELSE "none"]
    /\ dest = [t \in Tasks |-> 0]
    /\ job = 0
    /\ unlink = [t \in Tasks |-> NoPath]
    /\ calls = 0 /\ full = 0
    /\ last = [p \in Paths |-> Absent]
    /\ unsure = {}
    /\ borrowed = [t \in Tasks |-> NoPath]
    /\ panicked = FALSE

-----------------------------------------------------------------------------
(* Paths and the disk.                                                      *)

\* resolve_path: the parts of the working directory and of the argument, collapsed.
resolve_path(t, raw) ==
    LET step(stack, part) == CASE part = "." -> stack
                               [] part = ".." -> IF stack = <<>> THEN stack ELSE Front(stack)
                               [] OTHER -> Append(stack, part)
    IN  FoldLeft(step, <<>>, (IF raw.abs THEN <<>> ELSE cwd[t]) \o raw.parts)

Names(p) == IF p = Root THEN ADir ELSE IF p \in Paths THEN disk[p] ELSE Absent
Under(d, p) == Len(p) > Len(d) /\ SubSeq(p, 1, Len(d)) = d

(* write_file of module Fat32: it fails without a parent directory and for   *)
(* the root; whatever had the name is replaced.                             *)
WriteFails(p) == p \notin Paths \/ Names(Front(p)) # ADir
Written(d, p, content) ==
    [q \in Paths |-> IF q = p THEN AFile(content) ELSE IF Under(p, q) THEN Absent ELSE d[q]]

-----------------------------------------------------------------------------
(* System calls.                                                            *)

\* A task makes a call; the shell does not while it waits, and opens no file of its own.
Calls(t) ==
    /\ st[t] = "live" /\ unlink[t] = NoPath
    /\ t = Shell => job = 0
    /\ calls < MaxCalls /\ ~panicked
Programs == Tasks \ {Shell}
Count == calls' = calls + 1

\* The first free slot of the table.
FreeSlot == LET free == {f \in Fds : files[f] = NoFile} IN IF free = {} THEN 0 ELSE Min(free)

\* Sessions on one path that overlap leave what the last one to close wrote.
Overlap(p) == \E f \in Fds : files[f] # NoFile /\ files[f].name = p

(* open_name.  A file that is only created starts empty; any other open      *)
(* reads the file, which must succeed unless CREATE is given.               *)
OpenName(t, raw, flags) ==
    LET p == resolve_path(t, raw)
        what == Names(p)
        readable == what \notin {Absent, ADir}
        truncates == flags = {"CREATE"}
        buf == IF truncates \/ ~readable THEN <<>> ELSE what[2]
    IN  /\ FreeSlot # 0
        /\ what # Absent \/ flags # {}
        /\ truncates \/ readable \/ "CREATE" \in flags
        /\ Len(buf) <= MAX_FILE
        /\ files' = [files EXCEPT ![FreeSlot] =
                        [owner |-> t, name |-> p, buf |-> buf,
                         pos |-> IF "APPEND" \in flags THEN Len(buf) ELSE 0, dirty |-> FALSE]]
        /\ unsure' = IF Overlap(p) THEN unsure \cup ({p} \cap Paths) ELSE unsure

file_open(t, raw, flags) ==
    /\ Calls(t)
    /\ OpenName(t, raw, flags)
    /\ Count
    /\ UNCHANGED <<job, disk, cwd, st, dest, unlink, full, last, borrowed, panicked>>

(* file_read and read_bytes_fd: one byte at the cursor.  Past the end the    *)
(* slice of the buffer is out of range and the kernel panics.               *)
file_read(t, fd) ==
    LET f == files[fd]
    IN  /\ Calls(t)
        /\ f # NoFile
        /\ f.pos # Len(f.buf)
        /\ panicked' = (f.pos > Len(f.buf))
        /\ files' = IF f.pos > Len(f.buf) THEN files ELSE [files EXCEPT ![fd].pos = @ + 1]
        /\ Count
        /\ UNCHANGED <<job, disk, cwd, st, dest, unlink, full, last, unsure, borrowed>>

\* A chunk written at a cursor, the gap before it filled with zeros.
WriteAt(buf, pos, chunk) ==
    [i \in 1..(IF pos + Len(chunk) > Len(buf) THEN pos + Len(chunk) ELSE Len(buf)) |->
        IF i > pos /\ i <= pos + Len(chunk) THEN chunk[i - pos]
        ELSE IF i <= Len(buf) THEN buf[i] ELSE 0]

\* file_write and write_bytes_fd, into any slot: there is no check of the owner.
WriteBytes(t, fd, chunk) ==
    LET f == files[fd]
        buf == WriteAt(f.buf, f.pos, chunk)
    IN  /\ f # NoFile
        /\ f.pos + Len(chunk) <= MAX_FILE
        /\ files' = [files EXCEPT ![fd] =
                        [@ EXCEPT !.buf = buf, !.pos = f.pos + Len(chunk), !.dirty = TRUE]]
        /\ last' = IF f.name \in Paths THEN [last EXCEPT ![f.name] = AFile(buf)] ELSE last

\* A program writes, to whatever slot it names.
file_write(t, fd) ==
    /\ Calls(t)
    /\ WriteBytes(t, fd, <<t>>)
    /\ Count
    /\ UNCHANGED <<job, disk, cwd, st, dest, unlink, full, unsure, borrowed, panicked>>

\* sys_write of a task whose output is redirected to a file of the shell.
RedirectedWrite(t) ==
    /\ Calls(t)
    /\ dest[t] # 0
    /\ WriteBytes(t, dest[t], <<t>>)
    /\ Count
    /\ UNCHANGED <<job, disk, cwd, st, dest, unlink, full, unsure, borrowed, panicked>>

\* Any slot in use can be moved in as well.
file_seek(t, fd, off) ==
    LET new == Len(files[fd].buf) + off
    IN  /\ Calls(t)
        /\ files[fd] # NoFile
        /\ new >= 0 /\ new <= MAX_FILE
        /\ files' = [files EXCEPT ![fd].pos = new]
        /\ Count
        /\ UNCHANGED <<job, disk, cwd, st, dest, unlink, full, last, unsure, borrowed, panicked>>

\* Mutant: a buffer nobody wrote to is written back too.
FlushedAlways(d, f) == IF WriteFails(f.name) THEN d ELSE Written(d, f.name, f.buf)

\* flush: the disk after a dirty buffer is written back.
Flushed(d, f) == IF ~f.dirty \/ WriteFails(f.name) THEN d ELSE Written(d, f.name, f.buf)
Hits(f) == {f.name} \cup {q \in Paths : Under(f.name, q)}

(* flush and release of one slot; the bytes are gone if the write fails, and *)
(* the disk may be full.                                                    *)
CloseSlot(fd) ==
    LET f == files[fd]
    IN  /\ files' = [files EXCEPT ![fd] = NoFile]
        /\ \/ /\ disk' = Flushed(disk, f)
              /\ full' = full
              /\ unsure' = IF f.dirty /\ (WriteFails(f.name) \/ Names(f.name) = ADir)
                           THEN unsure \cup (Hits(f) \cap Paths) ELSE unsure
           \/ /\ f.dirty /\ full < MaxFull
              /\ full' = full + 1
              /\ disk' = disk
              /\ unsure' = unsure \cup ({f.name} \cap Paths)

\* Mutant: anyone may close a file.
file_close_any(t, fd) ==
    /\ Calls(t) /\ files[fd] # NoFile
    /\ CloseSlot(fd)
    /\ Count
    /\ UNCHANGED <<job, cwd, st, dest, unlink, last, borrowed, panicked>>

\* file_close: the owner only.
file_close(t, fd) ==
    /\ Calls(t)
    /\ files[fd].owner = t
    /\ CloseSlot(fd)
    /\ Count
    /\ UNCHANGED <<job, cwd, st, dest, unlink, last, borrowed, panicked>>

(* file_unlink looks for an open file of that name under the lock of the     *)
(* table, lets it go, and deletes the file under the lock of the disk.       *)
UnlinkCheck(t, raw) ==
    /\ "unlink" \in Abilities /\ Calls(t)
    /\ ~Overlap(resolve_path(t, raw))
    /\ resolve_path(t, raw) \in Paths
    /\ unlink' = [unlink EXCEPT ![t] = resolve_path(t, raw)]
    /\ Count
    /\ UNCHANGED <<job, files, disk, cwd, st, dest, full, last, unsure, borrowed, panicked>>

UnlinkDelete(t) ==
    LET p == unlink[t]
        isFile == disk[p] \notin {Absent, ADir}
    IN  /\ p # NoPath /\ st[t] = "live"
        /\ unlink' = [unlink EXCEPT ![t] = NoPath]
        /\ disk' = IF isFile THEN [disk EXCEPT ![p] = Absent] ELSE disk
        /\ last' = IF isFile THEN [last EXCEPT ![p] = Absent] ELSE last
        /\ unsure' = IF isFile /\ Overlap(p) THEN unsure \cup {p} ELSE unsure
        /\ UNCHANGED <<job, files, cwd, st, dest, calls, full, borrowed, panicked>>

\* file_chdir: to an existing directory.
file_chdir(t, raw) ==
    LET p == resolve_path(t, raw)
    IN  /\ "dirs" \in Abilities /\ Calls(t)
        /\ Names(p) = ADir
        /\ cwd' = [cwd EXCEPT ![t] = p]
        /\ Count
        /\ UNCHANGED <<job, files, disk, st, dest, unlink, full, last, unsure, borrowed, panicked>>

\* file_mkdir and file_rmdir; the shell's rmdir spares its own working directory.
file_mkdir(t, raw) ==
    LET p == resolve_path(t, raw)
    IN  /\ "dirs" \in Abilities /\ Calls(t)
        /\ ~WriteFails(p) /\ disk[p] = Absent
        /\ disk' = [disk EXCEPT ![p] = ADir]
        /\ last' = [last EXCEPT ![p] = ADir]
        /\ unsure' = IF Overlap(p) THEN unsure \cup {p} ELSE unsure
        /\ Count
        /\ UNCHANGED <<job, files, cwd, st, dest, unlink, full, borrowed, panicked>>

file_rmdir(t, raw) ==
    LET p == resolve_path(t, raw)
    IN  /\ "dirs" \in Abilities /\ Calls(t)
        /\ p \in Paths /\ Names(p) = ADir
        /\ \A q \in Paths : Under(p, q) => disk[q] = Absent
        /\ t = Shell => p # cwd[t]
        /\ disk' = [disk EXCEPT ![p] = Absent]
        /\ last' = [last EXCEPT ![p] = Absent]
        /\ unsure' = IF Overlap(p) THEN unsure \cup {p} ELSE unsure
        /\ Count
        /\ UNCHANGED <<job, files, cwd, st, dest, unlink, full, borrowed, panicked>>

-----------------------------------------------------------------------------
(* Tasks.                                                                   *)

\* A program is started with the shell's working directory.
Spawn(t) ==
    /\ job = 0 /\ st[t] = "none" /\ ~panicked
    /\ st' = [st EXCEPT ![t] = "live"]
    /\ cwd' = [cwd EXCEPT ![t] = cwd[Shell]]
    /\ UNCHANGED <<job, files, disk, dest, unlink, calls, full, last, unsure, borrowed, panicked>>

(* `prog > file' and `prog >> file': the shell opens the file and the        *)
(* program's output goes to that slot.                                      *)
RunRedirected(t, raw, flags) ==
    /\ "redirect" \in Abilities
    /\ Calls(Shell) /\ st[t] = "none"
    /\ flags \in {{"CREATE"}, {"APPEND"}}
    /\ OpenName(Shell, raw, flags)
    /\ st' = [st EXCEPT ![t] = "live"]
    /\ cwd' = [cwd EXCEPT ![t] = cwd[Shell]]
    /\ dest' = [dest EXCEPT ![t] = FreeSlot]
    /\ job' = t
    /\ borrowed' = [borrowed EXCEPT ![t] = resolve_path(Shell, raw)]
    /\ Count
    /\ UNCHANGED <<disk, unlink, full, last, panicked>>

\* A redirected program starts another one, which inherits its output.
SpawnInherit(t, u) ==
    /\ "inherit" \in Abilities /\ ~panicked
    /\ st[t] = "live" /\ dest[t] # 0 /\ st[u] = "none"
    /\ st' = [st EXCEPT ![u] = "live"]
    /\ cwd' = [cwd EXCEPT ![u] = cwd[t]]
    /\ dest' = [dest EXCEPT ![u] = dest[t]]
    /\ borrowed' = [borrowed EXCEPT ![u] = borrowed[t]]
    /\ UNCHANGED <<job, files, disk, unlink, calls, full, last, unsure, panicked>>

\* What the shell waits for.
Gone(t) == st[t] \in {"zombie", "dead", "killed"}

\* The shell has waited for the program it redirected: it closes the file.
ShellCloses ==
    /\ job # 0 /\ Gone(job) /\ ~panicked
    /\ CloseSlot(dest[job])
    /\ dest' = [dest EXCEPT ![job] = 0]
    /\ job' = 0
    /\ UNCHANGED <<cwd, st, unlink, calls, last, borrowed, panicked>>

\* exit_current: the task is a zombie, which whoever waits for it may see, ...
Exit(t) ==
    /\ st[t] = "live" /\ unlink[t] = NoPath /\ ~panicked
    /\ st' = [st EXCEPT ![t] = "zombie"]
    /\ UNCHANGED <<job, files, disk, cwd, dest, unlink, calls, full, last, unsure, borrowed, panicked>>

\* The slots of a task.
OwnedBy(t) == {f \in Fds : files[f].owner = t}

\* ... then on_task_exit closes its files one by one, and it is gone.
OnTaskExit(t) ==
    /\ st[t] = "zombie" /\ ~panicked
    /\ \/ /\ OwnedBy(t) # {}
          /\ CloseSlot(Min(OwnedBy(t)))
          /\ UNCHANGED st
       \/ /\ OwnedBy(t) = {}
          /\ st' = [st EXCEPT ![t] = "dead"]
          /\ UNCHANGED <<files, disk, full, unsure>>
    /\ UNCHANGED <<job, cwd, dest, unlink, calls, last, borrowed, panicked>>

\* kill, or the default action of a signal: the scheduler frees the task, and nothing else.
Kill(t) ==
    /\ "kill" \in Abilities
    /\ st[t] = "live" /\ ~panicked
    /\ st' = [st EXCEPT ![t] = "killed"]
    /\ unlink' = [unlink EXCEPT ![t] = NoPath]
    /\ unsure' = unsure \cup {files[f].name : f \in {g \in OwnedBy(t) : files[g].name \in Paths}}
    /\ UNCHANGED <<job, files, disk, cwd, dest, calls, full, last, borrowed, panicked>>

Next ==
    \/ \E t \in Programs, raw \in Raws, flags \in Flags : file_open(t, raw, flags)
    \/ \E t \in Programs, fd \in Fds : file_read(t, fd)
    \/ \E t \in Programs, fd \in Fds : file_write(t, fd)
    \/ \E t \in Programs : RedirectedWrite(t)
    \/ \E t \in Programs, fd \in Fds, off \in Seeks : file_seek(t, fd, off)
    \/ \E t \in Programs, fd \in Fds : file_close(t, fd)
    \/ \E t \in Programs, raw \in Raws : UnlinkCheck(t, raw)
    \/ \E t \in Programs : UnlinkDelete(t)
    \/ \E t \in Tasks, raw \in Raws : file_chdir(t, raw)
    \/ \E t \in Tasks, raw \in Raws : file_mkdir(t, raw)
    \/ \E t \in Tasks, raw \in Raws : file_rmdir(t, raw)
    \/ \E t \in Programs : Spawn(t)
    \/ \E t \in Programs, raw \in Raws, flags \in Flags : RunRedirected(t, raw, flags)
    \/ \E t, u \in Programs : SpawnInherit(t, u)
    \/ ShellCloses
    \/ \E t \in Programs : Exit(t)
    \/ \E t \in Programs : OnTaskExit(t)
    \/ \E t \in Programs : Kill(t)

Spec == Init /\ [][Next]_vars

-----------------------------------------------------------------------------
\* Slots hold files of tasks with a bounded buffer, paths name what the disk can hold.
TypeOK ==
    /\ \A f \in Fds : files[f].owner \in 0..NTasks /\ Len(files[f].buf) <= MAX_FILE
                      /\ files[f].pos \in 0..MAX_FILE
    /\ \A p \in Paths : disk[p] \in {Absent, ADir} \/ Len(disk[p][2]) <= MAX_FILE
    /\ \A t \in Tasks : cwd[t] \in Paths \cup {Root} /\ dest[t] \in 0..NFiles
                        /\ st[t] \in {"none", "live", "zombie", "dead", "killed"}
    /\ unsure \subseteq Paths

(* No byte that a write accepted is lost: while no task has a path open, it   *)
(* names what the last write made of it, whether the file was closed, the     *)
(* program exited or the shell closed a redirect.  Exempt are the paths of    *)
(* sessions that overlapped, of a write-back that failed, of killed tasks.    *)
NoLostBytes ==
    \A p \in Paths : ~Overlap(p) /\ p \notin unsure => disk[p] = last[p]

(* The output of the program the shell waits for goes to the file the shell   *)
(* opened for it: the slot has not been closed and reused (write_bytes_fd     *)
(* does not check the owner).                                               *)
IntactFor(t) == files[dest[t]].owner = Shell /\ files[dest[t]].name = borrowed[t]
RedirectIntact == job # 0 => IntactFor(job)

\* The same for every program whose output is redirected, inherited or not.
InheritedIntact == \A t \in Programs : st[t] = "live" /\ dest[t] # 0 => IntactFor(t)

\* No read runs past the end of a buffer (file_read, read_bytes_fd).
NoPanic == ~panicked

(* A program that has exited holds no slot of the table once on_task_exit has  *)
(* run; a slot it kept would be lost for good, for no one else may close it.  *)
SlotsReleased == \A f \in Fds : files[f] # NoFile => st[files[f].owner] # "dead"

\* "A crashing program cannot leak slots or lose buffered bytes", nor a killed one.
KilledReleases == \A f \in Fds : files[f] # NoFile => st[files[f].owner] # "killed"

\* A file that is open is on the disk if it was there when it was opened (unlink's check).
UnlinkRefused ==
    [][\A t \in Tasks : UnlinkDelete(t) /\ disk[unlink[t]] \notin {Absent, ADir}
                            => ~Overlap(unlink[t])]_vars

\* Whoever sees a program exit finds its files written.
ExitIsAfterFlush ==
    \A t \in Tasks : st[t] = "zombie" => \A f \in OwnedBy(t) : ~files[f].dirty

\* The working directory of a task exists.
CwdExists == \A t \in Tasks : st[t] = "live" => Names(cwd[t]) = ADir
=============================================================================
