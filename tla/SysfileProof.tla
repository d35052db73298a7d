---------------------------- MODULE SysfileProof ----------------------------
(***************************************************************************)
(* Proofs about Sysfile: type correctness, that the file the shell lends a *)
(* redirected program stays open and its own, and that no byte a write     *)
(* accepted is lost.                                                       *)
(***************************************************************************)
EXTENDS Sysfile, WellFoundedInduction, TLAPS

-----------------------------------------------------------------------------
(* Types.                                                                   *)

Content == {s \in Seq(Nat) : Len(s) <= MAX_FILE}
Things == {Absent, ADir} \cup {AFile(c) : c \in Content}

\* A slot of the table; its name may be any path, on the disk or not.
SlotOK(r) ==
    /\ r = [owner |-> r.owner, name |-> r.name, buf |-> r.buf, pos |-> r.pos, dirty |-> r.dirty]
    /\ r.owner \in 0..NTasks /\ r.buf \in Content /\ r.pos \in 0..MAX_FILE /\ r.dirty \in BOOLEAN
    /\ r.owner = 0 => r = NoFile

Typed ==
    /\ files = [f \in Fds |-> files[f]]
    /\ \A f \in Fds : SlotOK(files[f])
    /\ disk \in [Paths -> Things] /\ last \in [Paths -> Things]
    /\ cwd \in [Tasks -> Paths \cup {Root}]
    /\ st \in [Tasks -> {"none", "live", "zombie", "dead", "killed"}]
    /\ dest \in [Tasks -> 0..NFiles]
    /\ job \in Tasks \cup {0}
    /\ unsure \subseteq Paths
    /\ borrowed = [t \in Tasks |-> borrowed[t]]
    /\ unlink \in [Tasks -> Paths \cup {NoPath}]

(* The program the shell waits for has been started, and the slot its output *)
(* goes to is the shell's, with the file the shell opened.                   *)
Lent ==
    job # 0 => /\ job \in Programs /\ st[job] # "none"
               /\ dest[job] \in Fds /\ IntactFor(job)

Open(f, p) == files[f] # NoFile /\ files[f].name = p

(* What is known of a path until one of the accidents NoLostBytes exempts: it *)
(* is open at most once, the session that has it open holds what was written, *)
(* and otherwise it is on the disk.  A directory is there for all it holds,   *)
(* so that a write-back to a file cannot delete another one.                  *)
OneSession(p) == \A f, g \in Fds : Open(f, p) /\ Open(g, p) => f = g
OnDisk(p) == (\A f \in Fds : Open(f, p) => ~files[f].dirty) => disk[p] = last[p]
InBuffer(p) == \A f \in Fds : Open(f, p) /\ files[f].dirty => last[p] = AFile(files[f].buf)
Safe(p) == OneSession(p) /\ OnDisk(p) /\ InBuffer(p)
Tree == \A q \in Paths : disk[q] # Absent => Names(Front(q)) = ADir
Kept == (\A p \in Paths \ unsure : Safe(p)) /\ Tree

\* The least of a set of numbers that is not empty is one of them.
LEMMA MinIn ==
    ASSUME NEW S \in SUBSET Nat, S # {}
    PROVE  Min(S) \in S
<1>2. \E m \in S : \A j \in S : ~(<<j, m>> \in OpToRel(<, Nat))
  BY NatLessThanWellFounded, WFMin
<1>3. PICK m \in S : \A j \in S : ~(<<j, m>> \in OpToRel(<, Nat))
  BY <1>2
<1>4. \A j \in S : m <= j
  <2> TAKE j \in S
  <2>1. ~(j < m)
    BY <1>3 DEF OpToRel
  <2> QED BY <2>1
<1> QED BY <1>3, <1>4 DEF Min

\* open takes a free slot; an exit path closes a slot of the task's own.
LEMMA SlotsFound ==
    /\ FreeSlot # 0 => FreeSlot \in Fds /\ files[FreeSlot] = NoFile
    /\ \A t : OwnedBy(t) # {} => Min(OwnedBy(t)) \in Fds /\ files[Min(OwnedBy(t))].owner = t
<1>1. {f \in Fds : files[f] = NoFile} \in SUBSET Nat /\ \A t : OwnedBy(t) \in SUBSET Nat
  BY SysfileAssumption DEF Fds, OwnedBy
<1> QED BY <1>1, MinIn DEF FreeSlot, OwnedBy

\* An empty slot is one nobody owns.
LEMMA NoFileOK == SlotOK(NoFile) /\ NoFile.owner = 0 /\ NoFile.dirty = FALSE
BY SysfileAssumption DEF SlotOK, NoFile, Content

\* What a file on the disk holds.
LEMMA ThingShape ==
    ASSUME NEW x \in Things, x \notin {Absent, ADir}
    PROVE  x[2] \in Content
BY DEF Things, AFile

\* A path is below at most one other: the disk has two levels of names.
LEMMA PathShape ==
    /\ Root \notin Paths
    /\ \A p \in Paths : Front(p) # p /\ (Len(p) = 1 => Front(p) = Root)
    /\ \A p, q \in Paths : Under(p, q) <=> Front(q) = p
    /\ \A p, q \in Paths : Front(q) \in Paths => ~Under(p, Front(q))
<1>1. \A p \in Paths : p \in Seq(STRING) /\ (Len(p) = 1 \/ Len(p) = 2)
  BY SysfileAssumption
<1>2. \A p \in Paths : Front(p) \in Seq(STRING) /\ Len(Front(p)) = Len(p) - 1
  BY <1>1 DEF Front
<1>3. \A p \in Paths : Front(p) # p
  BY <1>1, <1>2
<1>4. \A p \in Paths : Len(p) = 1 => Front(p) = Root
  BY <1>1, <1>2 DEF Root
<1>5. Root \notin Paths
  BY <1>1 DEF Root
<1>6. ASSUME NEW p \in Paths, NEW q \in Paths PROVE Under(p, q) <=> Front(q) = p
  <2>1. CASE Len(q) = 2 /\ Len(p) = 1
    BY <1>1, <2>1 DEF Under, Front
  <2>2. CASE ~(Len(q) = 2 /\ Len(p) = 1)
    <3>1. ~Under(p, q)
      BY <1>1, <2>2 DEF Under
    <3>2. Front(q) # p
      BY <1>1, <1>2, <2>2
    <3> QED BY <3>1, <3>2
  <2> QED BY <2>1, <2>2
<1>7. ASSUME NEW p \in Paths, NEW q \in Paths, Front(q) \in Paths PROVE ~Under(p, Front(q))
  <2>1. Len(p) >= 1 /\ Len(Front(q)) <= 1
    BY <1>1, <1>2
  <2>2. Len(p) \in Nat /\ Len(Front(q)) \in Nat
    BY <1>1, <1>2
  <2>3. ~(Len(Front(q)) > Len(p))
    BY <2>1, <2>2
  <2> QED BY <2>3 DEF Under
<1> QED BY <1>3, <1>4, <1>5, <1>6, <1>7

-----------------------------------------------------------------------------
(* What the calls do to a slot.                                             *)

\* One slot changes, the others stay.
LEMMA SetSlot ==
    ASSUME Typed, NEW s \in Fds, NEW r, files' = [files EXCEPT ![s] = r]
    PROVE  /\ files' = [f \in Fds |-> files'[f]]
           /\ files'[s] = r /\ \A f \in Fds : f # s => files'[f] = files[f]
           /\ SlotOK(r) => \A f \in Fds : SlotOK(files'[f])
BY DEF Typed

\* open fills a free slot with a buffer that need not be written back.
LEMMA OpenEffect ==
    ASSUME Typed, NEW t \in Tasks, NEW raw, NEW flags, OpenName(t, raw, flags)
    PROVE  \E r : /\ SlotOK(r) /\ r.owner = t /\ r.name = resolve_path(t, raw) /\ ~r.dirty
                  /\ FreeSlot \in Fds /\ files[FreeSlot] = NoFile
                  /\ files' = [files EXCEPT ![FreeSlot] = r]
                  /\ unsure' = IF Overlap(resolve_path(t, raw))
                               THEN unsure \cup ({resolve_path(t, raw)} \cap Paths) ELSE unsure
<1> DEFINE p == resolve_path(t, raw)
           what == Names(p)
           readable == what \notin {Absent, ADir}
           truncates == flags = {"CREATE"}
           buf == IF truncates \/ ~readable THEN <<>> ELSE what[2]
           pos == IF "APPEND" \in flags THEN Len(buf) ELSE 0
           r == [owner |-> t, name |-> p, buf |-> buf, pos |-> pos, dirty |-> FALSE]
<1>1. what \in Things
  BY DEF Names, Typed, Things
<1>2. buf \in Content
  <2>1. <<>> \in Content
    BY SysfileAssumption DEF Content
  <2>2. readable => what[2] \in Content
    BY <1>1, ThingShape
  <2> QED BY <2>1, <2>2
<1>3. /\ FreeSlot \in Fds /\ files[FreeSlot] = NoFile
      /\ files' = [files EXCEPT ![FreeSlot] = r]
      /\ unsure' = IF Overlap(p) THEN unsure \cup ({p} \cap Paths) ELSE unsure
  BY SlotsFound DEF OpenName
<1> HIDE DEF p, what, buf
<1>4. pos \in 0..MAX_FILE
  BY <1>2, SysfileAssumption DEF Content
<1>5. t \in 0..NTasks /\ t # 0
  BY SysfileAssumption DEF Tasks
<1> HIDE DEF pos
<1>6. SlotOK(r) /\ r.owner = t /\ r.name = p /\ ~r.dirty
  BY <1>2, <1>4, <1>5 DEF SlotOK
<1> HIDE DEF r
<1> QED BY <1>3, <1>6 DEF p

\* A record with three of its fields replaced.
LEMMA FieldsSet ==
    ASSUME NEW r, NEW b, NEW i,
           r = [owner |-> r.owner, name |-> r.name, buf |-> r.buf, pos |-> r.pos, dirty |-> r.dirty]
    PROVE  [r EXCEPT !.buf = b, !.pos = i, !.dirty = TRUE]
             = [owner |-> r.owner, name |-> r.name, buf |-> b, pos |-> i, dirty |-> TRUE]
<1> DEFINE x == [r EXCEPT !.buf = b]
           y == [x EXCEPT !.pos = i]
           z == [y EXCEPT !.dirty = TRUE]
<1>1. x = [owner |-> r.owner, name |-> r.name, buf |-> b, pos |-> r.pos, dirty |-> r.dirty]
  OBVIOUS
<1> HIDE DEF x
<1>2. y = [owner |-> r.owner, name |-> r.name, buf |-> b, pos |-> i, dirty |-> r.dirty]
  BY <1>1
<1> HIDE DEF y
<1>3. ASSUME NEW d
      PROVE  [y EXCEPT !.dirty = d]
               = [owner |-> r.owner, name |-> r.name, buf |-> b, pos |-> i, dirty |-> d]
  BY <1>2
<1>4. z = [owner |-> r.owner, name |-> r.name, buf |-> b, pos |-> i, dirty |-> TRUE]
  BY <1>3, Zenon
<1> HIDE DEF z
<1> QED BY <1>4 DEF x, y, z

\* A write changes the buffer of an open slot, which then waits to be written back.
LEMMA WriteEffect ==
    ASSUME Typed, NEW t \in Tasks, NEW fd \in Fds, WriteBytes(t, fd, <<t>>)
    PROVE  \E r : /\ SlotOK(r) /\ r.owner = files[fd].owner /\ r.name = files[fd].name /\ r.dirty
                  /\ files[fd] # NoFile
                  /\ files' = [files EXCEPT ![fd] = r]
                  /\ last' = IF r.name \in Paths THEN [last EXCEPT ![r.name] = AFile(r.buf)] ELSE last
<1> DEFINE f == files[fd]
           buf == WriteAt(f.buf, f.pos, <<t>>)
           r == [f EXCEPT !.buf = buf, !.pos = f.pos + 1, !.dirty = TRUE]
<1>1. SlotOK(f)
  BY DEF Typed
<1>2. Len(<<t>>) = 1 /\ <<t>>[1] = t /\ t \in Nat
  BY SysfileAssumption DEF Tasks
<1>3. /\ f # NoFile /\ f.pos + 1 <= MAX_FILE
      /\ files' = [files EXCEPT ![fd] = r]
      /\ last' = IF f.name \in Paths THEN [last EXCEPT ![f.name] = AFile(buf)] ELSE last
  BY <1>2 DEF WriteBytes
<1>4. buf \in Content
  <2> DEFINE n == IF f.pos + 1 > Len(f.buf) THEN f.pos + 1 ELSE Len(f.buf)
             e(i) == IF i > f.pos /\ i <= f.pos + 1 THEN <<t>>[i - f.pos]
                     ELSE IF i <= Len(f.buf) THEN f.buf[i] ELSE 0
  <2>1. buf = [i \in 1..n |-> e(i)]
    BY <1>2 DEF WriteAt
  <2>2. f.buf \in Seq(Nat) /\ Len(f.buf) \in Nat /\ Len(f.buf) <= MAX_FILE /\ f.pos \in Nat
    BY <1>1 DEF SlotOK, Content
  <2>3. n \in Nat /\ n <= MAX_FILE
    BY <1>3, <2>2
  <2>4. \A i \in 1..n : e(i) \in Nat
    <3> TAKE i \in 1..n
    <3>1. i > f.pos /\ i <= f.pos + 1 => i - f.pos = 1
      BY <2>2, <2>3
    <3>2. i <= Len(f.buf) => f.buf[i] \in Nat
      BY <2>2, <2>3
    <3> QED BY <1>2, <3>1, <3>2
  <2> HIDE DEF n, e
  <2>5. buf \in Seq(Nat) /\ Len(buf) = n
    BY <2>1, <2>3, <2>4
  <2> QED BY <2>3, <2>5 DEF Content
<1>5. f.pos + 1 \in 0..MAX_FILE
  BY <1>1, <1>3 DEF SlotOK
<1>6. f.owner # 0
  BY <1>1, <1>3 DEF SlotOK
<1> HIDE DEF buf
<1> DEFINE pos == f.pos + 1
<1>7. r = [owner |-> f.owner, name |-> f.name, buf |-> buf, pos |-> pos, dirty |-> TRUE]
  <2>1. f = [owner |-> f.owner, name |-> f.name, buf |-> f.buf, pos |-> f.pos, dirty |-> f.dirty]
    BY <1>1 DEF SlotOK
  <2> QED BY <2>1, FieldsSet
<1>8. f.owner \in 0..NTasks
  BY <1>1 DEF SlotOK
<1> HIDE DEF r, pos, f
<1>9. SlotOK(r) /\ r.owner = f.owner /\ r.name = f.name /\ r.dirty /\ r.buf = buf
  <2>1. pos \in 0..MAX_FILE
    BY <1>5 DEF pos
  <2> QED BY <1>4, <1>6, <1>7, <1>8, <2>1 DEF SlotOK
<1> QED BY <1>3, <1>9 DEF f

\* A read or a seek only moves the cursor.
LEMMA MoveEffect ==
    ASSUME Typed, NEW fd \in Fds, NEW n \in 0..MAX_FILE, files[fd] # NoFile,
           files' = [files EXCEPT ![fd].pos = n]
    PROVE  \E r : /\ SlotOK(r) /\ r.owner = files[fd].owner /\ r.name = files[fd].name
                  /\ r.buf = files[fd].buf /\ r.dirty = files[fd].dirty
                  /\ files' = [files EXCEPT ![fd] = r]
<1> DEFINE r == [files[fd] EXCEPT !.pos = n]
<1>1. SlotOK(files[fd])
  BY DEF Typed
<1>2. /\ SlotOK(r) /\ r.owner = files[fd].owner /\ r.name = files[fd].name
      /\ r.buf = files[fd].buf /\ r.dirty = files[fd].dirty
  BY <1>1 DEF SlotOK
<1>3. files' = [files EXCEPT ![fd] = r]
  OBVIOUS
<1> HIDE DEF r
<1> QED BY <1>2, <1>3

\* The disk after a file was written whole.
LEMMA WrittenThings ==
    ASSUME Typed, NEW p \in Paths, NEW c \in Content
    PROVE  Written(disk, p, c) \in [Paths -> Things]
BY DEF Written, Typed, Things

\* A close empties its slot; the disk and the history stay well formed.
LEMMA CloseEffect ==
    ASSUME Typed, NEW fd \in Fds, CloseSlot(fd)
    PROVE  /\ files' = [files EXCEPT ![fd] = NoFile]
           /\ disk' \in [Paths -> Things] /\ unsure' \subseteq Paths /\ unsure \subseteq unsure'
<1>1. files' = [files EXCEPT ![fd] = NoFile]
  BY DEF CloseSlot
<1>2. SlotOK(files[fd]) /\ disk \in [Paths -> Things] /\ unsure \subseteq Paths
  BY DEF Typed
<1>3. Flushed(disk, files[fd]) \in [Paths -> Things]
  BY <1>2, WrittenThings DEF Flushed, WriteFails, SlotOK
<1> QED BY <1>1, <1>2, <1>3 DEF CloseSlot

\* The thing a new file is.
LEMMA FileThing == \A c \in Content : AFile(c) \in Things
BY DEF Things

\* Every call keeps the types; the slots change one at a time.
LEMMA TypedInd == Typed /\ Lent /\ [Next]_vars => Typed'
<1> SUFFICES ASSUME Typed, Lent, [Next]_vars PROVE Typed'
  OBVIOUS
<1> DEFINE Slots == files' = [f \in Fds |-> files'[f]] /\ \A f \in Fds : SlotOK(files'[f])
<1>a. ASSUME NEW s \in Fds, NEW r, files' = [files EXCEPT ![s] = r], SlotOK(r) PROVE Slots
  BY <1>a, SetSlot
<1>b. Slots /\ files' = files => Slots
  OBVIOUS
<1>c. files' = files => Slots
  BY DEF Typed
<1>d. ASSUME NEW fd \in Fds, CloseSlot(fd)
      PROVE  Slots /\ disk' \in [Paths -> Things] /\ unsure' \subseteq Paths
  BY <1>a, <1>d, CloseEffect, NoFileOK
<1>e. ASSUME NEW fd \in Fds, NEW t \in Tasks, WriteBytes(t, fd, <<t>>)
      PROVE  Slots /\ last' \in [Paths -> Things]
  <2>1. PICK r : /\ SlotOK(r) /\ files' = [files EXCEPT ![fd] = r]
                 /\ last' = IF r.name \in Paths THEN [last EXCEPT ![r.name] = AFile(r.buf)] ELSE last
    BY <1>e, WriteEffect
  <2>2. AFile(r.buf) \in Things
    BY <2>1, FileThing DEF SlotOK
  <2>3. last \in [Paths -> Things]
    BY DEF Typed
  <2> QED BY <1>a, <2>1, <2>2, <2>3
<1>f. ASSUME NEW t \in Tasks, NEW raw, NEW flags, OpenName(t, raw, flags)
      PROVE  Slots /\ unsure' \subseteq Paths
  <2>1. unsure \subseteq Paths
    BY DEF Typed
  <2> QED BY <1>a, <1>f, <2>1, OpenEffect
<1>g. ASSUME NEW fd \in Fds, NEW n \in 0..MAX_FILE, files[fd] # NoFile,
             files' = [files EXCEPT ![fd].pos = n]
      PROVE  Slots
  BY <1>a, <1>g, MoveEffect
<1>h. Shell \in Tasks
  BY SysfileAssumption DEF Tasks, Shell
<1>i. ADir \in Things /\ Absent \in Things
  BY DEF Things
<1> HIDE DEF Slots
<1>1. ASSUME NEW t \in Programs, NEW raw \in Raws, NEW flags \in Flags, file_open(t, raw, flags)
      PROVE  Typed'
  BY <1>1, <1>f DEF file_open, Typed, Slots, Programs
<1>2. ASSUME NEW t \in Programs, NEW fd \in Fds, file_read(t, fd) PROVE Typed'
  <2>1. SlotOK(files[fd])
    BY DEF Typed
  <2>2. \/ files' = files
        \/ /\ files' = [files EXCEPT ![fd].pos = files[fd].pos + 1]
           /\ files[fd].pos + 1 \in 0..MAX_FILE
    BY <1>2, <2>1, SysfileAssumption DEF file_read, SlotOK, Content
  <2>3. Slots
    BY <1>2, <2>2, <1>c, <1>g DEF file_read
  <2> QED BY <1>2, <2>3 DEF file_read, Typed, Slots
<1>3. ASSUME NEW t \in Programs, NEW fd \in Fds, file_write(t, fd) PROVE Typed'
  BY <1>3, <1>e DEF file_write, Typed, Slots, Programs
<1>4. ASSUME NEW t \in Programs, RedirectedWrite(t) PROVE Typed'
  <2>1. dest[t] \in Fds
    BY <1>4, SysfileAssumption DEF RedirectedWrite, Typed, Programs, Fds
  <2> QED BY <1>4, <1>e, <2>1 DEF RedirectedWrite, Typed, Slots, Programs
<1>5. ASSUME NEW t \in Programs, NEW fd \in Fds, NEW off \in Seeks, file_seek(t, fd, off)
      PROVE  Typed'
  <2>1. SlotOK(files[fd])
    BY DEF Typed
  <2>2. /\ files' = [files EXCEPT ![fd].pos = Len(files[fd].buf) + off]
        /\ Len(files[fd].buf) + off \in 0..MAX_FILE
    BY <1>5, <2>1, SysfileAssumption DEF file_seek, SlotOK, Content
  <2>3. files[fd] # NoFile
    BY <1>5 DEF file_seek
  <2>4. Slots
    BY <2>2, <2>3, <1>g
  <2> QED BY <1>5, <2>4 DEF file_seek, Typed, Slots
<1>6. ASSUME NEW t \in Programs, NEW fd \in Fds, file_close(t, fd) PROVE Typed'
  BY <1>6, <1>d DEF file_close, Typed, Slots
<1>7. ASSUME NEW t \in Programs, NEW raw \in Raws, UnlinkCheck(t, raw) PROVE Typed'
  BY <1>7, <1>c DEF UnlinkCheck, Typed, Slots
<1>8. ASSUME NEW t \in Programs, UnlinkDelete(t) PROVE Typed'
  <2>1. unlink[t] \in Paths
    BY <1>8 DEF UnlinkDelete, Typed, Programs
  <2> QED BY <1>8, <2>1, <1>c, <1>i DEF UnlinkDelete, Typed, Slots
<1>9. ASSUME NEW t \in Tasks, NEW raw \in Raws, file_chdir(t, raw) PROVE Typed'
  <2>1. resolve_path(t, raw) \in Paths \cup {Root}
    BY <1>9 DEF file_chdir, Names, Absent, ADir
  <2> QED BY <1>9, <2>1, <1>c DEF file_chdir, Typed, Slots
<1>10. ASSUME NEW t \in Tasks, NEW raw \in Raws, file_mkdir(t, raw) PROVE Typed'
  BY <1>10, <1>c, <1>i DEF file_mkdir, Typed, Slots, WriteFails
<1>11. ASSUME NEW t \in Tasks, NEW raw \in Raws, file_rmdir(t, raw) PROVE Typed'
  BY <1>11, <1>c, <1>i DEF file_rmdir, Typed, Slots
<1>12. ASSUME NEW t \in Programs, Spawn(t) PROVE Typed'
  BY <1>12, <1>c, <1>h DEF Spawn, Typed, Slots
<1>13. ASSUME NEW t \in Programs, NEW raw \in Raws, NEW flags \in Flags,
              RunRedirected(t, raw, flags)
       PROVE  Typed'
  <2>1. Slots /\ unsure' \subseteq Paths
    BY <1>13, <1>f, <1>h DEF RunRedirected
  <2>2. FreeSlot \in 0..NFiles
    BY <1>13, SlotsFound DEF RunRedirected, OpenName, Fds
  <2> QED BY <1>13, <1>h, <2>1, <2>2 DEF RunRedirected, Typed, Slots, Programs
<1>14. ASSUME NEW t \in Programs, NEW u \in Programs, SpawnInherit(t, u) PROVE Typed'
  BY <1>14, <1>c DEF SpawnInherit, Typed, Slots, Programs
<1>15. CASE ShellCloses
  <2>1. Slots /\ disk' \in [Paths -> Things] /\ unsure' \subseteq Paths
    BY <1>15, <1>d DEF ShellCloses, Lent
  <2>2. dest' \in [Tasks -> 0..NFiles]
    BY <1>15, SysfileAssumption DEF ShellCloses, Typed
  <2> QED BY <1>15, <2>1, <2>2 DEF ShellCloses, Typed, Slots
<1>16. ASSUME NEW t \in Programs, Exit(t) PROVE Typed'
  BY <1>16, <1>c DEF Exit, Typed, Slots
<1>17. ASSUME NEW t \in Programs, OnTaskExit(t) PROVE Typed'
  <2>1. CASE OwnedBy(t) # {} /\ CloseSlot(Min(OwnedBy(t))) /\ UNCHANGED st
    BY <1>17, <2>1, <1>d, SlotsFound DEF OnTaskExit, Typed, Slots
  <2>2. CASE st' = [st EXCEPT ![t] = "dead"] /\ UNCHANGED <<files, disk, full, unsure>>
    BY <1>17, <2>2, <1>c DEF OnTaskExit, Typed, Slots
  <2> QED BY <1>17, <2>1, <2>2 DEF OnTaskExit
<1>18. ASSUME NEW t \in Programs, Kill(t) PROVE Typed'
  BY <1>18, <1>c DEF Kill, Typed, Slots
<1>19. CASE UNCHANGED vars
  BY <1>19, <1>c DEF vars, Typed, Slots
<1> QED BY <1>1, <1>2, <1>3, <1>4, <1>5, <1>6, <1>7, <1>8, <1>9, <1>10, <1>11, <1>12, <1>13,
           <1>14, <1>15, <1>16, <1>17, <1>18, <1>19 DEF Next

(* The slot lent to a program is neither closed nor reused: open takes empty *)
(* slots, the calls of programs and their exits close slots of their own.    *)
LEMMA LentInd == Typed /\ Lent /\ [Next]_vars => Lent'
<1> SUFFICES ASSUME Typed, Lent, [Next]_vars PROVE Lent'
  OBVIOUS
<1>h. Shell \in Tasks /\ Shell # 0 /\ Programs \subseteq Tasks /\ Shell \notin Programs /\ 0 \notin Programs
  BY SysfileAssumption DEF Tasks, Shell, Programs
<1> DEFINE Same(s) == files'[s].owner = files[s].owner /\ files'[s].name = files[s].name
<1>a. ASSUME UNCHANGED <<job, borrowed>>,
             job # 0 => Same(dest[job]) /\ dest'[job] = dest[job] /\ st'[job] # "none"
      PROVE  Lent'
  BY <1>a DEF Lent, IntactFor
<1>b. job # 0 => st[job] # "none" /\ job \in Programs /\ dest[job] \in Fds
                 /\ files[dest[job]].owner = Shell
  BY DEF Lent, IntactFor
<1>c. ASSUME NEW fd \in Fds, NEW r, files' = [files EXCEPT ![fd] = r],
             \/ r.owner = files[fd].owner /\ r.name = files[fd].name
             \/ files[fd].owner # Shell
      PROVE  job # 0 => Same(dest[job])
  BY <1>b, <1>c, SetSlot
<1>d. ASSUME NEW t \in Tasks, NEW raw, NEW flags, OpenName(t, raw, flags)
      PROVE  job # 0 => Same(dest[job])
  <2>1. PICK r : FreeSlot \in Fds /\ files[FreeSlot] = NoFile /\ files' = [files EXCEPT ![FreeSlot] = r]
    BY <1>d, OpenEffect
  <2>2. files[FreeSlot].owner # Shell
    BY <2>1, <1>h, NoFileOK
  <2> QED BY <1>c, <2>1, <2>2
<1>e. ASSUME NEW t \in Tasks, NEW fd \in Fds, WriteBytes(t, fd, <<t>>)
      PROVE  job # 0 => Same(dest[job])
  BY <1>c, <1>e, WriteEffect
<1>f. ASSUME NEW fd \in Fds, NEW n, files' = [files EXCEPT ![fd].pos = n]
      PROVE  job # 0 => Same(dest[job])
  <2> DEFINE r == [files[fd] EXCEPT !.pos = n]
  <2>1. SlotOK(files[fd])
    BY DEF Typed
  <2>2. r.owner = files[fd].owner /\ r.name = files[fd].name
    BY <2>1 DEF SlotOK
  <2>3. files' = [files EXCEPT ![fd] = r]
    BY <1>f
  <2> HIDE DEF r
  <2> QED BY <1>c, <2>2, <2>3
<1>g. ASSUME NEW fd \in Fds, CloseSlot(fd), files[fd].owner # Shell
      PROVE  job # 0 => Same(dest[job])
  BY <1>c, <1>g, CloseEffect
<1>i. files' = files => (job # 0 => Same(dest[job]))
  OBVIOUS
<1> HIDE DEF Same
<1>j. ASSUME UNCHANGED <<job, borrowed, dest>>, job # 0 => Same(dest[job]),
             \/ st' = st
             \/ \E t \in Programs, x \in {"live", "zombie", "dead", "killed"} : st' = [st EXCEPT ![t] = x]
      PROVE  Lent'
  <2>1. job # 0 => st'[job] # "none"
    BY <1>b, <1>h, <1>j DEF Typed
  <2> QED BY <1>a, <1>j, <2>1
<1>1. ASSUME NEW t \in Programs, NEW raw \in Raws, NEW flags \in Flags, file_open(t, raw, flags)
      PROVE  Lent'
  BY <1>1, <1>d, <1>h, <1>j DEF file_open
<1>2. ASSUME NEW t \in Programs, NEW fd \in Fds, file_read(t, fd) PROVE Lent'
  <2>1. files' = files \/ files' = [files EXCEPT ![fd].pos = files[fd].pos + 1]
    BY <1>2 DEF file_read
  <2> QED BY <1>2, <2>1, <1>f, <1>i, <1>j DEF file_read
<1>3. ASSUME NEW t \in Programs, NEW fd \in Fds, file_write(t, fd) PROVE Lent'
  BY <1>3, <1>e, <1>h, <1>j DEF file_write
<1>4. ASSUME NEW t \in Programs, RedirectedWrite(t) PROVE Lent'
  <2>1. dest[t] \in Fds
    BY <1>4, <1>h, SysfileAssumption DEF RedirectedWrite, Typed, Fds
  <2> QED BY <1>4, <2>1, <1>e, <1>h, <1>j DEF RedirectedWrite
<1>5. ASSUME NEW t \in Programs, NEW fd \in Fds, NEW off \in Seeks, file_seek(t, fd, off)
      PROVE  Lent'
  BY <1>5, <1>f, <1>j DEF file_seek
<1>6. ASSUME NEW t \in Programs, NEW fd \in Fds, file_close(t, fd) PROVE Lent'
  BY <1>6, <1>g, <1>h, <1>j DEF file_close
<1>7. ASSUME NEW t \in Programs, NEW raw \in Raws, UnlinkCheck(t, raw) PROVE Lent'
  BY <1>7, <1>i, <1>j DEF UnlinkCheck
<1>8. ASSUME NEW t \in Programs, UnlinkDelete(t) PROVE Lent'
  BY <1>8, <1>i, <1>j DEF UnlinkDelete
<1>9. ASSUME NEW t \in Tasks, NEW raw \in Raws, file_chdir(t, raw) PROVE Lent'
  BY <1>9, <1>i, <1>j DEF file_chdir
<1>10. ASSUME NEW t \in Tasks, NEW raw \in Raws, file_mkdir(t, raw) PROVE Lent'
  BY <1>10, <1>i, <1>j DEF file_mkdir
<1>11. ASSUME NEW t \in Tasks, NEW raw \in Raws, file_rmdir(t, raw) PROVE Lent'
  BY <1>11, <1>i, <1>j DEF file_rmdir
<1>12. ASSUME NEW t \in Programs, Spawn(t) PROVE Lent'
  BY <1>12, <1>i, <1>j DEF Spawn
<1>13. ASSUME NEW t \in Programs, NEW raw \in Raws, NEW flags \in Flags,
              RunRedirected(t, raw, flags)
       PROVE  Lent'
  <2>1. PICK r : /\ r.owner = Shell /\ r.name = resolve_path(Shell, raw)
                 /\ FreeSlot \in Fds /\ files' = [files EXCEPT ![FreeSlot] = r]
    BY <1>13, <1>h, OpenEffect DEF RunRedirected
  <2>2. files'[FreeSlot] = r
    BY <2>1, SetSlot
  <2>3. job' = t /\ dest'[t] = FreeSlot /\ borrowed'[t] = resolve_path(Shell, raw) /\ st'[t] = "live"
    BY <1>13, <1>h DEF RunRedirected, Typed
  <2> QED BY <2>1, <2>2, <2>3 DEF Lent, IntactFor
<1>14. ASSUME NEW t \in Programs, NEW u \in Programs, SpawnInherit(t, u) PROVE Lent'
  <2>1. /\ job' = job /\ files' = files
        /\ st' = [st EXCEPT ![u] = "live"] /\ dest' = [dest EXCEPT ![u] = dest[t]]
        /\ borrowed' = [borrowed EXCEPT ![u] = borrowed[t]] /\ st[u] = "none"
    BY <1>14 DEF SpawnInherit
  <2>2. job # 0 => job # u
    BY <2>1, <1>b
  <2>3. job # 0 => dest'[job] = dest[job] /\ borrowed'[job] = borrowed[job] /\ st'[job] # "none"
    BY <2>1, <2>2, <1>b, <1>h DEF Typed
  <2> QED BY <2>1, <2>3 DEF Lent, IntactFor
<1>15. CASE ShellCloses
  BY <1>15 DEF ShellCloses, Lent
<1>16. ASSUME NEW t \in Programs, Exit(t) PROVE Lent'
  BY <1>16, <1>i, <1>j DEF Exit
<1>17. ASSUME NEW t \in Programs, OnTaskExit(t) PROVE Lent'
  <2>1. CASE OwnedBy(t) # {} /\ CloseSlot(Min(OwnedBy(t))) /\ UNCHANGED st
    <3>1. Min(OwnedBy(t)) \in Fds /\ files[Min(OwnedBy(t))].owner # Shell
      BY <2>1, <1>h, SlotsFound
    <3> QED BY <1>17, <2>1, <3>1, <1>g, <1>j DEF OnTaskExit
  <2>2. CASE st' = [st EXCEPT ![t] = "dead"] /\ UNCHANGED <<files, disk, full, unsure>>
    BY <1>17, <2>2, <1>i, <1>j DEF OnTaskExit
  <2> QED BY <1>17, <2>1, <2>2 DEF OnTaskExit
<1>18. ASSUME NEW t \in Programs, Kill(t) PROVE Lent'
  BY <1>18, <1>i, <1>j DEF Kill
<1>19. CASE UNCHANGED vars
  BY <1>19, <1>i, <1>j DEF vars
<1> QED BY <1>1, <1>2, <1>3, <1>4, <1>5, <1>6, <1>7, <1>8, <1>9, <1>10, <1>11, <1>12, <1>13,
           <1>14, <1>15, <1>16, <1>17, <1>18, <1>19 DEF Next

\* One slot changes and nothing else that a path not named by it depends on.
LEMMA OtherPaths ==
    ASSUME Typed, NEW s \in Fds, NEW r, files' = [files EXCEPT ![s] = r],
           NEW p \in Paths, disk'[p] = disk[p], last'[p] = last[p],
           ~Open(s, p), r = NoFile \/ r.name # p, Safe(p)
    PROVE  Safe(p)'
<1>1. ~Open(s, p)'
  BY SetSlot DEF Open
<1>2. \A f \in Fds : (Open(f, p)' <=> Open(f, p)) /\ (Open(f, p) => files'[f] = files[f])
  BY <1>1, SetSlot DEF Open
<1> QED BY <1>2 DEF Safe, OneSession, OnDisk, InBuffer

\* A path that is not open afterwards is safe if the disk says what was written.
LEMMA NotOpenSafe ==
    ASSUME NEW p \in Paths, \A f \in Fds : ~Open(f, p)', disk'[p] = last'[p]
    PROVE  Safe(p)'
BY DEF Safe, OneSession, OnDisk, InBuffer

\* What a slot that stays as it was, or is empty, or whose cursor moves, does to the paths.
LEMMA MoveKeeps ==
    ASSUME Typed, Kept, NEW s \in Fds, NEW r, files' = [files EXCEPT ![s] = r],
           files[s] # NoFile, r # NoFile, r.name = files[s].name, r.buf = files[s].buf,
           r.dirty = files[s].dirty, UNCHANGED <<disk, last, unsure>>
    PROVE  Kept'
<1>1. \A f \in Fds, p \in Paths : Open(f, p)' <=> Open(f, p)
  BY SetSlot DEF Open
<1>2. \A f \in Fds : files'[f].dirty = files[f].dirty /\ files'[f].buf = files[f].buf
  BY SetSlot
<1>3. \A p \in Paths : Safe(p) => Safe(p)'
  BY <1>1, <1>2 DEF Safe, OneSession, OnDisk, InBuffer
<1>4. Tree'
  BY DEF Kept, Tree, Names
<1> QED BY <1>3, <1>4 DEF Kept

\* open loads what is on the disk, or what the path will be once it is written.
LEMMA OpenKeeps ==
    ASSUME Typed, Kept, NEW t \in Tasks, NEW raw, NEW flags, OpenName(t, raw, flags),
           UNCHANGED <<disk, last>>
    PROVE  Kept'
<1> DEFINE q == resolve_path(t, raw)
           s == FreeSlot
<1>1. PICK r : /\ SlotOK(r) /\ r.owner = t /\ r.name = q /\ ~r.dirty
               /\ s \in Fds /\ files[s] = NoFile
               /\ files' = [files EXCEPT ![s] = r]
               /\ unsure' = IF Overlap(q) THEN unsure \cup ({q} \cap Paths) ELSE unsure
  BY OpenEffect
<1> HIDE DEF q, s
<1>2. ASSUME NEW p \in Paths, p \notin unsure' PROVE Safe(p)'
  <2>1. p \notin unsure /\ Safe(p) /\ ~Open(s, p)
    BY <1>1, <1>2 DEF Kept, Open
  <2>2. CASE p # q
    BY <1>1, <2>1, <2>2, OtherPaths
  <2>3. CASE p = q
    <3>1. \A f \in Fds : ~Open(f, p)
      BY <1>1, <1>2, <2>3 DEF Overlap, Open
    <3>2. disk'[p] = last'[p]
      BY <2>1, <3>1 DEF Safe, OnDisk
    <3>3. \A f \in Fds : Open(f, p)' => f = s
      BY <1>1, <3>1, SetSlot DEF Open
    <3>4. ~files'[s].dirty
      BY <1>1, SetSlot
    <3> QED BY <3>2, <3>3, <3>4 DEF Safe, OneSession, OnDisk, InBuffer
  <2> QED BY <2>2, <2>3
<1>3. Tree'
  BY DEF Kept, Tree, Names
<1> QED BY <1>2, <1>3 DEF Kept

\* A write makes the buffer the one that will be written back.
LEMMA WriteKeeps ==
    ASSUME Typed, Kept, NEW t \in Tasks, NEW s \in Fds, WriteBytes(t, s, <<t>>),
           UNCHANGED <<disk, unsure>>
    PROVE  Kept'
<1>1. PICK r : /\ SlotOK(r) /\ r.owner = files[s].owner /\ r.name = files[s].name /\ r.dirty
               /\ files[s] # NoFile
               /\ files' = [files EXCEPT ![s] = r]
               /\ last' = IF r.name \in Paths THEN [last EXCEPT ![r.name] = AFile(r.buf)] ELSE last
  BY WriteEffect
<1>2. r # NoFile
  BY <1>1, NoFileOK
<1>3. ASSUME NEW p \in Paths, p \notin unsure' PROVE Safe(p)'
  <2>1. Safe(p)
    BY <1>3 DEF Kept
  <2>2. CASE p # r.name
    <3>1. last'[p] = last[p] /\ ~Open(s, p)
      BY <1>1, <2>2 DEF Typed, Open
    <3> QED BY <1>1, <2>1, <2>2, <3>1, OtherPaths
  <2>3. CASE p = r.name
    <3>1. last'[p] = AFile(r.buf)
      BY <1>1, <2>3 DEF Typed
    <3>2. Open(s, p)
      BY <1>1, <2>3 DEF Open
    <3>3. \A f \in Fds : Open(f, p)' => f = s
      BY <1>1, <2>1, <3>2, SetSlot DEF Open, Safe, OneSession
    <3>4. files'[s] = r /\ Open(s, p)'
      BY <1>1, <1>2, <2>3, SetSlot DEF Open
    <3> QED BY <1>1, <3>1, <3>3, <3>4 DEF Safe, OneSession, OnDisk, InBuffer
  <2> QED BY <2>2, <2>3
<1>4. Tree'
  BY DEF Kept, Tree, Names
<1> QED BY <1>3, <1>4 DEF Kept

\* A write-back puts the bytes on the disk, and no file but the one it is for is touched.
LEMMA CloseKeeps ==
    ASSUME Typed, Kept, NEW s \in Fds, files[s] # NoFile, CloseSlot(s), last' = last
    PROVE  Kept'
<1> DEFINE n == files[s].name
           b == files[s].buf
<1>1. SlotOK(files[s]) /\ files' = [files EXCEPT ![s] = NoFile]
  BY DEF Typed, CloseSlot
<1>2. ASSUME NEW p \in Paths, p \notin unsure', Safe(p), disk'[p] = disk[p],
             n # p \/ ~files[s].dirty
      PROVE  Safe(p)'
  <2>1. CASE n # p
    BY <1>1, <1>2, <2>1, OtherPaths DEF Open
  <2>2. CASE n = p
    <3>1. Open(s, p)
      BY <2>2 DEF Open
    <3>2. \A f \in Fds : Open(f, p) => f = s
      BY <1>2, <3>1 DEF Safe, OneSession
    <3>3. disk[p] = last[p]
      BY <1>2, <2>2, <3>2 DEF Safe, OnDisk
    <3>4. \A f \in Fds : ~Open(f, p)'
      BY <1>1, <3>2, SetSlot DEF Open
    <3> QED BY <1>2, <3>3, <3>4, NotOpenSafe
  <2> QED BY <2>1, <2>2
<1>3. unsure \subseteq unsure' /\ (\A p \in Paths \ unsure' : Safe(p)) /\ Tree
  BY CloseEffect DEF Kept
<1>4. CASE disk' = disk /\ (~files[s].dirty \/ unsure' = unsure \cup ({n} \cap Paths)
                                            \/ unsure' = unsure \cup (Hits(files[s]) \cap Paths))
  <2>1. \A p \in Paths \ unsure' : n # p \/ ~files[s].dirty
    BY <1>4 DEF Hits
  <2>2. \A p \in Paths \ unsure' : Safe(p)'
    BY <1>2, <1>3, <1>4, <2>1
  <2>3. Tree'
    BY <1>3, <1>4 DEF Tree, Names
  <2> QED BY <2>2, <2>3 DEF Kept
<1>5. CASE /\ files[s].dirty /\ ~WriteFails(n) /\ disk' = Written(disk, n, b)
           /\ unsure' = IF Names(n) = ADir THEN unsure \cup (Hits(files[s]) \cap Paths) ELSE unsure
  <2>1. n \in Paths /\ Names(Front(n)) = ADir
    BY <1>5 DEF WriteFails
  <2>2. \A q \in Paths : disk'[q] = IF q = n THEN AFile(b) ELSE IF Under(n, q) THEN Absent ELSE disk[q]
    BY <1>5 DEF Written
  <2>3. Tree'
    <3> SUFFICES ASSUME NEW q \in Paths, disk'[q] # Absent PROVE Names(Front(q))' = ADir
      BY DEF Tree
    <3>1. Names(Front(q)) = ADir /\ Front(q) # n
      <4>1. CASE q = n
        BY <2>1, <4>1, PathShape
      <4>2. CASE q # n
        <5>1. disk[q] # Absent /\ ~Under(n, q)
          BY <2>2, <4>2
        <5> QED BY <1>3, <2>1, <5>1, PathShape DEF Tree
      <4> QED BY <4>1, <4>2
    <3>2. Front(q) \in Paths => disk'[Front(q)] = disk[Front(q)]
      BY <2>1, <2>2, <3>1, PathShape
    <3> QED BY <3>1, <3>2 DEF Names
  <2>4. ASSUME NEW p \in Paths, p \notin unsure' PROVE Safe(p)'
    <3>1. Safe(p)
      BY <1>3, <2>4
    <3>2. CASE p = n
      <4>1. Open(s, p)
        BY <3>2 DEF Open
      <4>2. \A f \in Fds : Open(f, p) => f = s
        BY <3>1, <4>1 DEF Safe, OneSession
      <4>3. \A f \in Fds : ~Open(f, p)'
        BY <1>1, <4>2, SetSlot DEF Open
      <4>4. last[p] = AFile(b)
        BY <1>5, <3>1, <4>1 DEF Safe, InBuffer
      <4> QED BY <2>2, <3>2, <4>3, <4>4, NotOpenSafe
    <3>3. CASE p # n
      <4>1. disk'[p] = disk[p]
        <5>1. CASE Under(n, p)
          <6>1. Names(n) # ADir
            BY <1>5, <2>4, <5>1 DEF Hits
          <6>2. disk[p] = Absent
            BY <1>3, <2>1, <5>1, <6>1, PathShape DEF Tree
          <6> QED BY <2>2, <3>3, <5>1, <6>2
        <5>2. CASE ~Under(n, p)
          BY <2>2, <3>3, <5>2
        <5> QED BY <5>1, <5>2
      <4> QED BY <1>2, <2>4, <3>1, <3>3, <4>1
    <3> QED BY <3>2, <3>3
  <2> QED BY <2>3, <2>4 DEF Kept
<1> QED BY <1>4, <1>5 DEF CloseSlot, Flushed

\* unlink, mkdir and rmdir change what one path names, which nobody has open or is exempt.
LEMMA NameKeeps ==
    ASSUME Typed, Kept, NEW p \in Paths, NEW x \in Things,
           disk' = [disk EXCEPT ![p] = x], last' = [last EXCEPT ![p] = x],
           unsure' = IF Overlap(p) THEN unsure \cup {p} ELSE unsure, files' = files,
           x # Absent => Names(Front(p)) = ADir,
           \A q \in Paths : Under(p, q) => x = ADir \/ disk[q] = Absent
    PROVE  Kept'
<1>1. ASSUME NEW q \in Paths, q \notin unsure' PROVE Safe(q)'
  <2>1. Safe(q)
    BY <1>1 DEF Kept
  <2>2. CASE q = p
    <3>1. \A f \in Fds : ~Open(f, p)'
      BY <1>1, <2>2 DEF Open, Overlap
    <3>2. disk'[p] = last'[p]
      BY DEF Typed
    <3> QED BY <2>2, <3>1, <3>2, NotOpenSafe
  <2>3. CASE q # p
    <3>1. disk'[q] = disk[q] /\ last'[q] = last[q]
      BY <2>3 DEF Typed
    <3> QED BY <2>1, <3>1 DEF Safe, OneSession, OnDisk, InBuffer, Open
  <2> QED BY <2>2, <2>3
<1>2. Tree'
  <2> SUFFICES ASSUME NEW q \in Paths, disk'[q] # Absent PROVE Names(Front(q))' = ADir
    BY DEF Tree
  <2>1. disk'[p] = x /\ \A o \in Paths : o # p => disk'[o] = disk[o]
    BY DEF Typed
  <2>2. Names(Front(q)) = ADir /\ (Front(q) = p => x = ADir)
    <3>1. CASE q = p
      BY <2>1, <3>1, PathShape
    <3>2. CASE q # p
      BY <2>1, <3>2, PathShape DEF Kept, Tree
    <3> QED BY <3>1, <3>2
  <2>3. Front(q) \in Paths => disk'[Front(q)] = ADir
    BY <2>1, <2>2, PathShape DEF Names
  <2> QED BY <2>2, <2>3 DEF Names
<1> QED BY <1>1, <1>2 DEF Kept

\* Nothing that the paths depend on changes, or more of them are exempt.
LEMMA SameKeeps ==
    ASSUME Kept, UNCHANGED <<files, disk, last>>, unsure \subseteq unsure'
    PROVE  Kept'
BY DEF Kept, Safe, OneSession, OnDisk, InBuffer, Open, Tree, Names

\* Every step keeps what was accepted, in a buffer or on the disk.
LEMMA KeptInd == Typed /\ Lent /\ Kept /\ [Next]_vars => Kept'
<1> SUFFICES ASSUME Typed, Lent, Kept, [Next]_vars PROVE Kept'
  OBVIOUS
<1>h. Shell \in Tasks /\ Shell # 0 /\ Programs \subseteq Tasks /\ 0 \notin Tasks
  BY SysfileAssumption DEF Tasks, Shell, Programs
<1>i. ADir \in Things /\ Absent \in Things /\ ADir # Absent
  BY DEF Things, ADir, Absent
<1>j. \A f \in Fds : files[f].owner # 0 => files[f] # NoFile
  BY NoFileOK
<1>m. ASSUME NEW fd \in Fds, NEW n \in 0..MAX_FILE, files[fd] # NoFile,
             files' = [files EXCEPT ![fd].pos = n], UNCHANGED <<disk, last, unsure>>
      PROVE  Kept'
  <2>1. PICK r : /\ SlotOK(r) /\ r.owner = files[fd].owner /\ r.name = files[fd].name
                 /\ r.buf = files[fd].buf /\ r.dirty = files[fd].dirty
                 /\ files' = [files EXCEPT ![fd] = r]
    BY <1>m, MoveEffect
  <2>2. r # NoFile
    BY <1>m, <2>1, NoFileOK DEF Typed, SlotOK
  <2> QED BY <1>m, <2>1, <2>2, MoveKeeps
<1>1. ASSUME NEW t \in Programs, NEW raw \in Raws, NEW flags \in Flags, file_open(t, raw, flags)
      PROVE  Kept'
  BY <1>1, <1>h, OpenKeeps DEF file_open
<1>2. ASSUME NEW t \in Programs, NEW fd \in Fds, file_read(t, fd) PROVE Kept'
  <2>1. SlotOK(files[fd])
    BY DEF Typed
  <2>2. \/ files' = files
        \/ /\ files' = [files EXCEPT ![fd].pos = files[fd].pos + 1]
           /\ files[fd].pos + 1 \in 0..MAX_FILE
    BY <1>2, <2>1, SysfileAssumption DEF file_read, SlotOK, Content
  <2> QED BY <1>2, <2>2, <1>m, SameKeeps DEF file_read
<1>3. ASSUME NEW t \in Programs, NEW fd \in Fds, file_write(t, fd) PROVE Kept'
  BY <1>3, <1>h, WriteKeeps DEF file_write
<1>4. ASSUME NEW t \in Programs, RedirectedWrite(t) PROVE Kept'
  <2>1. dest[t] \in Fds
    BY <1>4, <1>h, SysfileAssumption DEF RedirectedWrite, Typed, Fds
  <2> QED BY <1>4, <2>1, <1>h, WriteKeeps DEF RedirectedWrite
<1>5. ASSUME NEW t \in Programs, NEW fd \in Fds, NEW off \in Seeks, file_seek(t, fd, off)
      PROVE  Kept'
  <2>1. SlotOK(files[fd])
    BY DEF Typed
  <2>2. /\ files' = [files EXCEPT ![fd].pos = Len(files[fd].buf) + off]
        /\ Len(files[fd].buf) + off \in 0..MAX_FILE
    BY <1>5, <2>1, SysfileAssumption DEF file_seek, SlotOK, Content
  <2>3. files[fd] # NoFile
    BY <1>5 DEF file_seek
  <2> QED BY <1>5, <2>2, <2>3, <1>m DEF file_seek
<1>6. ASSUME NEW t \in Programs, NEW fd \in Fds, file_close(t, fd) PROVE Kept'
  BY <1>6, <1>h, <1>j, CloseKeeps DEF file_close
<1>7. ASSUME NEW t \in Programs, NEW raw \in Raws, UnlinkCheck(t, raw) PROVE Kept'
  BY <1>7, SameKeeps DEF UnlinkCheck
<1>8. ASSUME NEW t \in Programs, UnlinkDelete(t) PROVE Kept'
  <2> DEFINE p == unlink[t]
             isFile == disk[p] \notin {Absent, ADir}
  <2>1. p \in Paths
    BY <1>8 DEF UnlinkDelete, Typed, Programs
  <2>2. CASE ~isFile
    BY <1>8, <2>2, SameKeeps DEF UnlinkDelete
  <2>3. CASE isFile
    <3>1. \A q \in Paths : Under(p, q) => disk[q] = Absent
      BY <2>1, <2>3, PathShape DEF Kept, Tree, Names
    <3>2. /\ disk' = [disk EXCEPT ![p] = Absent] /\ last' = [last EXCEPT ![p] = Absent]
          /\ unsure' = (IF Overlap(p) THEN unsure \cup {p} ELSE unsure) /\ files' = files
      BY <1>8, <2>3 DEF UnlinkDelete
    <3> HIDE DEF p
    <3> QED BY <1>i, <2>1, <3>1, <3>2, NameKeeps
  <2> QED BY <2>2, <2>3
<1>9. ASSUME NEW t \in Tasks, NEW raw \in Raws, file_chdir(t, raw) PROVE Kept'
  BY <1>9, SameKeeps DEF file_chdir
<1>10. ASSUME NEW t \in Tasks, NEW raw \in Raws, file_mkdir(t, raw) PROVE Kept'
  BY <1>10, <1>i, NameKeeps DEF file_mkdir, WriteFails
<1>11. ASSUME NEW t \in Tasks, NEW raw \in Raws, file_rmdir(t, raw) PROVE Kept'
  BY <1>11, <1>i, NameKeeps DEF file_rmdir
<1>12. ASSUME NEW t \in Programs, Spawn(t) PROVE Kept'
  BY <1>12, SameKeeps DEF Spawn
<1>13. ASSUME NEW t \in Programs, NEW raw \in Raws, NEW flags \in Flags,
              RunRedirected(t, raw, flags)
       PROVE  Kept'
  BY <1>13, <1>h, OpenKeeps DEF RunRedirected
<1>14. ASSUME NEW t \in Programs, NEW u \in Programs, SpawnInherit(t, u) PROVE Kept'
  BY <1>14, SameKeeps DEF SpawnInherit
<1>15. CASE ShellCloses
  BY <1>15, <1>h, <1>j, CloseKeeps DEF ShellCloses, Lent, IntactFor
<1>16. ASSUME NEW t \in Programs, Exit(t) PROVE Kept'
  BY <1>16, SameKeeps DEF Exit
<1>17. ASSUME NEW t \in Programs, OnTaskExit(t) PROVE Kept'
  <2>1. CASE OwnedBy(t) # {} /\ CloseSlot(Min(OwnedBy(t)))
    <3>1. Min(OwnedBy(t)) \in Fds /\ files[Min(OwnedBy(t))] # NoFile
      BY <2>1, <1>h, <1>j, SlotsFound
    <3> QED BY <1>17, <2>1, <3>1, CloseKeeps DEF OnTaskExit
  <2>2. CASE UNCHANGED <<files, disk, full, unsure>>
    BY <1>17, <2>2, SameKeeps DEF OnTaskExit
  <2> QED BY <1>17, <2>1, <2>2 DEF OnTaskExit
<1>18. ASSUME NEW t \in Programs, Kill(t) PROVE Kept'
  BY <1>18, SameKeeps DEF Kill
<1>19. CASE UNCHANGED vars
  BY <1>19, SameKeeps DEF vars
<1> QED BY <1>1, <1>2, <1>3, <1>4, <1>5, <1>6, <1>7, <1>8, <1>9, <1>10, <1>11, <1>12, <1>13,
           <1>14, <1>15, <1>16, <1>17, <1>18, <1>19 DEF Next

-----------------------------------------------------------------------------
(* The theorems.                                                            *)

Inv == Typed /\ Lent /\ Kept

\* The invariant always holds.
LEMMA InvHolds == Spec => []Inv
<1>1. Init => Inv
  <2> SUFFICES ASSUME Init PROVE Inv
    OBVIOUS
  <2>1. Typed
    <3>1. \A f \in Fds : SlotOK(files[f])
      BY NoFileOK DEF Init
    <3>2. Shell \in Tasks /\ 0 \in 0..NFiles
      BY SysfileAssumption DEF Tasks, Shell
    <3> QED BY <3>1, <3>2 DEF Init, Typed, Things
  <2>2. Lent
    BY DEF Init, Lent
  <2>3. Kept
    BY DEF Init, Kept, Safe, OneSession, OnDisk, InBuffer, Open, Tree
  <2> QED BY <2>1, <2>2, <2>3 DEF Inv
<1>2. Inv /\ [Next]_vars => Inv'
  BY TypedInd, LentInd, KeptInd DEF Inv
<1> QED BY <1>1, <1>2, PTL DEF Spec

(* Types: slots of tasks with a buffer and a cursor within MAX_FILE, whatever *)
(* the programs do with their files, the sizes and the trees.                *)
THEOREM SysfileTypeCorrect == Spec => []TypeOK
<1>1. Typed => TypeOK
  <2> SUFFICES ASSUME Typed PROVE TypeOK
    OBVIOUS
  <2>1. \A f \in Fds : files[f].owner \in 0..NTasks /\ Len(files[f].buf) <= MAX_FILE
                       /\ files[f].pos \in 0..MAX_FILE
    BY DEF Typed, SlotOK, Content
  <2>2. \A p \in Paths : disk[p] \in {Absent, ADir} \/ Len(disk[p][2]) <= MAX_FILE
    BY ThingShape DEF Typed, Content
  <2> QED BY <2>1, <2>2 DEF TypeOK, Typed
<1> QED BY <1>1, InvHolds, PTL DEF Inv

(* The output of the program the shell waits for goes to the file the shell  *)
(* opened for it, although write_bytes_fd does not look at the owner of the  *)
(* slot: while the shell waits nothing closes the slot or opens another file *)
(* there, exits and kills of other programs and inherited outputs included.  *)
THEOREM RedirectStaysIntact == Spec => []RedirectIntact
<1>1. Lent => RedirectIntact
  BY DEF Lent, RedirectIntact
<1> QED BY <1>1, InvHolds, PTL DEF Inv

(* No accepted byte is lost: with any number of tasks, slots and paths, a    *)
(* path nobody has open names what the last write made of it, unless its      *)
(* sessions overlapped, a write-back failed or a writer was killed.          *)
THEOREM BytesKept == Spec => []NoLostBytes
<1>1. Kept => NoLostBytes
  BY DEF Kept, Safe, OnDisk, Open, Overlap, NoLostBytes
<1> QED BY <1>1, InvHolds, PTL DEF Inv
=============================================================================
