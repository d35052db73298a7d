------------------------------- MODULE Fat32 -------------------------------
(***************************************************************************)
(* The writable FAT32 file system of GLM OS (src/src/fs/fat32.rs): the FAT  *)
(* cache, two FAT copies, directories and file chains on a disk.           *)
(*                                                                         *)
(* An operation runs under the lock of DISK, and its device writes are      *)
(* decided by what it finds at its start: starting it computes them as a    *)
(* sequence `plan', and every DevWrite makes the next one.  The power may   *)
(* fail between any two of them, after which the disk is mounted again, and *)
(* a device write may fail.                                                *)
(*                                                                         *)
(* A cluster of a file holds one value; a cluster of a directory holds      *)
(* slots.  A path is a name in the root or in a directory of the root.      *)
(* Long-name slots, attributes other than "directory" and time stamps are   *)
(* left out.                                                               *)
(***************************************************************************)
EXTENDS Integers, Sequences, FiniteSets, SequencesExt

CONSTANTS
    LastCluster,  \* clusters are numbered from 2, the root directory, to this
    SlotsPerSec,  \* directory slots in a sector
    SecPerClus,   \* sectors_per_cluster
    Names,        \* the names programs use, as sequences
    To83,         \* the 8.3 form of a name; another name if it is too long
    DirNames,     \* the names given to directories
    Contents,     \* what is written to files, one value per cluster
    MaxOps,       \* bound: operations
    MaxFaults,    \* bound: power and device failures
    FaultKinds    \* which of them happen: "power", "device"

Root == 2
Clusters == Root..LastCluster
FREE == 0
EOC == 1          \* any value that is neither FREE nor a cluster
PerCluster == SlotsPerSec * SecPerClus

Paths == {<<n>> : n \in Names \cup DirNames} \cup {<<d, n>> : d \in DirNames, n \in Names}

ASSUME Fat32Assumption ==
    /\ LastCluster \in Nat /\ LastCluster > Root
    /\ SlotsPerSec \in Nat /\ SlotsPerSec > 2 /\ SecPerClus \in Nat \ {0}
    /\ MaxOps \in Nat /\ MaxFaults \in Nat /\ FaultKinds \subseteq {"power", "device"}
    /\ \A n \in Names \cup DirNames : To83[n] \in Names \cup DirNames

\* A directory slot: the end marker (0x00), a tombstone (0xE5) or an entry.
Slot(kind, name, first, size) == [kind |-> kind, name |-> name, first |-> first, size |-> size]
End == Slot("end", <<>>, FREE, 0)
Tomb == Slot("tomb", <<>>, FREE, 0)
ZeroDir == [k \in 1..PerCluster |-> End]

\* What a path names.
Absent == <<"absent">>
ADir == <<"dir">>
AFile(content) == <<"file", content>>
Outcomes == {Absent, ADir} \cup {AFile(x) : x \in Contents}

VARIABLES
    cache,   \* Fat32::fat
    fats,    \* the two FAT copies on the disk
    data,    \* what the clusters hold
    plan,    \* device writes the current operation still has to make
    goal,    \* history: the path the operation changes and what it is to name
    want,    \* history: what each path may name
    harm,    \* history: "dangling", "leak", "clobber"
    ops, faults

vars == <<cache, fats, data, plan, goal, want, harm, ops, faults>>

NewFat == [c \in Clusters |-> IF c = Root THEN EOC ELSE FREE]
NoGoal == [path |-> <<>>, new |-> Absent]

Init ==
    /\ cache = NewFat
    /\ fats = [f \in 1..2 |-> NewFat]
    /\ data = [c \in Clusters |-> IF c = Root THEN ZeroDir ELSE <<>>]
    /\ plan = <<>> /\ goal = NoGoal
    /\ want = [p \in Paths |-> {Absent}]
    /\ harm = {}
    /\ ops = 0 /\ faults = 0

-----------------------------------------------------------------------------
(* Reading.                                                                 *)

\* The clusters of the chain that starts at c, with a guard against loops.
ChainOf(fat, c) ==
    LET step[n \in 0..Cardinality(Clusters), x \in Clusters] ==
            IF n = 0 \/ fat[x] \notin Clusters THEN <<x>> ELSE <<x>> \o step[n - 1, fat[x]]
    IN  IF c \in Clusters THEN step[Cardinality(Clusters), c] ELSE <<>>

\* The slots of a directory (dir_slots) by a given FAT.
SlotsBy(fat, c) ==
    LET chain == ChainOf(fat, c)
    IN  FlattenSeq([k \in 1..Len(chain) |->
                       IF Len(data[chain[k]]) = PerCluster THEN data[chain[k]] ELSE ZeroDir])

\* The entries before the end marker (parse_dir), by their position.
EntriesOf(slots) ==
    {i \in 1..Len(slots) : slots[i].kind \in {"file", "dir"}
                           /\ \A j \in 1..i : slots[j].kind # "end"}
Named(slots, name) == {i \in EntriesOf(slots) : slots[i].name = name}

\* The entry of a name in a directory.
Find(fat, c, name) ==
    LET slots == SlotsBy(fat, c)
    IN  IF Named(slots, name) = {} THEN End ELSE slots[Min(Named(slots, name))]

\* split_parent and parent_dir_cluster: the directory of a path's last component.
Leaf(path) == path[Len(path)]
ParentDir(fat, path) ==
    IF Len(path) = 1 THEN Slot("dir", <<>>, Root, 0) ELSE Find(fat, Root, path[1])

lookup(fat, path) ==
    LET dir == ParentDir(fat, path)
    IN  IF dir.kind = "dir" THEN Find(fat, dir.first, Leaf(path)) ELSE End

\* The content of an entry's chain, trimmed to its size (read_chain and cat).
ReadChain(fat, e) ==
    LET chain == ChainOf(fat, e.first)
    IN  FlattenSeq([k \in 1..Min({Len(chain), e.size}) |-> data[chain[k]]])

\* What a path names for ls and cat.
Shows(fat, path) ==
    LET e == lookup(fat, path)
    IN  CASE e.kind = "dir" -> ADir
          [] e.kind = "file" -> AFile(ReadChain(fat, e))
          [] OTHER -> Absent

-----------------------------------------------------------------------------
(* Device writes.  `failed' is what a failed FAT write leaves in the cache,  *)
(* `undo' what the operation still writes after the failure, and `skip'      *)
(* says that it ignores the failure.                                        *)

Write(t, c, v) ==
    [t |-> t, c |-> c, k |-> 0, v |-> v, failed |-> v, undo |-> <<>>, skip |-> FALSE]
OnFail(writes, undo) == [i \in DOMAIN writes |-> [writes[i] EXCEPT !.undo = undo]]

\* fat_set: the cache and the first copy, then the second copy.
FatSet(c, v) == <<Write("fat", c, v), Write("mirror", c, v)>>
FatSets(cs, v) == FlattenSeq([k \in 1..Len(cs) |-> FatSet(cs[k], v)])

\* Clusters given back with the errors ignored.
Rollback(cs) == LET w == FatSets(cs, FREE) IN [i \in DOMAIN w |-> [w[i] EXCEPT !.skip = TRUE]]

\* Mutant: a cluster is taken whatever the FAT says of it.
GrabAny(fat, n) == LET free == SetToSortSeq(Clusters \ {Root}, <)
                   IN  SubSeq(free, 1, Min({n, Len(free)}))

\* alloc_cluster: the lowest free clusters, and the write that takes one.
Grab(fat, n) ==
    LET free == SetToSortSeq({c \in Clusters : fat[c] = FREE}, <)
    IN  SubSeq(free, 1, Min({n, Len(free)}))
AllocCluster(c) == LET w == FatSet(c, EOC) IN [i \in DOMAIN w |-> [w[i] EXCEPT !.failed = FREE]]

\* free_chain.
FreeChain(fat, c) == FatSets(ChainOf(fat, c), FREE)

\* Mutant: nothing is given back when the disk is full.
WriteChainKeeps(cs, content) ==
    FlattenSeq([k \in 1..Len(cs) |->
        AllocCluster(cs[k]) \o (IF k > 1 THEN FatSet(cs[k - 1], cs[k]) ELSE <<>>)])
    \o (IF Len(cs) < Len(content) THEN <<>>
        ELSE [k \in 1..Len(cs) |-> Write("data", cs[k], <<content[k]>>)])

(* write_chain: cluster by cluster, each linked to the one before it, then   *)
(* the content; if there are too few clusters, they are given back.          *)
WriteChain(cs, content) ==
    FlattenSeq([k \in 1..Len(cs) |->
        OnFail(AllocCluster(cs[k]), Rollback(SubSeq(cs, 1, k - 1)))
        \o (IF k > 1 THEN FatSet(cs[k - 1], cs[k]) ELSE <<>>)])
    \o (IF Len(cs) < Len(content) THEN Rollback(cs)
        ELSE [k \in 1..Len(cs) |-> Write("data", cs[k], <<content[k]>>)])

(* patch_slot of slot i (from 0): the sector number of the slot indexes the  *)
(* clusters of the directory, whatever the number of sectors in a cluster.   *)
PatchSlot(chain, i, e) ==
    LET sec == i \div SlotsPerSec
    IN  IF sec >= Len(chain) THEN <<>>
        ELSE <<[Write("slot", chain[sec + 1], e) EXCEPT !.k = (i % SlotsPerSec) + 1]>>

(* take_dir_slot: a tombstone or the end marker, or the first slot of a      *)
(* cluster that is appended; no slot (-1) if the disk is full.               *)
TakeDirSlot(slots, chain, fat) ==
    LET usable == {i \in 1..Len(slots) : slots[i].kind \in {"end", "tomb"}}
        new == Grab(fat, 1)
    IN  IF usable # {} THEN [idx |-> Min(usable) - 1, chain |-> chain, writes |-> <<>>]
        ELSE IF new = <<>> THEN [idx |-> -1, chain |-> chain, writes |-> <<>>]
        ELSE [idx |-> Len(slots), chain |-> chain \o new,
              writes |-> AllocCluster(new[1]) \o <<Write("data", new[1], ZeroDir)>>
                         \o FatSet(Last(chain), new[1])]

-----------------------------------------------------------------------------
(* Operations.                                                              *)

Idle == plan = <<>> /\ ops < MaxOps /\ harm = {}

Begin(writes, path, new) ==
    /\ writes # <<>>
    /\ plan' = writes
    /\ goal' = [path |-> path, new |-> new]
    /\ ops' = ops + 1
    /\ UNCHANGED <<cache, fats, data, want, faults>>

\* to_83 and the search for a name that no slot has: the name, or name~1 to name~9.
Short(name, k) == IF k = 0 THEN To83[name] ELSE Append(To83[name], k)
ShortNameTaken(slots, name) == Named(slots, name) # {}
FreeName(slots, name) ==
    LET free == {k \in 0..9 : ~ShortNameTaken(slots, Short(name, k))}
    IN  IF free = {} THEN -1 ELSE Min(free)

(* write_file of a name the directory has, in slot i: the new chain, the old *)
(* one given back, then the slot.  A directory is replaced like a file.      *)
Replace(path, content, cs, dir, i) ==
    LET old == SlotsBy(cache, dir.first)[i]
        first == IF cs = <<>> THEN FREE ELSE cs[1]
    IN  /\ Begin(WriteChain(cs, content) \o FreeChain(cache, old.first)
                 \o PatchSlot(ChainOf(cache, dir.first), i - 1,
                              Slot("file", old.name, first, Len(content))),
                 path, AFile(content))
        /\ harm' = IF old.kind = "dir" THEN harm \cup {"clobber"} ELSE harm

(* write_file of a new name; a chain that was written stays allocated when   *)
(* no slot is left for its entry.                                           *)
Create(path, content, cs, dir) ==
    LET slots == SlotsBy(cache, dir.first)
        k == FreeName(slots, Leaf(path))
        name == Short(Leaf(path), k)
        fat == [c \in Clusters |-> IF c \in ToSet(cs) THEN EOC ELSE cache[c]]
        slot == TakeDirSlot(slots, ChainOf(cache, dir.first), fat)
        first == IF cs = <<>> THEN FREE ELSE cs[1]
        stored == SubSeq(path, 1, Len(path) - 1) \o <<name>>
    IN  CASE k < 0 -> Begin(WriteChain(cs, content) \o FatSets(cs, FREE), <<>>, Absent)
                      /\ harm' = harm
          [] k >= 0 /\ slot.idx < 0 ->
                Begin(WriteChain(cs, content), <<>>, Absent) /\ harm' = harm \cup {"leak"}
          [] OTHER -> Begin(WriteChain(cs, content) \o slot.writes
                            \o PatchSlot(slot.chain, slot.idx,
                                         Slot("file", name, first, Len(content))),
                            stored, AFile(content))
                      /\ harm' = harm

write_file(path, content) ==
    LET dir == ParentDir(cache, path)
        slots == SlotsBy(cache, dir.first)
        cs == Grab(cache, Len(content))
    IN  /\ Idle
        /\ dir.kind = "dir"
        /\ \/ /\ Len(cs) < Len(content)
              /\ Begin(WriteChain(cs, content), <<>>, Absent)
              /\ harm' = harm
           \/ /\ Len(cs) = Len(content)
              /\ \E i \in Named(slots, Leaf(path)) : Replace(path, content, cs, dir, i)
           \/ /\ Len(cs) = Len(content)
              /\ Named(slots, Leaf(path)) = {}
              /\ Create(path, content, cs, dir)

\* mkdir: a cluster with "." and "..", then the entry; given back if there is no entry.
mkdir(path) ==
    LET dir == ParentDir(cache, path)
        slots == SlotsBy(cache, dir.first)
        cs == Grab(cache, 1)
        fat == [c \in Clusters |-> IF c \in ToSet(cs) THEN EOC ELSE cache[c]]
        slot == TakeDirSlot(slots, ChainOf(cache, dir.first), fat)
        dots == [k \in 1..PerCluster |-> CASE k = 1 -> Slot("dir", <<".">>, cs[1], 0)
                                           [] k = 2 -> Slot("dir", <<"..">>, dir.first, 0)
                                           [] OTHER -> End]
        content == AllocCluster(cs[1]) \o <<Write("data", cs[1], dots)>>
        undo == Rollback(cs)
        entry == Slot("dir", To83[Leaf(path)], cs[1], 0)
    IN  /\ Idle
        /\ dir.kind = "dir"
        /\ ~ShortNameTaken(slots, To83[Leaf(path)])
        /\ cs # <<>>
        /\ \/ slot.idx < 0 /\ Begin(content \o undo, <<>>, Absent)
           \/ /\ slot.idx >= 0
              /\ Begin(content \o OnFail(slot.writes \o PatchSlot(slot.chain, slot.idx, entry), undo),
                       path, ADir)
        /\ harm' = harm

\* The chain of an entry is given back, then its slot becomes a tombstone.
Erase(path, i) ==
    LET dir == ParentDir(cache, path)
    IN  /\ Begin(FreeChain(cache, SlotsBy(cache, dir.first)[i].first)
                 \o PatchSlot(ChainOf(cache, dir.first), i - 1, Tomb),
                 path, Absent)
        /\ harm' = harm

\* Mutant: a directory is removed with what is in it.
rmdirFull(path) ==
    LET dir == ParentDir(cache, path)
        target == lookup(cache, path)
    IN  /\ Idle /\ dir.kind = "dir" /\ target.kind = "dir"
        /\ \E i \in Named(SlotsBy(cache, dir.first), Leaf(path)) : Erase(path, i)

rmdir(path) ==
    LET dir == ParentDir(cache, path)
        target == lookup(cache, path)
        content == SlotsBy(cache, target.first)
    IN  /\ Idle
        /\ dir.kind = "dir" /\ target.kind = "dir"
        /\ \A i \in EntriesOf(content) : content[i].name \in {<<".">>, <<"..">>}
        /\ \E i \in Named(SlotsBy(cache, dir.first), Leaf(path)) : Erase(path, i)

delete(path) ==
    LET dir == ParentDir(cache, path)
        slots == SlotsBy(cache, dir.first)
    IN  /\ Idle
        /\ dir.kind = "dir"
        /\ \E i \in Named(slots, Leaf(path)) : slots[i].kind = "file" /\ Erase(path, i)

-----------------------------------------------------------------------------
(* The device.                                                              *)

\* The entries of the tree a mount would find: the root's and its directories'.
Tree ==
    LET top == SlotsBy(fats[1], Root)
        in(c) == LET s == SlotsBy(fats[1], c)
                 IN  {<<c, i, s[i]>> : i \in {j \in EntriesOf(s) : s[j].name \notin {<<".">>, <<"..">>}}}
    IN  in(Root) \cup UNION {in(top[i].first) : i \in {j \in EntriesOf(top) : top[j].kind = "dir"}}
Owned(e) == ToSet(ChainOf(fats[1], e[3].first))
DanglingBy(fat) == \E e \in Tree : \E c \in Owned(e) : fat[c] = FREE

\* What the current operation will have done once its last write is made.
Settle(done) ==
    /\ goal' = IF done THEN NoGoal ELSE goal
    /\ want' = IF done /\ goal.path \in Paths THEN [want EXCEPT ![goal.path] = {goal.new}] ELSE want

\* The next device write.
DevWrite ==
    /\ plan # <<>>
    /\ LET w == Head(plan)
           fat == IF w.t = "fat" THEN [cache EXCEPT ![w.c] = w.v] ELSE cache
       IN  /\ cache' = fat
           /\ fats' = CASE w.t = "fat" -> [fats EXCEPT ![1] = fat]
                        [] w.t = "mirror" -> [fats EXCEPT ![2] = fat]
                        [] OTHER -> fats
           /\ data' = CASE w.t = "data" -> [data EXCEPT ![w.c] = w.v]
                        [] w.t = "slot" -> [data EXCEPT ![w.c][w.k] = w.v]
                        [] OTHER -> data
    /\ plan' = Tail(plan)
    /\ Settle(plan' = <<>>)
    /\ UNCHANGED <<harm, ops, faults>>

\* An operation that was cut short has changed its path or it has not.
CutShort ==
    /\ goal' = NoGoal
    /\ want' = IF goal.path \in Paths THEN [want EXCEPT ![goal.path] = @ \cup {goal.new}] ELSE want
    /\ harm' = IF DanglingBy(cache') THEN harm \cup {"dangling"} ELSE harm
    /\ faults' = faults + 1

\* The device refuses a write.
DevFail ==
    /\ "device" \in FaultKinds /\ faults < MaxFaults
    /\ plan # <<>>
    /\ LET w == Head(plan)
       IN  /\ cache' = IF w.t \in {"fat", "mirror"} THEN [cache EXCEPT ![w.c] = w.failed] ELSE cache
           /\ plan' = w.undo \o (IF w.skip THEN Tail(plan) ELSE <<>>)
    /\ CutShort
    /\ UNCHANGED <<fats, data, ops>>

\* The power fails; the next mount reads the first copy of the FAT (Fat32::new).
PowerFail ==
    /\ "power" \in FaultKinds /\ faults < MaxFaults
    /\ plan # <<>>
    /\ cache' = fats[1]
    /\ plan' = <<>>
    /\ CutShort
    /\ UNCHANGED <<fats, data, ops>>

Next ==
    \/ \E p \in Paths, x \in Contents : write_file(p, x)
    \/ \E d \in DirNames : mkdir(<<d>>)
    \/ \E d \in DirNames : rmdir(<<d>>)
    \/ \E p \in Paths : delete(p)
    \/ DevWrite
    \/ DevFail
    \/ PowerFail

Spec == Init /\ [][Next]_vars

-----------------------------------------------------------------------------
FatValues == Clusters \cup {FREE, EOC}

\* The cache and both copies hold FAT values, and every path has an admissible outcome.
TypeOK ==
    /\ cache \in [Clusters -> FatValues]
    /\ fats \in [1..2 -> [Clusters -> FatValues]]
    /\ DOMAIN data = Clusters
    /\ \A i \in DOMAIN plan : plan[i].c \in Clusters
    /\ want \in [Paths -> SUBSET Outcomes] /\ \A p \in Paths : want[p] # {}
    /\ ops \in 0..MaxOps /\ faults \in 0..MaxFaults

(* No two entries of the tree on the disk share a cluster, at any moment at  *)
(* which the power may fail, until an entry was left dangling (write_file,    *)
(* delete and rmdir give the chain back before they touch the entry).        *)
NoCrossLink ==
    harm \subseteq {"leak"} =>
        \A e, f \in Tree : e # f => Owned(e) \cap Owned(f) = {}

(* Between operations every cluster that is not free belongs to an entry,     *)
(* both copies of the FAT agree with the cache and nothing dangles, unless a  *)
(* fault cut an operation short or a file found no slot for its entry.        *)
NoLeak ==
    plan = <<>> /\ harm = {} /\ faults = 0 =>
        /\ {c \in Clusters : cache[c] # FREE} =
               ToSet(ChainOf(cache, Root)) \cup UNION {Owned(e) : e \in Tree}
        /\ fats[1] = cache /\ fats[2] = cache

(* Every operation is all or nothing: between operations each path names what *)
(* the last operation that succeeded on it wrote there, and one that was cut  *)
(* short has left the old or the new state, unless an entry was left dangling *)
(* or a directory was overwritten.                                          *)
ReadsBack ==
    plan = <<>> /\ harm \subseteq {"leak"} =>
        \A p \in Paths : Shows(cache, p) \in want[p]

(* After any failure the tree on the disk is sound: no entry refers to a      *)
(* cluster that is free.                                                    *)
CrashSafe == "dangling" \notin harm

(* A file that cannot be entered in its directory costs no space.            *)
FullDiskKeepsNothing == "leak" \notin harm

(* write_file never replaces a directory: "Create or replace a file".        *)
DirsKept == "clobber" \notin harm
=============================================================================
