------------------------------- MODULE Memory -------------------------------
(***************************************************************************)
(* Memory of GLM OS: physical frames and their share counts                 *)
(* (src/src/mem/frames.rs), address spaces with copy-on-write fork          *)
(* (src/src/mem/vmm.rs), TLB shootdown (src/src/mem/tlb.rs), sbrk           *)
(* (src/src/user/heap.rs), the loading of programs (src/src/user/task.rs,   *)
(* elf.rs, exec.rs) and the parts of sys_fork, sys_clone, exec and the exit *)
(* path (src/src/sched.rs) that call them.                                  *)
(*                                                                         *)
(* Every thread runs on a CPU of its own, so threads of one process share a *)
(* page table and not a TLB.  Page 1 is the program's image, the pages after*)
(* it are its heap.  Every page has a leaf table of its own.  A page holds  *)
(* one value, the last thread that wrote it.                               *)
(***************************************************************************)
EXTENDS Integers, Sequences, FiniteSets, FiniteSetsExt

CONSTANTS
    NFrames,
    NThreads,
    NPages,      \* page 1 is the image, the others are the heap arena
    KSTACK_PAGES,
    Abilities,   \* of "clone", "sbrk", "syscall", "exec", "spawn", "timeout"
    MaxOps,      \* bound: calls and stores
    MaxForks     \* bound: forks, and images built

ASSUME MemoryAssumption ==
    /\ {NFrames, NThreads, NPages, KSTACK_PAGES} \subseteq Nat \ {0}
    /\ {MaxOps, MaxForks} \subseteq Nat
    /\ NFrames > 3 + KSTACK_PAGES
    /\ Abilities \subseteq {"clone", "sbrk", "syscall", "exec", "spawn", "timeout"}

Frames == 1..NFrames
Threads == 1..NThreads
Pages == 1..NPages
Spaces == 1..(MaxForks + 1)

NoPage == [f |-> 0, w |-> FALSE, cow |-> FALSE]

(* What a thread is at: a page and its frame, a frame to replace it or the    *)
(* last page of a loop, and a space.                                        *)
Work(a, p, f, n, s) == [at |-> a, page |-> p, f |-> f, new |-> n, space |-> s]
Idle == Work("idle", 0, 0, 0, 0)

VARIABLES
    used,    \* BITMAP
    refs,    \* REFS: owners of a frame, less one
    mem,     \* what the frames hold
    pt,      \* leaf entries of every address space
    tab,     \* the frames of its tables, the root (0) and a leaf table per page
    tlb,     \* the translations each CPU has cached
    sp,      \* the address space of each thread, 0 if there is no such thread
    brk,     \* Task::heap_break, the last page of the heap
    kst,     \* the first frame of each thread's kernel stack
    pc,      \* what a thread is in the middle of
    ipi,     \* CPUs with a shootdown interrupt pending
    acks,    \* ACKS
    want,    \* history: what each process has in its pages
    lost,    \* history: frames that were given up on purpose (destroy_keep_root)
    harm,    \* history: the accidents that have happened
    ops, forks

mvars == <<used, refs, mem, pt, tab, tlb>>
tvars == <<sp, brk, kst, pc>>
hvars == <<want, lost, harm, ops, forks>>
vars == <<mvars, tvars, ipi, acks, hvars>>

Stack(b) == IF b = 0 THEN {} ELSE b..(b + KSTACK_PAGES - 1)

Init ==
    /\ used = 1..(3 + KSTACK_PAGES)
    /\ refs = [f \in Frames |-> 0]
    /\ mem = [f \in Frames |-> 0]
    /\ pt = [s \in Spaces |-> [p \in Pages |->
                IF s = 1 /\ p = 1 THEN [f |-> 3, w |-> TRUE, cow |-> FALSE] ELSE NoPage]]
    /\ tab = [s \in Spaces |-> [p \in 0..NPages |-> IF s = 1 /\ p < 2 THEN p + 1 ELSE 0]]
    /\ tlb = [t \in Threads |-> [p \in Pages |-> NoPage]]
    /\ sp = [t \in Threads |-> IF t = 1 THEN 1 ELSE 0]
    /\ brk = [t \in Threads |-> 1]
    /\ kst = [t \in Threads |-> IF t = 1 THEN 4 ELSE 0]
    /\ pc = [t \in Threads |-> Idle]
    /\ ipi = {} /\ acks = 0
    /\ want = [s \in Spaces |-> [p \in Pages |-> 0]]
    /\ lost = {} /\ harm = {}
    /\ ops = 0 /\ forks = 0

-----------------------------------------------------------------------------
(* Frames.                                                                  *)

\* alloc: the first free frame of the word, 0 if there is none.
Free(u) == Frames \ u
Alloc(u) == IF Free(u) = {} THEN 0 ELSE Min(Free(u))

\* The frames that n calls of alloc would give, from the lowest.
AllocMany(u, n) == {f \in Free(u) : Cardinality({g \in Free(u) : g < f}) < n}

\* Mutant: ref = 1 frees the frame, as if it counted the owners.
ReleaseEarly(m, f) ==
    IF m.refs[f] <= 1 THEN [m EXCEPT !.used = @ \ {f}, !.refs[f] = 0]
    ELSE [m EXCEPT !.refs[f] = @ - 1]

\* release: one owner less; the last one frees the frame.
Release(m, f) ==
    IF m.refs[f] = 0 THEN [m EXCEPT !.used = @ \ {f}] ELSE [m EXCEPT !.refs[f] = @ - 1]

\* release of every frame of a set.
ReleaseAll(m, fs) ==
    [used |-> m.used \ {f \in fs : m.refs[f] = 0},
     refs |-> [f \in Frames |-> IF f \in fs /\ m.refs[f] # 0 THEN m.refs[f] - 1 ELSE m.refs[f]]]
Now == [used |-> used, refs |-> refs]
Set(m) == used' = m.used /\ refs' = m.refs

(* Accidents.  These three spoil what pages hold; after any other, frames may *)
(* have two uses, and a behaviour makes no more calls.                      *)
Contained == {"kernel write", "acks", "stale read"}

\* A thread in user mode.  An interrupt may be on its way to its CPU.
Step(t) == sp[t] # 0 /\ pc[t] = Idle /\ harm \subseteq Contained
Call(t) == Step(t) /\ ops < MaxOps
Count == ops' = ops + 1
Siblings(t) == {u \in Threads \ {t} : sp[u] = sp[t]}

-----------------------------------------------------------------------------
(* Loads, stores and copy-on-write faults.                                  *)

\* The entry a CPU uses for a page: the cached one, or what it finds in the table.
Entry(t, p) == IF tlb[t][p] # NoPage THEN tlb[t][p] ELSE pt[sp[t]][p]

(* A sibling is between the halves of a fault on the page: what is written to *)
(* it now may miss the copy.                                                *)
Faulting(t, p) == \E u \in Siblings(t) : pc[u].at = "cow" /\ pc[u].page = p

\* A load from a mapped page leaves its translation in the cache.
Load(t, p) ==
    /\ Step(t) /\ tlb[t][p] = NoPage /\ pt[sp[t]][p] # NoPage
    /\ tlb' = [tlb EXCEPT ![t][p] = pt[sp[t]][p]]
    /\ UNCHANGED <<used, refs, mem, pt, tab, tvars, ipi, acks, hvars>>

(* A store to a page the CPU may write.  One that a CPU makes with a stale    *)
(* translation while a sibling's fork waits for it counts as before the fork. *)
Store(t, p) ==
    LET e == Entry(t, p)
        early == {pc[u].space : u \in {v \in Siblings(t) : pc[v].at \in {"shoot", "acks"}
                                          /\ pt[pc[v].space][p].f = e.f}}
    IN  /\ Call(t) /\ e.w
        /\ mem' = [mem EXCEPT ![e.f] = t]
        /\ tlb' = [tlb EXCEPT ![t][p] = e]
        /\ want' = [s \in Spaces |-> IF s \in early \cup {sp[t]}
                                     THEN [want[s] EXCEPT ![p] = t] ELSE want[s]]
        /\ harm' = IF Faulting(t, p) THEN harm \cup {"siblings"} ELSE harm
        /\ Count
        /\ UNCHANGED <<used, refs, pt, tab, tvars, ipi, acks, lost, forks>>

\* Mutant: a frame with another owner is kept.
SharedWithTwo(f) == refs[f] > 1

\* Whether a frame has another owner.
Shared(f) == refs[f] > 0

(* cow_resolve up to the copy: the entry is read, and a frame with other      *)
(* owners is copied.  Nothing is locked.                                     *)
CowFault(t, p) ==
    LET e == pt[sp[t]][p]
        new == Alloc(used)
    IN  /\ Call(t) /\ ~Entry(t, p).w /\ e.cow
        /\ Shared(e.f) => new # 0
        /\ IF Shared(e.f)
           THEN /\ used' = used \cup {new}
                /\ mem' = [mem EXCEPT ![new] = mem[e.f]]
           ELSE UNCHANGED <<used, mem>>
        /\ pc' = [pc EXCEPT ![t] = Work("cow", p, e.f, IF Shared(e.f) THEN new ELSE 0, 0)]
        /\ harm' = IF Faulting(t, p) THEN harm \cup {"siblings"} ELSE harm
        /\ Count
        /\ UNCHANGED <<refs, pt, tab, tlb, sp, brk, kst, ipi, acks, want, lost, forks>>

(* The rest of cow_resolve: the entry, the share of the old frame, invlpg on  *)
(* this CPU.  A sibling that has the old frame cached keeps it.              *)
CowResolve(t) ==
    LET c == pc[t]
    IN  /\ c.at = "cow"
        /\ pt' = [pt EXCEPT ![sp[t]][c.page] =
                     [f |-> IF c.new = 0 THEN c.f ELSE c.new, w |-> TRUE, cow |-> FALSE]]
        /\ Set(IF c.new = 0 THEN Now ELSE Release(Now, c.f))
        /\ tlb' = [tlb EXCEPT ![t][c.page] = NoPage]
        /\ pc' = [pc EXCEPT ![t] = Idle]
        /\ LET stale == {tlb[u][c.page] : u \in Siblings(t)} \ {NoPage}
           IN  harm' = harm \cup (IF c.new # 0 /\ (\E e \in stale : e.w) THEN {"siblings"} ELSE {})
                            \cup (IF c.new # 0 /\ (\E e \in stale : ~e.w) THEN {"stale read"} ELSE {})
        /\ UNCHANGED <<mem, tab, sp, brk, kst, ipi, acks, want, lost, ops, forks>>

(* A read of a file or a pipe into a page (write_user_bytes, copy_user_out):  *)
(* the kernel writes to the frame the table names, whatever the entry allows. *)
KernelWrite(t, p) ==
    LET e == pt[sp[t]][p]
    IN  /\ "syscall" \in Abilities /\ Call(t) /\ e.f # 0
        /\ mem' = [mem EXCEPT ![e.f] = t]
        /\ want' = [want EXCEPT ![sp[t]][p] = t]
        /\ harm' = harm \cup (IF e.cow /\ Shared(e.f) THEN {"kernel write"} ELSE {})
                        \cup (IF Faulting(t, p) THEN {"siblings"} ELSE {})
        /\ Count
        /\ UNCHANGED <<used, refs, pt, tab, tlb, tvars, ipi, acks, lost, forks>>

-----------------------------------------------------------------------------
(* sbrk: a loop over pages, under HEAP_LOCK.  The siblings run meanwhile.     *)

HeapFree == \A u \in Threads : pc[u].at \notin {"grow", "unmap"}

\* A call that moves the break up.
SbrkGrow(t) ==
    /\ "sbrk" \in Abilities /\ Call(t) /\ HeapFree
    /\ brk[t] < NPages
    /\ pc' = [pc EXCEPT ![t] = Work("grow", brk[t] + 1, 0, 0, 0)]
    /\ Count
    /\ UNCHANGED <<mvars, sp, brk, kst, ipi, acks, want, lost, harm, forks>>

\* The frame of a page, and that of a leaf table if there is none.
HeapFrames(s, p) == AllocMany(used, IF tab[s][p] = 0 THEN 2 ELSE 1)
CanMap(s, p) == /\ pt[s][p] = NoPage
                /\ Cardinality(HeapFrames(s, p)) = IF tab[s][p] = 0 THEN 2 ELSE 1

\* A page more: a fresh zeroed frame.  After the last one the break is set.
SbrkPage(t, last) ==
    LET s == sp[t]
        p == pc[t].page
        frames == HeapFrames(s, p)
    IN  /\ pc[t].at = "grow" /\ CanMap(s, p)
        /\ last \/ p < NPages
        /\ used' = used \cup frames
        /\ mem' = [mem EXCEPT ![Min(frames)] = 0]
        /\ pt' = [pt EXCEPT ![s][p] = [f |-> Min(frames), w |-> TRUE, cow |-> FALSE]]
        /\ tab' = [tab EXCEPT ![s][p] = IF @ = 0 THEN Max(frames) ELSE @]
        /\ brk' = IF last THEN [brk EXCEPT ![t] = p] ELSE brk
        /\ pc' = [pc EXCEPT ![t] = IF last THEN Idle ELSE Work("grow", p + 1, 0, 0, 0)]
        /\ want' = [want EXCEPT ![s][p] = 0]
        /\ UNCHANGED <<refs, tlb, sp, kst, ipi, acks, lost, harm, ops, forks>>

(* No frame for the page or its table, or a sibling has mapped it: what the   *)
(* call has mapped is rolled back, and the break stays.                      *)
SbrkFails(t) ==
    LET p == pc[t].page
    IN  /\ pc[t].at = "grow" /\ ~CanMap(sp[t], p)
        /\ pc' = [pc EXCEPT ![t] = IF p <= brk[t] + 1 THEN Idle
                                   ELSE Work("unmap", brk[t] + 1, 0, p - 1, 0)]
        /\ UNCHANGED <<mvars, sp, brk, kst, ipi, acks, hvars>>

(* A call that moves the break down.  The code stores it after the loop;      *)
(* nobody reads it before.                                                  *)
SbrkShrink(t, b) ==
    /\ "sbrk" \in Abilities /\ Call(t) /\ HeapFree
    /\ b < brk[t]
    /\ brk' = [brk EXCEPT ![t] = b]
    /\ pc' = [pc EXCEPT ![t] = Work("unmap", b + 1, 0, brk[t], 0)]
    /\ Count
    /\ UNCHANGED <<mvars, sp, kst, ipi, acks, want, lost, harm, forks>>

(* A page less, of a shrink or a rollback: unmapped and released.  Only this  *)
(* CPU forgets the translation; there is no shootdown.                      *)
SbrkUnmap(t) ==
    LET s == sp[t]
        p == pc[t].page
        e == pt[s][p]
    IN  /\ pc[t].at = "unmap"
        /\ pt' = [pt EXCEPT ![s][p] = NoPage]
        /\ tlb' = [tlb EXCEPT ![t][p] = NoPage]
        /\ IF e.f = 0 THEN UNCHANGED <<used, refs>> ELSE Set(Release(Now, e.f))
        /\ pc' = [pc EXCEPT ![t] = IF p >= pc[t].new THEN Idle
                                   ELSE Work("unmap", p + 1, 0, pc[t].new, 0)]
        /\ harm' = IF Faulting(t, p) \/ \E u \in Siblings(t) : tlb[u][p] # NoPage
                   THEN harm \cup {"shrink"} ELSE harm
        /\ UNCHANGED <<mem, tab, sp, brk, kst, ipi, acks, want, lost, ops, forks>>

Mapped(s) == {p \in Pages : pt[s][p].f # 0}

\* The frames a space gives back; the root is left behind on the exit path.
Teardown(m, s, root) ==
    LET data == ReleaseAll(m, {pt[s][p].f : p \in Mapped(s)})
    IN  [data EXCEPT !.used = @ \ ({tab[s][p] : p \in 1..NPages} \cup root)]

-----------------------------------------------------------------------------
(* Programs: build_user_image, exec and spawn.                              *)

\* new_user, then a frame for the page, then the table that maps it.
Image == AllocMany(used, 3)
Complete == Cardinality(Image) = 3
Dropped(s) == /\ pt' = [pt EXCEPT ![s] = [p \in Pages |-> NoPage]]
              /\ tab' = [tab EXCEPT ![s] = [p \in 0..NPages |-> 0]]

(* The image, zeroed and mapped at page 1 of a new space.  When the frames    *)
(* run out SpaceGuard destroys what is mapped by then: the frame that found   *)
(* no table is not.                                                         *)
Built(new) ==
    LET nth(k) == CHOOSE f \in Image : Cardinality({g \in Image : g < f}) = k
    IN  IF Complete
        THEN /\ mem' = [mem EXCEPT ![nth(1)] = 0]
             /\ pt' = [pt EXCEPT ![new][1] = [f |-> nth(1), w |-> TRUE, cow |-> FALSE]]
             /\ tab' = [tab EXCEPT ![new] = [p \in 0..NPages |-> CASE p = 0 -> nth(0)
                                                  [] p = 1 -> nth(2) [] OTHER -> 0]]
             /\ want' = [want EXCEPT ![new] = [p \in Pages |-> 0]]
             /\ forks' = forks + 1
        ELSE UNCHANGED <<mem, pt, tab, want, forks>>
BuildLeaks == IF Cardinality(Image) = 2 THEN {Max(Image)} ELSE {}

\* sys_exec up to the swap: the replacement is built before anything is touched.
ExecBuild(t) ==
    /\ "exec" \in Abilities /\ Call(t) /\ forks < MaxForks
    /\ Built(forks + 2)
    /\ used' = used \cup (IF Complete THEN Image ELSE BuildLeaks)
    /\ pc' = IF Complete THEN [pc EXCEPT ![t] = Work("exec", 0, 0, 0, forks + 2)]
             ELSE pc
    /\ harm' = IF ~Complete /\ BuildLeaks # {} THEN harm \cup {"image"} ELSE harm
    /\ Count
    /\ UNCHANGED <<refs, tlb, sp, brk, kst, ipi, acks, lost>>

(* exec_replace_image.  The main thread of a threaded process is refused and  *)
(* the replacement destroyed; any other thread is let through, and leaves the *)
(* old space to its siblings.                                               *)
ExecReplace(t, refused) ==
    LET new == pc[t].space
        old == sp[t]
    IN  /\ pc[t].at = "exec"
        /\ refused => Siblings(t) # {}
        /\ CASE refused -> Set(Teardown(Now, new, {tab[new][0]})) /\ Dropped(new)
             [] ~refused /\ Siblings(t) = {} -> Set(Teardown(Now, old, {tab[old][0]})) /\ Dropped(old)
             [] OTHER -> UNCHANGED <<used, refs, pt, tab>>
        /\ IF refused THEN UNCHANGED <<sp, brk, tlb>>
           ELSE /\ sp' = [sp EXCEPT ![t] = new]
                /\ brk' = [brk EXCEPT ![t] = 1]
                /\ tlb' = [tlb EXCEPT ![t] = [p \in Pages |-> NoPage]]
        /\ pc' = [pc EXCEPT ![t] = Idle]
        /\ UNCHANGED <<mem, kst, ipi, acks, hvars>>

(* spawn_user_image: the image, then a slot and a kernel stack under the      *)
(* scheduler lock.  Without them the space is dropped and not destroyed.      *)
SpawnRuns == {b \in Frames : Stack(b) \subseteq Free(used \cup Image)}
CanSpawn == /\ "spawn" \in Abilities /\ ops < MaxOps /\ forks < MaxForks
            /\ harm \subseteq Contained

SpawnImage(u) ==
    /\ CanSpawn /\ Complete /\ SpawnRuns # {}
    /\ sp[u] = 0 /\ kst[u] = 0 /\ u \notin ipi
    /\ Built(forks + 2)
    /\ used' = used \cup Image \cup Stack(Min(SpawnRuns))
    /\ kst' = [kst EXCEPT ![u] = Min(SpawnRuns)]
    /\ sp' = [sp EXCEPT ![u] = forks + 2]
    /\ brk' = [brk EXCEPT ![u] = 1]
    /\ tlb' = [tlb EXCEPT ![u] = [p \in Pages |-> NoPage]]
    /\ Count
    /\ UNCHANGED <<refs, pc, ipi, acks, lost, harm>>

SpawnFails ==
    /\ CanSpawn
    /\ ~Complete \/ SpawnRuns = {} \/ \A u \in Threads : sp[u] # 0
    /\ used' = used \cup (IF Complete THEN Image ELSE BuildLeaks)
    /\ harm' = IF Complete \/ BuildLeaks # {} THEN harm \cup {"image"} ELSE harm
    /\ Count
    /\ UNCHANGED <<refs, mem, pt, tab, tlb, tvars, ipi, acks, want, lost, forks>>

-----------------------------------------------------------------------------
(* fork.                                                                    *)

\* The entries after fork_cow shared the pages of `done': writable ones are downgraded in both.
Downgraded(s, done, new) ==
    LET cow(p) == IF pt[s][p].w THEN [f |-> pt[s][p].f, w |-> FALSE, cow |-> TRUE] ELSE pt[s][p]
    IN  [pt EXCEPT ![s] = [p \in Pages |-> IF p \in done THEN cow(p) ELSE pt[s][p]],
                   ![new] = [p \in Pages |-> IF p \in done THEN cow(p) ELSE NoPage]]

(* fork_cow: a root, then a leaf table and a shared frame per page.  If the   *)
(* frames run out midway, what it has done stays done and fork returns -1.    *)
(* Only the pages it downgrades are flushed from its own CPU: one that a      *)
(* sibling's fork has just downgraded may still be cached as writable.       *)
ForkCow(t) ==
    LET s == sp[t]
        new == forks + 2
        need == 1 + Cardinality(Mapped(s))
        got == AllocMany(used, need)
        done == {p \in Mapped(s) :
                    Cardinality({q \in Mapped(s) : q < p}) + 1 < Cardinality(got)}
        nth(k) == CHOOSE f \in got : Cardinality({g \in got : g < f}) = k
    IN  /\ Call(t) /\ forks < MaxForks
        /\ got # {}
        /\ used' = used \cup got
        /\ pt' = IF done = Mapped(s) THEN Downgraded(s, done, new)
                 ELSE [Downgraded(s, done, new) EXCEPT ![new] = [p \in Pages |-> NoPage]]
        /\ refs' = [f \in Frames |-> IF \E p \in done : pt[s][p].f = f THEN refs[f] + 1 ELSE refs[f]]
        /\ tab' = [tab EXCEPT ![new] = [p \in 0..NPages |->
                      IF done # Mapped(s) THEN 0 ELSE IF p = 0 THEN nth(0)
                      ELSE IF p \in done THEN nth(Cardinality({q \in done : q <= p})) ELSE 0]]
        /\ tlb' = [tlb EXCEPT ![t] = [p \in Pages |->
                                        IF p \in done /\ pt[s][p].w THEN NoPage ELSE @[p]]]
        /\ pc' = IF done = Mapped(s) THEN [pc EXCEPT ![t] = Work("shoot", 0, 0, 0, new)]
                 ELSE pc
        /\ want' = [want EXCEPT ![new] = want[s]]
        /\ harm' = harm \cup (IF done = Mapped(s) THEN {} ELSE {"no frames"})
                        \cup (IF \E u \in Siblings(t) : pc[u].at = "cow" THEN {"siblings"} ELSE {})
                        \cup (IF \E p \in Pages : tlb[t][p].w /\ ~pt[s][p].w THEN {"acks"} ELSE {})
        /\ forks' = forks + 1
        /\ Count
        /\ UNCHANGED <<mem, sp, brk, kst, ipi, acks, lost>>

(* shootdown_all_others: the counter is reset and every other CPU is          *)
(* interrupted; those that run no program have nothing to flush.  One that    *)
(* another CPU is still waiting for makes that wait end early or never.      *)
Shootdown(t) ==
    /\ pc[t].at = "shoot"
    /\ acks' = Cardinality({u \in Threads \ {t} : sp[u] = 0})
    /\ ipi' = (ipi \cap {t}) \cup {u \in Threads \ {t} : sp[u] # 0}
    /\ pc' = [pc EXCEPT ![t] = Work("acks", 0, 0, 0, pc[t].space)]
    /\ harm' = IF \E u \in Threads : pc[u].at = "acks" THEN harm \cup {"acks"} ELSE harm
    /\ UNCHANGED <<mvars, sp, brk, kst, want, lost, ops, forks>>

\* on_ipi: the CPU flushes its TLB and acknowledges.
OnIpi(t) ==
    /\ t \in ipi
    /\ ipi' = ipi \ {t}
    /\ acks' = acks + 1
    /\ tlb' = [tlb EXCEPT ![t] = [p \in Pages |-> NoPage]]
    /\ UNCHANGED <<used, refs, mem, pt, tab, tvars, hvars>>

\* Mutant: one acknowledgement is enough.
AckedOne == acks >= 1 \/ NThreads = 1

\* Every other CPU has acknowledged.
Acked == acks >= NThreads - 1

\* The wait is over, or is given up: fork goes on all the same.
ShootdownEnds(t) ==
    /\ pc[t].at = "acks"
    /\ Acked \/ "timeout" \in Abilities
    /\ pc' = [pc EXCEPT ![t] = Work("stack", 0, 0, 0, pc[t].space)]
    /\ harm' = IF Acked THEN harm ELSE harm \cup {"acks"}
    /\ UNCHANGED <<mvars, sp, brk, kst, ipi, acks, want, lost, ops, forks>>

\* alloc_contig: the first run of free frames, which it then marks one by one.
Runs == {b \in Frames : Stack(b) \subseteq Free(used)}

ScanRun(t) ==
    /\ pc[t].at = "stack"
    /\ Runs # {}
    /\ pc' = [pc EXCEPT ![t] = Work("mark", 0, Min(Runs), 0, pc[t].space)]
    /\ UNCHANGED <<mvars, sp, brk, kst, ipi, acks, hvars>>

\* The run is marked and the child starts on it, in a space of its own.
MarkRun(t, u) ==
    /\ pc[t].at = "mark"
    /\ sp[u] = 0 /\ kst[u] = 0 /\ u # t /\ u \notin ipi
    /\ used' = used \cup Stack(pc[t].f)
    /\ harm' = IF Stack(pc[t].f) \cap used # {} THEN harm \cup {"contig"} ELSE harm
    /\ kst' = [kst EXCEPT ![u] = pc[t].f]
    /\ sp' = [sp EXCEPT ![u] = IF pc[t].space = 0 THEN sp[t] ELSE pc[t].space]
    /\ brk' = [brk EXCEPT ![u] = brk[t]]
    /\ tlb' = [tlb EXCEPT ![u] = [p \in Pages |-> NoPage]]
    /\ pc' = [pc EXCEPT ![t] = Idle]
    /\ UNCHANGED <<refs, mem, pt, tab, ipi, acks, want, lost, ops, forks>>

\* No frames or no slot for the child: its space is destroyed (destroy).
ForkFails(t) ==
    LET s == pc[t].space
    IN  /\ pc[t].at = "stack"
        /\ Runs = {} \/ \A u \in Threads : sp[u] # 0
        /\ IF s = 0 THEN UNCHANGED <<used, refs, pt, tab>>
           ELSE Set(Teardown(Now, s, {tab[s][0]})) /\ Dropped(s)
        /\ pc' = [pc EXCEPT ![t] = Idle]
        /\ UNCHANGED <<mem, tlb, sp, brk, kst, ipi, acks, hvars>>

\* sys_clone: a thread in the same space, with a kernel stack of its own.
Clone(t) ==
    /\ "clone" \in Abilities /\ Call(t)
    /\ pc' = [pc EXCEPT ![t] = Work("stack", 0, 0, 0, 0)]
    /\ Count
    /\ UNCHANGED <<mvars, sp, brk, kst, ipi, acks, want, lost, harm, forks>>

\* Mutant: the space is torn down with threads still in it.
LastOwnerAlways(t) == TRUE

\* The last thread of a process drops its space.
LastOwner(t) == Siblings(t) = {}

(* The exit path: the last thread gives the space back and leaks its root;    *)
(* the CPU loads another table.                                             *)
Leave(t) ==
    LET s == sp[t]
    IN  /\ IF LastOwner(t)
           THEN /\ Set(Teardown(Now, s, {}))
                /\ lost' = lost \cup {tab[s][0]}
                /\ Dropped(s)
           ELSE UNCHANGED <<used, refs, pt, tab, lost>>
        /\ sp' = [sp EXCEPT ![t] = 0]
        /\ tlb' = [tlb EXCEPT ![t] = [p \in Pages |-> NoPage]]
        /\ Count
        /\ UNCHANGED <<mem, brk, kst, pc, ipi, acks, want, harm, forks>>

Exit(t) == Call(t) /\ Leave(t)

(* A store that cow_resolve finds resolved already, by a sibling whose flush  *)
(* did not reach this CPU, or has no frame for: the thread is killed.        *)
Unresolved(t, p) ==
    LET e == pt[sp[t]][p]
    IN  e.f # 0 /\ ~Entry(t, p).w /\ (~e.cow \/ (Shared(e.f) /\ Alloc(used) = 0))
Killed(t, p) == Call(t) /\ Unresolved(t, p) /\ Leave(t)

\* The reaper frees the kernel stack.
Reap(t) ==
    /\ sp[t] = 0 /\ kst[t] # 0
    /\ used' = used \ Stack(kst[t])
    /\ kst' = [kst EXCEPT ![t] = 0]
    /\ UNCHANGED <<refs, mem, pt, tab, tlb, sp, brk, pc, ipi, acks, hvars>>

Next ==
    \/ \E t \in Threads, p \in Pages : Load(t, p)
    \/ \E t \in Threads, p \in Pages : Store(t, p)
    \/ \E t \in Threads, p \in Pages : CowFault(t, p)
    \/ \E t \in Threads : CowResolve(t)
    \/ \E t \in Threads, p \in Pages : KernelWrite(t, p)
    \/ \E t \in Threads : SbrkGrow(t)
    \/ \E t \in Threads, last \in BOOLEAN : SbrkPage(t, last)
    \/ \E t \in Threads : SbrkFails(t)
    \/ \E t \in Threads, b \in Pages : SbrkShrink(t, b)
    \/ \E t \in Threads : SbrkUnmap(t)
    \/ \E t \in Threads : ExecBuild(t)
    \/ \E t \in Threads, refused \in BOOLEAN : ExecReplace(t, refused)
    \/ \E u \in Threads : SpawnImage(u)
    \/ SpawnFails
    \/ \E t \in Threads : ForkCow(t)
    \/ \E t \in Threads : Shootdown(t)
    \/ \E t \in Threads : OnIpi(t)
    \/ \E t \in Threads : ShootdownEnds(t)
    \/ \E t \in Threads : ScanRun(t)
    \/ \E t, u \in Threads : MarkRun(t, u)
    \/ \E t \in Threads : ForkFails(t)
    \/ \E t \in Threads : Clone(t)
    \/ \E t \in Threads, p \in Pages : Killed(t, p)
    \/ \E t \in Threads : Exit(t)
    \/ \E t \in Threads : Reap(t)

Spec == Init /\ [][Next]_vars

-----------------------------------------------------------------------------
\* Tables name frames, every count is small, and a thread lives in a space.
TypeOK ==
    /\ used \subseteq Frames
    /\ refs \in [Frames -> 0..(NPages * (MaxForks + 1))]
    /\ \A s \in Spaces : \A p \in Pages :
           pt[s][p].f \in 0..NFrames /\ (pt[s][p].w => ~pt[s][p].cow)
    /\ sp \in [Threads -> 0..(MaxForks + 1)] /\ brk \in [Threads -> Pages]
    /\ ipi \subseteq Threads /\ acks \in 0..NThreads

Live == {s \in Spaces : tab[s][0] # 0}
Owners(f) == {x \in Live \X Pages : pt[x[1]][x[2]].f = f}

(* Processes are isolated: what a thread finds in a page is what its own      *)
(* process wrote there last, whatever it shares with a parent or a child and  *)
(* whatever its CPU has cached, until one of the accidents has happened.      *)
Accidents == {"siblings", "kernel write", "shrink", "acks", "stale read", "contig", "no frames", "image"}
Isolation(accidents) ==
    harm \cap accidents = {} =>
        \A t \in Threads : sp[t] # 0 =>
            \A p \in Mapped(sp[t]) : mem[Entry(t, p).f] = want[sp[t]][p]
Isolated == Isolation(Accidents)

(* The share count of a frame is the number of pages that map it, less one,   *)
(* and a frame that is mapped is never free: no space can free a frame under  *)
(* another one (frames::release).                                           *)
RefsExact ==
    harm \subseteq Contained => \A f \in Frames :
        Owners(f) # {} => f \in used /\ refs[f] = Cardinality(Owners(f)) - 1

(* Every frame in use is a page, a table, a kernel stack, a copy in the       *)
(* making or a root that was given up, and has one such use.                 *)
Tables(f) == {x \in Spaces \X (0..NPages) : tab[x[1]][x[2]] = f}
Stacks(f) == {t \in Threads : f \in Stack(kst[t])}
Copies(f) == {t \in Threads : pc[t].at = "cow" /\ pc[t].new = f}
UsesOf(f) ==
    Cardinality(Tables(f)) + Cardinality(Stacks(f)) + Cardinality(Copies(f))
    + (IF f \in lost THEN 1 ELSE 0) + (IF Owners(f) # {} THEN 1 ELSE 0)
FramesAccounted(accidents) ==
    harm \cap accidents = {} => \A f \in Frames : UsesOf(f) = IF f \in used THEN 1 ELSE 0
FramesKept == FramesAccounted(Accidents \ Contained)

(* A CPU that may still write a page that parent and child share is about to  *)
(* be flushed, even if some wait for acknowledgements was given up or cut     *)
(* short.  Unless one was, the fork it is flushed for has not returned.       *)
NoStaleWrite ==
    harm \subseteq Contained => \A t \in Threads : \A p \in Pages :
        sp[t] # 0 /\ tlb[t][p].w /\ Shared(tlb[t][p].f) =>
            /\ t \in ipi \/ \E u \in Siblings(t) : pc[u].at = "shoot"
            /\ "acks" \in harm \/ \E u \in Siblings(t) : pc[u].at \in {"shoot", "acks"}

(* The same without its exemptions: for system calls into shared pages, for   *)
(* threads of one process that fault, for one that has read what a sibling    *)
(* then copies, for waits given up or cut short, for the search of            *)
(* alloc_contig against alloc, for a fork that fails.                        *)
SyscallsIsolated == Isolation(Accidents \ {"kernel write"})
ThreadsIsolated == Isolation(Accidents \ {"siblings"})
ReadsFresh == Isolation(Accidents \ {"stale read"})
ForksFlushed == Isolation(Accidents \ {"acks"})
FailedForkKeepsFrames == FramesAccounted(Accidents \ (Contained \cup {"no frames"}))
FailedBuildKeepsFrames == FramesAccounted(Accidents \ (Contained \cup {"image"}))
StacksDistinct == FramesAccounted(Accidents \ (Contained \cup {"contig"}))

\* A page that its table lets a thread write, its CPU lets it write: cow_resolve refuses no such store.
StoresResolve ==
    harm = {} => \A t \in Threads, p \in Pages :
        Step(t) /\ pt[sp[t]][p].w => Entry(t, p).w
=============================================================================
