-------------------------------- MODULE Pipe --------------------------------
(***************************************************************************)
(* Kernel pipes (src/src/fs/pipe.rs), the pipe ends a task owns            *)
(* (Task::pipes_mask, out_dst and in_src of src/src/sched.rs) and the      *)
(* shell's pipelines (cmd_pipeline of src/src/shell.rs).                   *)
(*                                                                         *)
(* Everything done under one PIPE_LOCK section is one action.  A read or   *)
(* write that cannot progress sleeps and tries again, which changes        *)
(* nothing: its step is just not enabled.  Releasing the ends of a dying   *)
(* task takes one section per end (`closing').                             *)
(*                                                                         *)
(* A task slot is reused only after its exit path has closed its ends; the *)
(* earlier reuse that two CPUs make possible is a finding about Sched.     *)
(***************************************************************************)
EXTENDS RingBuffer, FiniteSets

CONSTANTS
    NPipes,      \* NPIPES
    NTasks,      \* task slots for user tasks
    MaxStages,   \* MAX_PIPELINE
    MaxRuns,     \* bound: pipelines the shell starts
    MaxBytes,    \* bound: bytes that enter a pipe before, and writes under way when, a write begins
    Messages,    \* what one write call may write
    Chunk,       \* bytes of a redirected write that go into one write_kernel
    ReadLens,    \* how much one read may ask for
    Abilities    \* what may happen besides reads, writes and exits; without
                 \* "spawnfail" the task table is large enough and programs load

Pipes == 0..(NPipes - 1)
Slots == 1..NTasks
Shell == 0
NONE == 2 * NPipes                      \* no redirect
ReadEnd(p) == 2 * p
WriteEnd(p) == 2 * p + 1
SlotOf(h) == h \div 2
IsWriteEnd(h) == h % 2 = 1
Handles == 0..(2 * NPipes - 1)

ASSUME PipeAssumption ==
    /\ NPipes \in Nat /\ NTasks \in Nat /\ MaxStages \in Nat \ {0} /\ MaxRuns \in Nat
    /\ MaxBytes \in Nat /\ Messages \subseteq Seq(Bytes) /\ ReadLens \subseteq 1..Cap
    /\ Chunk \in 1..Cap
    /\ \A m \in Messages : m # <<>>
    /\ Abilities \subseteq {"fork", "clone", "pipe", "kill", "spawnfail", "background"}

VARIABLES
    pipes,   \* PIPES
    tasks,   \* the part of TASKS that concerns pipes
    sh,      \* the shell inside cmd_pipeline
    runs,    \* pipelines started so far
    sent,    \* history: the bytes written to each pipe since it was opened
    rcvd,    \* history: the bytes read from it
    eof,     \* history: some reader of it was told end of file
    mixed    \* history: bytes were put on top of others, or a read left some

vars == <<pipes, tasks, sh, runs, sent, rcvd, eof, mixed>>
history == <<sent, rcvd, eof, mixed>>

FreshPipe == [used |-> FALSE, buf |-> FreshRing, head |-> 0, len |-> 0,
              readers |-> 0, writers |-> 0]

NoOp == [kind |-> "none"]

(* held is history: the ends the program was given, by spawn, fork or        *)
(* pipe(), and has not closed.  doomed is die_flag, signalled a pending      *)
(* signal with the default action, done means the program met the end of    *)
(* its input or a broken pipe.  forked is a bound: a program forks once and  *)
(* its child does not.                                                      *)
NoTask == [life |-> "Dead", group |-> 0, out |-> NONE, in |-> NONE, mask |-> {}, held |-> {},
           op |-> NoOp, doomed |-> FALSE, signalled |-> FALSE, closing |-> {},
           done |-> FALSE, forked |-> FALSE]

ShellIdle == [phase |-> "idle", stages |-> 0, ends |-> <<>>, next |-> 1, spawned |-> {},
              mask |-> {}]

Init ==
    /\ pipes = [p \in Pipes |-> FreshPipe]
    /\ tasks = [t \in Slots |-> NoTask]
    /\ sh = ShellIdle
    /\ runs = 0
    /\ sent = [p \in Pipes |-> <<>>]
    /\ rcvd = [p \in Pipes |-> <<>>]
    /\ eof = [p \in Pipes |-> FALSE] /\ mixed = [p \in Pipes |-> FALSE]

First(S) == CHOOSE i \in S : \A j \in S : i <= j
FreePipes == {p \in Pipes : ~pipes[p].used}
FreeSlots == {t \in Slots : tasks[t].life = "Dead"}
Live(t) == tasks[t].life = "Live"

-----------------------------------------------------------------------------
(* pipe.rs.                                                                 *)

\* open(), when the table has room.
Opened(p) ==
    /\ pipes' = [pipes EXCEPT ![p] = [FreshPipe EXCEPT !.used = TRUE, !.readers = 1, !.writers = 1]]
    /\ sent' = [sent EXCEPT ![p] = <<>>]
    /\ rcvd' = [rcvd EXCEPT ![p] = <<>>]
    /\ eof' = [eof EXCEPT ![p] = FALSE]
    /\ mixed' = [mixed EXCEPT ![p] = FALSE]

\* close(h): the table after one end is dropped.
CloseEnd(P, h) ==
    LET p == P[SlotOf(h)]
        q == IF IsWriteEnd(h) THEN [p EXCEPT !.writers = @ - 1] ELSE [p EXCEPT !.readers = @ - 1]
    IN  IF ~p.used \/ (IF IsWriteEnd(h) THEN p.writers ELSE p.readers) = 0 THEN P
        ELSE [P EXCEPT ![SlotOf(h)] = IF q.readers = 0 /\ q.writers = 0 THEN FreshPipe ELSE q]

\* Mutant: a new owner is not counted.
AcquireEndsUncounted(P, H) == P

\* acquire_end for every end in H.
AcquireEnds(P, H) ==
    [p \in Pipes |->
        IF ~P[p].used THEN P[p]
        ELSE [P[p] EXCEPT !.readers = @ + (IF ReadEnd(p) \in H THEN 1 ELSE 0),
                          !.writers = @ + (IF WriteEnd(p) \in H THEN 1 ELSE 0)]]

\* The bytes a pass moves.
Least(room, asked) == IF room < asked THEN room ELSE asked

\* One locked pass of write_kernel that moves n > 0 bytes: head counts writes and reads.
Pushed(p, data) ==
    [p EXCEPT !.buf = Store(p.buf, (p.head + p.len) % Cap, data),
              !.head = (p.head + Len(data)) % Cap, !.len = p.len + Len(data)]

\* Mutant: the oldest byte is looked for one cell further on.
PulledLate(p, n) == Load(p.buf, (p.head + Cap - p.len + 1) % Cap, n)

\* The bytes a read pass copies out.
Pulled(p, n) == Load(p.buf, (p.head + Cap - p.len) % Cap, n)

\* The pipe after a read pass that took n bytes.
Drained(p, n) == [p EXCEPT !.len = p.len - n, !.head = (p.head + n) % Cap]

\* Mutant: an empty pipe has ended.
AtEofWhenEmpty(p) == p.len = 0

\* A read that finds the pipe like this answers 0.
AtEof(p) == p.len = 0 /\ p.writers = 0

-----------------------------------------------------------------------------
(* System calls of a stage.                                                 *)

\* The handles task t may write to or read from.
Targets(t) ==
    {h \in tasks[t].held : IsWriteEnd(h)} \cup ({tasks[t].out} \ {NONE})
Sources(t) ==
    {h \in tasks[t].held : ~IsWriteEnd(h)} \cup ({tasks[t].in} \ {NONE})

Ring3(t) == Live(t) /\ tasks[t].op = NoOp /\ ~tasks[t].doomed

\* The tasks inside a write to pipe p.
Writers(p) == {t \in Slots : tasks[t].op.kind = "write" /\ SlotOf(tasks[t].op.h) = p}

\* The next chunk of a message, and what comes after it: a redirected write
\* is fed in chunks of a small buffer, pipe_write copies up to a whole ring.
Feeding(h, m, chunk) ==
    LET n == Least(chunk, Len(m))
    IN  [kind |-> "write", h |-> h, data |-> SubSeq(m, 1, n), more |-> SubSeq(m, n + 1, Len(m))]
ChunkOf(t, h) == IF h = tasks[t].out THEN Chunk ELSE Cap

\* write() redirected to a pipe, or pipe_write().
BeginWrite(t) ==
    /\ Ring3(t) /\ ~tasks[t].done
    /\ \E h \in Targets(t) : \E m \in Messages :
          /\ Len(sent[SlotOf(h)]) + Cardinality(Writers(SlotOf(h))) < MaxBytes
          /\ tasks' = [tasks EXCEPT ![t].op = Feeding(h, m, ChunkOf(t, h))]
    /\ UNCHANGED <<pipes, sh, runs, history>>

\* stdin_read() from a pipe, or pipe_read().
BeginRead(t) ==
    /\ Ring3(t) /\ ~tasks[t].done
    /\ \E h \in Sources(t) : \E n \in ReadLens :
          tasks' = [tasks EXCEPT ![t].op = [kind |-> "read", h |-> h, len |-> n]]
    /\ UNCHANGED <<pipes, sh, runs, history>>

\* What is left of task t's write when `rest' is left of its chunk.
AfterPass(t, rest) ==
    LET op == tasks[t].op
    IN  IF rest # <<>> THEN IF tasks[t].doomed THEN NoOp ELSE [op EXCEPT !.data = rest]
        ELSE IF op.more = <<>> THEN NoOp ELSE Feeding(op.h, op.more, ChunkOf(t, op.h))

(* A pass of write_kernel.  The next chunk follows at once; a doomed task    *)
(* that would sleep for the rest of a chunk never comes back to it.          *)
WriteStep(t) ==
    LET op == tasks[t].op
        p == SlotOf(op.h)
        n == Least(Cap - pipes[p].len, Len(op.data))
        rest == SubSeq(op.data, n + 1, Len(op.data))
    IN  /\ Live(t) /\ op.kind = "write"
        /\ \/ /\ ~pipes[p].used \/ pipes[p].readers = 0
              /\ tasks' = [tasks EXCEPT ![t].op = NoOp, ![t].done = TRUE]
              /\ UNCHANGED <<pipes, sent, mixed>>
           \/ /\ pipes[p].used /\ pipes[p].readers > 0 /\ n > 0
              /\ pipes' = [pipes EXCEPT ![p] = Pushed(pipes[p], SubSeq(op.data, 1, n))]
              /\ sent' = [sent EXCEPT ![p] = @ \o SubSeq(op.data, 1, n)]
              /\ mixed' = [mixed EXCEPT ![p] = @ \/ pipes[p].len > 0]
              /\ tasks' = [tasks EXCEPT ![t].op = AfterPass(t, rest)]
        /\ UNCHANGED <<sh, runs, rcvd, eof>>

\* A pass of read_kernel or read.
ReadStep(t) ==
    LET op == tasks[t].op
        p == SlotOf(op.h)
        n == Least(pipes[p].len, op.len)
    IN  /\ Live(t) /\ op.kind = "read"
        /\ \/ /\ ~pipes[p].used \/ pipes[p].readers = 0
              /\ tasks' = [tasks EXCEPT ![t].op = NoOp, ![t].done = TRUE]
              /\ UNCHANGED <<pipes, rcvd, eof, mixed>>
           \/ /\ pipes[p].used /\ pipes[p].readers > 0 /\ n > 0
              /\ pipes' = [pipes EXCEPT ![p] = Drained(pipes[p], n)]
              /\ rcvd' = [rcvd EXCEPT ![p] = @ \o Pulled(pipes[p], n)]
              /\ mixed' = [mixed EXCEPT ![p] = @ \/ n < pipes[p].len]
              /\ tasks' = [tasks EXCEPT ![t].op = NoOp]
              /\ UNCHANGED eof
           \/ /\ pipes[p].used /\ pipes[p].readers > 0 /\ AtEof(pipes[p])
              /\ eof' = [eof EXCEPT ![p] = TRUE]
              /\ tasks' = [tasks EXCEPT ![t].op = NoOp, ![t].done = TRUE]
              /\ UNCHANGED <<pipes, rcvd, mixed>>
        /\ UNCHANGED <<sh, runs, sent>>

\* pipe(): the ends are not recorded in the caller's mask.
SysPipe(t) ==
    /\ Ring3(t) /\ "pipe" \in Abilities /\ FreePipes # {}
    /\ Opened(First(FreePipes))
    /\ tasks' = [tasks EXCEPT ![t].held = @ \cup {ReadEnd(First(FreePipes)), WriteEnd(First(FreePipes))}]
    /\ UNCHANGED <<sh, runs>>

\* pipe_close() of an end the program has.
PipeClose(t) ==
    /\ Ring3(t) /\ "pipe" \in Abilities
    /\ \E h \in tasks[t].held :
          /\ tasks' = [tasks EXCEPT ![t].mask = @ \ {h}, ![t].held = @ \ {h}]
          /\ pipes' = CloseEnd(pipes, h)
    /\ UNCHANGED <<sh, runs, history>>

\* fork: the child has the parent's redirects and the ends in its mask.
Fork(t) ==
    /\ Ring3(t) /\ "fork" \in Abilities /\ FreeSlots # {} /\ ~tasks[t].forked
    /\ tasks' = [tasks EXCEPT ![t].forked = TRUE,
                              ![First(FreeSlots)] =
                    [NoTask EXCEPT !.life = "Live", !.group = First(FreeSlots),
                                   !.out = tasks[t].out, !.in = tasks[t].in, !.forked = TRUE,
                                   !.mask = tasks[t].mask, !.held = tasks[t].held]]
    /\ pipes' = AcquireEnds(pipes, tasks[t].mask)
    /\ UNCHANGED <<sh, runs, history>>

\* clone: a thread uses the redirects of its process and owns no end.
Clone(t) ==
    /\ Ring3(t) /\ "clone" \in Abilities /\ FreeSlots # {}
    /\ tasks' = [tasks EXCEPT ![First(FreeSlots)] =
                    [NoTask EXCEPT !.life = "Live", !.group = tasks[t].group,
                                   !.out = tasks[t].out, !.in = tasks[t].in]]
    /\ UNCHANGED <<pipes, sh, runs, history>>

-----------------------------------------------------------------------------
(* The end of a task.  The shell's wait for it ends here too.               *)

\* Mutant: the mask is not released.
LeavingWithEnds(ends) == [NoTask EXCEPT !.life = "Exiting"]

Leaving(ends) == [NoTask EXCEPT !.life = "Exiting", !.closing = ends]

(* exit(): the threads that are parked go at once, those running on another  *)
(* CPU are marked; the masks are emptied now and their ends closed later.   *)
Exit(t) ==
    LET others == {s \in Slots : s # t /\ Live(s) /\ tasks[s].group = tasks[t].group}
    IN  /\ Ring3(t)
        /\ \E parked \in SUBSET others :
              LET gone == parked \cup {t}
              IN  /\ tasks' = [s \in Slots |->
                                 CASE s = t -> Leaving(UNION {tasks[r].mask : r \in gone})
                                   [] s \in parked -> NoTask
                                   [] s \in others \ parked -> [tasks[s] EXCEPT !.doomed = TRUE]
                                   [] OTHER -> tasks[s]]
                  /\ sh' = [sh EXCEPT !.spawned = @ \ gone]
        /\ UNCHANGED <<pipes, runs, history>>

\* thread_exit() of a thread that is not the main one.
ThreadExit(t) ==
    /\ Ring3(t) /\ tasks[t].group # t
    /\ tasks' = [tasks EXCEPT ![t] = Leaving(tasks[t].mask)]
    /\ UNCHANGED <<pipes, sh, runs, history>>

\* A marked thread dies at its next interrupt.
DieMarked(t) ==
    /\ Live(t) /\ tasks[t].doomed
    /\ tasks' = [tasks EXCEPT ![t] = Leaving(tasks[t].mask)]
    /\ sh' = [sh EXCEPT !.spawned = @ \ {t}]
    /\ UNCHANGED <<pipes, runs, history>>

\* release_task_ends, one close at a time in the order of the mask bits.
CloseNext(t) ==
    /\ tasks[t].life = "Exiting"
    /\ \/ /\ tasks[t].closing # {}
          /\ pipes' = CloseEnd(pipes, First(tasks[t].closing))
          /\ tasks' = [tasks EXCEPT ![t].closing = @ \ {First(tasks[t].closing)}]
       \/ /\ tasks[t].closing = {}
          /\ tasks' = [tasks EXCEPT ![t] = NoTask]
          /\ UNCHANGED pipes
    /\ UNCHANGED <<sh, runs, history>>

\* Someone sends a stage a signal it does not handle.
Signal(t) ==
    /\ Live(t) /\ "kill" \in Abilities /\ ~tasks[t].signalled
    /\ tasks' = [tasks EXCEPT ![t].signalled = TRUE]
    /\ UNCHANGED <<pipes, sh, runs, history>>

\* deliver_pending_locked ends the task; nothing here releases its ends.
Terminate(t) ==
    /\ Live(t) /\ tasks[t].signalled
    /\ tasks' = [tasks EXCEPT ![t] = NoTask]
    /\ sh' = [sh EXCEPT !.spawned = @ \ {t}]
    /\ UNCHANGED <<pipes, runs, history>>

-----------------------------------------------------------------------------
(* The shell: cmd_pipeline and cleanup_pipeline.                            *)

ShStart ==
    /\ sh.phase = "idle" /\ runs < MaxRuns
    /\ \E n \in 2..MaxStages : sh' = [ShellIdle EXCEPT !.phase = "open", !.stages = n]
    /\ runs' = runs + 1
    /\ UNCHANGED <<pipes, tasks, history>>

\* The next connecting pipe, which the shell records in its own mask.
ShOpen ==
    /\ sh.phase = "open" /\ Len(sh.ends) < sh.stages - 1 /\ FreePipes # {}
    /\ LET p == First(FreePipes)
       IN  /\ Opened(p)
           /\ sh' = [sh EXCEPT !.ends = Append(@, p),
                               !.mask = @ \cup {ReadEnd(p), WriteEnd(p)}]
    /\ UNCHANGED <<tasks, runs>>

\* Where stage i reads from and writes to.
StageIn(i) == IF i = 1 THEN NONE ELSE ReadEnd(sh.ends[i - 1])
StageOut(i) == IF i = sh.stages THEN NONE ELSE WriteEnd(sh.ends[i])

\* Spawn the next stage; it owns the ends it is redirected to.
ShSpawn ==
    LET ends == {StageIn(sh.next), StageOut(sh.next)} \ {NONE}
        t == First(FreeSlots)
    IN  /\ sh.phase = "open" /\ Len(sh.ends) = sh.stages - 1
        /\ sh.next <= sh.stages /\ FreeSlots # {}
        /\ tasks' = [tasks EXCEPT ![t] =
                        [NoTask EXCEPT !.life = "Live", !.group = t, !.mask = ends, !.held = ends,
                                       !.out = StageOut(sh.next), !.in = StageIn(sh.next)]]
        /\ pipes' = AcquireEnds(pipes, ends)
        /\ sh' = [sh EXCEPT !.next = @ + 1, !.spawned = @ \cup {t}]
        /\ UNCHANGED <<runs, history>>

(* A pipe cannot be opened, or a stage not loaded or not spawned: the stages *)
(* already spawned are signalled and the shell's ends closed.               *)
ShFail ==
    /\ sh.phase = "open"
    /\ \/ Len(sh.ends) < sh.stages - 1 /\ FreePipes = {}
       \/ /\ Len(sh.ends) = sh.stages - 1 /\ sh.next <= sh.stages
          /\ "spawnfail" \in Abilities
    /\ tasks' = [t \in Slots |-> IF t \in sh.spawned /\ Live(t)
                                 THEN [tasks[t] EXCEPT !.signalled = TRUE] ELSE tasks[t]]
    /\ sh' = [sh EXCEPT !.phase = "clean"]
    /\ UNCHANGED <<pipes, runs, history>>

\* Every stage runs: the shell starts to drop its own ends.
ShRunning ==
    /\ sh.phase = "open" /\ sh.next > sh.stages
    /\ sh' = [sh EXCEPT !.phase = "drop"]
    /\ UNCHANGED <<pipes, tasks, runs, history>>

\* Mutant: the shell keeps the write ends.
ShDropReadEnds ==
    /\ sh.phase \in {"drop", "clean"} /\ sh.mask # {}
    /\ pipes' = IF IsWriteEnd(First(sh.mask)) THEN pipes ELSE CloseEnd(pipes, First(sh.mask))
    /\ sh' = [sh EXCEPT !.mask = @ \ {First(sh.mask)}]
    /\ UNCHANGED <<tasks, runs, history>>

\* The shell drops one of its ends; an end leaves its mask and is closed.
ShDrop ==
    /\ sh.phase \in {"drop", "clean"} /\ sh.mask # {}
    /\ pipes' = CloseEnd(pipes, First(sh.mask))
    /\ sh' = [sh EXCEPT !.mask = @ \ {First(sh.mask)}]
    /\ UNCHANGED <<tasks, runs, history>>

(* After cleanup, when every stage of the pipeline was waited for, or at     *)
(* once when the pipeline runs in the background.                           *)
ShDone ==
    /\ sh.mask = {}
    /\ sh.phase = "drop" => sh.spawned = {} \/ "background" \in Abilities
    /\ sh.phase \in {"drop", "clean"}
    /\ sh' = ShellIdle
    /\ UNCHANGED <<pipes, tasks, runs, history>>

ShStep == ShOpen \/ ShSpawn \/ ShFail \/ ShRunning \/ ShDrop \/ ShDone

-----------------------------------------------------------------------------
Step(t) == WriteStep(t) \/ ReadStep(t) \/ CloseNext(t) \/ DieMarked(t) \/ Terminate(t)

Next ==
    \/ ShStart \/ ShStep
    \/ \E t \in Slots :
          \/ Step(t) \/ BeginWrite(t) \/ BeginRead(t) \/ SysPipe(t) \/ PipeClose(t)
          \/ Fork(t) \/ Clone(t) \/ Exit(t) \/ ThreadExit(t) \/ Signal(t)

Spec == Init /\ [][Next]_vars

(***************************************************************************)
(* Fairness, for the run about progress: the scheduler lets a task that    *)
(* can run run (ReadyRuns of Sched) and wakes sleepers (SleepEnds), so     *)
(* every system call that can progress does, and so does the shell.  The   *)
(* programs are the filters of src/user/src/bin: they read their input     *)
(* until it ends and leave when it has, or when they have no input.        *)
(***************************************************************************)
ExitFinished(t) == (tasks[t].done \/ tasks[t].in = NONE) /\ Exit(t)

LiveSpec ==
    /\ Spec
    /\ WF_vars(ShStep)
    /\ \A t \in Slots : WF_vars(Step(t)) /\ WF_vars(BeginRead(t)) /\ WF_vars(ExitFinished(t))

-----------------------------------------------------------------------------
(* Properties.                                                              *)

PipeType == [used : BOOLEAN, buf : [Ring -> Bytes], head : Ring, len : 0..Cap,
             readers : Nat, writers : Nat]

OpType == [kind : {"none"}]
              \cup [kind : {"write"}, h : Handles, data : Seq(Bytes), more : Seq(Bytes)]
              \cup [kind : {"read"}, h : Handles, len : ReadLens]

TaskType == [life : {"Dead", "Live", "Exiting"}, group : Slots \cup {0},
             out : Handles \cup {NONE}, in : Handles \cup {NONE},
             mask : SUBSET Handles, held : SUBSET Handles, op : OpType,
             doomed : BOOLEAN, signalled : BOOLEAN, closing : SUBSET Handles,
             done : BOOLEAN, forked : BOOLEAN]

ShellType == [phase : {"idle", "open", "drop", "clean"}, stages : 0..MaxStages,
              ends : Seq(Pipes), next : 1..(MaxStages + 1), spawned : SUBSET Slots,
              mask : SUBSET Handles]

(* Every variable keeps its type: a ring holds at most Cap bytes, a count of *)
(* ends never drops below zero and a pipe not in use is empty.              *)
TypeOK ==
    /\ pipes \in [Pipes -> PipeType] /\ \A p \in Pipes : pipes[p].used \/ pipes[p] = FreshPipe
    /\ tasks \in [Slots -> TaskType]
    /\ sh \in ShellType
    /\ runs \in Nat
    /\ sent \in [Pipes -> Seq(Bytes)] /\ rcvd \in [Pipes -> Seq(Bytes)]
    /\ eof \in [Pipes -> BOOLEAN] /\ mixed \in [Pipes -> BOOLEAN]

\* Those who have end h: programs, exit paths that still have to close it, the shell.
Owners(h) ==
    {t \in Slots : h \in tasks[t].held \/ h \in tasks[t].closing}
        \cup (IF h \in sh.mask THEN {Shell} ELSE {})

(* "Task exit releases the task's ends": the counts are the numbers of       *)
(* owners, so a pipe is freed exactly when nobody has an end of it and none  *)
(* is leaked.                                                               *)
RefsMatch ==
    \A p \in Pipes : /\ pipes[p].readers = Cardinality(Owners(ReadEnd(p)))
                     /\ pipes[p].writers = Cardinality(Owners(WriteEnd(p)))

(* "The end's refcount must cover every task that holds the handle, or a     *)
(* shell dropping its own copies would free a live pipe" (acquire_end): an   *)
(* end that a task, an exit path or the shell has on record is counted, so   *)
(* nobody closes, or writes to, a pipe that was freed and opened anew.      *)
RefsCover ==
    LET recorded(h) == {t \in Slots : h \in tasks[t].mask \cup tasks[t].closing}
                          \cup (IF h \in sh.mask THEN {Shell} ELSE {})
    IN  \A p \in Pipes : /\ pipes[p].readers >= Cardinality(recorded(ReadEnd(p)))
                         /\ pipes[p].writers >= Cardinality(recorded(WriteEnd(p)))

(* "Downstream stages see a clean end-of-stream exactly when every upstream  *)
(* stage is gone": once a reader was told end of file no byte enters that    *)
(* pipe any more.                                                           *)
EofIsFinal == [][\A p \in Pipes : eof[p] /\ eof'[p] => sent'[p] = sent[p]]_vars

\* What readers got is the beginning of what writers wrote.
InOrder(p) ==
    /\ Len(rcvd[p]) <= Len(sent[p])
    /\ rcvd[p] = SubSeq(sent[p], 1, Len(rcvd[p]))

(* As long as every pass finds the ring empty and every read empties it, the *)
(* bytes come out in the order they went in: over messages of several chunks *)
(* and passes, several writers, and wherever in the ring the position stands.*)
StreamIntact == \A p \in Pipes : ~mixed[p] => InOrder(p)

(* "The classic Unix byte stream", without that condition.  Not true of the   *)
(* code: head counts what is written and what is read.                      *)
ByteStream == \A p \in Pipes : InOrder(p)

(* "A killed process can never wedge a pipeline": the shell always comes     *)
(* back from a pipeline.                                                    *)
PipelineEnds == sh.phase # "idle" ~> sh.phase = "idle"
=============================================================================
