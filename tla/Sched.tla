------------------------------- MODULE Sched -------------------------------
(***************************************************************************)
(* The preemptive SMP scheduler of GLM OS (src/src/sched.rs) with the      *)
(* per-CPU state of src/src/cpu/smp.rs and the interrupt epilogue of       *)
(* src/src/cpu/idt.rs.                                                     *)
(*                                                                         *)
(* Granularity.  Every section the code runs under SCHED_LOCK is one       *)
(* action, and what runs between two such sections is another one: a       *)
(* system call changes the task table (mode "task" -> "tail"), and only    *)
(* later does its CPU enter post_dispatch, park the context and pick a     *)
(* successor.  post_dispatch itself holds the lock across its reap and     *)
(* pick loops; one iteration is one action and the variable `lock' keeps   *)
(* every other user of the table out.                                      *)
(*                                                                         *)
(* Abstractions.  Time is the flag wake_due ("wake_at_ms has passed").     *)
(* Exit codes travel with the pid and are left out, and so are names,      *)
(* TLS, cwd, heap break, redirections and the bytes of the saved frames.   *)
(* Interrupt gates clear IF, so a CPU takes interrupts in mode "task" only.*)
(***************************************************************************)
EXTENDS Naturals, FiniteSets

CONSTANTS
    NCpus,      \* CPUs that came online (smp.rs, at most MAX_CPUS)
    MaxTasks,   \* MAX_TASKS: slots of the task table
    NDaemons,   \* resident kernel threads that sleep in a loop (kstat, jobd)
    LogSize,    \* entries of REAP_LOG (MAX_TASKS in the code)
    MaxPid,     \* bound: pids ever handed out
    MaxExec,    \* bound: images installed by exec
    MaxKeys,    \* bound: key presses waiting in the keyboard ring
    Signals,    \* the signal numbers that are sent
    Workload    \* the calls the running programs make (see Calls)

CPU_ANY == 255
SIGKILL == 9
NSIG == 16
MAX_CPUS == 8

\* The calls a configuration may choose from.
Calls == {"yield", "sleep", "readchar", "chan", "sock", "spawn", "fork", "clone",
          "wait", "waitany", "join", "joinany", "exit", "texit", "signal",
          "sigaction", "exec", "killzombie", "killkernel"}

ASSUME SizesAssumption ==
    /\ NCpus \in 1..MAX_CPUS /\ MaxTasks \in Nat /\ NDaemons \in Nat
    /\ NCpus + NDaemons + 1 <= MaxTasks
    /\ LogSize \in Nat \ {0} /\ MaxPid \in Nat /\ MaxExec \in Nat /\ MaxKeys \in Nat
    /\ MaxPid >= NCpus + NDaemons + 1
ASSUME WorkloadAssumption == Workload \subseteq Calls /\ Signals \subseteq 0..(NSIG - 1)

Cpus == 0..(NCpus - 1)
Slots == 0..(MaxTasks - 1)
LogIdx == 0..(LogSize - 1)
NoLock == CPU_ANY

Blocked == {"Sleeping", "BlockedInput", "BlockedChan", "BlockedSock",
            "WaitingChild", "BlockedJoin"}
States == {"Running", "Ready", "Zombie", "Dead"} \cup Blocked

VARIABLES
    tasks,      \* TASKS: [Slots -> Task]
    cur,        \* smp::CURRENT: the slot each CPU runs
    req,        \* smp::SWITCH_REQUESTED
    mode,       \* where each CPU is: "task", "tail", "hooks", "reap", "pick"
    ctx,        \* the pid whose kernel stack each CPU is really executing on
    lock,       \* the CPU inside post_dispatch, or NoLock
    nextPid,    \* NEXT_PID
    log,        \* REAP_LOG: a pid per entry, 0 = free
    keys,       \* key presses in the keyboard ring
    execs       \* images installed by exec so far

vars == <<tasks, cur, req, mode, ctx, lock, nextPid, log, keys, execs>>

Task == [pid : Nat, state : States, pinned_cpu : Nat, idle : BOOLEAN,
         is_user : BOOLEAN, parent : Nat, tgid : Nat, wait_target : Nat,
         join_target : Nat, die_flag : BOOLEAN, user_space : Nat,
         sig_pending : SUBSET Signals, sig_handlers : SUBSET Signals,
         wake_due : BOOLEAN, kids : SUBSET Nat, threads : SUBSET Nat]

-----------------------------------------------------------------------------
(* Task table helpers.  user_space is 0 for None, else the identity of the  *)
(* shared address space; the Arc count is the number of slots that hold it. *)
(* kids and threads are the program's own lists of the children it may yet  *)
(* wait for and the threads it may yet join; the kernel never reads them.   *)

DeadTask ==
    [pid |-> 0, state |-> "Dead", pinned_cpu |-> CPU_ANY, idle |-> FALSE,
     is_user |-> FALSE, parent |-> 0, tgid |-> 0, wait_target |-> 0,
     join_target |-> 0, die_flag |-> FALSE, user_space |-> 0,
     sig_pending |-> {}, sig_handlers |-> {}, wake_due |-> FALSE,
     kids |-> {}, threads |-> {}]

NewTask(pid, pin, parent) ==
    [DeadTask EXCEPT !.pid = pid, !.tgid = pid, !.state = "Ready",
                     !.pinned_cpu = pin, !.parent = parent]

NewUser(pid, parent) ==
    [NewTask(pid, CPU_ANY, parent) EXCEPT !.is_user = TRUE, !.user_space = pid]

Lowest(S) == CHOOSE s \in S : \A r \in S : s <= r

DeadSlots(T) == {s \in Slots : T[s].state = "Dead"}

Live(T) == {s \in Slots : T[s].state \notin {"Dead", "Zombie"}}

\* The slots of the live threads of thread group g, other than `me'.
Siblings(T, g, me) ==
    {s \in Slots : s # me /\ s \in Live(T) /\ T[s].is_user /\ T[s].tgid = g}

-----------------------------------------------------------------------------
(* finish_zombie_locked: the task becomes a zombie and drops its reference  *)
(* to the address space; a process wakes the parent parked in wait, a       *)
(* thread wakes the first sibling parked in join.                           *)

\* Mutant: only processes wake a waiter.
WaitersNoJoin(T, t) ==
    {w \in Slots : /\ t.pid = t.tgid /\ T[w].state = "WaitingChild" /\ T[w].pid = t.parent
                   /\ T[w].wait_target \in {0, t.pid}}

Waiters(T, t) ==
    IF t.pid = t.tgid
    THEN {w \in Slots : /\ T[w].state = "WaitingChild"
                        /\ T[w].pid = t.parent
                        /\ T[w].wait_target \in {0, t.pid}}
    ELSE {w \in Slots : /\ T[w].state = "BlockedJoin"
                        /\ T[w].tgid = t.tgid
                        /\ T[w].join_target \in {0, t.pid}}

WakeWaiter(T, w) ==
    [T EXCEPT ![w] = IF @.state = "WaitingChild"
                     THEN [@ EXCEPT !.state = "Ready", !.wait_target = 0]
                     ELSE [@ EXCEPT !.state = "Ready", !.join_target = 0]]

FinishZombie(T, s) ==
    LET Z == [T EXCEPT ![s] = [@ EXCEPT !.state = "Zombie", !.user_space = 0]]
        W == Waiters(Z, T[s])
    IN  IF W = {} THEN Z ELSE WakeWaiter(Z, Lowest(W))

\* Mutant: the sweep passes over blocked siblings.
SweepReadyOnly(T, me) ==
    [s \in Slots |->
        IF /\ T[me].is_user /\ s \in Siblings(T, T[me].tgid, me)
           /\ T[s].state = "Ready"
        THEN [T[s] EXCEPT !.state = "Zombie", !.user_space = 0]
        ELSE T[s]]

(* The sweep of exit_current: parked siblings are finished on the spot,     *)
(* running ones are marked for death.  Joiners of the group are parked      *)
(* siblings, so the sweep finishes them too; only the parent of a swept     *)
(* main thread can be woken.                                                *)
Sweep(T, me) ==
    LET G == IF T[me].is_user THEN Siblings(T, T[me].tgid, me) ELSE {}
        R == [s \in Slots |->
                IF s \notin G THEN T[s]
                ELSE IF T[s].state = "Running" THEN [T[s] EXCEPT !.die_flag = TRUE]
                ELSE [T[s] EXCEPT !.state = "Zombie", !.user_space = 0]]
        M == {s \in G : T[s].state # "Running" /\ T[s].pid = T[s].tgid}
        W == UNION {Waiters(R, T[s]) : s \in M}
    IN  IF W = {} THEN R ELSE WakeWaiter(R, Lowest(W))

-----------------------------------------------------------------------------
(* REAP_LOG: reap_log_push fills the first free entry and overwrites entry  *)
(* 0 when there is none; reap_log_take clears the entry it finds.           *)

FreeEntries(L) == {i \in LogIdx : L[i] = 0}

\* Mutant: the lazy reaper leaves no trace.
LogPushNothing(L, pid) == L

LogPush(L, pid) ==
    [L EXCEPT ![IF FreeEntries(L) = {} THEN 0 ELSE Lowest(FreeEntries(L))] = pid]

LogHas(L, pid) == \E i \in LogIdx : L[i] = pid

LogTake(L, pid) == [L EXCEPT ![Lowest({i \in LogIdx : L[i] = pid})] = 0]

-----------------------------------------------------------------------------
(* timer_duties: sleepers whose deadline has passed become Ready, the first *)
(* task waiting for input takes one key, and a running ring-3 task loses    *)
(* the CPU.  Kernel tasks are never preempted.                              *)

InputWaiters(T) == {s \in Slots : T[s].state = "BlockedInput"}

\* Mutant: a key is delivered without looking at the ring.
KeyTakenBlind(T) == InputWaiters(T) # {}

KeyTaken(T) == InputWaiters(T) # {} /\ keys > 0

\* Mutant: the tick preempts but wakes no sleeper.
TimerDutiesNoWake(T, c) ==
    [s \in Slots |->
        IF s = cur[c] /\ T[s].is_user /\ T[s].state = "Running"
        THEN [T[s] EXCEPT !.state = "Ready"] ELSE T[s]]

TimerDuties(T, c) ==
    [s \in Slots |->
        IF \/ T[s].state = "Sleeping" /\ T[s].wake_due
           \/ KeyTaken(T) /\ s = Lowest(InputWaiters(T))
           \/ s = cur[c] /\ T[s].is_user /\ T[s].state = "Running"
        THEN [T[s] EXCEPT !.state = "Ready", !.wake_due = FALSE]
        ELSE T[s]]

TimerRequests(T, c) == T[cur[c]].is_user /\ T[cur[c]].state = "Running"

(* pick_next: round robin by pid relative to the current task among the     *)
(* Ready tasks this CPU may run; the pinned idle task is the fallback.      *)

\* Mutants: the state test of pick_next is too wide.
EligibleParked(T, c) ==
    {s \in Slots : /\ T[s].state \notin {"Dead", "Zombie", "Running"} /\ s # cur[c]
                   /\ T[s].pinned_cpu \in {CPU_ANY, c}}
EligibleRunning(T, c) ==
    {s \in Slots : /\ T[s].state \in {"Ready", "Running"} /\ s # cur[c]
                   /\ T[s].pinned_cpu \in {CPU_ANY, c}}

Eligible(T, c) ==
    {s \in Slots : /\ T[s].state = "Ready" /\ s # cur[c]
                   /\ T[s].pinned_cpu \in {CPU_ANY, c}}

\* Mutant: the lowest pid always runs first.
RunsBeforeByPid(T, c, a, b) == T[a].pid <= T[b].pid

RunsBefore(T, c, a, b) ==
    LET after(s) == T[s].pid > T[cur[c]].pid
    IN  IF after(a) # after(b) THEN after(a) ELSE T[a].pid <= T[b].pid

Best(T, c) ==
    LET N == {s \in Eligible(T, c) : ~T[s].idle}
        I == {s \in Eligible(T, c) : T[s].idle}
    IN  IF N # {} THEN {s \in N : \A r \in N : RunsBefore(T, c, s, r)}
        ELSE {s \in I : \A r \in I : r <= s}

-----------------------------------------------------------------------------
(* Boot: the shell (slot 0) runs on CPU 0 beside its Ready idle task (slot  *)
(* 1) and the daemons; then every other CPU runs the idle task that         *)
(* spawn_ap_kidle created and ap_go handed it.                              *)

Kidle(c) == IF c = 0 THEN 1 ELSE NDaemons + 1 + c

BootTask(s) ==
    IF s = 0 THEN [NewTask(1, 0, 0) EXCEPT !.state = "Running"]
    ELSE IF s = 1 THEN [NewTask(2, 0, 1) EXCEPT !.idle = TRUE]
    ELSE IF s <= NDaemons + 1 THEN NewTask(s + 1, CPU_ANY, 1)
    ELSE IF s <= NDaemons + NCpus
    THEN [NewTask(s + 1, s - NDaemons - 1, 1) EXCEPT !.idle = TRUE, !.state = "Running"]
    ELSE DeadTask

Init ==
    /\ tasks = [s \in Slots |-> BootTask(s)]
    /\ cur = [c \in Cpus |-> IF c = 0 THEN 0 ELSE Kidle(c)]
    /\ req = [c \in Cpus |-> FALSE]
    /\ mode = [c \in Cpus |-> "task"]
    /\ ctx = [c \in Cpus |-> IF c = 0 THEN 1 ELSE Kidle(c) + 1]
    /\ lock = NoLock
    /\ nextPid = NCpus + NDaemons + 2
    /\ log = [i \in LogIdx |-> 0]
    /\ keys = 0
    /\ execs = 0

-----------------------------------------------------------------------------
(* System calls.  InTask(c, call): CPU c executes its current task's own    *)
(* code and the workload contains the call.                                 *)

Me(c) == tasks[cur[c]]
Free == lock = NoLock
InTask(c) == Free /\ mode[c] = "task"
User(c, call) == InTask(c) /\ call \in Workload /\ Me(c).is_user
Kernel(c, call) == InTask(c) /\ call \in Workload /\ ~Me(c).is_user /\ ~Me(c).idle
Shell(c, call) == Kernel(c, call) /\ Me(c).pinned_cpu # CPU_ANY

ToTail(c) == mode' = [mode EXCEPT ![c] = "tail"]
AskSwitch(c) == req' = [req EXCEPT ![c] = TRUE]

\* The current task parks itself in state st; the CPU switches later.
Park(c, st) ==
    /\ tasks' = [tasks EXCEPT ![cur[c]].state = st]
    /\ AskSwitch(c) /\ ToTail(c)
    /\ UNCHANGED <<cur, ctx, lock, nextPid, log, keys, execs>>

Yield(c) ==
    /\ InTask(c)
    /\ Me(c).idle \/ "yield" \in Workload
    /\ AskSwitch(c) /\ ToTail(c)
    /\ UNCHANGED <<tasks, cur, ctx, lock, nextPid, log, keys, execs>>

Sleep(c) ==
    /\ User(c, "sleep") \/ Kernel(c, "sleep")
    /\ Park(c, "Sleeping")

ReadChar(c) ==
    /\ User(c, "readchar")
    /\ IF keys > 0
       THEN /\ keys' = keys - 1 /\ ToTail(c)
            /\ UNCHANGED <<tasks, cur, req, ctx, lock, nextPid, log, execs>>
       ELSE Park(c, "BlockedInput")

\* mark_blocked_chan / mark_blocked_sock, then request_switch.
Block(c) ==
    \/ User(c, "chan") /\ Park(c, "BlockedChan")
    \/ User(c, "sock") /\ Park(c, "BlockedSock")

\* wake_chan_waiter / wake_sock_waiter on a slot a channel or socket recorded.
Wake(c, s) ==
    /\ \/ User(c, "chan") /\ tasks[s].state = "BlockedChan"
       \/ User(c, "sock") /\ tasks[s].state = "BlockedSock"
    /\ tasks' = [tasks EXCEPT ![s].state = "Ready"]
    /\ ToTail(c)
    /\ UNCHANGED <<cur, req, ctx, lock, nextPid, log, keys, execs>>

Adopt(m, t) ==
    IF t.pid = t.tgid THEN [m EXCEPT !.kids = @ \cup {t.pid}]
    ELSE [m EXCEPT !.threads = @ \cup {t.pid}]

(* The new task takes the first Dead slot and the next pid; a full table    *)
(* makes the call fail and changes nothing.                                 *)
Install(c, t) ==
    /\ \/ DeadSlots(tasks) = {} /\ UNCHANGED <<tasks, nextPid>>
       \/ /\ DeadSlots(tasks) # {} /\ nextPid <= MaxPid
          /\ tasks' = [tasks EXCEPT ![cur[c]] = Adopt(Me(c), t),
                                    ![Lowest(DeadSlots(tasks))] = t]
          /\ nextPid' = nextPid + 1
    /\ UNCHANGED <<cur, req, ctx, lock, log, keys, execs>>

\* spawn is a plain call of the shell, fork and clone are system calls.
Spawn(c) ==
    /\ Shell(c, "spawn")
    /\ Install(c, NewUser(nextPid, Me(c).pid))
    /\ UNCHANGED mode

Fork(c) ==
    /\ User(c, "fork")
    /\ Install(c, [NewUser(nextPid, Me(c).pid) EXCEPT
                      !.sig_handlers = Me(c).sig_handlers])
    /\ ToTail(c)

Clone(c) ==
    /\ User(c, "clone") /\ Me(c).user_space # 0
    /\ Install(c, [NewUser(nextPid, Me(c).tgid) EXCEPT
                      !.tgid = Me(c).tgid, !.user_space = Me(c).user_space,
                      !.sig_handlers = Me(c).sig_handlers])
    /\ ToTail(c)

(* exec_replace_image: refused when another task has the caller's pid as    *)
(* its thread group; else the caller's space and signal state are replaced. *)
ExecRefused(T, me) ==
    \E s \in Slots : T[s].pid # T[me].pid /\ T[s].tgid = T[me].pid /\ T[s].state # "Dead"

Exec(c) ==
    /\ User(c, "exec") /\ ToTail(c)
    /\ \/ ExecRefused(tasks, cur[c]) /\ UNCHANGED <<tasks, execs>>
       \/ /\ ~ExecRefused(tasks, cur[c]) /\ execs < MaxExec
          /\ execs' = execs + 1
          /\ tasks' = [tasks EXCEPT ![cur[c]] =
                          [@ EXCEPT !.user_space = MaxPid + execs + 1,
                                    !.sig_pending = {}, !.sig_handlers = {}]]
    /\ UNCHANGED <<cur, req, ctx, lock, nextPid, log, keys>>

(* sys_wait(target): the code of a zombie child, else of a reaped pid in    *)
(* the log (only when a target is named), else the caller parks.            *)
WaitFor(c, target) ==
    LET mine == {s \in Slots : /\ tasks[s].state = "Zombie" /\ tasks[s].parent = Me(c).pid
                               /\ tasks[s].pid = tasks[s].tgid
                               /\ target \in {0, tasks[s].pid}}
        forget == IF target = 0 THEN {} ELSE {target}
    IN  /\ ToTail(c)
        /\ IF mine # {} \/ (target # 0 /\ LogHas(log, target))
           THEN /\ log' = IF mine = {} THEN LogTake(log, target) ELSE log
                /\ tasks' = [tasks EXCEPT ![cur[c]].kids = @ \ forget]
                /\ UNCHANGED req
           ELSE /\ tasks' = [tasks EXCEPT ![cur[c]] =
                                [@ EXCEPT !.state = "WaitingChild", !.wait_target = target,
                                          !.kids = Me(c).kids \ forget]]
                /\ AskSwitch(c) /\ UNCHANGED log
        /\ UNCHANGED <<cur, ctx, lock, nextPid, keys, execs>>

\* A program waits once for a child it created (fg_wait_all in the shell).
Wait(c) ==
    /\ User(c, "wait") \/ Kernel(c, "wait")
    /\ \E target \in Me(c).kids : WaitFor(c, target)

WaitAny(c) == User(c, "waitany") /\ Me(c).kids # {} /\ WaitFor(c, 0)

(* sys_join(target): reap a zombie sibling, else take a reaped pid from the *)
(* log, else fail when no live sibling matches, else the caller parks.      *)
JoinFor(c, target) ==
    LET match(s) == target \in {0, tasks[s].pid}
        dead == {s \in Slots : /\ tasks[s].state = "Zombie" /\ tasks[s].tgid = Me(c).tgid
                               /\ tasks[s].pid # Me(c).pid /\ match(s)}
        alive == {s \in Siblings(tasks, Me(c).tgid, cur[c]) : match(s)}
        forget == IF target = 0 THEN {} ELSE {target}
    IN  /\ ToTail(c)
        /\ UNCHANGED <<cur, ctx, lock, nextPid, keys, execs>>
        /\ IF dead # {}
           THEN /\ log' = LogPush(log, tasks[Lowest(dead)].pid)
                /\ tasks' = [tasks EXCEPT ![cur[c]].threads = @ \ forget,
                                          ![Lowest(dead)] = DeadTask]
                /\ UNCHANGED req
           ELSE IF (target # 0 /\ LogHas(log, target)) \/ alive = {}
           THEN /\ log' = IF target # 0 /\ LogHas(log, target) THEN LogTake(log, target) ELSE log
                /\ tasks' = [tasks EXCEPT ![cur[c]].threads = @ \ forget]
                /\ UNCHANGED req
           ELSE /\ tasks' = [tasks EXCEPT ![cur[c]] =
                                [@ EXCEPT !.state = "BlockedJoin", !.join_target = target,
                                          !.threads = Me(c).threads \ forget]]
                /\ AskSwitch(c) /\ UNCHANGED log

\* A thread joins, once, a sibling thread it created.
Join(c) ==
    /\ User(c, "join")
    /\ \E target \in Me(c).threads : JoinFor(c, target)

JoinAny(c) == User(c, "joinany") /\ JoinFor(c, 0)

\* exit_current up to the release of SCHED_LOCK; the exit hooks come next.
Exit(c) ==
    /\ User(c, "exit")
    /\ tasks' = FinishZombie(Sweep(tasks, cur[c]), cur[c])
    /\ mode' = [mode EXCEPT ![c] = "hooks"]
    /\ UNCHANGED <<cur, req, ctx, lock, nextPid, log, keys, execs>>

\* sys_texit_current: the main thread exits the whole process.
Texit(c) ==
    /\ User(c, "texit")
    /\ tasks' = IF Me(c).pid = Me(c).tgid
                THEN FinishZombie(Sweep(tasks, cur[c]), cur[c])
                ELSE FinishZombie(tasks, cur[c])
    /\ mode' = [mode EXCEPT ![c] = "hooks"]
    /\ UNCHANGED <<cur, req, ctx, lock, nextPid, log, keys, execs>>

\* Windows, files and pipe ends are released without SCHED_LOCK.
Hooks(c) ==
    /\ mode[c] = "hooks"
    /\ AskSwitch(c) /\ ToTail(c)
    /\ UNCHANGED <<tasks, cur, ctx, lock, nextPid, log, keys, execs>>

(* send_signal: queues the signal for a live user task other than the       *)
(* caller and makes a parked task Ready.                                    *)
SendSignal(c, s, sig) ==
    /\ User(c, "signal") \/ Kernel(c, "signal")
    /\ s \in Live(tasks) /\ tasks[s].pid # Me(c).pid /\ tasks[s].is_user
    /\ tasks' = [tasks EXCEPT ![s] =
                    [@ EXCEPT !.sig_pending = tasks[s].sig_pending \cup {sig},
                              !.state = IF tasks[s].state \in Blocked THEN "Ready"
                                        ELSE tasks[s].state,
                              !.wake_due = FALSE]]
    /\ mode' = [mode EXCEPT ![c] = IF Me(c).is_user THEN "tail" ELSE @]
    /\ UNCHANGED <<cur, req, ctx, lock, nextPid, log, keys, execs>>

SigAction(c, sig) ==
    /\ User(c, "sigaction") /\ sig # SIGKILL
    /\ \E on \in BOOLEAN :
          tasks' = [tasks EXCEPT ![cur[c]].sig_handlers =
                        IF on THEN @ \cup {sig} ELSE @ \ {sig}]
    /\ ToTail(c)
    /\ UNCHANGED <<cur, req, ctx, lock, nextPid, log, keys, execs>>

(* The shell's kill command sends a signal to a live user task (see         *)
(* SendSignal) and calls sched::kill on the others: a zombie is reaped, a   *)
(* kernel task's slot is freed unless the task is running.                  *)
KillZombie(c, s) ==
    /\ Shell(c, "killzombie")
    /\ tasks[s].state = "Zombie" /\ tasks[s].pid # Me(c).pid
    /\ log' = LogPush(log, tasks[s].pid)
    /\ tasks' = [tasks EXCEPT ![s] = DeadTask]
    /\ UNCHANGED <<cur, req, mode, ctx, lock, nextPid, keys, execs>>

KillKernel(c, s) ==
    /\ Shell(c, "killkernel")
    /\ tasks[s].state \notin {"Dead", "Zombie", "Running"}
    /\ ~tasks[s].is_user /\ tasks[s].pid # Me(c).pid
    /\ tasks' = [tasks EXCEPT ![s] = DeadTask]
    /\ UNCHANGED <<cur, req, mode, ctx, lock, nextPid, log, keys, execs>>

-----------------------------------------------------------------------------
(* post_dispatch.  Enter does the timer duties, finishes a task marked for  *)
(* death, decides whether to switch, and parks the current context.         *)

\* Mutants: the current context is reaped too; a zombie waits for its parent.
ZombiesAndSelf(T, me) == {s \in Slots : T[s].state = "Zombie"}
ZombiesOfTheDead(T, me) ==
    {s \in Slots : /\ T[s].state = "Zombie" /\ T[s].pid # T[me].pid
                   /\ \A r \in Live(T) : T[r].pid # T[s].parent}

Zombies(T, me) == {s \in Slots : T[s].state = "Zombie" /\ T[s].pid # T[me].pid}

Enter(c, timer) ==
    LET me == cur[c]
        A == IF timer THEN TimerDuties(tasks, c) ELSE tasks
        B == IF A[me].die_flag /\ A[me].state = "Running" THEN FinishZombie(A, me) ELSE A
        want == req[c] \/ (timer /\ TimerRequests(tasks, c)) \/ B[me].state # "Running"
        P == IF B[me].state = "Running" THEN [B EXCEPT ![me].state = "Ready"] ELSE B
    IN  /\ Free
        /\ req' = [req EXCEPT ![c] = FALSE]
        /\ IF want
           THEN /\ tasks' = P
                /\ lock' = c
                /\ mode' = [mode EXCEPT ![c] = IF Zombies(P, me) = {} THEN "pick" ELSE "reap"]
           ELSE /\ tasks' = B
                /\ mode' = [mode EXCEPT ![c] = "task"]
                /\ UNCHANGED lock
        /\ UNCHANGED <<cur, ctx, nextPid, log, execs>>

Tail(c) == mode[c] = "tail" /\ Enter(c, FALSE) /\ UNCHANGED keys

TimerIrq(c) ==
    /\ mode[c] = "task" /\ Enter(c, TRUE)
    /\ keys' = IF KeyTaken(tasks) THEN keys - 1 ELSE keys

\* Any other interrupt: keyboard (which adds a key), NIC, IPI.
OtherIrq(c) ==
    /\ mode[c] = "task" /\ Enter(c, FALSE)
    /\ keys' \in {k \in {keys, keys + 1} : k <= MaxKeys}

\* One iteration of the loop that reaps zombies other than the current task.
Reap(c) ==
    LET z == Lowest(Zombies(tasks, cur[c]))
    IN  /\ mode[c] = "reap" /\ Zombies(tasks, cur[c]) # {}
        /\ tasks' = [tasks EXCEPT ![z] = DeadTask]
        /\ log' = LogPush(log, tasks[z].pid)
        /\ mode' = [mode EXCEPT ![c] =
                        IF Zombies(tasks, cur[c]) = {z} THEN "pick" ELSE "reap"]
        /\ UNCHANGED <<cur, req, ctx, lock, nextPid, keys, execs>>

(* deliver_pending_locked: the lowest pending signal of the candidate.  It  *)
(* terminates the task when it is SIGKILL or has no handler, and also when  *)
(* handlers nest too deep or the user stack cannot take the frame.          *)
Pending(t) == t.is_user /\ t.sig_pending # {} /\ t.user_space # 0

MayHandle(t) ==
    Pending(t) => /\ Lowest(t.sig_pending) # SIGKILL
                  /\ Lowest(t.sig_pending) \in t.sig_handlers

Undelivered(t) ==
    IF Pending(t) THEN t.sig_pending \ {Lowest(t.sig_pending)} ELSE t.sig_pending

Resume(c, n) ==
    /\ tasks' = [tasks EXCEPT ![n] =
                    [@ EXCEPT !.state = "Running",
                              !.sig_pending = Undelivered(tasks[n])]]
    /\ cur' = [cur EXCEPT ![c] = n]
    /\ ctx' = [ctx EXCEPT ![c] = tasks[n].pid]
    /\ mode' = [mode EXCEPT ![c] = "task"]
    /\ lock' = NoLock

\* One iteration of the pick loop, or its end when there is no candidate.
Pick(c) ==
    /\ mode[c] = "pick"
    /\ \/ \E n \in Best(tasks, c) :
            \/ MayHandle(tasks[n]) /\ Resume(c, n)
            \/ /\ Pending(tasks[n])
               /\ tasks' = FinishZombie(tasks, n)
               /\ UNCHANGED <<cur, ctx, mode, lock>>
       \/ /\ Best(tasks, c) = {}
          /\ tasks' = [tasks EXCEPT ![cur[c]].state = "Running"]
          /\ mode' = [mode EXCEPT ![c] = "task"]
          /\ lock' = NoLock
          /\ UNCHANGED <<cur, ctx>>
    /\ UNCHANGED <<req, nextPid, log, keys, execs>>

\* Time passes: the deadline of a sleeping task is reached.
Clock(s) ==
    /\ tasks[s].state = "Sleeping" /\ ~tasks[s].wake_due
    /\ tasks' = [tasks EXCEPT ![s].wake_due = TRUE]
    /\ UNCHANGED <<cur, req, mode, ctx, lock, nextPid, log, keys, execs>>

-----------------------------------------------------------------------------
Syscall(c) ==
    \/ Yield(c) \/ Sleep(c) \/ ReadChar(c) \/ Block(c) \/ Spawn(c) \/ Fork(c)
    \/ Clone(c) \/ Exec(c) \/ Wait(c) \/ WaitAny(c) \/ Join(c) \/ JoinAny(c)
    \/ Exit(c) \/ Texit(c)
    \/ \E s \in Slots : Wake(c, s) \/ KillZombie(c, s) \/ KillKernel(c, s)
    \/ \E s \in Slots, sig \in Signals : SendSignal(c, s, sig)
    \/ \E sig \in Signals : SigAction(c, sig)

Dispatch(c) == Tail(c) \/ TimerIrq(c) \/ OtherIrq(c) \/ Reap(c) \/ Pick(c) \/ Hooks(c)

Next == (\E c \in Cpus : Syscall(c) \/ Dispatch(c)) \/ (\E s \in Slots : Clock(s))

Spec == Init /\ [][Next]_vars

(***************************************************************************)
(* Fairness.  An interrupt return always reaches post_dispatch and its     *)
(* loops end (weak fairness; strong for Tail because other CPUs take the   *)
(* lock in between), the LAPIC timer interrupt stays latched until the CPU *)
(* can take it (strong), an idle task always yields again, the kernel's    *)
(* own threads park sooner or later (the shell sleeps in its input loop,   *)
(* daemons sleep in theirs), and time passes.  Nothing is assumed of       *)
(* ring-3 programs, of other interrupts or of key presses.                 *)
(***************************************************************************)
IdleYield(c) == Me(c).idle /\ Yield(c)
KernelParks(c) == Kernel(c, "sleep") /\ Sleep(c)

Fairness ==
    /\ \A c \in Cpus :
          /\ SF_vars(Tail(c)) /\ WF_vars(Hooks(c)) /\ WF_vars(Reap(c)) /\ WF_vars(Pick(c))
          /\ SF_vars(TimerIrq(c)) /\ SF_vars(IdleYield(c)) /\ SF_vars(KernelParks(c))
    /\ \A s \in Slots : WF_vars(Clock(s))

LiveSpec == Spec /\ Fairness

-----------------------------------------------------------------------------
(* Properties.                                                              *)

\* Every variable keeps its type.
TypeOK ==
    /\ tasks \in [Slots -> Task]
    /\ cur \in [Cpus -> Slots]
    /\ req \in [Cpus -> BOOLEAN]
    /\ mode \in [Cpus -> {"task", "tail", "hooks", "reap", "pick"}]
    /\ ctx \in [Cpus -> Nat]
    /\ lock \in Cpus \cup {NoLock}
    /\ nextPid \in Nat
    /\ log \in [LogIdx -> Nat]
    /\ keys \in Nat /\ execs \in Nat

(* "Each CPU always has an idle home" (sched.rs:23): the idle task of every  *)
(* CPU is in its slot, pinned there, and either is what its CPU runs or is   *)
(* Ready; so pick_next finds a candidate whatever the others are doing.      *)
IdleHome ==
    \A c \in Cpus :
        /\ tasks[Kidle(c)].idle /\ tasks[Kidle(c)].pinned_cpu = c
        /\ tasks[Kidle(c)].state \in {"Running", "Ready"}
        /\ cur[c] # Kidle(c) => tasks[Kidle(c)].state = "Ready"

(* "A task parked on a channel never lands here" (the None branch of        *)
(* post_dispatch): no step puts back on the CPU, without a wakeup, a task    *)
(* that has blocked or exited.                                              *)
NeverRunsBlocked ==
    [][\A s \in Slots :
          tasks'[s].state = "Running" /\ tasks'[s].pid = tasks[s].pid
             => tasks[s].state \in {"Running", "Ready"}]_vars

(* The kernel stack a CPU executes on belongs to the task in the slot the    *)
(* CPU calls current: nobody frees or reuses the slot of a task that is      *)
(* still on a CPU ("must not be running anywhere", reap_zombie_locked).      *)
NoPulledSlot == \A c \in Cpus : tasks[cur[c]].pid = ctx[c]

\* "Two CPUs can never grab the same task" (sched.rs:18).
NoDoubleRun == \A c, d \in Cpus : c # d => ctx[c] # ctx[d]

(* What the two claims above rest on: between the moment a task parks or ends *)
(* itself and the moment its CPU has the lock in post_dispatch, nobody makes *)
(* the task Ready or frees its slot.  Nothing in the code sees to that.      *)
Undisturbed ==
    \A c \in Cpus :
        lock # c /\ tasks[cur[c]].state \notin {"Running", "Ready"}
        => tasks'[cur[c]].state \notin {"Ready", "Dead"}

\* A pinned task runs on its own CPU only.
PinnedStay == \A c \in Cpus : tasks[cur[c]].pinned_cpu \in {CPU_ANY, c}

(* A task parked in wait(pid) has a child it can still be woken by: an exit  *)
(* is never missed, however the lazy reaper and the caller interleave (the   *)
(* race REAP_LOG is there to close).                                        *)
NoStrandedWait ==
    \A s \in Slots :
        tasks[s].state = "WaitingChild" /\ tasks[s].wait_target # 0
        => \E r \in Live(tasks) : tasks[r].pid = tasks[s].wait_target

\* The same for one child, p.
WokenBy(p) ==
    \A s \in Slots :
        tasks[s].state = "WaitingChild" /\ tasks[s].wait_target = p
        => \E r \in Live(tasks) : tasks[r].pid = p

(* What both rest on, and what reap_log_push does not see to: a full log      *)
(* gives the entry of a pid to another one.                                 *)
Overwrites(p) == \E i \in LogIdx : log[i] = p /\ log'[i] \notin {0, p}
OwedEntriesKept == \A s \in Slots : \A p \in tasks'[s].kids : ~Overwrites(p)

\* The same for join(tid): "an exit cannot be missed" (sys_join).
NoStrandedJoin ==
    \A s \in Slots :
        tasks[s].state = "BlockedJoin"
        => \E r \in Siblings(tasks, tasks[s].tgid, s) :
               tasks[s].join_target \in {0, tasks[r].pid}

(* "A process exit takes its whole thread group with it" (exit_current):     *)
(* once the main thread is gone, no thread of the group is left that is not  *)
(* marked for death.                                                        *)
GroupDiesTogether ==
    \A s \in Live(tasks) :
        tasks[s].is_user /\ ~tasks[s].die_flag
        => \E r \in Live(tasks) : tasks[r].pid = tasks[s].tgid

(* The threads of one process share one address space: exec is refused       *)
(* inside a thread group, so it never leaves siblings in different images.   *)
GroupSharesSpace ==
    \A s, r \in Live(tasks) :
        tasks[s].is_user /\ tasks[r].is_user /\ tasks[s].tgid = tasks[r].tgid
        => tasks[s].user_space = tasks[r].user_space

\* Every zombie's slot is given back to the table by the lazy reaper.
ZombiesReaped == \A s \in Slots : tasks[s].state = "Zombie" ~> tasks[s].state = "Dead"

(* No Ready task waits forever for a CPU unless tasks are created forever: it *)
(* runs, or a signal ends it.  The premise is needed.  pick_next serves the  *)
(* lowest pid above the current one before it turns back, and pids only      *)
(* grow, so a chain of tasks that each create the next and leave never turns *)
(* back to a Ready task of a lower pid.                                      *)
ReadyRuns ==
    <>[][nextPid' = nextPid]_vars
    => \A s \in Slots : tasks[s].state = "Ready" /\ ~tasks[s].idle ~> tasks[s].state # "Ready"

\* A sleeper is woken.
SleepEnds == \A s \in Slots : tasks[s].state = "Sleeping" ~> tasks[s].state # "Sleeping"

(* A thread marked by the exit of its process dies "at the first interrupt   *)
(* after the flag was set" (post_dispatch).                                 *)
MarkedDie == \A s \in Slots : tasks[s].die_flag ~> ~tasks[s].die_flag

=============================================================================
