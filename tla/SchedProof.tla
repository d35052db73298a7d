----------------------------- MODULE SchedProof -----------------------------
(***************************************************************************)
(* Proofs about Sched.  Type correctness comes first.  The theorems about  *)
(* slots and pinned tasks share one description of what a step does to a   *)
(* slot of the task table: every step but Pick is `Quiet' (a slot is kept, *)
(* freed by a CPU whose own task it does not hold, or filled with a fresh  *)
(* user task), and Pick is treated by itself.  The theorems about who      *)
(* waits for whom are about one CPU (Uni), where every step has one of     *)
(* seven shapes; the last one is about any number of CPUs while none takes *)
(* a task off its stack under another (Undisturbed).                       *)
(***************************************************************************)
EXTENDS Sched, WellFoundedInduction, TLAPS

USE DEF CPU_ANY, MAX_CPUS, SIGKILL, NSIG

\* A nonempty set of naturals has a least element, and Lowest picks it.
LEMMA LowestIn ==
    ASSUME NEW S \in SUBSET Nat, S # {}
    PROVE  Lowest(S) \in S /\ \A r \in S : Lowest(S) <= r
<1>1. \E x \in S : \A y \in S : ~(<<y, x>> \in OpToRel(<, Nat))
  BY NatLessThanWellFounded, WFMin
<1>2. PICK x \in S : \A y \in S : ~(<<y, x>> \in OpToRel(<, Nat))
  BY <1>1
<1>3. \A y \in S : x <= y
  <2> TAKE y \in S
  <2>1. ~(y < x)
    BY <1>2 DEF OpToRel
  <2> QED BY <2>1
<1> QED BY <1>2, <1>3 DEF Lowest

\* The first slot of a nonempty set of slots is one of its members.
LEMMA LowestSlot ==
    ASSUME NEW S \in SUBSET Slots, S # {}
    PROVE  Lowest(S) \in S
BY LowestIn, SizesAssumption DEF Slots

\* Task::dead builds a well-typed slot.
LEMMA DeadTaskType == DeadTask \in Task
BY DEF DeadTask, Task, States, Blocked

\* A fresh kernel task is well typed.
LEMMA NewTaskType ==
    ASSUME NEW pid \in Nat, NEW pin \in Nat, NEW parent \in Nat
    PROVE  NewTask(pid, pin, parent) \in Task
BY DeadTaskType DEF NewTask, Task, States

\* A fresh user task is well typed.
LEMMA NewUserType ==
    ASSUME NEW pid \in Nat, NEW parent \in Nat
    PROVE  NewUser(pid, parent) \in Task
<1> DEFINE t == NewTask(pid, CPU_ANY, parent)
<1>1. t \in Task
  BY NewTaskType
<1> HIDE DEF t
<1>2. [t EXCEPT !.is_user = TRUE, !.user_space = pid] \in Task
  BY <1>1 DEF Task
<1> QED BY <1>2 DEF NewUser, t

\* Replacing one slot by a task keeps the table a table.
LEMMA Replace ==
    ASSUME NEW T \in [Slots -> Task], NEW s \in Slots, NEW t \in Task
    PROVE  [T EXCEPT ![s] = t] \in [Slots -> Task]
OBVIOUS

\* Turning a task into a zombie keeps it well typed.
LEMMA FinishType ==
    ASSUME NEW t \in Task
    PROVE  [t EXCEPT !.state = "Zombie", !.user_space = 0] \in Task
BY DEF Task, States

\* Waking a waiter keeps the table well typed.
LEMMA WakeWaiterType ==
    ASSUME NEW T \in [Slots -> Task], NEW w \in Slots
    PROVE  WakeWaiter(T, w) \in [Slots -> Task]
<1> DEFINE t == T[w]
<1>1. t \in Task
  OBVIOUS
<1> HIDE DEF t
<1>2. /\ [t EXCEPT !.state = "Ready", !.wait_target = 0] \in Task
      /\ [t EXCEPT !.state = "Ready", !.join_target = 0] \in Task
  BY <1>1 DEF Task, States
<1>3. WakeWaiter(T, w) =
         [T EXCEPT ![w] = IF t.state = "WaitingChild"
                          THEN [t EXCEPT !.state = "Ready", !.wait_target = 0]
                          ELSE [t EXCEPT !.state = "Ready", !.join_target = 0]]
  BY DEF WakeWaiter, t
<1> QED BY <1>2, <1>3, Replace

\* Waiters are slots of the table.
LEMMA WaitersSlots == \A T, t : Waiters(T, t) \subseteq Slots
BY DEF Waiters

\* finish_zombie_locked keeps the table well typed.
LEMMA FinishZombieType ==
    ASSUME NEW T \in [Slots -> Task], NEW s \in Slots
    PROVE  FinishZombie(T, s) \in [Slots -> Task]
<1> DEFINE t == T[s]
           u == [t EXCEPT !.state = "Zombie", !.user_space = 0]
           Z == [T EXCEPT ![s] = u]
           W == Waiters(Z, t)
<1>1. u \in Task
  BY FinishType
<1>2. Z \in [Slots -> Task]
  BY <1>1, Replace
<1>3. W \in SUBSET Slots
  BY WaitersSlots
<1>4. FinishZombie(T, s) = IF W = {} THEN Z ELSE WakeWaiter(Z, Lowest(W))
  BY DEF FinishZombie
<1> HIDE DEF Z, W
<1>5. W # {} => Lowest(W) \in Slots
  BY <1>3, LowestSlot
<1> QED BY <1>2, <1>4, <1>5, WakeWaiterType

\* The sweep of exit_current keeps the table well typed.
LEMMA SweepType ==
    ASSUME NEW T \in [Slots -> Task], NEW me \in Slots
    PROVE  Sweep(T, me) \in [Slots -> Task]
<1> DEFINE G == IF T[me].is_user THEN Siblings(T, T[me].tgid, me) ELSE {}
           R == [s \in Slots |->
                   IF s \notin G THEN T[s]
                   ELSE IF T[s].state = "Running" THEN [T[s] EXCEPT !.die_flag = TRUE]
                   ELSE [T[s] EXCEPT !.state = "Zombie", !.user_space = 0]]
           M == {s \in G : T[s].state # "Running" /\ T[s].pid = T[s].tgid}
           W == UNION {Waiters(R, T[s]) : s \in M}
<1>1. Sweep(T, me) = IF W = {} THEN R ELSE WakeWaiter(R, Lowest(W))
  BY DEF Sweep
<1>2. R \in [Slots -> Task]
  <2>1. \A t \in Task : [t EXCEPT !.die_flag = TRUE] \in Task
    BY DEF Task
  <2>2. \A t \in Task : [t EXCEPT !.state = "Zombie", !.user_space = 0] \in Task
    BY FinishType
  <2> QED BY <2>1, <2>2
<1>3. W \in SUBSET Slots
  <2> SUFFICES ASSUME NEW x \in W PROVE x \in Slots
    OBVIOUS
  <2>1. PICK s \in M : x \in Waiters(R, T[s])
    OBVIOUS
  <2> QED BY <2>1, WaitersSlots
<1> HIDE DEF R, W
<1>4. W # {} => Lowest(W) \in Slots
  BY <1>3, LowestSlot
<1> QED BY <1>1, <1>2, <1>4, WakeWaiterType

\* timer_duties keeps the table well typed.
LEMMA TimerDutiesType ==
    ASSUME NEW T \in [Slots -> Task], NEW c \in Cpus
    PROVE  TimerDuties(T, c) \in [Slots -> Task]
<1>1. \A t \in Task : [t EXCEPT !.state = "Ready", !.wake_due = FALSE] \in Task
  BY DEF Task, States
<1> QED BY <1>1 DEF TimerDuties

\* reap_log_push keeps the log a log.
LEMMA LogPushType ==
    ASSUME NEW L \in [LogIdx -> Nat], NEW pid \in Nat
    PROVE  LogPush(L, pid) \in [LogIdx -> Nat]
BY DEF LogPush

\* reap_log_take keeps the log a log.
LEMMA LogTakeType ==
    ASSUME NEW L \in [LogIdx -> Nat], NEW pid \in Nat
    PROVE  LogTake(L, pid) \in [LogIdx -> Nat]
BY DEF LogTake

\* The boot state is well typed.
LEMMA InitType == Init => TypeOK
<1> SUFFICES ASSUME Init PROVE TypeOK
  OBVIOUS
<1>1. \A s \in Slots : BootTask(s) \in Task
  <2> TAKE s \in Slots
  <2>1. \A p, q, r \in Nat : NewTask(p, q, r) \in Task
    BY NewTaskType
  <2>2. \A t \in Task : /\ [t EXCEPT !.state = "Running"] \in Task
                       /\ [t EXCEPT !.idle = TRUE] \in Task
                       /\ [t EXCEPT !.idle = TRUE, !.state = "Running"] \in Task
    BY DEF Task, States
  <2>3. /\ s \in Nat /\ s + 1 \in Nat
        /\ s > NDaemons + 1 => s - NDaemons - 1 \in Nat
    BY SizesAssumption DEF Slots
  <2>4. /\ NewTask(1, 0, 0) \in Task /\ NewTask(2, 0, 1) \in Task
        /\ NewTask(s + 1, CPU_ANY, 1) \in Task
        /\ s > NDaemons + 1 => NewTask(s + 1, s - NDaemons - 1, 1) \in Task
    BY <2>1, <2>3
  <2>5. CASE s = 0
    BY <2>2, <2>4, <2>5 DEF BootTask
  <2>6. CASE s = 1
    BY <2>2, <2>4, <2>6 DEF BootTask
  <2>7. CASE s > 1 /\ s <= NDaemons + 1
    BY <2>4, <2>7 DEF BootTask
  <2>8. CASE s > 1 /\ s > NDaemons + 1 /\ s <= NDaemons + NCpus
    BY <2>2, <2>4, <2>8, SizesAssumption DEF BootTask
  <2>9. CASE s > 1 /\ s > NDaemons + NCpus
    BY <2>3, <2>9, DeadTaskType, SizesAssumption DEF BootTask
  <2> QED BY <2>3, <2>5, <2>6, <2>7, <2>8, <2>9, SizesAssumption
<1>2. \A c \in Cpus : Kidle(c) \in Slots
  BY SizesAssumption DEF Cpus, Slots, Kidle
<1>3. 0 \in Slots
  BY SizesAssumption DEF Slots
<1> QED BY <1>1, <1>2, <1>3, SizesAssumption DEF Init, TypeOK, Slots, Cpus, LogIdx, NoLock
-----------------------------------------------------------------------------
(* Every step keeps the types.                                              *)

\* Every step of Next keeps every variable in its type.
LEMMA StepType == TypeOK /\ [Next]_vars => TypeOK'
<1> SUFFICES ASSUME TypeOK, [Next]_vars PROVE TypeOK'
  OBVIOUS
<1> DEFINE TT == [Slots -> Task]
           Modes == {"task", "tail", "hooks", "reap", "pick"}
<1>a. /\ tasks \in TT /\ cur \in [Cpus -> Slots] /\ req \in [Cpus -> BOOLEAN]
      /\ mode \in [Cpus -> Modes] /\ ctx \in [Cpus -> Nat]
      /\ lock \in Cpus \cup {NoLock} /\ nextPid \in Nat /\ log \in [LogIdx -> Nat]
      /\ keys \in Nat /\ execs \in Nat
  BY DEF TypeOK
<1>b. ASSUME NEW s \in Slots, NEW t \in Task PROVE [tasks EXCEPT ![s] = t] \in TT
  BY <1>a, <1>b
<1>c. \A s \in Slots : tasks[s] \in Task
  BY <1>a
<1>d. \A c \in Cpus : cur[c] \in Slots /\ Me(c) \in Task
  BY <1>a DEF Me
<1>e. ASSUME NEW T \in TT, tasks' = T,
             cur' \in [Cpus -> Slots], req' \in [Cpus -> BOOLEAN], mode' \in [Cpus -> Modes],
             ctx' \in [Cpus -> Nat], lock' \in Cpus \cup {NoLock}, nextPid' \in Nat,
             log' \in [LogIdx -> Nat], keys' \in Nat, execs' \in Nat
      PROVE  TypeOK'
  BY <1>e DEF TypeOK
<1>f. ASSUME NEW c \in Cpus, NEW st \in States, Park(c, st) PROVE TypeOK'
  <2>1. [tasks[cur[c]] EXCEPT !.state = st] \in Task
    BY <1>d DEF Me, Task
  <2>2. tasks' \in TT
    BY <1>a, <1>d, <1>f, <2>1 DEF Park
  <2> QED BY <1>a, <1>f, <2>2 DEF Park, AskSwitch, ToTail, TypeOK
<1>1. ASSUME NEW c \in Cpus, Yield(c) PROVE TypeOK'
  BY <1>a, <1>1 DEF Yield, AskSwitch, ToTail, TypeOK
<1>2. ASSUME NEW c \in Cpus, Sleep(c) PROVE TypeOK'
  BY <1>2, <1>f DEF Sleep, States, Blocked
<1>3. ASSUME NEW c \in Cpus, ReadChar(c) PROVE TypeOK'
  <2>1. CASE keys > 0
    BY <1>a, <1>3, <2>1 DEF ReadChar, ToTail, TypeOK
  <2>2. CASE ~(keys > 0)
    BY <1>3, <1>f, <2>2 DEF ReadChar, States, Blocked
  <2> QED BY <2>1, <2>2
<1>4. ASSUME NEW c \in Cpus, Block(c) PROVE TypeOK'
  BY <1>4, <1>f DEF Block, States, Blocked
<1>5. ASSUME NEW c \in Cpus, NEW s \in Slots, Wake(c, s) PROVE TypeOK'
  <2>1. [tasks[s] EXCEPT !.state = "Ready"] \in Task
    BY <1>c DEF Task, States
  <2>2. tasks' \in TT
    BY <1>a, <1>5, <2>1 DEF Wake
  <2> QED BY <1>a, <1>5, <2>2 DEF Wake, ToTail, TypeOK
<1>g. ASSUME NEW c \in Cpus, NEW t \in Task, Install(c, t)
      PROVE  /\ tasks' \in TT /\ nextPid' \in Nat
             /\ UNCHANGED <<cur, req, ctx, lock, log, keys, execs>>
  <2>1. CASE DeadSlots(tasks) = {} /\ UNCHANGED <<tasks, nextPid>>
    BY <1>a, <1>g, <2>1 DEF Install
  <2>2. CASE DeadSlots(tasks) # {}
    <3> DEFINE d == Lowest(DeadSlots(tasks))
               m == Me(c)
               U == [tasks EXCEPT ![cur[c]] = Adopt(m, t)]
    <3>1. d \in Slots
      BY <2>2, LowestSlot DEF DeadSlots
    <3>2. m \in Task /\ t.pid \in Nat
      BY <1>d DEF Task
    <3>3. tasks' = [U EXCEPT ![d] = t] /\ nextPid' = nextPid + 1
      BY <1>g, <2>2 DEF Install
    <3> HIDE DEF m
    <3>4. Adopt(m, t) \in Task
      BY <3>2 DEF Task, Adopt
    <3>5. U \in TT
      BY <1>b, <1>d, <3>4
    <3> HIDE DEF d, U
    <3>6. tasks' \in TT
      BY <3>1, <3>3, <3>5, Replace
    <3> QED BY <1>a, <1>g, <3>3, <3>6 DEF Install
  <2> QED BY <1>g, <2>1, <2>2 DEF Install
<1>6. ASSUME NEW c \in Cpus, Spawn(c) PROVE TypeOK'
  <2>1. NewUser(nextPid, Me(c).pid) \in Task
    BY <1>a, <1>d, NewUserType DEF Task
  <2> QED BY <1>a, <1>6, <1>g, <2>1 DEF Spawn, TypeOK
<1>7. ASSUME NEW c \in Cpus, Fork(c) PROVE TypeOK'
  <2> DEFINE n == NewUser(nextPid, Me(c).pid)
             t == [n EXCEPT !.sig_handlers = Me(c).sig_handlers]
  <2>1. n \in Task /\ Me(c) \in Task
    BY <1>a, <1>d, NewUserType DEF Task
  <2> HIDE DEF n
  <2>2. t \in Task
    BY <2>1 DEF Task
  <2>3. Install(c, t) /\ ToTail(c)
    BY <1>7 DEF Fork, n
  <2> HIDE DEF t
  <2> QED BY <1>a, <1>g, <2>2, <2>3 DEF ToTail, TypeOK
<1>8. ASSUME NEW c \in Cpus, Clone(c) PROVE TypeOK'
  <2> DEFINE n == NewUser(nextPid, Me(c).tgid)
             t == [n EXCEPT !.tgid = Me(c).tgid, !.user_space = Me(c).user_space,
                            !.sig_handlers = Me(c).sig_handlers]
  <2>1. n \in Task /\ Me(c) \in Task
    BY <1>a, <1>d, NewUserType DEF Task
  <2> HIDE DEF n
  <2>2. t \in Task
    BY <2>1 DEF Task
  <2>3. Install(c, t) /\ ToTail(c)
    BY <1>8 DEF Clone, n
  <2> HIDE DEF t
  <2> QED BY <1>a, <1>g, <2>2, <2>3 DEF ToTail, TypeOK
<1>9. ASSUME NEW c \in Cpus, Exec(c) PROVE TypeOK'
  <2>1. tasks' \in TT /\ execs' \in Nat
    <3>1. CASE ExecRefused(tasks, cur[c])
      BY <1>a, <1>9, <3>1 DEF Exec
    <3>2. CASE ~ExecRefused(tasks, cur[c])
      <4> DEFINE m == Me(c)
                 t == [m EXCEPT !.user_space = MaxPid + execs + 1,
                                !.sig_pending = {}, !.sig_handlers = {}]
      <4>1. m \in Task
        BY <1>d
      <4> HIDE DEF m
      <4>2. t \in Task
        <5>1. MaxPid + execs + 1 \in Nat
          BY <1>a, SizesAssumption
        <5> QED BY <4>1, <5>1 DEF Task
      <4>3. tasks' = [tasks EXCEPT ![cur[c]] = t]
        BY <1>9, <3>2 DEF Exec, Me, m
      <4>4. execs' = execs + 1
        BY <1>9, <3>2 DEF Exec
      <4> HIDE DEF t
      <4> QED BY <1>a, <1>b, <1>d, <4>2, <4>3, <4>4
    <3> QED BY <1>a, <1>9, <3>1, <3>2 DEF Exec
  <2> QED BY <1>a, <1>9, <2>1 DEF Exec, ToTail, TypeOK
<1>h. ASSUME NEW s \in Slots, NEW K \in SUBSET Nat, NEW n \in Nat
      PROVE  /\ [tasks[s] EXCEPT !.kids = tasks[s].kids \ K] \in Task
             /\ [tasks[s] EXCEPT !.threads = tasks[s].threads \ K] \in Task
             /\ [tasks[s] EXCEPT !.state = "WaitingChild", !.wait_target = n,
                                 !.kids = tasks[s].kids \ K] \in Task
             /\ [tasks[s] EXCEPT !.state = "BlockedJoin", !.join_target = n,
                                 !.threads = tasks[s].threads \ K] \in Task
  <2> DEFINE t == tasks[s]
  <2>1. t \in Task /\ t.kids \in SUBSET Nat /\ t.threads \in SUBSET Nat
    BY <1>c DEF Task
  <2> HIDE DEF t
  <2>2. t.kids \ K \in SUBSET Nat /\ t.threads \ K \in SUBSET Nat
    BY <2>1
  <2>3. /\ [t EXCEPT !.kids = t.kids \ K] \in Task
        /\ [t EXCEPT !.threads = t.threads \ K] \in Task
    BY <2>1, <2>2 DEF Task
  <2>4. [t EXCEPT !.state = "WaitingChild", !.wait_target = n, !.kids = t.kids \ K] \in Task
    BY <2>1, <2>2 DEF Task, States, Blocked
  <2>5. [t EXCEPT !.state = "BlockedJoin", !.join_target = n, !.threads = t.threads \ K] \in Task
    BY <2>1, <2>2 DEF Task, States, Blocked
  <2> QED BY <2>3, <2>4, <2>5 DEF t
<1>i. ASSUME NEW c \in Cpus, NEW n \in Nat, WaitFor(c, n) PROVE TypeOK'
  <2> DEFINE K == IF n = 0 THEN {} ELSE {n}
             done == [tasks[cur[c]] EXCEPT !.kids = tasks[cur[c]].kids \ K]
             parked == [tasks[cur[c]] EXCEPT !.state = "WaitingChild", !.wait_target = n,
                                             !.kids = tasks[cur[c]].kids \ K]
  <2>1. K \in SUBSET Nat
    OBVIOUS
  <2>2. \/ tasks' = [tasks EXCEPT ![cur[c]] = done]
        \/ tasks' = [tasks EXCEPT ![cur[c]] = parked]
    BY <1>i DEF WaitFor, Me
  <2>3. done \in Task /\ parked \in Task
    BY <1>d, <1>h, <2>1
  <2>4. tasks' \in TT
    <3> HIDE DEF done, parked
    <3> QED BY <1>b, <1>d, <2>2, <2>3
  <2>5. log' = log \/ log' = LogTake(log, n)
    BY <1>i DEF WaitFor
  <2>6. log' \in [LogIdx -> Nat]
    BY <1>a, <2>5, LogTakeType
  <2>7. req' \in [Cpus -> BOOLEAN]
    BY <1>a, <1>i DEF WaitFor, AskSwitch
  <2>8. ToTail(c) /\ UNCHANGED <<cur, ctx, lock, nextPid, keys, execs>>
    BY <1>i DEF WaitFor
  <2> QED BY <1>a, <2>4, <2>6, <2>7, <2>8 DEF ToTail, TypeOK
<1>10. ASSUME NEW c \in Cpus, Wait(c) PROVE TypeOK'
  BY <1>d, <1>10, <1>i DEF Wait, Task
<1>11. ASSUME NEW c \in Cpus, WaitAny(c) PROVE TypeOK'
  BY <1>11, <1>i DEF WaitAny
<1>j. ASSUME NEW c \in Cpus, NEW n \in Nat, JoinFor(c, n) PROVE TypeOK'
  <2> DEFINE K == IF n = 0 THEN {} ELSE {n}
             dead == {s \in Slots : /\ tasks[s].state = "Zombie" /\ tasks[s].tgid = Me(c).tgid
                                    /\ tasks[s].pid # Me(c).pid /\ n \in {0, tasks[s].pid}}
             z == Lowest(dead)
             done == [tasks[cur[c]] EXCEPT !.threads = tasks[cur[c]].threads \ K]
             parked == [tasks[cur[c]] EXCEPT !.state = "BlockedJoin", !.join_target = n,
                                             !.threads = tasks[cur[c]].threads \ K]
             U == [tasks EXCEPT ![cur[c]] = done]
  <2>1. K \in SUBSET Nat
    OBVIOUS
  <2>2. done \in Task /\ parked \in Task
    BY <1>d, <1>h, <2>1
  <2>3. U \in TT /\ [tasks EXCEPT ![cur[c]] = parked] \in TT
    <3> HIDE DEF done, parked
    <3> QED BY <1>b, <1>d, <2>2
  <2>4. dead # {} => z \in Slots
    BY LowestSlot
  <2>5. tasks' \in TT
    <3>1. CASE dead # {}
      <4>1. tasks' = [U EXCEPT ![z] = DeadTask]
        BY <1>j, <3>1 DEF JoinFor
      <4> HIDE DEF U, z, dead
      <4> QED BY <2>3, <2>4, <3>1, <4>1, Replace, DeadTaskType
    <3>2. CASE dead = {}
      <4>1. tasks' = U \/ tasks' = [tasks EXCEPT ![cur[c]] = parked]
        BY <1>j, <3>2 DEF JoinFor, Me
      <4> QED BY <2>3, <4>1
    <3> QED BY <3>1, <3>2
  <2>6. log' \in [LogIdx -> Nat]
    <3>1. CASE dead # {}
      <4>1. tasks[z].pid \in Nat
        BY <1>c, <2>4, <3>1 DEF Task
      <4>2. log' = LogPush(log, tasks[z].pid)
        BY <1>j, <3>1 DEF JoinFor
      <4> QED BY <1>a, <4>1, <4>2, LogPushType
    <3>2. CASE dead = {}
      <4>1. log' = log \/ log' = LogTake(log, n)
        BY <1>j, <3>2 DEF JoinFor
      <4> QED BY <1>a, <4>1, LogTakeType
    <3> QED BY <3>1, <3>2
  <2>7. req' \in [Cpus -> BOOLEAN]
    BY <1>a, <1>j DEF JoinFor, AskSwitch
  <2>8. ToTail(c) /\ UNCHANGED <<cur, ctx, lock, nextPid, keys, execs>>
    BY <1>j DEF JoinFor
  <2> QED BY <1>a, <2>5, <2>6, <2>7, <2>8 DEF ToTail, TypeOK
<1>12. ASSUME NEW c \in Cpus, Join(c) PROVE TypeOK'
  BY <1>d, <1>12, <1>j DEF Join, Task
<1>13. ASSUME NEW c \in Cpus, JoinAny(c) PROVE TypeOK'
  BY <1>13, <1>j DEF JoinAny
<1>14. ASSUME NEW c \in Cpus, Exit(c) PROVE TypeOK'
  <2>1. FinishZombie(Sweep(tasks, cur[c]), cur[c]) \in TT
    BY <1>a, <1>d, SweepType, FinishZombieType
  <2> QED BY <1>a, <1>14, <2>1 DEF Exit, TypeOK
<1>15. ASSUME NEW c \in Cpus, Texit(c) PROVE TypeOK'
  <2>1. FinishZombie(Sweep(tasks, cur[c]), cur[c]) \in TT
    BY <1>a, <1>d, SweepType, FinishZombieType
  <2>2. FinishZombie(tasks, cur[c]) \in TT
    BY <1>a, <1>d, FinishZombieType
  <2> QED BY <1>a, <1>15, <2>1, <2>2 DEF Texit, TypeOK
<1>16. ASSUME NEW c \in Cpus, Hooks(c) PROVE TypeOK'
  BY <1>a, <1>16 DEF Hooks, AskSwitch, ToTail, TypeOK
<1>17. ASSUME NEW c \in Cpus, NEW s \in Slots, NEW sig \in Signals, SendSignal(c, s, sig)
       PROVE  TypeOK'
  <2> DEFINE t == tasks[s]
             u == [t EXCEPT !.sig_pending = t.sig_pending \cup {sig},
                            !.state = IF t.state \in Blocked THEN "Ready" ELSE t.state,
                            !.wake_due = FALSE]
  <2>1. t \in Task
    BY <1>c
  <2>2. tasks' = [tasks EXCEPT ![s] = u]
    BY <1>17 DEF SendSignal
  <2> HIDE DEF t
  <2>3. u \in Task
    BY <2>1 DEF Task, States
  <2> HIDE DEF u
  <2>4. tasks' \in TT
    BY <1>b, <2>2, <2>3
  <2> QED BY <1>a, <1>17, <2>4 DEF SendSignal, TypeOK
<1>18. ASSUME NEW c \in Cpus, NEW sig \in Signals, SigAction(c, sig) PROVE TypeOK'
  <2>1. PICK on \in BOOLEAN :
          tasks' = [tasks EXCEPT ![cur[c]].sig_handlers =
                       IF on THEN @ \cup {sig} ELSE @ \ {sig}]
    BY <1>18 DEF SigAction
  <2> DEFINE t == tasks[cur[c]]
             u == [t EXCEPT !.sig_handlers = IF on THEN @ \cup {sig} ELSE @ \ {sig}]
  <2>2. tasks' = [tasks EXCEPT ![cur[c]] = u] /\ t \in Task
    BY <1>c, <1>d, <2>1
  <2> HIDE DEF t
  <2>3. u \in Task
    BY <2>2 DEF Task
  <2> HIDE DEF u
  <2>4. tasks' \in TT
    BY <1>b, <1>d, <2>2, <2>3
  <2> QED BY <1>a, <1>18, <2>4 DEF SigAction, ToTail, TypeOK
<1>19. ASSUME NEW c \in Cpus, NEW s \in Slots, KillZombie(c, s) PROVE TypeOK'
  <2>1. tasks[s].pid \in Nat
    BY <1>c DEF Task
  <2> QED BY <1>a, <1>19, <2>1, DeadTaskType, LogPushType DEF KillZombie, TypeOK
<1>20. ASSUME NEW c \in Cpus, NEW s \in Slots, KillKernel(c, s) PROVE TypeOK'
  BY <1>a, <1>20, DeadTaskType DEF KillKernel, TypeOK
<1>k. ASSUME NEW c \in Cpus, NEW timer \in BOOLEAN, Enter(c, timer), keys' \in Nat PROVE TypeOK'
  <2> DEFINE me == cur[c]
             A == IF timer THEN TimerDuties(tasks, c) ELSE tasks
             B == IF A[me].die_flag /\ A[me].state = "Running" THEN FinishZombie(A, me) ELSE A
             P == IF B[me].state = "Running" THEN [B EXCEPT ![me].state = "Ready"] ELSE B
  <2>1. me \in Slots
    BY <1>d
  <2>2. A \in TT
    BY <1>a, TimerDutiesType
  <2>3. B \in TT
    <3> HIDE DEF A, me
    <3> QED BY <2>1, <2>2, FinishZombieType
  <2>4. P \in TT
    <3> HIDE DEF B, me
    <3> DEFINE u == [B[me] EXCEPT !.state = "Ready"]
    <3>1. u \in Task
      BY <2>1, <2>3 DEF Task, States
    <3>2. P = IF B[me].state = "Running" THEN [B EXCEPT ![me] = u] ELSE B
      OBVIOUS
    <3> HIDE DEF u, P
    <3> QED BY <2>1, <2>3, <3>1, <3>2
  <2>5. /\ tasks' = P \/ tasks' = B
        /\ lock' \in {c, lock} /\ req' = [req EXCEPT ![c] = FALSE]
        /\ UNCHANGED <<cur, ctx, nextPid, log, execs>>
        /\ mode' \in [Cpus -> Modes]
    BY <1>a, <1>k DEF Enter
  <2> QED BY <1>a, <1>k, <2>3, <2>4, <2>5 DEF TypeOK
<1>21. ASSUME NEW c \in Cpus, Tail(c) PROVE TypeOK'
  <2>1. Enter(c, FALSE) /\ keys' \in Nat /\ FALSE \in BOOLEAN
    BY <1>a, <1>21 DEF Tail
  <2> QED BY <1>k, <2>1
<1>22. ASSUME NEW c \in Cpus, TimerIrq(c) PROVE TypeOK'
  <2>1. Enter(c, TRUE) /\ TRUE \in BOOLEAN
    BY <1>22 DEF TimerIrq
  <2>2. keys' \in Nat
    <3>1. CASE KeyTaken(tasks)
      <4>1. keys > 0 /\ keys' = keys - 1
        BY <1>22, <3>1 DEF TimerIrq, KeyTaken
      <4> QED BY <1>a, <4>1
    <3>2. CASE ~KeyTaken(tasks)
      BY <1>a, <1>22, <3>2 DEF TimerIrq
    <3> QED BY <3>1, <3>2
  <2> QED BY <1>k, <2>1, <2>2
<1>23. ASSUME NEW c \in Cpus, OtherIrq(c) PROVE TypeOK'
  <2>1. Enter(c, FALSE) /\ keys' \in {keys, keys + 1} /\ FALSE \in BOOLEAN
    BY <1>23 DEF OtherIrq
  <2>2. keys' \in Nat
    BY <1>a, <2>1
  <2> QED BY <1>k, <2>1, <2>2
<1>24. ASSUME NEW c \in Cpus, Reap(c) PROVE TypeOK'
  <2> DEFINE z == Lowest(Zombies(tasks, cur[c]))
  <2>1. z \in Slots
    BY <1>24, LowestSlot DEF Reap, Zombies
  <2>2. tasks[z].pid \in Nat
    BY <1>c, <2>1 DEF Task
  <2>3. /\ tasks' = [tasks EXCEPT ![z] = DeadTask] /\ log' = LogPush(log, tasks[z].pid)
        /\ mode' \in [Cpus -> Modes] /\ UNCHANGED <<cur, req, ctx, lock, nextPid, keys, execs>>
    BY <1>a, <1>24 DEF Reap
  <2> HIDE DEF z
  <2> QED BY <1>a, <1>b, <2>1, <2>2, <2>3, DeadTaskType, LogPushType DEF TypeOK
<1>25. ASSUME NEW c \in Cpus, Pick(c) PROVE TypeOK'
  <2>1. ASSUME NEW n \in Best(tasks, c), Resume(c, n) PROVE
           tasks' \in TT /\ cur' \in [Cpus -> Slots] /\ ctx' \in [Cpus -> Nat]
           /\ mode' \in [Cpus -> Modes] /\ lock' \in Cpus \cup {NoLock}
    <3> DEFINE t == tasks[n]
               u == [t EXCEPT !.state = "Running", !.sig_pending = Undelivered(t)]
    <3>1. n \in Slots
      BY DEF Best, Eligible
    <3>2. t \in Task /\ t.sig_pending \in SUBSET Signals /\ t.pid \in Nat
      BY <1>c, <3>1 DEF Task
    <3>3. tasks' = [tasks EXCEPT ![n] = u]
      BY <2>1 DEF Resume
    <3>4. cur' = [cur EXCEPT ![c] = n] /\ ctx' = [ctx EXCEPT ![c] = t.pid]
          /\ mode' = [mode EXCEPT ![c] = "task"] /\ lock' = NoLock
      BY <2>1 DEF Resume
    <3> HIDE DEF t
    <3>5. Undelivered(t) \in SUBSET Signals
      BY <3>2 DEF Undelivered
    <3>6. u \in Task
      BY <3>2, <3>5 DEF Task, States
    <3> HIDE DEF u
    <3> QED BY <1>a, <1>b, <3>1, <3>2, <3>3, <3>4, <3>6
  <2>2. ASSUME NEW n \in Best(tasks, c) PROVE FinishZombie(tasks, n) \in TT
    BY <1>a, FinishZombieType DEF Best, Eligible
  <2>3. [tasks EXCEPT ![cur[c]].state = "Running"] \in TT
    <3>1. [tasks[cur[c]] EXCEPT !.state = "Running"] \in Task
      BY <1>c, <1>d DEF Task, States
    <3> QED BY <1>a, <1>d, <3>1
  <2>4. UNCHANGED <<req, nextPid, log, keys, execs>>
    BY <1>25 DEF Pick
  <2>5. CASE \E n \in Best(tasks, c) : MayHandle(tasks[n]) /\ Resume(c, n)
    BY <1>a, <2>1, <2>4, <2>5 DEF TypeOK
  <2>6. CASE \E n \in Best(tasks, c) : /\ tasks' = FinishZombie(tasks, n)
                                       /\ UNCHANGED <<cur, ctx, mode, lock>>
    BY <1>a, <2>2, <2>4, <2>6 DEF TypeOK
  <2>7. CASE /\ tasks' = [tasks EXCEPT ![cur[c]].state = "Running"]
             /\ mode' = [mode EXCEPT ![c] = "task"] /\ lock' = NoLock /\ UNCHANGED <<cur, ctx>>
    BY <1>a, <2>3, <2>4, <2>7 DEF TypeOK
  <2> QED BY <1>25, <2>5, <2>6, <2>7 DEF Pick
<1>26. ASSUME NEW s \in Slots, Clock(s) PROVE TypeOK'
  <2>1. [tasks[s] EXCEPT !.wake_due = TRUE] \in Task
    BY <1>c DEF Task
  <2>2. tasks' \in TT
    BY <1>a, <1>26, <2>1 DEF Clock
  <2> QED BY <1>a, <1>26, <2>2 DEF Clock, TypeOK
<1>27. CASE UNCHANGED vars
  BY <1>a, <1>27 DEF vars, TypeOK
<1>28. ASSUME NEW c \in Cpus, Syscall(c) PROVE TypeOK'
  BY <1>28, <1>1, <1>2, <1>3, <1>4, <1>5, <1>6, <1>7, <1>8, <1>9, <1>10, <1>11, <1>12,
     <1>13, <1>14, <1>15, <1>17, <1>18, <1>19, <1>20 DEF Syscall
<1>29. ASSUME NEW c \in Cpus, Dispatch(c) PROVE TypeOK'
  BY <1>29, <1>16, <1>21, <1>22, <1>23, <1>24, <1>25 DEF Dispatch
<1> QED BY <1>26, <1>27, <1>28, <1>29 DEF Next

\* Every reachable state is well typed, for every table size and workload.
THEOREM TypeCorrect == Spec => []TypeOK
<1>1. Init => TypeOK
  BY InitType
<1>2. TypeOK /\ [Next]_vars => TypeOK'
  BY StepType
<1> QED BY <1>1, <1>2, PTL DEF Spec

-----------------------------------------------------------------------------
(* What a step does to one slot.  Kept: the same task, not newly on a CPU.   *)
(* The three remaining theorems rest on these shapes.                       *)

Kept(T, R, k) ==
    /\ R[k].pid = T[k].pid /\ R[k].idle = T[k].idle /\ R[k].pinned_cpu = T[k].pinned_cpu
    /\ R[k].state = "Running" => T[k].state = "Running"
    /\ R[k].state = "Dead" => T[k].state = "Dead"

\* An idle task as it always is: a kernel task, on its CPU or waiting for it.
Restful(T, k) ==
    /\ T[k].idle /\ ~T[k].is_user /\ ~T[k].die_flag
    /\ T[k].state \in {"Ready", "Running"}

\* Kept composes.
LEMMA KeptChain ==
    ASSUME NEW A, NEW B, NEW C, NEW k, Kept(A, B, k), Kept(B, C, k)
    PROVE  Kept(A, C, k)
BY DEF Kept

\* Waking a waiter changes neither who is in a slot nor any idle task.
LEMMA WakeWaiterKeeps ==
    ASSUME NEW T \in [Slots -> Task], NEW w \in Slots,
           T[w].state \in {"WaitingChild", "BlockedJoin"}
    PROVE  /\ \A k \in Slots : Kept(T, WakeWaiter(T, w), k)
           /\ \A k \in Slots : Restful(T, k) => WakeWaiter(T, w)[k] = T[k]
<1> DEFINE R == WakeWaiter(T, w)
<1>1. \A k \in Slots \ {w} : R[k] = T[k]
  BY DEF WakeWaiter
<1>2. /\ R[w].pid = T[w].pid /\ R[w].idle = T[w].idle /\ R[w].pinned_cpu = T[w].pinned_cpu
      /\ R[w].state = "Ready"
  <2>1. T[w] \in Task
    OBVIOUS
  <2>2. \/ R[w] = [T[w] EXCEPT !.state = "Ready", !.wait_target = 0]
        \/ R[w] = [T[w] EXCEPT !.state = "Ready", !.join_target = 0]
    BY DEF WakeWaiter
  <2> HIDE DEF R
  <2> QED BY <2>1, <2>2 DEF Task
<1> HIDE DEF R
<1>3. \A k \in Slots : Kept(T, R, k)
  BY <1>1, <1>2 DEF Kept
<1>4. \A k \in Slots : Restful(T, k) => R[k] = T[k]
  BY <1>1 DEF Restful
<1> QED BY <1>3, <1>4 DEF R

\* Only tasks parked in wait or join are waiters.
LEMMA WaitersWait ==
    ASSUME NEW T, NEW t, NEW w \in Waiters(T, t)
    PROVE  w \in Slots /\ T[w].state \in {"WaitingChild", "BlockedJoin"}
BY DEF Waiters

\* finish_zombie_locked touches no idle task and puts nobody on a CPU.
LEMMA FinishZombieKeeps ==
    ASSUME NEW T \in [Slots -> Task], NEW s \in Slots
    PROVE  /\ \A k \in Slots : Kept(T, FinishZombie(T, s), k)
           /\ \A k \in Slots : Restful(T, k) /\ k # s => FinishZombie(T, s)[k] = T[k]
           /\ FinishZombie(T, s)[s].state # "Running"
<1> DEFINE u == [T[s] EXCEPT !.state = "Zombie", !.user_space = 0]
           Z == [T EXCEPT ![s] = u]
           W == Waiters(Z, T[s])
           F == FinishZombie(T, s)
<1>1. u \in Task /\ T[s] \in Task
  BY FinishType
<1>2. Z \in [Slots -> Task]
  BY <1>1, Replace
<1>3. /\ u.pid = T[s].pid /\ u.idle = T[s].idle /\ u.pinned_cpu = T[s].pinned_cpu
      /\ u.state = "Zombie"
  BY <1>1 DEF Task
<1>4. F = IF W = {} THEN Z ELSE WakeWaiter(Z, Lowest(W))
  BY DEF FinishZombie
<1>5. Z[s] = u /\ \A k \in Slots \ {s} : Z[k] = T[k]
  OBVIOUS
<1>6. W \in SUBSET Slots
  BY WaitersSlots
<1> HIDE DEF u, Z, F
<1>7. \A k \in Slots : Kept(T, Z, k)
  BY <1>3, <1>5 DEF Kept
<1>8. W # {} => /\ Lowest(W) \in Slots
                /\ Z[Lowest(W)].state \in {"WaitingChild", "BlockedJoin"}
  <2> SUFFICES ASSUME W # {} PROVE Lowest(W) \in W
    BY WaitersWait
  <2> HIDE DEF W
  <2> QED BY <1>6, LowestSlot
<1>9. /\ \A k \in Slots : Kept(Z, F, k)
      /\ \A k \in Slots : Restful(Z, k) => F[k] = Z[k]
  <2>1. CASE W = {}
    BY <1>4, <2>1 DEF Kept
  <2>2. CASE W # {}
    BY <1>2, <1>4, <1>8, <2>2, WakeWaiterKeeps
  <2> QED BY <2>1, <2>2
<1>10. \A k \in Slots : Kept(T, F, k)
  BY <1>7, <1>9, KeptChain
<1>11. \A k \in Slots : Restful(T, k) /\ k # s => F[k] = T[k]
  BY <1>5, <1>9 DEF Restful
<1>12. F[s].state # "Running"
  BY <1>3, <1>5, <1>9 DEF Kept
<1> QED BY <1>10, <1>11, <1>12 DEF F

\* So does the sweep of exit_current.
LEMMA SweepKeeps ==
    ASSUME NEW T \in [Slots -> Task], NEW me \in Slots
    PROVE  /\ \A k \in Slots : Kept(T, Sweep(T, me), k)
           /\ \A k \in Slots : Restful(T, k) => Sweep(T, me)[k] = T[k]
<1> DEFINE G == IF T[me].is_user THEN Siblings(T, T[me].tgid, me) ELSE {}
           R == [s \in Slots |->
                   IF s \notin G THEN T[s]
                   ELSE IF T[s].state = "Running" THEN [T[s] EXCEPT !.die_flag = TRUE]
                   ELSE [T[s] EXCEPT !.state = "Zombie", !.user_space = 0]]
           M == {s \in G : T[s].state # "Running" /\ T[s].pid = T[s].tgid}
           W == UNION {Waiters(R, T[s]) : s \in M}
           F == Sweep(T, me)
<1>1. F = IF W = {} THEN R ELSE WakeWaiter(R, Lowest(W))
  BY DEF Sweep
<1>2. R \in [Slots -> Task]
  <2>1. \A t \in Task : [t EXCEPT !.die_flag = TRUE] \in Task
    BY DEF Task
  <2>2. \A t \in Task : [t EXCEPT !.state = "Zombie", !.user_space = 0] \in Task
    BY FinishType
  <2> QED BY <2>1, <2>2
<1>3. \A k \in G : k \in Slots /\ T[k].is_user /\ T[k].state # "Dead"
  BY DEF Siblings, Live
<1>4. \A k \in Slots : k \notin G => R[k] = T[k]
  OBVIOUS
<1>5. \A k \in Slots : Kept(T, R, k)
  <2> TAKE k \in Slots
  <2>1. CASE k \notin G
    BY <1>4, <2>1 DEF Kept
  <2>2. CASE k \in G
    <3> DEFINE t == T[k]
    <3>1. t \in Task /\ t.state # "Dead"
      BY <1>3, <2>2
    <3>2. \/ R[k] = [t EXCEPT !.die_flag = TRUE] /\ t.state = "Running"
          \/ R[k] = [t EXCEPT !.state = "Zombie", !.user_space = 0]
      BY <2>2
    <3> HIDE DEF R
    <3> HIDE DEF t
    <3>3. /\ R[k].pid = t.pid /\ R[k].idle = t.idle /\ R[k].pinned_cpu = t.pinned_cpu
          /\ R[k].state \in {"Running", "Zombie"} /\ (R[k].state = "Running" => t.state = "Running")
      BY <3>1, <3>2 DEF Task
    <3> QED BY <3>1, <3>3 DEF Kept, t
  <2> QED BY <2>1, <2>2
<1>6. W # {} => Lowest(W) \in Slots /\ R[Lowest(W)].state \in {"WaitingChild", "BlockedJoin"}
  <2>1. \A x \in W : x \in Slots /\ R[x].state \in {"WaitingChild", "BlockedJoin"}
    <3> TAKE x \in W
    <3>1. PICK s \in M : x \in Waiters(R, T[s])
      OBVIOUS
    <3> HIDE DEF R
    <3> QED BY <3>1, WaitersWait
  <2> HIDE DEF W
  <2> QED BY <2>1, LowestSlot
<1> HIDE DEF R, W, G, F
<1>7. /\ \A k \in Slots : Kept(R, F, k)
      /\ \A k \in Slots : Restful(R, k) => F[k] = R[k]
  <2>1. CASE W = {}
    BY <1>1, <2>1 DEF Kept
  <2>2. CASE W # {}
    BY <1>1, <1>2, <1>6, <2>2, WakeWaiterKeeps
  <2> QED BY <2>1, <2>2
<1>8. \A k \in Slots : Kept(T, F, k)
  BY <1>5, <1>7, KeptChain
<1>9. \A k \in Slots : Restful(T, k) => F[k] = T[k]
  BY <1>3, <1>4, <1>7 DEF Restful
<1> QED BY <1>8, <1>9 DEF F

\* So do the timer duties.
LEMMA TimerDutiesKeeps ==
    ASSUME NEW T \in [Slots -> Task], NEW c \in Cpus
    PROVE  /\ \A k \in Slots : Kept(T, TimerDuties(T, c), k)
           /\ \A k \in Slots : Restful(T, k) => TimerDuties(T, c)[k] = T[k]
<1> DEFINE R == TimerDuties(T, c)
<1>1. KeyTaken(T) => T[Lowest(InputWaiters(T))].state = "BlockedInput"
  <2>1. InputWaiters(T) \in SUBSET Slots
    BY DEF InputWaiters
  <2>2. KeyTaken(T) => Lowest(InputWaiters(T)) \in InputWaiters(T)
    BY <2>1, LowestSlot DEF KeyTaken
  <2> QED BY <2>2 DEF InputWaiters
<1>2. ASSUME NEW k \in Slots, R[k] # T[k]
      PROVE  /\ R[k] = [T[k] EXCEPT !.state = "Ready", !.wake_due = FALSE]
             /\ \/ T[k].state \in Blocked
                \/ T[k].is_user /\ T[k].state = "Running"
  BY <1>1, <1>2 DEF TimerDuties, Blocked
<1>3. \A k \in Slots : Restful(T, k) => R[k] = T[k]
  BY <1>2 DEF Restful, Blocked
<1>4. ASSUME NEW k \in Slots PROVE Kept(T, R, k)
  <2>1. CASE R[k] = T[k]
    BY <2>1 DEF Kept
  <2>2. CASE R[k] # T[k]
    <3> DEFINE t == T[k]
               u == R[k]
    <3>1. t \in Task /\ u = [t EXCEPT !.state = "Ready", !.wake_due = FALSE]
      BY <1>2, <2>2
    <3>2. t.state # "Dead"
      BY <1>2, <2>2 DEF Blocked
    <3> HIDE DEF R, t, u
    <3>3. u.pid = t.pid /\ u.idle = t.idle /\ u.pinned_cpu = t.pinned_cpu /\ u.state = "Ready"
      BY <3>1 DEF Task
    <3> QED BY <3>2, <3>3 DEF Kept, t, u
  <2> QED BY <2>1, <2>2
<1> QED BY <1>3, <1>4

-----------------------------------------------------------------------------
(* The shape of every step but Pick: the CPUs keep their tasks, a slot is    *)
(* kept, freed by a CPU whose own task it is not, or filled; an idle task    *)
(* is left alone but for its own CPU's parking it.                          *)

Freed(k) ==
    /\ tasks'[k] = DeadTask
    /\ \E c \in Cpus : tasks[k].pid # tasks[cur[c]].pid
    /\ tasks[k].state = "Zombie" \/ "killkernel" \in Workload

Born(k) ==
    /\ tasks[k].state = "Dead"
    /\ tasks'[k].state = "Ready" /\ ~tasks'[k].idle /\ tasks'[k].is_user
    /\ tasks'[k].pinned_cpu = CPU_ANY

Quiet ==
    /\ cur' = cur /\ ctx' = ctx
    /\ \A k \in Slots : Kept(tasks, tasks', k) \/ Freed(k) \/ Born(k)
    /\ \A k \in Slots :
          Restful(tasks, k) =>
             \/ tasks'[k] = tasks[k]
             \/ "killkernel" \in Workload
             \/ \E c \in Cpus : cur[c] = k /\ tasks'[k] = [tasks[k] EXCEPT !.state = "Ready"]
    /\ \A c \in Cpus :
          mode'[c] \in {"reap", "pick"} =>
             mode[c] \in {"reap", "pick"} \/ tasks'[cur[c]].state # "Running"

\* A step that updates one task in place is Quiet.
LEMMA QuietUpdate ==
    ASSUME TypeOK, NEW s \in Slots, NEW u,
           tasks' = [tasks EXCEPT ![s] = u],
           u.pid = tasks[s].pid, u.idle = tasks[s].idle, u.pinned_cpu = tasks[s].pinned_cpu,
           u.state = "Running" => tasks[s].state = "Running",
           u.state = "Dead" => tasks[s].state = "Dead",
           ~Restful(tasks, s), UNCHANGED <<cur, ctx>>,
           \A c \in Cpus : mode'[c] \in {"reap", "pick"} => mode[c] \in {"reap", "pick"}
    PROVE  Quiet
<1>1. tasks'[s] = u /\ \A k \in Slots \ {s} : tasks'[k] = tasks[k]
  BY DEF TypeOK
<1>2. \A k \in Slots : Kept(tasks, tasks', k)
  BY <1>1 DEF Kept
<1>3. \A k \in Slots : Restful(tasks, k) => tasks'[k] = tasks[k]
  BY <1>1
<1> QED BY <1>2, <1>3 DEF Quiet

\* A step that keeps every slot and every idle task is Quiet.
LEMMA QuietTable ==
    ASSUME TypeOK,
           \A k \in Slots : Kept(tasks, tasks', k),
           \A k \in Slots : Restful(tasks, k) => tasks'[k] = tasks[k],
           UNCHANGED <<cur, ctx>>,
           \A c \in Cpus : mode'[c] \in {"reap", "pick"} => mode[c] \in {"reap", "pick"}
    PROVE  Quiet
BY DEF Quiet

\* A step that frees one slot, not its own, is Quiet.
LEMMA QuietFree ==
    ASSUME TypeOK, NEW z \in Slots, NEW c \in Cpus,
           tasks'[z] = DeadTask,
           \A k \in Slots \ {z} : Kept(tasks, tasks', k),
           \A k \in Slots \ {z} : Restful(tasks, k) => tasks'[k] = tasks[k],
           tasks[z].pid # tasks[cur[c]].pid,
           tasks[z].state = "Zombie" \/ "killkernel" \in Workload,
           UNCHANGED <<cur, ctx>>,
           \A d \in Cpus : mode'[d] \in {"reap", "pick"} => mode[d] \in {"reap", "pick"}
    PROVE  Quiet
<1>1. Freed(z)
  BY DEF Freed
<1>2. \A k \in Slots : Kept(tasks, tasks', k) \/ Freed(k)
  BY <1>1
<1>3. Restful(tasks, z) => "killkernel" \in Workload
  BY DEF Restful
<1> QED BY <1>2, <1>3 DEF Quiet

\* A fresh user task is Ready, unpinned and not an idle task.
LEMMA NewUserShape ==
    ASSUME NEW pid \in Nat, NEW parent \in Nat
    PROVE  LET t == NewUser(pid, parent)
           IN  /\ t \in Task /\ t.state = "Ready" /\ ~t.idle /\ t.is_user
               /\ t.pinned_cpu = CPU_ANY
BY NewUserType, ZenonT(40) DEF NewUser, NewTask, DeadTask

\* spawn, fork and clone fill a Dead slot and are Quiet.
LEMMA QuietInstall ==
    ASSUME TypeOK, NEW c \in Cpus, NEW t \in Task, Install(c, t),
           t.state = "Ready", ~t.idle, t.is_user, t.pinned_cpu = CPU_ANY, ~Restful(tasks, cur[c]),
           \A d \in Cpus : mode'[d] \in {"reap", "pick"} => mode[d] \in {"reap", "pick"}
    PROVE  Quiet
<1>a. cur[c] \in Slots /\ Me(c) \in Task
  BY DEF TypeOK, Me
<1>b. UNCHANGED <<cur, ctx>>
  BY DEF Install
<1>1. CASE DeadSlots(tasks) = {}
  <2>1. tasks' = tasks
    BY <1>1 DEF Install
  <2> QED BY <1>b, <2>1, QuietTable DEF Kept
<1>2. CASE DeadSlots(tasks) # {}
  <2> DEFINE d == Lowest(DeadSlots(tasks))
             v == Adopt(Me(c), t)
  <2>1. d \in Slots /\ tasks[d].state = "Dead"
    <3>1. d \in DeadSlots(tasks)
      BY <1>2, LowestSlot DEF DeadSlots
    <3> QED BY <3>1 DEF DeadSlots
  <2>2. tasks' = [tasks EXCEPT ![cur[c]] = v, ![d] = t]
    BY <1>2 DEF Install
  <2>3. /\ v.pid = Me(c).pid /\ v.idle = Me(c).idle /\ v.pinned_cpu = Me(c).pinned_cpu
        /\ v.state = Me(c).state
    BY <1>a DEF Adopt, Task
  <2> HIDE DEF d, v
  <2>4. /\ tasks'[d] = t
        /\ \A k \in Slots \ {d} : tasks'[k] = IF k = cur[c] THEN v ELSE tasks[k]
    BY <1>a, <2>1, <2>2 DEF TypeOK
  <2>5. Born(d)
    BY <2>1, <2>4 DEF Born
  <2>6. \A k \in Slots \ {d} : Kept(tasks, tasks', k)
    BY <2>3, <2>4 DEF Kept, Me
  <2>7. \A k \in Slots : Restful(tasks, k) => tasks'[k] = tasks[k]
    BY <2>1, <2>4 DEF Restful
  <2> QED BY <1>b, <2>5, <2>6, <2>7 DEF Quiet
<1> QED BY <1>1, <1>2

\* Every system call is Quiet.
LEMMA QuietSyscall ==
    ASSUME TypeOK, NEW c \in Cpus, Syscall(c)
    PROVE  Quiet
<1> DEFINE me == cur[c]
           Modes == {"task", "tail", "hooks", "reap", "pick"}
<1>a. /\ tasks \in [Slots -> Task] /\ mode \in [Cpus -> Modes] /\ me \in Slots
      /\ \A s \in Slots : tasks[s] \in Task
  BY DEF TypeOK
<1>b. ASSUME ToTail(c) PROVE \A d \in Cpus : mode'[d] \in {"reap", "pick"} => mode[d] \in {"reap", "pick"}
  BY <1>a, <1>b DEF ToTail
<1>c. \A call : User(c, call) \/ Kernel(c, call) => ~Restful(tasks, me)
  BY DEF User, Kernel, Me, Restful
<1>d. ASSUME NEW st \in Blocked, Park(c, st), ~Restful(tasks, me) PROVE Quiet
  <2> DEFINE u == [tasks[me] EXCEPT !.state = st]
  <2>1. tasks' = [tasks EXCEPT ![me] = u]
    BY <1>a, <1>d DEF Park
  <2>2. /\ u.pid = tasks[me].pid /\ u.idle = tasks[me].idle
        /\ u.pinned_cpu = tasks[me].pinned_cpu /\ u.state = st
    BY <1>a DEF Task
  <2>3. UNCHANGED <<cur, ctx>> /\ ToTail(c) /\ st # "Running" /\ st # "Dead"
    BY <1>d DEF Park, Blocked
  <2> HIDE DEF u
  <2> QED BY <1>a, <1>b, <1>d, <2>1, <2>2, <2>3, QuietUpdate
<1>1. CASE Yield(c)
  BY <1>1, <1>b, QuietTable DEF Yield, Kept
<1>2. CASE Sleep(c)
  BY <1>2, <1>c, <1>d DEF Sleep, Blocked
<1>3. CASE ReadChar(c)
  <2>1. CASE keys > 0
    BY <1>3, <1>b, <2>1, QuietTable DEF ReadChar, Kept
  <2>2. CASE ~(keys > 0)
    BY <1>3, <1>c, <1>d, <2>2 DEF ReadChar, Blocked
  <2> QED BY <2>1, <2>2
<1>4. CASE Block(c)
  BY <1>4, <1>c, <1>d DEF Block, Blocked
<1>5. ASSUME NEW s \in Slots, Wake(c, s) PROVE Quiet
  <2> DEFINE u == [tasks[s] EXCEPT !.state = "Ready"]
  <2>1. tasks' = [tasks EXCEPT ![s] = u] /\ ToTail(c) /\ UNCHANGED <<cur, ctx>>
    BY <1>a, <1>5 DEF Wake
  <2>2. /\ u.pid = tasks[s].pid /\ u.idle = tasks[s].idle
        /\ u.pinned_cpu = tasks[s].pinned_cpu /\ u.state = "Ready"
    BY <1>a DEF Task
  <2>3. ~Restful(tasks, s)
    BY <1>5 DEF Wake, Restful
  <2> HIDE DEF u
  <2> QED BY <1>b, <2>1, <2>2, <2>3, QuietUpdate
<1>e. \A s \in Slots : tasks[s].pid \in Nat /\ tasks[s].tgid \in Nat /\ nextPid \in Nat
  BY DEF TypeOK, Task
<1>6. CASE Spawn(c)
  <2>1. Install(c, NewUser(nextPid, Me(c).pid)) /\ mode' = mode /\ ~Restful(tasks, me)
    BY <1>6, <1>c DEF Spawn, Shell
  <2> DEFINE t == NewUser(nextPid, Me(c).pid)
  <2>2. t \in Task /\ t.state = "Ready" /\ ~t.idle /\ t.is_user /\ t.pinned_cpu = CPU_ANY
    BY <1>a, <1>e, NewUserShape DEF Me
  <2> HIDE DEF t
  <2>3. Install(c, t)
    BY <2>1 DEF t
  <2> QED BY <2>1, <2>2, <2>3, QuietInstall
<1>7. CASE Fork(c)
  <2> DEFINE n == NewUser(nextPid, Me(c).pid)
             t == [n EXCEPT !.sig_handlers = Me(c).sig_handlers]
  <2>1. /\ n \in Task /\ n.state = "Ready" /\ ~n.idle /\ n.is_user /\ n.pinned_cpu = CPU_ANY
        /\ Me(c) \in Task
    BY <1>a, <1>e, NewUserShape DEF Me
  <2>2. Install(c, t) /\ ToTail(c) /\ ~Restful(tasks, me)
    BY <1>7, <1>c DEF Fork
  <2> HIDE DEF n
  <2>3. t \in Task /\ t.state = "Ready" /\ ~t.idle /\ t.is_user /\ t.pinned_cpu = CPU_ANY
    BY <2>1 DEF Task
  <2> HIDE DEF t
  <2> QED BY <1>b, <2>2, <2>3, QuietInstall
<1>8. CASE Clone(c)
  <2> DEFINE n == NewUser(nextPid, Me(c).tgid)
             t == [n EXCEPT !.tgid = Me(c).tgid, !.user_space = Me(c).user_space,
                            !.sig_handlers = Me(c).sig_handlers]
  <2>1. /\ n \in Task /\ n.state = "Ready" /\ ~n.idle /\ n.is_user /\ n.pinned_cpu = CPU_ANY
        /\ Me(c) \in Task
    BY <1>a, <1>e, NewUserShape DEF Me
  <2>2. Install(c, t) /\ ToTail(c) /\ ~Restful(tasks, me)
    BY <1>8, <1>c DEF Clone
  <2> HIDE DEF n
  <2>3. t \in Task /\ t.state = "Ready" /\ ~t.idle /\ t.is_user /\ t.pinned_cpu = CPU_ANY
    BY <2>1 DEF Task
  <2> HIDE DEF t
  <2> QED BY <1>b, <2>2, <2>3, QuietInstall
<1>9. CASE Exec(c)
  <2> DEFINE u == [tasks[me] EXCEPT !.user_space = MaxPid + execs + 1,
                                    !.sig_pending = {}, !.sig_handlers = {}]
  <2>1. ToTail(c) /\ UNCHANGED <<cur, ctx>> /\ ~Restful(tasks, me)
    BY <1>9, <1>c DEF Exec
  <2>2. tasks' = tasks \/ tasks' = [tasks EXCEPT ![me] = u]
    BY <1>9 DEF Exec
  <2>3. /\ u.pid = tasks[me].pid /\ u.idle = tasks[me].idle
        /\ u.pinned_cpu = tasks[me].pinned_cpu /\ u.state = tasks[me].state
    BY <1>a DEF Task
  <2> HIDE DEF u
  <2>4. CASE tasks' = tasks
    BY <1>b, <2>1, <2>4, QuietTable DEF Kept
  <2>5. CASE tasks' = [tasks EXCEPT ![me] = u]
    BY <1>a, <1>b, <2>1, <2>3, <2>5, QuietUpdate
  <2> QED BY <2>2, <2>4, <2>5
<1>f. ASSUME NEW u, tasks' = [tasks EXCEPT ![me] = u],
             u.pid = tasks[me].pid, u.idle = tasks[me].idle,
             u.pinned_cpu = tasks[me].pinned_cpu,
             u.state = tasks[me].state \/ u.state \in Blocked,
             ToTail(c), UNCHANGED <<cur, ctx>>, ~Restful(tasks, me)
      PROVE  Quiet
  <2>1. \A st \in Blocked : st # "Running" /\ st # "Dead"
    BY DEF Blocked
  <2> QED BY <1>a, <1>b, <1>f, <2>1, QuietUpdate
<1>h. ASSUME NEW n, WaitFor(c, n), ~Restful(tasks, me) PROVE Quiet
  <2> DEFINE K == IF n = 0 THEN {} ELSE {n}
             done == [tasks[me] EXCEPT !.kids = tasks[me].kids \ K]
             parked == [tasks[me] EXCEPT !.state = "WaitingChild", !.wait_target = n,
                                         !.kids = tasks[me].kids \ K]
  <2>1. \/ tasks' = [tasks EXCEPT ![me] = done]
        \/ tasks' = [tasks EXCEPT ![me] = parked]
    BY <1>h DEF WaitFor, Me
  <2>2. ToTail(c) /\ UNCHANGED <<cur, ctx>>
    BY <1>h DEF WaitFor
  <2>3. \A u \in {done, parked} :
           /\ u.pid = tasks[me].pid /\ u.idle = tasks[me].idle
           /\ u.pinned_cpu = tasks[me].pinned_cpu
           /\ u.state = tasks[me].state \/ u.state \in Blocked
    BY <1>a DEF Task, Blocked
  <2> HIDE DEF done, parked
  <2> QED BY <1>f, <1>h, <2>1, <2>2, <2>3
<1>10. CASE Wait(c)
  BY <1>10, <1>c, <1>h DEF Wait
<1>11. CASE WaitAny(c)
  BY <1>11, <1>c, <1>h DEF WaitAny
<1>i. ASSUME NEW n, JoinFor(c, n), ~Restful(tasks, me) PROVE Quiet
  <2> DEFINE K == IF n = 0 THEN {} ELSE {n}
             dead == {s \in Slots : /\ tasks[s].state = "Zombie" /\ tasks[s].tgid = Me(c).tgid
                                    /\ tasks[s].pid # Me(c).pid /\ n \in {0, tasks[s].pid}}
             z == Lowest(dead)
             joined == [tasks[me] EXCEPT !.threads = tasks[me].threads \ K]
             held == [tasks[me] EXCEPT !.state = "BlockedJoin", !.join_target = n,
                                       !.threads = tasks[me].threads \ K]
  <2>1. ToTail(c) /\ UNCHANGED <<cur, ctx>>
    BY <1>i DEF JoinFor
  <2>2. \A u \in {joined, held} :
           /\ u.pid = tasks[me].pid /\ u.idle = tasks[me].idle
           /\ u.pinned_cpu = tasks[me].pinned_cpu
           /\ u.state = tasks[me].state \/ u.state \in Blocked
    BY <1>a DEF Task, Blocked
  <2>3. CASE dead # {}
    <3>1. z \in dead
      BY <2>3, LowestSlot
    <3>2. tasks' = [tasks EXCEPT ![me] = joined, ![z] = DeadTask]
      BY <1>i, <2>3 DEF JoinFor
    <3>3. z \in Slots /\ tasks[z].state = "Zombie" /\ tasks[z].pid # tasks[me].pid
      BY <3>1 DEF Me
    <3>4. joined.state = tasks[me].state
      BY <1>a DEF Task
    <3> HIDE DEF z, dead, joined
    <3>5. /\ tasks'[z] = DeadTask /\ tasks'[me] = joined
          /\ \A k \in Slots \ {z, me} : tasks'[k] = tasks[k]
      BY <1>a, <3>2, <3>3
    <3>6. \A k \in Slots \ {z} : Kept(tasks, tasks', k)
      BY <2>2, <3>4, <3>5 DEF Kept
    <3>7. \A k \in Slots \ {z} : Restful(tasks, k) => tasks'[k] = tasks[k]
      BY <1>i, <3>5
    <3> QED BY <1>b, <2>1, <3>3, <3>5, <3>6, <3>7, QuietFree
  <2>4. CASE dead = {}
    <3>1. tasks' = [tasks EXCEPT ![me] = joined] \/ tasks' = [tasks EXCEPT ![me] = held]
      BY <1>i, <2>4 DEF JoinFor, Me
    <3> HIDE DEF joined, held
    <3> QED BY <1>f, <1>i, <2>1, <2>2, <3>1
  <2> QED BY <2>3, <2>4
<1>12. CASE Join(c)
  BY <1>12, <1>c, <1>i DEF Join
<1>13. CASE JoinAny(c)
  BY <1>13, <1>c, <1>i DEF JoinAny
<1>j. ASSUME NEW T \in [Slots -> Task],
             \A k \in Slots : Kept(tasks, T, k),
             \A k \in Slots : Restful(tasks, k) => T[k] = tasks[k],
             tasks' = FinishZombie(T, me), ~Restful(tasks, me),
             mode' = [mode EXCEPT ![c] = "hooks"], UNCHANGED <<cur, ctx>>
      PROVE  Quiet
  <2> DEFINE F == FinishZombie(T, me)
  <2>1. /\ \A k \in Slots : Kept(T, F, k)
        /\ \A k \in Slots : Restful(T, k) /\ k # me => F[k] = T[k]
    BY <1>a, FinishZombieKeeps
  <2> HIDE DEF F
  <2>2. tasks' = F
    BY <1>j DEF F
  <2>3. \A k \in Slots : Kept(tasks, F, k)
    BY <1>j, <2>1, KeptChain
  <2>4. \A k \in Slots : Restful(tasks, k) => F[k] = tasks[k]
    BY <1>j, <2>1 DEF Restful
  <2>5. \A d \in Cpus : mode'[d] \in {"reap", "pick"} => mode[d] \in {"reap", "pick"}
    BY <1>a, <1>j
  <2> QED BY <1>j, <2>2, <2>3, <2>4, <2>5, QuietTable
<1>k. /\ Sweep(tasks, me) \in [Slots -> Task]
      /\ \A k \in Slots : Kept(tasks, Sweep(tasks, me), k)
      /\ \A k \in Slots : Restful(tasks, k) => Sweep(tasks, me)[k] = tasks[k]
  BY <1>a, SweepKeeps, SweepType
<1>14. CASE Exit(c)
  <2>1. /\ tasks' = FinishZombie(Sweep(tasks, me), me) /\ UNCHANGED <<cur, ctx>>
        /\ mode' = [mode EXCEPT ![c] = "hooks"] /\ ~Restful(tasks, me)
    BY <1>14, <1>c DEF Exit
  <2> QED BY <1>j, <1>k, <2>1
<1>15. CASE Texit(c)
  <2>1. /\ \/ tasks' = FinishZombie(Sweep(tasks, me), me)
           \/ tasks' = FinishZombie(tasks, me)
        /\ UNCHANGED <<cur, ctx>>
        /\ mode' = [mode EXCEPT ![c] = "hooks"] /\ ~Restful(tasks, me)
    BY <1>15, <1>c DEF Texit
  <2>2. CASE tasks' = FinishZombie(Sweep(tasks, me), me)
    BY <1>j, <1>k, <2>1, <2>2
  <2>3. CASE tasks' = FinishZombie(tasks, me)
    BY <1>a, <1>j, <2>1, <2>3 DEF Kept
  <2> QED BY <2>1, <2>2, <2>3
<1>16. ASSUME NEW s \in Slots, NEW sig \in Signals, SendSignal(c, s, sig) PROVE Quiet
  <2> DEFINE t == tasks[s]
             st == IF t.state \in Blocked THEN "Ready" ELSE t.state
             u == [t EXCEPT !.sig_pending = t.sig_pending \cup {sig}, !.state = st,
                            !.wake_due = FALSE]
  <2>1. tasks' = [tasks EXCEPT ![s] = u] /\ UNCHANGED <<cur, ctx>>
    BY <1>a, <1>16 DEF SendSignal
  <2>2. u.pid = t.pid /\ u.idle = t.idle /\ u.pinned_cpu = t.pinned_cpu /\ u.state = st
    BY <1>a DEF Task
  <2>3. ~Restful(tasks, s)
    BY <1>16 DEF SendSignal, Restful
  <2>4. \A d \in Cpus : mode'[d] \in {"reap", "pick"} => mode[d] \in {"reap", "pick"}
    BY <1>a, <1>16 DEF SendSignal
  <2>5. (st = "Running" => t.state = "Running") /\ (st = "Dead" => t.state = "Dead")
    OBVIOUS
  <2> HIDE DEF u, st
  <2> QED BY <2>1, <2>2, <2>3, <2>4, <2>5, QuietUpdate
<1>17. ASSUME NEW sig \in Signals, SigAction(c, sig) PROVE Quiet
  <2>1. PICK on \in BOOLEAN :
           tasks' = [tasks EXCEPT ![me].sig_handlers =
                        IF on THEN @ \cup {sig} ELSE @ \ {sig}]
    BY <1>17 DEF SigAction
  <2> DEFINE H == IF on THEN tasks[me].sig_handlers \cup {sig}
                  ELSE tasks[me].sig_handlers \ {sig}
             u == [tasks[me] EXCEPT !.sig_handlers = H]
  <2>2. tasks' = [tasks EXCEPT ![me] = u]
    BY <1>a, <2>1
  <2>3. ToTail(c) /\ UNCHANGED <<cur, ctx>> /\ ~Restful(tasks, me)
    BY <1>17, <1>c DEF SigAction
  <2>4. /\ u.pid = tasks[me].pid /\ u.idle = tasks[me].idle
        /\ u.pinned_cpu = tasks[me].pinned_cpu /\ u.state = tasks[me].state
    BY <1>a DEF Task
  <2> HIDE DEF u
  <2> QED BY <1>f, <2>2, <2>3, <2>4
<1>l. ASSUME NEW s \in Slots, tasks' = [tasks EXCEPT ![s] = DeadTask],
             tasks[s].pid # Me(c).pid, UNCHANGED <<cur, mode, ctx>>,
             tasks[s].state = "Zombie" \/ "killkernel" \in Workload
      PROVE  Quiet
  <2>1. tasks'[s] = DeadTask /\ \A k \in Slots \ {s} : tasks'[k] = tasks[k]
    BY <1>a, <1>l
  <2>2. \A k \in Slots \ {s} : Kept(tasks, tasks', k)
    BY <2>1 DEF Kept
  <2> QED BY <1>l, <2>1, <2>2, QuietFree DEF Me
<1>18. ASSUME NEW s \in Slots, KillZombie(c, s) PROVE Quiet
  BY <1>18, <1>l DEF KillZombie
<1>19. ASSUME NEW s \in Slots, KillKernel(c, s) PROVE Quiet
  BY <1>19, <1>l DEF KillKernel, Shell, Kernel
<1> QED BY <1>1, <1>2, <1>3, <1>4, <1>5, <1>6, <1>7, <1>8, <1>9, <1>10, <1>11, <1>12,
           <1>13, <1>14, <1>15, <1>16, <1>17, <1>18, <1>19 DEF Syscall

\* The entry of post_dispatch is Quiet: it parks its own task only.
LEMMA QuietEnter ==
    ASSUME TypeOK, NEW c \in Cpus, NEW timer \in BOOLEAN, Enter(c, timer)
    PROVE  Quiet
<1> DEFINE me == cur[c]
           A == IF timer THEN TimerDuties(tasks, c) ELSE tasks
           B == IF A[me].die_flag /\ A[me].state = "Running" THEN FinishZombie(A, me) ELSE A
           P == IF B[me].state = "Running" THEN [B EXCEPT ![me].state = "Ready"] ELSE B
           Modes == {"task", "tail", "hooks", "reap", "pick"}
<1>a. /\ tasks \in [Slots -> Task] /\ mode \in [Cpus -> Modes] /\ me \in Slots
  BY DEF TypeOK
<1>1. /\ A \in [Slots -> Task]
      /\ \A k \in Slots : Kept(tasks, A, k)
      /\ \A k \in Slots : Restful(tasks, k) => A[k] = tasks[k]
  BY <1>a, TimerDutiesType, TimerDutiesKeeps DEF Kept
<1> HIDE DEF A
<1>2. /\ B \in [Slots -> Task]
      /\ \A k \in Slots : Kept(A, B, k)
      /\ \A k \in Slots : Restful(A, k) => B[k] = A[k]
  <2>1. CASE A[me].die_flag /\ A[me].state = "Running"
    <3>1. B = FinishZombie(A, me) /\ ~Restful(A, me)
      BY <2>1 DEF Restful
    <3> HIDE DEF B
    <3>2. B \in [Slots -> Task]
      BY <1>1, <1>a, <3>1, FinishZombieType
    <3>3. /\ \A k \in Slots : Kept(A, B, k)
          /\ \A k \in Slots : Restful(A, k) /\ k # me => B[k] = A[k]
      BY <1>1, <1>a, <3>1, FinishZombieKeeps
    <3> QED BY <3>1, <3>2, <3>3
  <2>2. CASE ~(A[me].die_flag /\ A[me].state = "Running")
    BY <1>1, <2>2 DEF Kept
  <2> QED BY <2>1, <2>2
<1> HIDE DEF B
<1>3. /\ \A k \in Slots : Kept(tasks, B, k)
      /\ \A k \in Slots : Restful(tasks, k) => B[k] = tasks[k]
  BY <1>1, <1>2, KeptChain DEF Restful
<1>4. /\ \A k \in Slots \ {me} : P[k] = B[k]
      /\ P[me] = B[me] \/ P[me] = [B[me] EXCEPT !.state = "Ready"]
      /\ P[me].state # "Running"
  BY <1>2, <1>a DEF Task
<1>5. /\ P[me].pid = B[me].pid /\ P[me].idle = B[me].idle
      /\ P[me].pinned_cpu = B[me].pinned_cpu
      /\ P[me].state = "Dead" => B[me].state = "Dead"
  BY <1>2, <1>4, <1>a DEF Task
<1>6. UNCHANGED <<cur, ctx>>
  BY DEF Enter
<1>7. \/ tasks' = P
      \/ tasks' = B /\ mode' = [mode EXCEPT ![c] = "task"]
  BY DEF Enter, A, B
<1>8. \A d \in Cpus \ {c} : mode'[d] = mode[d]
  BY <1>a DEF Enter
<1> HIDE DEF P
<1>9. CASE tasks' = P
  <2>1. \A k \in Slots : Kept(tasks, tasks', k)
    BY <1>3, <1>4, <1>5, <1>9 DEF Kept
  <2>2. \A k \in Slots :
          Restful(tasks, k) =>
             \/ tasks'[k] = tasks[k]
             \/ cur[c] = k /\ tasks'[k] = [tasks[k] EXCEPT !.state = "Ready"]
    BY <1>3, <1>4, <1>9
  <2>3. \A d \in Cpus : mode'[d] \in {"reap", "pick"} =>
             mode[d] \in {"reap", "pick"} \/ tasks'[cur[d]].state # "Running"
    BY <1>4, <1>8, <1>9
  <2> QED BY <1>6, <2>1, <2>2, <2>3 DEF Quiet
<1>10. CASE tasks' = B /\ mode' = [mode EXCEPT ![c] = "task"]
  <2>1. \A d \in Cpus : mode'[d] \in {"reap", "pick"} => mode[d] \in {"reap", "pick"}
    BY <1>a, <1>10
  <2> QED BY <1>3, <1>6, <1>10, <2>1, QuietTable
<1> QED BY <1>7, <1>9, <1>10

\* An iteration of the reap loop is Quiet.
LEMMA QuietReap ==
    ASSUME TypeOK, NEW c \in Cpus, Reap(c)
    PROVE  Quiet
<1> DEFINE Z == Zombies(tasks, cur[c])
           z == Lowest(Z)
<1>1. z \in Z
  BY LowestSlot DEF Reap, Zombies
<1>2. z \in Slots /\ tasks[z].state = "Zombie" /\ tasks[z].pid # tasks[cur[c]].pid
  BY <1>1 DEF Zombies
<1>3. tasks' = [tasks EXCEPT ![z] = DeadTask] /\ UNCHANGED <<cur, ctx>>
  BY DEF Reap
<1>4. mode[c] = "reap" /\ \A d \in Cpus \ {c} : mode'[d] = mode[d]
  BY DEF Reap, TypeOK
<1> HIDE DEF z, Z
<1>5. tasks'[z] = DeadTask /\ \A k \in Slots \ {z} : tasks'[k] = tasks[k]
  BY <1>2, <1>3 DEF TypeOK
<1>6. \A k \in Slots \ {z} : Kept(tasks, tasks', k)
  BY <1>5 DEF Kept
<1>7. \A d \in Cpus : mode'[d] \in {"reap", "pick"} => mode[d] \in {"reap", "pick"}
  BY <1>4
<1> QED BY <1>2, <1>3, <1>5, <1>6, <1>7, QuietFree

\* Every step but Pick is Quiet.
LEMMA QuietStep ==
    ASSUME TypeOK, [Next]_vars, ~(\E c \in Cpus : Pick(c))
    PROVE  Quiet
<1>1. ASSUME NEW c \in Cpus, Syscall(c) PROVE Quiet
  BY <1>1, QuietSyscall
<1>2. ASSUME NEW c \in Cpus, Tail(c) \/ TimerIrq(c) \/ OtherIrq(c) PROVE Quiet
  <2>1. TRUE \in BOOLEAN /\ FALSE \in BOOLEAN
    OBVIOUS
  <2>2. Enter(c, TRUE) \/ Enter(c, FALSE)
    BY <1>2 DEF Tail, TimerIrq, OtherIrq
  <2> QED BY <2>1, <2>2, QuietEnter
<1>3. ASSUME NEW c \in Cpus, Reap(c) PROVE Quiet
  BY <1>3, QuietReap
<1>4. ASSUME NEW c \in Cpus, Hooks(c) PROVE Quiet
  <2>1. \A d \in Cpus : mode'[d] \in {"reap", "pick"} => mode[d] \in {"reap", "pick"}
    BY <1>4 DEF Hooks, ToTail, TypeOK
  <2> QED BY <1>4, <2>1, QuietTable DEF Hooks, Kept
<1>5. ASSUME NEW s \in Slots, Clock(s) PROVE Quiet
  <2> DEFINE u == [tasks[s] EXCEPT !.wake_due = TRUE]
  <2>1. tasks' = [tasks EXCEPT ![s] = u] /\ UNCHANGED <<cur, ctx, mode>>
    BY <1>5 DEF Clock, TypeOK
  <2>2. /\ u.pid = tasks[s].pid /\ u.idle = tasks[s].idle
        /\ u.pinned_cpu = tasks[s].pinned_cpu /\ u.state = tasks[s].state
    BY DEF TypeOK, Task
  <2>3. ~Restful(tasks, s)
    BY <1>5 DEF Clock, Restful
  <2> HIDE DEF u
  <2> QED BY <2>1, <2>2, <2>3, QuietUpdate
<1>6. CASE UNCHANGED vars
  BY <1>6, QuietTable DEF vars, Kept
<1> QED BY <1>1, <1>2, <1>3, <1>4, <1>5, <1>6 DEF Next, Dispatch

-----------------------------------------------------------------------------
(* One CPU: nobody can free the slot of the task that is on it.              *)

OwnSlot == \A c \in Cpus : tasks[cur[c]].pid = ctx[c] /\ tasks[cur[c]].state # "Dead"

\* At boot every CPU runs on the slot it calls current.
LEMMA OwnSlotInit == TypeOK /\ Init => OwnSlot
<1> SUFFICES ASSUME TypeOK, Init, NEW c \in Cpus
             PROVE  tasks[cur[c]].pid = ctx[c] /\ tasks[cur[c]].state # "Dead"
  BY DEF OwnSlot
<1>1. cur[c] \in Slots /\ tasks[cur[c]] = BootTask(cur[c])
  BY DEF Init, TypeOK
<1>2. CASE c = 0
  BY <1>1, <1>2 DEF Init, BootTask, NewTask, DeadTask
<1>3. CASE c # 0
  <2>1. /\ cur[c] = NDaemons + 1 + c /\ ctx[c] = NDaemons + c + 2
        /\ cur[c] > NDaemons + 1 /\ cur[c] > 1 /\ cur[c] <= NDaemons + NCpus
    BY <1>3, SizesAssumption DEF Init, Kidle, Cpus
  <2>2. BootTask(cur[c]) = [NewTask(cur[c] + 1, cur[c] - NDaemons - 1, 1) EXCEPT
                               !.idle = TRUE, !.state = "Running"]
    BY <1>1, <2>1, SizesAssumption DEF BootTask, Slots
  <2>3. BootTask(cur[c]).pid = cur[c] + 1 /\ BootTask(cur[c]).state = "Running"
    BY <2>2 DEF NewTask, DeadTask
  <2> QED BY <1>1, <2>1, <2>3, SizesAssumption DEF Cpus
<1> QED BY <1>2, <1>3

\* With one CPU every step keeps it so.
LEMMA OwnSlotStep == NCpus = 1 /\ TypeOK /\ OwnSlot /\ [Next]_vars => OwnSlot'
<1> SUFFICES ASSUME NCpus = 1, TypeOK, OwnSlot, [Next]_vars PROVE OwnSlot'
  OBVIOUS
<1>a. Cpus = {0}
  BY DEF Cpus
<1>b. tasks \in [Slots -> Task] /\ cur \in [Cpus -> Slots] /\ ctx \in [Cpus -> Nat]
  BY DEF TypeOK
<1>1. CASE ~(\E c \in Cpus : Pick(c))
  <2>1. Quiet
    BY <1>1, QuietStep
  <2>2. \A k \in Slots : k = cur[0] => Kept(tasks, tasks', k)
    BY <1>a, <2>1 DEF Quiet, Freed, Born, OwnSlot
  <2> QED BY <1>a, <1>b, <2>1, <2>2 DEF OwnSlot, Quiet, Kept
<1>2. ASSUME Pick(0) PROVE OwnSlot'
  <2>1. ASSUME NEW n \in Best(tasks, 0), Resume(0, n) PROVE OwnSlot'
    <3>1. n \in Slots
      BY DEF Best, Eligible
    <3>2. cur'[0] = n /\ ctx'[0] = tasks[n].pid
      BY <1>a, <1>b, <2>1 DEF Resume
    <3>3. tasks'[n].pid = tasks[n].pid /\ tasks'[n].state = "Running"
      <4> DEFINE u == [tasks[n] EXCEPT !.state = "Running",
                                       !.sig_pending = Undelivered(tasks[n])]
      <4>1. u.pid = tasks[n].pid /\ u.state = "Running"
        BY <1>b, <3>1 DEF Task
      <4>2. tasks'[n] = u
        BY <1>b, <2>1, <3>1 DEF Resume
      <4> QED BY <4>1, <4>2
    <3> QED BY <1>a, <3>2, <3>3 DEF OwnSlot
  <2>2. ASSUME NEW n \in Best(tasks, 0), tasks' = FinishZombie(tasks, n), UNCHANGED <<cur, ctx>>
        PROVE OwnSlot'
    <3>1. n \in Slots
      BY DEF Best, Eligible
    <3>2. Kept(tasks, tasks', cur[0])
      BY <1>a, <1>b, <2>2, <3>1, FinishZombieKeeps
    <3> QED BY <1>a, <2>2, <3>2 DEF OwnSlot, Kept
  <2>3. ASSUME tasks' = [tasks EXCEPT ![cur[0]].state = "Running"], UNCHANGED <<cur, ctx>>
        PROVE  OwnSlot'
    <3>1. tasks'[cur[0]].pid = tasks[cur[0]].pid /\ tasks'[cur[0]].state = "Running"
      BY <1>a, <1>b, <2>3 DEF Task
    <3> QED BY <1>a, <2>3, <3>1 DEF OwnSlot
  <2> QED BY <1>2, <2>1, <2>2, <2>3 DEF Pick
<1> QED BY <1>1, <1>2, <1>a

(* On one CPU the slot a CPU calls current always holds the task whose       *)
(* kernel stack it executes on, whatever the programs call and however long  *)
(* the system runs: the reaper's `pid # current' guard is enough there.      *)
THEOREM UniprocessorSlots == NCpus = 1 => (Spec => []NoPulledSlot)
<1> SUFFICES ASSUME NCpus = 1 PROVE Spec => []NoPulledSlot
  OBVIOUS
<1>1. Init => TypeOK /\ OwnSlot
  BY InitType, OwnSlotInit
<1>2. TypeOK /\ OwnSlot /\ [Next]_vars => (TypeOK /\ OwnSlot)'
  BY StepType, OwnSlotStep
<1>3. OwnSlot => NoPulledSlot
  BY DEF OwnSlot, NoPulledSlot
<1> QED BY <1>1, <1>2, <1>3, PTL DEF Spec

-----------------------------------------------------------------------------
(* The idle tasks.  IdleHome is not inductive alone: nothing in it keeps a   *)
(* signal, a mark or another CPU away from an idle task, or says that the    *)
(* one a CPU has just parked is Ready.                                      *)

IdleInv ==
    /\ \A s \in Slots : tasks[s].idle => \E c \in Cpus : s = Kidle(c)
    /\ \A c \in Cpus : Restful(tasks, Kidle(c)) /\ tasks[Kidle(c)].pinned_cpu = c
    /\ \A c \in Cpus : cur[c] # Kidle(c) => tasks[Kidle(c)].state = "Ready"
    /\ \A c, d \in Cpus : cur[c] = Kidle(d) => c = d
    /\ \A c \in Cpus : mode[c] \in {"reap", "pick"} /\ cur[c] = Kidle(c)
                          => tasks[Kidle(c)].state = "Ready"

\* Every CPU has an idle slot of its own.
LEMMA KidleSlots ==
    /\ \A c \in Cpus : Kidle(c) \in Slots /\ Kidle(c) # 0
    /\ \A c, d \in Cpus : Kidle(c) = Kidle(d) => c = d
BY SizesAssumption DEF Kidle, Cpus, Slots

\* The inductive invariant implies IdleHome.
LEMMA IdleHomeFollows == IdleInv => IdleHome
BY DEF IdleInv, IdleHome, Restful

\* It holds at boot.
LEMMA IdleInit == TypeOK /\ Init => IdleInv
<1> SUFFICES ASSUME TypeOK, Init PROVE IdleInv
  OBVIOUS
<1>a. \A s \in Slots : tasks[s] = BootTask(s)
  BY DEF Init
<1>b. \A s \in Slots : s \in Nat
  BY DEF Slots
<1>1. ASSUME NEW c \in Cpus
      PROVE  /\ tasks[Kidle(c)].idle /\ ~tasks[Kidle(c)].is_user /\ ~tasks[Kidle(c)].die_flag
             /\ tasks[Kidle(c)].pinned_cpu = c
             /\ tasks[Kidle(c)].state = IF c = 0 THEN "Ready" ELSE "Running"
  <2>1. CASE c = 0
    <3>1. Kidle(c) = 1 /\ 1 \in Slots
      BY <2>1, SizesAssumption DEF Kidle, Slots
    <3>2. BootTask(1) = [NewTask(2, 0, 1) EXCEPT !.idle = TRUE]
      BY DEF BootTask
    <3>3. /\ BootTask(1).idle /\ ~BootTask(1).is_user /\ ~BootTask(1).die_flag
          /\ BootTask(1).pinned_cpu = 0 /\ BootTask(1).state = "Ready"
      BY <3>2 DEF NewTask, DeadTask
    <3> QED BY <1>a, <2>1, <3>1, <3>3
  <2>2. CASE c # 0
    <3> DEFINE s == Kidle(c)
    <3>1. /\ s = NDaemons + 1 + c /\ s \in Slots /\ s > NDaemons + 1 /\ s > 1
          /\ s <= NDaemons + NCpus /\ s - NDaemons - 1 = c
      BY <2>2, SizesAssumption DEF Kidle, Slots, Cpus
    <3> HIDE DEF s
    <3>2. BootTask(s) = [NewTask(s + 1, s - NDaemons - 1, 1) EXCEPT
                            !.idle = TRUE, !.state = "Running"]
      BY <3>1, SizesAssumption DEF BootTask, Slots
    <3>3. /\ BootTask(s).idle /\ ~BootTask(s).is_user /\ ~BootTask(s).die_flag
          /\ BootTask(s).pinned_cpu = s - NDaemons - 1 /\ BootTask(s).state = "Running"
      BY <3>2 DEF NewTask, DeadTask
    <3> QED BY <1>a, <2>2, <3>1, <3>3 DEF s
  <2> QED BY <2>1, <2>2
<1>2. ASSUME NEW s \in Slots, tasks[s].idle PROVE \E c \in Cpus : s = Kidle(c)
  <2>1. s = 1 \/ (s > NDaemons + 1 /\ s <= NDaemons + NCpus)
    <3>1. CASE s = 0
      <4>1. BootTask(s) = [NewTask(1, 0, 0) EXCEPT !.state = "Running"]
        BY <3>1 DEF BootTask
      <4>2. ~BootTask(s).idle
        BY <4>1 DEF NewTask, DeadTask
      <4> QED BY <1>a, <1>2, <4>2
    <3>2. CASE s > 1 /\ s <= NDaemons + 1
      <4>1. BootTask(s) = NewTask(s + 1, CPU_ANY, 1)
        BY <1>b, <3>2 DEF BootTask
      <4>2. ~BootTask(s).idle
        BY <4>1 DEF NewTask, DeadTask
      <4> QED BY <1>a, <1>2, <4>2
    <3>3. CASE s > 1 /\ s > NDaemons + NCpus
      <4>1. BootTask(s) = DeadTask
        BY <1>b, <3>3, SizesAssumption DEF BootTask
      <4> QED BY <1>a, <1>2, <4>1 DEF DeadTask
    <3> QED BY <1>b, <3>1, <3>2, <3>3, SizesAssumption
  <2>2. CASE s = 1
    BY <2>2, SizesAssumption DEF Kidle, Cpus
  <2>3. CASE s > NDaemons + 1 /\ s <= NDaemons + NCpus
    <3>1. s - NDaemons - 1 \in Cpus /\ s - NDaemons - 1 # 0
      BY <1>b, <2>3, SizesAssumption DEF Cpus
    <3>2. Kidle(s - NDaemons - 1) = s
      BY <1>b, <2>3, SizesAssumption, <3>1 DEF Kidle
    <3> QED BY <3>1, <3>2
  <2> QED BY <2>1, <2>2, <2>3
<1>3. \A c \in Cpus : cur[c] = (IF c = 0 THEN 0 ELSE Kidle(c)) /\ mode[c] = "task"
  BY DEF Init
<1>4. \A c, d \in Cpus : cur[c] = Kidle(d) => c = d
  BY <1>3, KidleSlots
<1>5. \A c \in Cpus : cur[c] # Kidle(c) => tasks[Kidle(c)].state = "Ready"
  BY <1>1, <1>3
<1> QED BY <1>1, <1>2, <1>3, <1>4, <1>5 DEF IdleInv, Restful

\* The state of an idle task is all a Quiet step may change in it.
LEMMA IdleQuiet ==
    ASSUME TypeOK, IdleInv, Quiet, "killkernel" \notin Workload
    PROVE  IdleInv'
<1>a. /\ \A s \in Slots : tasks[s] \in Task
      /\ \A c \in Cpus : Kidle(c) \in Slots /\ Restful(tasks, Kidle(c))
  BY KidleSlots DEF TypeOK, IdleInv
<1>1. ASSUME NEW c \in Cpus
      PROVE  \/ tasks'[Kidle(c)] = tasks[Kidle(c)]
             \/ /\ cur[c] = Kidle(c)
                /\ tasks'[Kidle(c)] = [tasks[Kidle(c)] EXCEPT !.state = "Ready"]
  BY <1>a DEF Quiet, IdleInv
<1>2. ASSUME NEW c \in Cpus
      PROVE  /\ Restful(tasks', Kidle(c)) /\ tasks'[Kidle(c)].pinned_cpu = c
             /\ tasks'[Kidle(c)].state = "Ready" \/ tasks'[Kidle(c)] = tasks[Kidle(c)]
  <2>1. CASE tasks'[Kidle(c)] = tasks[Kidle(c)]
    BY <2>1 DEF IdleInv, Restful
  <2>2. CASE tasks'[Kidle(c)] = [tasks[Kidle(c)] EXCEPT !.state = "Ready"]
    BY <1>a, <2>2 DEF IdleInv, Restful, Task
  <2> QED BY <1>1, <2>1, <2>2
<1>3. \A s \in Slots : tasks'[s].idle => \E c \in Cpus : s = Kidle(c)
  <2>1. ~DeadTask.idle
    BY DEF DeadTask
  <2> QED BY <2>1 DEF Quiet, Kept, Freed, Born, IdleInv
<1>4. \A c \in Cpus : mode'[c] \in {"reap", "pick"} /\ cur'[c] = Kidle(c)
                         => tasks'[Kidle(c)].state = "Ready"
  <2> SUFFICES ASSUME NEW c \in Cpus, mode'[c] \in {"reap", "pick"}, cur'[c] = Kidle(c)
               PROVE  tasks'[Kidle(c)].state = "Ready"
    OBVIOUS
  <2>1. cur[c] = Kidle(c)
    BY DEF Quiet
  <2>2. mode[c] \in {"reap", "pick"} \/ tasks'[Kidle(c)].state # "Running"
    BY <2>1 DEF Quiet
  <2>3. CASE mode[c] \in {"reap", "pick"}
    BY <1>2, <2>1, <2>3 DEF IdleInv
  <2>4. CASE tasks'[Kidle(c)].state # "Running"
    BY <1>2, <2>4 DEF Restful
  <2> QED BY <2>2, <2>3, <2>4
<1>5. \A c \in Cpus : cur'[c] # Kidle(c) => tasks'[Kidle(c)].state = "Ready"
  BY <1>2 DEF Quiet, IdleInv
<1>6. \A c, d \in Cpus : cur'[c] = Kidle(d) => c = d
  BY DEF Quiet, IdleInv
<1> QED BY <1>2, <1>3, <1>4, <1>5, <1>6 DEF IdleInv

\* Where the pick loop has a candidate it finds one.
LEMMA BestExists ==
    ASSUME TypeOK, IdleInv, NEW c \in Cpus, Eligible(tasks, c) # {}
    PROVE  Best(tasks, c) # {}
<1> DEFINE N == {s \in Eligible(tasks, c) : ~tasks[s].idle}
           I == {s \in Eligible(tasks, c) : tasks[s].idle}
           p(s) == tasks[s].pid
           P == {p(s) : s \in N}
           H == {p(s) : s \in {x \in N : p(x) > p(cur[c])}}
<1>a. Eligible(tasks, c) \subseteq Slots /\ \A s \in Slots : p(s) \in Nat
  BY DEF Eligible, TypeOK, Task
<1>b. p(cur[c]) \in Nat
  BY <1>a DEF TypeOK
<1>1. CASE N # {} /\ H # {}
  <2>1. H \in SUBSET Nat
    BY <1>a
  <2>2. Lowest(H) \in H /\ \A r \in H : Lowest(H) <= r
    <3> HIDE DEF H
    <3> QED BY <1>1, <2>1, LowestIn
  <2>3. PICK s \in N : p(s) = Lowest(H) /\ p(s) > p(cur[c])
    BY <2>2
  <2>4. \A r \in N : RunsBefore(tasks, c, s, r)
    <3> TAKE r \in N
    <3>1. CASE p(r) > p(cur[c])
      BY <2>2, <2>3, <3>1 DEF RunsBefore
    <3>2. CASE ~(p(r) > p(cur[c]))
      BY <2>3, <3>2 DEF RunsBefore
    <3> QED BY <3>1, <3>2
  <2> QED BY <1>1, <2>3, <2>4 DEF Best
<1>2. CASE N # {} /\ H = {}
  <2>1. P \in SUBSET Nat /\ P # {}
    BY <1>a, <1>2
  <2>2. Lowest(P) \in P /\ \A r \in P : Lowest(P) <= r
    <3> HIDE DEF P
    <3> QED BY <2>1, LowestIn
  <2>3. PICK s \in N : p(s) = Lowest(P)
    BY <2>2
  <2>4. \A r \in N : ~(p(r) > p(cur[c]))
    BY <1>2
  <2>5. \A r \in N : RunsBefore(tasks, c, s, r)
    BY <2>2, <2>3, <2>4 DEF RunsBefore
  <2> QED BY <1>2, <2>3, <2>5 DEF Best
<1>3. CASE N = {}
  <2>1. I # {}
    BY <1>3
  <2>2. \A s \in I : s = Kidle(c)
    <3> TAKE s \in I
    <3>1. PICK d \in Cpus : s = Kidle(d)
      BY <1>a DEF IdleInv
    <3>2. tasks[s].pinned_cpu = d /\ tasks[s].pinned_cpu \in {CPU_ANY, c}
      BY <3>1 DEF IdleInv, Eligible
    <3>3. d # 255
      BY SizesAssumption DEF Cpus
    <3> QED BY <3>1, <3>2, <3>3
  <2>3. \A s \in I : s \in Nat
    BY <1>a DEF Slots
  <2>4. PICK s \in I : TRUE
    BY <2>1
  <2>5. \A r \in I : r <= s
    BY <2>2, <2>3, <2>4
  <2> QED BY <1>3, <2>4, <2>5 DEF Best
<1> QED BY <1>1, <1>2, <1>3

\* A pick either resumes a Ready task, or ends one, or keeps a parked idle task.
LEMMA PickShape ==
    ASSUME TypeOK, IdleInv, NEW c \in Cpus, Pick(c)
    PROVE  \/ \E n \in Slots :
                 /\ tasks[n].state = "Ready" /\ tasks[n].pinned_cpu \in {CPU_ANY, c}
                 /\ Resume(c, n)
           \/ /\ \E n \in Slots : Pending(tasks[n]) /\ tasks' = FinishZombie(tasks, n)
              /\ UNCHANGED <<cur, ctx, mode>>
           \/ /\ cur[c] = Kidle(c) /\ tasks[cur[c]].state = "Ready"
              /\ tasks' = [tasks EXCEPT ![cur[c]].state = "Running"]
              /\ mode' = [mode EXCEPT ![c] = "task"] /\ UNCHANGED <<cur, ctx>>
<1>1. \A n \in Best(tasks, c) : n \in Slots /\ tasks[n].state = "Ready"
                                 /\ tasks[n].pinned_cpu \in {CPU_ANY, c}
  BY DEF Best, Eligible
<1>2. CASE \E n \in Best(tasks, c) : MayHandle(tasks[n]) /\ Resume(c, n)
  BY <1>1, <1>2
<1>3. CASE \E n \in Best(tasks, c) : /\ Pending(tasks[n]) /\ tasks' = FinishZombie(tasks, n)
                                     /\ UNCHANGED <<cur, ctx, mode, lock>>
  BY <1>1, <1>3
<1>4. CASE /\ Best(tasks, c) = {}
           /\ tasks' = [tasks EXCEPT ![cur[c]].state = "Running"]
           /\ mode' = [mode EXCEPT ![c] = "task"] /\ UNCHANGED <<cur, ctx>>
  <2>1. Eligible(tasks, c) = {}
    BY <1>4, BestExists
  <2>2. Kidle(c) \in Slots /\ tasks[Kidle(c)].pinned_cpu = c
    BY KidleSlots DEF IdleInv
  <2>3. cur[c] = Kidle(c)
    BY <2>1, <2>2 DEF Eligible, IdleInv
  <2>4. mode[c] = "pick"
    BY DEF Pick
  <2>5. tasks[cur[c]].state = "Ready"
    BY <2>3, <2>4 DEF IdleInv
  <2> QED BY <1>4, <2>3, <2>5
<1> QED BY <1>2, <1>3, <1>4 DEF Pick

\* It survives every pick.
LEMMA IdlePick ==
    ASSUME TypeOK, IdleInv, NEW c \in Cpus, Pick(c)
    PROVE  IdleInv'
<1>a. /\ tasks \in [Slots -> Task] /\ cur \in [Cpus -> Slots]
      /\ mode \in [Cpus -> {"task", "tail", "hooks", "reap", "pick"}]
      /\ \A d \in Cpus : Kidle(d) \in Slots /\ Restful(tasks, Kidle(d))
  BY KidleSlots DEF TypeOK, IdleInv
<1>1. ASSUME NEW n \in Slots, tasks[n].state = "Ready",
             tasks[n].pinned_cpu \in {CPU_ANY, c}, Resume(c, n)
      PROVE  IdleInv'
  <2> DEFINE u == [tasks[n] EXCEPT !.state = "Running",
                                   !.sig_pending = Undelivered(tasks[n])]
  <2>1. /\ u.pid = tasks[n].pid /\ u.idle = tasks[n].idle /\ u.state = "Running"
        /\ u.pinned_cpu = tasks[n].pinned_cpu /\ u.is_user = tasks[n].is_user
        /\ u.die_flag = tasks[n].die_flag
    BY <1>a DEF Task
  <2>2. tasks' = [tasks EXCEPT ![n] = u]
    BY <1>1 DEF Resume
  <2> HIDE DEF u
  <2>3. tasks'[n] = u /\ \A k \in Slots \ {n} : tasks'[k] = tasks[k]
    BY <1>a, <2>2
  <2>4. /\ cur'[c] = n /\ mode'[c] = "task"
        /\ \A d \in Cpus \ {c} : cur'[d] = cur[d] /\ mode'[d] = mode[d]
    BY <1>1, <1>a DEF Resume
  <2>5. \A d \in Cpus : n = Kidle(d) => d = c
    <3> SUFFICES ASSUME NEW d \in Cpus, n = Kidle(d) PROVE d = c
      OBVIOUS
    <3>1. tasks[n].pinned_cpu = d
      BY DEF IdleInv
    <3>2. d # 255
      BY SizesAssumption DEF Cpus
    <3> QED BY <1>1, <3>1, <3>2
  <2>6. \A d \in Cpus : Restful(tasks', Kidle(d)) /\ tasks'[Kidle(d)].pinned_cpu = d
    BY <1>a, <2>1, <2>3 DEF Restful, IdleInv
  <2>7. \A s \in Slots : tasks'[s].idle => \E d \in Cpus : s = Kidle(d)
    BY <2>1, <2>3 DEF IdleInv
  <2>8. \A d \in Cpus : cur'[d] # Kidle(d) => tasks'[Kidle(d)].state = "Ready"
    <3> SUFFICES ASSUME NEW d \in Cpus, cur'[d] # Kidle(d)
                 PROVE  tasks'[Kidle(d)].state = "Ready"
      OBVIOUS
    <3>1. CASE d = c
      <4>1. Kidle(c) # n
        BY <2>4, <3>1
      <4>2. tasks[Kidle(c)].state = "Ready"
        <5>1. CASE cur[c] # Kidle(c)
          BY <5>1 DEF IdleInv
        <5>2. CASE cur[c] = Kidle(c)
          BY <5>2 DEF IdleInv, Pick
        <5> QED BY <5>1, <5>2
      <4> QED BY <1>a, <2>3, <3>1, <4>1, <4>2
    <3>2. CASE d # c
      BY <1>a, <2>3, <2>4, <2>5, <3>2 DEF IdleInv
    <3> QED BY <3>1, <3>2
  <2>9. \A d, e \in Cpus : cur'[d] = Kidle(e) => d = e
    BY <2>4, <2>5 DEF IdleInv
  <2>10. \A d \in Cpus : mode'[d] \in {"reap", "pick"} /\ cur'[d] = Kidle(d)
                            => tasks'[Kidle(d)].state = "Ready"
    BY <1>a, <2>3, <2>4, <2>5 DEF IdleInv
  <2> QED BY <2>6, <2>7, <2>8, <2>9, <2>10 DEF IdleInv
<1>2. ASSUME NEW n \in Slots, tasks[n].is_user, tasks' = FinishZombie(tasks, n),
             UNCHANGED <<cur, ctx, mode>>
      PROVE  IdleInv'
  <2> DEFINE F == FinishZombie(tasks, n)
  <2>1. /\ \A k \in Slots : Kept(tasks, F, k)
        /\ \A k \in Slots : Restful(tasks, k) /\ k # n => F[k] = tasks[k]
    BY <1>a, FinishZombieKeeps
  <2> HIDE DEF F
  <2>2. tasks' = F
    BY <1>2 DEF F
  <2>3. \A d \in Cpus : tasks'[Kidle(d)] = tasks[Kidle(d)]
    BY <1>2, <1>a, <2>1, <2>2 DEF Restful
  <2>4. \A s \in Slots : tasks'[s].idle => \E d \in Cpus : s = Kidle(d)
    BY <2>1, <2>2 DEF Kept, IdleInv
  <2> QED BY <1>2, <2>3, <2>4 DEF IdleInv, Restful
<1>3. ASSUME cur[c] = Kidle(c), tasks' = [tasks EXCEPT ![cur[c]].state = "Running"],
             mode' = [mode EXCEPT ![c] = "task"], UNCHANGED <<cur, ctx>>
      PROVE  IdleInv'
  <2> DEFINE u == [tasks[Kidle(c)] EXCEPT !.state = "Running"]
  <2>1. tasks' = [tasks EXCEPT ![Kidle(c)] = u]
    BY <1>3, <1>a
  <2>2. /\ u.idle = tasks[Kidle(c)].idle /\ u.state = "Running"
        /\ u.pinned_cpu = tasks[Kidle(c)].pinned_cpu /\ u.is_user = tasks[Kidle(c)].is_user
        /\ u.die_flag = tasks[Kidle(c)].die_flag
    BY <1>a DEF Task
  <2> HIDE DEF u
  <2>3. tasks'[Kidle(c)] = u /\ \A k \in Slots \ {Kidle(c)} : tasks'[k] = tasks[k]
    BY <1>a, <2>1
  <2>4. \A d \in Cpus : Restful(tasks', Kidle(d)) /\ tasks'[Kidle(d)].pinned_cpu = d
    BY <1>a, <2>2, <2>3 DEF Restful, IdleInv
  <2>5. \A s \in Slots : tasks'[s].idle => \E d \in Cpus : s = Kidle(d)
    BY <2>2, <2>3 DEF IdleInv
  <2>6. \A d \in Cpus \ {c} : /\ tasks'[Kidle(d)] = tasks[Kidle(d)] /\ mode'[d] = mode[d]
                              /\ cur'[d] = cur[d]
    BY <1>3, <1>a, <2>3, KidleSlots
  <2>7. cur'[c] = Kidle(c) /\ mode'[c] = "task"
    BY <1>3, <1>a
  <2>8. \A d \in Cpus : cur'[d] # Kidle(d) => tasks'[Kidle(d)].state = "Ready"
    BY <2>6, <2>7 DEF IdleInv
  <2>9. \A d, e \in Cpus : cur'[d] = Kidle(e) => d = e
    BY <1>3 DEF IdleInv
  <2>10. \A d \in Cpus : mode'[d] \in {"reap", "pick"} /\ cur'[d] = Kidle(d)
                            => tasks'[Kidle(d)].state = "Ready"
    BY <2>6, <2>7 DEF IdleInv
  <2> QED BY <2>4, <2>5, <2>8, <2>9, <2>10 DEF IdleInv
<1> QED BY <1>1, <1>2, <1>3, PickShape DEF Pending

\* It survives every step.
LEMMA IdleStep ==
    "killkernel" \notin Workload /\ TypeOK /\ IdleInv /\ [Next]_vars => IdleInv'
BY IdlePick, IdleQuiet, QuietStep

(* As long as the shell's kill command is not used on kernel tasks, "each    *)
(* CPU always has an idle home" for any number of CPUs, slots and programs.  *)
THEOREM IdleHomeHolds == "killkernel" \notin Workload => (Spec => []IdleHome)
<1> SUFFICES ASSUME "killkernel" \notin Workload PROVE Spec => []IdleHome
  OBVIOUS
<1>1. Init => TypeOK /\ IdleInv
  BY InitType, IdleInit
<1>2. TypeOK /\ IdleInv /\ [Next]_vars => (TypeOK /\ IdleInv)'
  BY StepType, IdleStep
<1>3. IdleInv => IdleHome
  BY IdleHomeFollows
<1> QED BY <1>1, <1>2, <1>3, PTL DEF Spec

(* Under the same condition no CPU ever falls back on the task it has just   *)
(* parked: the None branch of post_dispatch is reached by an idle task only. *)
THEOREM WakesFirst == "killkernel" \notin Workload => (Spec => NeverRunsBlocked)
<1> SUFFICES ASSUME "killkernel" \notin Workload PROVE Spec => NeverRunsBlocked
  OBVIOUS
<1> DEFINE Woken == \A s \in Slots :
              tasks'[s].state = "Running" /\ tasks'[s].pid = tasks[s].pid
                 => tasks[s].state \in {"Running", "Ready"}
<1>1. Init => TypeOK /\ IdleInv
  BY InitType, IdleInit
<1>2. TypeOK /\ IdleInv /\ [Next]_vars => (TypeOK /\ IdleInv)'
  BY StepType, IdleStep
<1>3. TypeOK /\ IdleInv /\ [Next]_vars => [Woken]_vars
  <2> SUFFICES ASSUME TypeOK, IdleInv, [Next]_vars PROVE Woken
    OBVIOUS
  <2>a. tasks \in [Slots -> Task] /\ cur \in [Cpus -> Slots]
    BY DEF TypeOK
  <2>1. CASE ~(\E c \in Cpus : Pick(c))
    <3>1. Quiet
      BY <2>1, QuietStep
    <3>2. DeadTask.state # "Running"
      BY DEF DeadTask
    <3> QED BY <3>1, <3>2 DEF Quiet, Kept, Freed, Born
  <2>2. ASSUME NEW c \in Cpus, Pick(c) PROVE Woken
    <3>1. ASSUME NEW n \in Slots, tasks[n].state = "Ready", Resume(c, n) PROVE Woken
      <4>1. \A k \in Slots \ {n} : tasks'[k] = tasks[k]
        BY <2>a, <3>1 DEF Resume
      <4> QED BY <3>1, <4>1
    <3>2. ASSUME NEW n \in Slots, tasks' = FinishZombie(tasks, n) PROVE Woken
      BY <2>a, <3>2, FinishZombieKeeps DEF Kept
    <3>3. ASSUME tasks[cur[c]].state = "Ready",
                 tasks' = [tasks EXCEPT ![cur[c]].state = "Running"]
          PROVE  Woken
      <4>1. \A k \in Slots \ {cur[c]} : tasks'[k] = tasks[k]
        BY <2>a, <3>3
      <4> QED BY <3>3, <4>1
    <3> QED BY <2>2, <3>1, <3>2, <3>3, PickShape
  <2> QED BY <2>1, <2>2
<1> QED BY <1>1, <1>2, <1>3, PTL DEF Spec, NeverRunsBlocked

-----------------------------------------------------------------------------
(* Pinning.                                                                 *)

\* At boot pinned tasks run on their CPUs.
LEMMA PinnedInit == TypeOK /\ Init => PinnedStay
<1> SUFFICES ASSUME TypeOK, Init, NEW c \in Cpus
             PROVE  tasks[cur[c]].pinned_cpu \in {CPU_ANY, c}
  BY DEF PinnedStay
<1>1. CASE c # 0
  <2>1. cur[c] = Kidle(c)
    BY <1>1 DEF Init
  <2> QED BY <2>1, IdleInit DEF IdleInv
<1>2. CASE c = 0
  <2>1. cur[c] = 0 /\ 0 \in Slots
    BY <1>2, SizesAssumption DEF Init, Slots
  <2>2. BootTask(0).pinned_cpu = 0
    BY DEF BootTask, NewTask, DeadTask
  <2>3. tasks[0] = BootTask(0)
    BY <2>1 DEF Init
  <2> QED BY <1>2, <2>1, <2>2, <2>3
<1> QED BY <1>1, <1>2

\* Every step keeps them there.
LEMMA PinnedStep == TypeOK /\ PinnedStay /\ [Next]_vars => PinnedStay'
<1> SUFFICES ASSUME TypeOK, PinnedStay, [Next]_vars PROVE PinnedStay'
  OBVIOUS
<1>a. tasks \in [Slots -> Task] /\ cur \in [Cpus -> Slots]
  BY DEF TypeOK
<1>1. CASE ~(\E c \in Cpus : Pick(c))
  <2>1. Quiet
    BY <1>1, QuietStep
  <2>2. DeadTask.pinned_cpu = CPU_ANY
    BY DEF DeadTask
  <2>3. \A k \in Slots : \/ tasks'[k].pinned_cpu = tasks[k].pinned_cpu
                         \/ tasks'[k].pinned_cpu = CPU_ANY
    BY <2>1, <2>2 DEF Quiet, Kept, Freed, Born
  <2>4. cur' = cur
    BY <2>1 DEF Quiet
  <2> QED BY <1>a, <2>3, <2>4 DEF PinnedStay
<1>2. ASSUME NEW c \in Cpus, Pick(c) PROVE PinnedStay'
  <2>1. ASSUME NEW n \in Best(tasks, c), Resume(c, n) PROVE PinnedStay'
    <3>1. n \in Slots /\ tasks[n].pinned_cpu \in {CPU_ANY, c}
      BY DEF Best, Eligible
    <3> DEFINE u == [tasks[n] EXCEPT !.state = "Running",
                                     !.sig_pending = Undelivered(tasks[n])]
    <3>2. u.pinned_cpu = tasks[n].pinned_cpu
      BY <1>a, <3>1 DEF Task
    <3>3. tasks' = [tasks EXCEPT ![n] = u]
      BY <2>1 DEF Resume
    <3> HIDE DEF u
    <3>4. \A k \in Slots : tasks'[k].pinned_cpu = tasks[k].pinned_cpu
      BY <1>a, <3>2, <3>3
    <3>5. cur' = [cur EXCEPT ![c] = n]
      BY <2>1 DEF Resume
    <3> QED BY <1>a, <3>1, <3>4, <3>5 DEF PinnedStay
  <2>2. ASSUME NEW n \in Best(tasks, c), tasks' = FinishZombie(tasks, n), UNCHANGED cur
        PROVE  PinnedStay'
    <3>1. n \in Slots
      BY DEF Best, Eligible
    <3>2. \A k \in Slots : tasks'[k].pinned_cpu = tasks[k].pinned_cpu
      BY <1>a, <2>2, <3>1, FinishZombieKeeps DEF Kept
    <3> QED BY <1>a, <2>2, <3>2 DEF PinnedStay
  <2>3. ASSUME tasks' = [tasks EXCEPT ![cur[c]].state = "Running"], UNCHANGED cur
        PROVE  PinnedStay'
    <3>1. \A k \in Slots : tasks'[k].pinned_cpu = tasks[k].pinned_cpu
      BY <1>a, <2>3 DEF Task
    <3> QED BY <1>a, <2>3, <3>1 DEF PinnedStay
  <2> QED BY <1>2, <2>1, <2>2, <2>3 DEF Pick
<1> QED BY <1>1, <1>2

(* A pinned task (the shell, the idle tasks) never runs on a CPU that is not *)
(* its own, whatever the workload and the number of CPUs, even where a slot  *)
(* is freed or reused under a CPU that still runs on it.                    *)
THEOREM PinnedHolds == Spec => []PinnedStay
<1>1. Init => TypeOK /\ PinnedStay
  BY InitType, PinnedInit
<1>2. TypeOK /\ PinnedStay /\ [Next]_vars => (TypeOK /\ PinnedStay)'
  BY StepType, PinnedStep
<1> QED BY <1>1, <1>2, PTL DEF Spec

-----------------------------------------------------------------------------
(* One CPU, no signals and no kill of kernel tasks.  A step is then one of   *)
(* seven shapes, and the invariants about who waits for whom are proved from *)
(* the shapes.                                                              *)

Uni == NCpus = 1 /\ {"killkernel", "signal"} \cap Workload = {}

\* The task on the CPU is the only Running one, and its code runs while it is.
Alone ==
    /\ \A s \in Slots :
          tasks[s].state = "Running" => s = cur[0] /\ mode[0] \in {"task", "tail"}
    /\ mode[0] = "task" => tasks[cur[0]].state = "Running"

\* Nobody is about to be ended by a signal or by its process.
Calm == \A s \in Slots : tasks[s].sig_pending = {} /\ ~tasks[s].die_flag

\* The fields no step of a living task changes.
Alike(t, u) ==
    /\ u.pid = t.pid /\ u.tgid = t.tgid /\ u.parent = t.parent /\ u.is_user = t.is_user
    /\ u.sig_pending = t.sig_pending /\ u.die_flag = t.die_flag

\* The same task, with the same lists, that has neither ended nor parked in
\* wait or join.
Steady(t, u) ==
    /\ Alike(t, u) /\ u.kids = t.kids /\ u.threads = t.threads
    /\ u.state = "Dead" <=> t.state = "Dead"
    /\ u.state = "Zombie" <=> t.state = "Zombie"
    /\ u.state = "WaitingChild" => t.state = "WaitingChild" /\ u.wait_target = t.wait_target
    /\ u.state = "BlockedJoin" => t.state = "BlockedJoin" /\ u.join_target = t.join_target

\* Steady is reflexive and composes.
LEMMA SteadyChain ==
    /\ \A t : Steady(t, t)
    /\ \A t, u, v : Steady(t, u) /\ Steady(u, v) => Steady(t, v)
BY DEF Steady, Alike

\* Waking a waiter is steady for everybody.
LEMMA WakeWaiterSteady ==
    ASSUME NEW T \in [Slots -> Task], NEW w \in Slots,
           T[w].state \in {"WaitingChild", "BlockedJoin"}
    PROVE  /\ \A k \in Slots : Steady(T[k], WakeWaiter(T, w)[k])
           /\ \A k \in Slots \ {w} : WakeWaiter(T, w)[k] = T[k]
           /\ WakeWaiter(T, w)[w].state = "Ready"
<1> DEFINE R == WakeWaiter(T, w)
<1>1. \A k \in Slots \ {w} : R[k] = T[k]
  BY DEF WakeWaiter
<1>2. PICK t \in Task : t = T[w]
  OBVIOUS
<1>3. \/ R[w] = [t EXCEPT !.state = "Ready", !.wait_target = 0]
      \/ R[w] = [t EXCEPT !.state = "Ready", !.join_target = 0]
  BY <1>2 DEF WakeWaiter
<1> HIDE DEF R
<1>4. PICK u : u = R[w]
  OBVIOUS
<1>5. Steady(t, u) /\ u.state = "Ready"
  BY <1>2, <1>3, <1>4 DEF Task, Steady, Alike
<1> QED BY <1>1, <1>2, <1>4, <1>5, SteadyChain DEF R

\* finish_zombie_locked ends one task, is steady for the others, and leaves
\* nobody parked for the task where at most one was.
LEMMA FinishZombieEnds ==
    ASSUME NEW T \in [Slots -> Task], NEW s \in Slots, NEW F, F = FinishZombie(T, s),
           T[s].state \notin {"Dead", "Zombie"}
    PROVE  /\ \A k \in Slots \ {s} : Steady(T[k], F[k])
           /\ Alike(T[s], F[s]) /\ F[s].kids = T[s].kids /\ F[s].threads = T[s].threads
           /\ F[s].state = "Zombie"
           /\ (\A v, w \in Waiters(T, T[s]) : v = w) => Waiters(F, T[s]) = {}
<1> DEFINE u == [T[s] EXCEPT !.state = "Zombie", !.user_space = 0]
           Z == [T EXCEPT ![s] = u]
           W == Waiters(Z, T[s])
<1>1. u \in Task /\ T[s] \in Task
  BY FinishType
<1>2. Z \in [Slots -> Task]
  BY <1>1, Replace
<1>3. /\ Alike(T[s], u) /\ u.kids = T[s].kids /\ u.threads = T[s].threads
      /\ u.state = "Zombie"
  BY <1>1 DEF Task, Alike
<1>4. F = IF W = {} THEN Z ELSE WakeWaiter(Z, Lowest(W))
  BY DEF FinishZombie
<1>5. Z[s] = u /\ \A k \in Slots \ {s} : Z[k] = T[k]
  OBVIOUS
<1>6. W \in SUBSET Slots
  BY WaitersSlots
<1> HIDE DEF u, Z
<1>7. \A w \in W : w # s /\ Z[w].state \in {"WaitingChild", "BlockedJoin"}
  BY <1>3, <1>5, WaitersWait
<1>8. \A w \in W : w \in Waiters(T, T[s])
  BY <1>5, <1>7 DEF Waiters
<1>9. CASE W = {}
  <2>1. F = Z
    BY <1>4, <1>9
  <2> QED BY <1>3, <1>5, <1>9, <2>1, SteadyChain
<1>10. CASE W # {}
  <2> DEFINE w == Lowest(W)
  <2>1. w \in W /\ w \in Slots
    <3> HIDE DEF W
    <3> QED BY <1>6, <1>10, LowestSlot
  <2> HIDE DEF w, W
  <2>2. F = WakeWaiter(Z, w)
    BY <1>4, <1>10 DEF w
  <2>3. /\ \A k \in Slots : Steady(Z[k], F[k])
        /\ \A k \in Slots \ {w} : F[k] = Z[k]
        /\ F[w].state = "Ready"
    BY <1>2, <1>7, <2>1, <2>2, WakeWaiterSteady
  <2>4. F[s] = u
    BY <1>5, <1>7, <2>1, <2>3
  <2>5. \A k \in Slots \ {s} : Steady(T[k], F[k])
    BY <1>5, <2>3
  <2>6. ASSUME \A v, x \in Waiters(T, T[s]) : v = x, NEW x \in Waiters(F, T[s])
        PROVE  FALSE
    <3>1. x \in Slots /\ F[x].state \in {"WaitingChild", "BlockedJoin"}
      BY WaitersWait
    <3>2. x # w /\ x # s
      BY <1>3, <2>3, <2>4, <3>1
    <3>3. F[x] = T[x]
      BY <1>5, <2>3, <3>1, <3>2
    <3>4. x \in Waiters(T, T[s])
      BY <3>3 DEF Waiters
    <3> QED BY <1>8, <2>1, <2>6, <3>2, <3>4
  <2> QED BY <1>3, <2>4, <2>5, <2>6
<1> QED BY <1>9, <1>10

\* No two slots hold the same task, and a slot in use holds one.
Distinct(T) ==
    /\ \A s \in Slots : T[s].state = "Dead" <=> T[s].pid = 0
    /\ \A s, r \in Slots : T[s].pid = T[r].pid /\ T[s].pid # 0 => s = r

\* A process has one parent that waits for it at most.
LEMMA OneParent ==
    ASSUME NEW T, Distinct(T), NEW t, t.pid = t.tgid,
           NEW v \in Waiters(T, t), NEW w \in Waiters(T, t)
    PROVE  v = w
<1>1. /\ v \in Slots /\ T[v].state = "WaitingChild" /\ T[v].pid = t.parent
      /\ w \in Slots /\ T[w].state = "WaitingChild" /\ T[w].pid = t.parent
  BY DEF Waiters
<1> QED BY <1>1 DEF Distinct

\* Nobody starts to wait for t where the table is steady.
LEMMA WaitersSteady ==
    ASSUME NEW A, NEW B, NEW t, NEW x \in Waiters(B, t), Steady(A[x], B[x])
    PROVE  x \in Waiters(A, t)
BY DEF Waiters, Steady, Alike

\* The sweep of an exit ends all of the caller's siblings, is steady for the
\* others, and wakes whoever waits for the process, ...
GroupSwept(T, me, F, G) ==
    /\ F[me] = T[me]
    /\ \A k \in Slots \ G : Steady(T[k], F[k])
    /\ \A k \in G : /\ Alike(T[k], F[k]) /\ F[k].kids = T[k].kids
                    /\ F[k].threads = T[k].threads /\ F[k].state = "Zombie"
    /\ \A r \in G : T[r].pid = T[r].tgid => Waiters(F, T[r]) = {}

\* ... where only the caller runs.
LEMMA SweepEnds ==
    ASSUME NEW T \in [Slots -> Task], NEW me \in Slots, Distinct(T),
           T[me].is_user, T[me].state = "Running",
           \A s \in Slots \ {me} : T[s].state # "Running",
           NEW F, F = Sweep(T, me), NEW G, G = Siblings(T, T[me].tgid, me)
    PROVE  GroupSwept(T, me, F, G)
<1> DEFINE H == IF T[me].is_user THEN Siblings(T, T[me].tgid, me) ELSE {}
           R == [s \in Slots |->
                   IF s \notin H THEN T[s]
                   ELSE IF T[s].state = "Running" THEN [T[s] EXCEPT !.die_flag = TRUE]
                   ELSE [T[s] EXCEPT !.state = "Zombie", !.user_space = 0]]
           M == {s \in H : T[s].state # "Running" /\ T[s].pid = T[s].tgid}
           W == UNION {Waiters(R, T[s]) : s \in M}
<1>1. F = IF W = {} THEN R ELSE WakeWaiter(R, Lowest(W))
  BY DEF Sweep
<1>0. H = G
  OBVIOUS
<1> HIDE DEF H
<1>2. \A s \in G : /\ s \in Slots /\ s # me /\ T[s].state \notin {"Dead", "Zombie", "Running"}
                   /\ T[s].tgid = T[me].tgid
  BY DEF Siblings, Live
<1>3. \A k \in Slots \ G : R[k] = T[k]
  BY <1>0
<1>4. ASSUME NEW k \in G
      PROVE  /\ R[k] \in Task /\ Alike(T[k], R[k]) /\ R[k].kids = T[k].kids
             /\ R[k].threads = T[k].threads /\ R[k].state = "Zombie"
  <2>1. PICK t \in Task : t = T[k]
    BY <1>2
  <2>2. R[k] = [t EXCEPT !.state = "Zombie", !.user_space = 0]
    BY <1>0, <1>2, <2>1
  <2> HIDE DEF R
  <2>3. PICK u \in Task : u = R[k]
    BY <2>2, FinishType
  <2>4. /\ Alike(t, u) /\ u.kids = t.kids /\ u.threads = t.threads /\ u.state = "Zombie"
    BY <2>2, <2>3 DEF Task, Alike
  <2> QED BY <2>1, <2>3, <2>4
<1>5. R \in [Slots -> Task]
  BY <1>0, <1>2, <1>4
<1>6. M = {s \in G : T[s].pid = T[s].tgid}
  BY <1>0, <1>2
<1> HIDE DEF R
<1>7. \A x \in W : /\ x \in Slots \ G /\ x # me
                   /\ R[x].state \in {"WaitingChild", "BlockedJoin"}
  <2> TAKE x \in W
  <2>1. PICK s \in M : x \in Waiters(R, T[s])
    OBVIOUS
  <2>2. x \in Slots /\ R[x].state \in {"WaitingChild", "BlockedJoin"}
    BY <2>1, WaitersWait
  <2> QED BY <1>2, <1>3, <1>4, <2>2
<1>8. \A r, s \in M : r = s
  <2> TAKE r, s \in M
  <2>1. r \in G /\ s \in G /\ T[r].pid = T[r].tgid /\ T[s].pid = T[s].tgid
    BY <1>0
  <2>2. T[r].pid = T[s].pid /\ T[r].pid # 0
    BY <1>2, <2>1 DEF Distinct
  <2> QED BY <1>2, <2>1, <2>2 DEF Distinct
<1>9. Distinct(R)
  <2>1. \A k \in Slots : R[k].pid = T[k].pid /\ (R[k].state = "Dead" <=> T[k].state = "Dead")
    BY <1>2, <1>3, <1>4 DEF Alike
  <2> QED BY <2>1 DEF Distinct
<1>10. ASSUME NEW v \in W, NEW w \in W PROVE v = w
  <2>1. PICK r \in M : v \in Waiters(R, T[r])
    OBVIOUS
  <2>2. PICK s \in M : w \in Waiters(R, T[s])
    OBVIOUS
  <2>3. T[r].pid = T[r].tgid /\ r = s
    BY <1>8
  <2> QED BY <1>9, <2>1, <2>2, <2>3, OneParent
<1>11. /\ \A k \in Slots : Steady(R[k], F[k])
       /\ \A k \in Slots : k \notin W => F[k] = R[k]
       /\ \A k \in W : F[k].state = "Ready"
  <2>1. CASE W = {}
    BY <1>1, <2>1, SteadyChain
  <2>2. CASE W # {}
    <3> DEFINE w == Lowest(W)
    <3>1. w \in W
      <4>1. W \in SUBSET Slots
        BY <1>7
      <4> HIDE DEF W
      <4> QED BY <2>2, <4>1, LowestSlot
    <3>2. F = WakeWaiter(R, w)
      BY <1>1, <2>2
    <3> HIDE DEF w, W
    <3>3. /\ \A k \in Slots : Steady(R[k], F[k])
          /\ \A k \in Slots \ {w} : F[k] = R[k]
          /\ F[w].state = "Ready"
      BY <1>5, <1>7, <3>1, <3>2, WakeWaiterSteady
    <3> QED BY <1>10, <3>1, <3>3
  <2> QED BY <2>1, <2>2
<1>12. F[me] = T[me]
  BY <1>2, <1>3, <1>7, <1>11
<1>13. \A k \in Slots \ G : Steady(T[k], F[k])
  BY <1>3, <1>11
<1>14. ASSUME NEW k \in G
       PROVE  /\ Alike(T[k], F[k]) /\ F[k].kids = T[k].kids
              /\ F[k].threads = T[k].threads /\ F[k].state = "Zombie"
  BY <1>2, <1>4, <1>7, <1>11
<1>15. ASSUME NEW r \in G, T[r].pid = T[r].tgid, NEW x \in Waiters(F, T[r]) PROVE FALSE
  <2>1. x \in Slots /\ F[x].state \in {"WaitingChild", "BlockedJoin"}
    BY <1>15, WaitersWait
  <2>2. x \in Waiters(R, T[r])
    BY <1>11, <1>15, <2>1, WaitersSteady
  <2>3. r \in M
    BY <1>6, <1>15
  <2>4. x \in W
    BY <2>2, <2>3
  <2> HIDE DEF W
  <2> QED BY <1>11, <2>1, <2>4
<1> QED BY <1>12, <1>13, <1>14, <1>15 DEF GroupSwept

\* What the end of the tasks in D does to the table.
Dying(D) ==
    /\ cur[0] \in D /\ D \subseteq Live(tasks)
    /\ UNCHANGED <<nextPid, log>>
    /\ \A k \in Slots \ D : Steady(tasks[k], tasks'[k])
    /\ \A k \in D : /\ Alike(tasks[k], tasks'[k]) /\ tasks'[k].kids = tasks[k].kids
                    /\ tasks'[k].threads = tasks[k].threads /\ tasks'[k].state = "Zombie"
    /\ \A r \in D : tasks[r].pid = tasks[r].tgid => Waiters(tasks', tasks[r]) = {}

\* exit ends the caller and its siblings, ...
GroupEnds ==
    /\ tasks[cur[0]].is_user
    /\ Dying({cur[0]} \cup Siblings(tasks, tasks[cur[0]].tgid, cur[0]))

\* ... texit of a thread the caller alone: nobody is left in join for it where
\* at most one was.
ThreadEnds ==
    LET t == tasks[cur[0]]
    IN  /\ t.is_user /\ t.pid # t.tgid /\ Dying({cur[0]})
        /\ (\A v, w \in Waiters(tasks, t) : v = w) => Waiters(tasks', t) = {}

Settled ==
    /\ \A k \in Slots : Steady(tasks[k], tasks'[k])
    /\ UNCHANGED <<nextPid, log>>

\* spawn, fork and clone: slot d is filled with t, a process or a thread.
Created(d, t) ==
    LET me == cur[0]
    IN  /\ tasks[me].state = "Running" /\ tasks[d].state = "Dead" /\ tasks'[d] = t
        /\ \A k \in Slots \ {d, me} : tasks'[k] = tasks[k]
        /\ Alike(tasks[me], tasks'[me]) /\ tasks'[me].state = "Running"
        /\ t.pid = nextPid /\ t.state = "Ready" /\ t.is_user
        /\ t.sig_pending = {} /\ ~t.die_flag /\ t.kids = {} /\ t.threads = {}
        /\ \/ /\ t.tgid = nextPid /\ t.parent = tasks[me].pid
              /\ tasks'[me].kids = tasks[me].kids \cup {nextPid}
              /\ tasks'[me].threads = tasks[me].threads
           \/ /\ t.tgid = tasks[me].tgid /\ tasks[me].is_user
              /\ tasks'[me].threads = tasks[me].threads \cup {nextPid}
              /\ tasks'[me].kids = tasks[me].kids
        /\ nextPid <= MaxPid /\ nextPid' = nextPid + 1 /\ log' = log

Taken(n) == log' = log \/ (n # 0 /\ LogHas(log, n) /\ log' = LogTake(log, n))

\* sys_wait(n): answered, or the caller parks.
Awaited(n) ==
    LET me == cur[0]
        t == tasks[me]
        u == tasks'[me]
    IN  /\ n \in t.kids \cup {0} /\ t.state = "Running"
        /\ \A k \in Slots \ {me} : tasks'[k] = tasks[k]
        /\ Alike(t, u) /\ u.threads = t.threads
        /\ u.kids = t.kids \ (IF n = 0 THEN {} ELSE {n})
        /\ \/ u.state = "Running" /\ Taken(n)
           \/ /\ u.state = "WaitingChild" /\ u.wait_target = n /\ log' = log
              /\ n # 0 => /\ ~LogHas(log, n)
                          /\ \A z \in Slots : /\ tasks[z].state = "Zombie" /\ tasks[z].pid = n
                                              /\ tasks[z].tgid = n
                                              => tasks[z].parent # t.pid
        /\ nextPid' = nextPid

\* sys_join(n): a zombie sibling is reaped, a reaped one taken from the log, no
\* sibling matches, or the caller parks.
Joined(n) ==
    LET me == cur[0]
        t == tasks[me]
        u == tasks'[me]
    IN  /\ n \in t.threads \/ (n = 0 /\ "joinany" \in Workload)
        /\ t.is_user /\ t.state = "Running"
        /\ Alike(t, u) /\ u.kids = t.kids
        /\ u.threads = t.threads \ (IF n = 0 THEN {} ELSE {n})
        /\ \/ \E z \in Slots \ {me} :
                 /\ tasks[z].state = "Zombie" /\ tasks'[z] = DeadTask
                 /\ u.state = "Running" /\ log' = LogPush(log, tasks[z].pid)
                 /\ \A k \in Slots \ {me, z} : tasks'[k] = tasks[k]
           \/ /\ u.state = "Running" /\ Taken(n)
              /\ \A k \in Slots \ {me} : tasks'[k] = tasks[k]
           \/ /\ u.state = "BlockedJoin" /\ u.join_target = n /\ log' = log
              /\ \A k \in Slots \ {me} : tasks'[k] = tasks[k]
              /\ \E r \in Siblings(tasks, t.tgid, me) : n \in {0, tasks[r].pid}
        /\ nextPid' = nextPid

\* A zombie's slot is given back.
Reaped ==
    /\ \E z \in Slots : /\ tasks[z].state = "Zombie" /\ tasks'[z] = DeadTask
                        /\ log' = LogPush(log, tasks[z].pid)
                        /\ \A k \in Slots \ {z} : tasks'[k] = tasks[k]
    /\ nextPid' = nextPid

\* Every step has one of these shapes.
Shaped ==
    \/ Settled \/ Reaped \/ GroupEnds \/ ThreadEnds
    \/ \E d \in Slots, t \in Task : Created(d, t)
    \/ \E n \in Nat : Awaited(n) \/ Joined(n)

\* Pids are handed out once, and a slot in use holds a task of its own.
Pids ==
    /\ nextPid <= MaxPid + 1
    /\ \A s \in Slots : tasks[s].pid < nextPid /\ tasks[s].tgid < nextPid
    /\ Distinct(tasks)

\* Where the CPU's mode leaves the task on it.
Seated ==
    /\ mode'[0] = "task" => tasks'[cur[0]].state = "Running"
    /\ mode'[0] = "hooks" => tasks'[cur[0]].state # "Running"

\* A step that is steady in one slot is steady.
LEMMA SettledOne ==
    ASSUME TypeOK, NEW s \in Slots, NEW u, Steady(tasks[s], u),
           tasks' = [tasks EXCEPT ![s] = u], UNCHANGED <<nextPid, log>>
    PROVE  Settled
<1>1. tasks'[s] = u /\ \A k \in Slots \ {s} : tasks'[k] = tasks[k]
  BY DEF TypeOK
<1> QED BY <1>1, SteadyChain DEF Settled

\* A fresh user task.
LEMMA NewUserFresh ==
    ASSUME NEW pid \in Nat, NEW parent \in Nat
    PROVE  LET t == NewUser(pid, parent)
           IN  /\ t \in Task /\ t.pid = pid /\ t.tgid = pid /\ t.parent = parent
               /\ t.state = "Ready" /\ t.is_user /\ t.sig_pending = {} /\ ~t.die_flag
               /\ t.kids = {} /\ t.threads = {}
BY NewUserType, ZenonT(40) DEF NewUser, NewTask, DeadTask

\* Install fills a slot or changes nothing.
LEMMA InstallShaped ==
    ASSUME TypeOK, Pids, NEW t \in Task, Install(0, t), 0 \in Cpus,
           tasks[cur[0]].state = "Running",
           t.pid = nextPid, t.state = "Ready", t.is_user, t.sig_pending = {}, ~t.die_flag,
           t.kids = {}, t.threads = {},
           \/ t.tgid = nextPid /\ t.parent = tasks[cur[0]].pid
           \/ t.tgid = tasks[cur[0]].tgid /\ tasks[cur[0]].is_user
    PROVE  Shaped /\ tasks'[cur[0]].state = "Running"
<1> DEFINE me == cur[0]
<1>a. /\ tasks \in [Slots -> Task] /\ me \in Slots /\ tasks[me] \in Task /\ Me(0) = tasks[me]
      /\ nextPid \in Nat
  BY DEF TypeOK, Me
<1>1. CASE DeadSlots(tasks) = {}
  <2>1. tasks' = tasks /\ UNCHANGED <<nextPid, log>>
    BY <1>1 DEF Install
  <2>2. Settled
    BY <2>1, SteadyChain DEF Settled
  <2> QED BY <2>1, <2>2 DEF Shaped
<1>2. CASE DeadSlots(tasks) # {}
  <2> DEFINE d == Lowest(DeadSlots(tasks))
             v == Adopt(tasks[me], t)
  <2>1. d \in Slots /\ tasks[d].state = "Dead"
    <3>1. d \in DeadSlots(tasks)
      BY <1>2, LowestSlot DEF DeadSlots
    <3> QED BY <3>1 DEF DeadSlots
  <2>2. /\ tasks' = [tasks EXCEPT ![me] = v, ![d] = t]
        /\ nextPid <= MaxPid /\ nextPid' = nextPid + 1 /\ log' = log
    BY <1>2, <1>a DEF Install
  <2>3. /\ Alike(tasks[me], v) /\ v.state = "Running"
        /\ t.tgid = nextPid => v.kids = tasks[me].kids \cup {nextPid} /\ v.threads = tasks[me].threads
        /\ t.tgid # nextPid => v.threads = tasks[me].threads \cup {nextPid} /\ v.kids = tasks[me].kids
    BY <1>a DEF Adopt, Task, Alike
  <2>4. d # me
    BY <2>1
  <2> HIDE DEF d, v
  <2>5. tasks'[me] = v /\ tasks'[d] = t /\ \A k \in Slots \ {d, me} : tasks'[k] = tasks[k]
    BY <1>a, <2>1, <2>2, <2>4
  <2>6. tasks[me].tgid # nextPid
    BY <1>a DEF Pids, Task
  <2>7. Created(d, t)
    BY <2>1, <2>2, <2>3, <2>5, <2>6 DEF Created
  <2> QED BY <2>1, <2>3, <2>5, <2>7 DEF Shaped
<1> QED BY <1>1, <1>2

\* sys_wait has its shape.
LEMMA WaitShaped ==
    ASSUME TypeOK, 0 \in Cpus, NEW n, WaitFor(0, n), n \in tasks[cur[0]].kids \cup {0},
           tasks[cur[0]].state = "Running"
    PROVE  Shaped
<1> DEFINE me == cur[0]
<1>a. /\ tasks \in [Slots -> Task] /\ me \in Slots /\ Me(0) = tasks[me]
  BY DEF TypeOK, Me
<1>b. PICK t \in Task : t = tasks[me]
  BY <1>a
<1>c. n \in Nat
  BY <1>b DEF Task
<1> DEFINE K == IF n = 0 THEN {} ELSE {n}
           mine == {s \in Slots : /\ tasks[s].state = "Zombie" /\ tasks[s].parent = Me(0).pid
                                  /\ tasks[s].pid = tasks[s].tgid
                                  /\ n \in {0, tasks[s].pid}}
           done == [tasks[me] EXCEPT !.kids = tasks[me].kids \ K]
           parked == [tasks[me] EXCEPT !.state = "WaitingChild", !.wait_target = n,
                                       !.kids = Me(0).kids \ K]
<1>1. /\ Alike(t, done) /\ done.threads = t.threads /\ done.kids = t.kids \ K
      /\ done.state = t.state
      /\ Alike(t, parked) /\ parked.threads = t.threads /\ parked.kids = t.kids \ K
      /\ parked.state = "WaitingChild" /\ parked.wait_target = n
  BY <1>a, <1>b DEF Task, Alike
<1>2. CASE mine # {} \/ (n # 0 /\ LogHas(log, n))
  <2>1. /\ tasks' = [tasks EXCEPT ![me] = done] /\ nextPid' = nextPid
        /\ log' = IF mine = {} THEN LogTake(log, n) ELSE log
    BY <1>2 DEF WaitFor
  <2>2. Taken(n)
    BY <1>2, <2>1 DEF Taken
  <2> HIDE DEF done
  <2>3. tasks'[me] = done /\ \A k \in Slots \ {me} : tasks'[k] = tasks[k]
    BY <1>a, <2>1
  <2> QED BY <1>1, <1>b, <1>c, <2>1, <2>2, <2>3 DEF Shaped, Awaited
<1>3. CASE ~(mine # {} \/ (n # 0 /\ LogHas(log, n)))
  <2>1. tasks' = [tasks EXCEPT ![me] = parked] /\ UNCHANGED <<nextPid, log>>
    BY <1>3 DEF WaitFor
  <2>2. n # 0 => /\ ~LogHas(log, n)
                 /\ \A z \in Slots : /\ tasks[z].state = "Zombie" /\ tasks[z].pid = n
                                     /\ tasks[z].tgid = n
                                     => tasks[z].parent # t.pid
    BY <1>3, <1>a, <1>b
  <2> HIDE DEF parked, mine
  <2>3. tasks'[me] = parked /\ \A k \in Slots \ {me} : tasks'[k] = tasks[k]
    BY <1>a, <2>1
  <2> QED BY <1>1, <1>b, <1>c, <2>1, <2>2, <2>3 DEF Shaped, Awaited
<1> QED BY <1>2, <1>3

\* sys_join has its shape.
LEMMA JoinShaped ==
    ASSUME TypeOK, 0 \in Cpus, NEW n, JoinFor(0, n),
           n \in tasks[cur[0]].threads \/ (n = 0 /\ "joinany" \in Workload),
           tasks[cur[0]].state = "Running", tasks[cur[0]].is_user
    PROVE  Shaped
<1> DEFINE me == cur[0]
<1>a. /\ tasks \in [Slots -> Task] /\ me \in Slots /\ Me(0) = tasks[me]
  BY DEF TypeOK, Me
<1>b. PICK t \in Task : t = tasks[me]
  BY <1>a
<1>c. n \in Nat
  BY <1>b DEF Task
<1> DEFINE K == IF n = 0 THEN {} ELSE {n}
           dead == {s \in Slots : /\ tasks[s].state = "Zombie" /\ tasks[s].tgid = Me(0).tgid
                                  /\ tasks[s].pid # Me(0).pid /\ n \in {0, tasks[s].pid}}
           alive == {s \in Siblings(tasks, Me(0).tgid, me) : n \in {0, tasks[s].pid}}
           done == [tasks[me] EXCEPT !.threads = tasks[me].threads \ K]
           parked == [tasks[me] EXCEPT !.state = "BlockedJoin", !.join_target = n,
                                       !.threads = Me(0).threads \ K]
           z == Lowest(dead)
<1>1. /\ Alike(t, done) /\ done.kids = t.kids /\ done.threads = t.threads \ K
      /\ done.state = t.state
      /\ Alike(t, parked) /\ parked.kids = t.kids /\ parked.threads = t.threads \ K
      /\ parked.state = "BlockedJoin" /\ parked.join_target = n
  BY <1>a, <1>b DEF Task, Alike
<1>2. CASE dead # {}
  <2>1. /\ tasks' = [tasks EXCEPT ![me] = done, ![z] = DeadTask] /\ nextPid' = nextPid
        /\ log' = LogPush(log, tasks[z].pid)
    BY <1>2 DEF JoinFor
  <2>2. z \in dead
    BY <1>2, LowestSlot
  <2>3. z \in Slots /\ z # me /\ tasks[z].state = "Zombie"
    BY <1>a, <2>2
  <2> HIDE DEF done, z, dead
  <2>4. /\ tasks'[me] = done /\ tasks'[z] = DeadTask
        /\ \A k \in Slots \ {me, z} : tasks'[k] = tasks[k]
    BY <1>a, <2>1, <2>3
  <2>5. Joined(n)
    BY <1>1, <1>b, <2>1, <2>3, <2>4 DEF Joined
  <2> QED BY <1>c, <2>5 DEF Shaped
<1>3. CASE dead = {} /\ ((n # 0 /\ LogHas(log, n)) \/ alive = {})
  <2>1. /\ tasks' = [tasks EXCEPT ![me] = done] /\ nextPid' = nextPid
        /\ log' = IF n # 0 /\ LogHas(log, n) THEN LogTake(log, n) ELSE log
    BY <1>3 DEF JoinFor
  <2>2. Taken(n)
    BY <2>1 DEF Taken
  <2> HIDE DEF done
  <2>3. tasks'[me] = done /\ \A k \in Slots \ {me} : tasks'[k] = tasks[k]
    BY <1>a, <2>1
  <2>4. Joined(n)
    BY <1>1, <1>b, <2>1, <2>2, <2>3 DEF Joined
  <2> QED BY <1>c, <2>4 DEF Shaped
<1>4. CASE dead = {} /\ ~((n # 0 /\ LogHas(log, n)) \/ alive = {})
  <2>1. tasks' = [tasks EXCEPT ![me] = parked] /\ UNCHANGED <<nextPid, log>>
    BY <1>4 DEF JoinFor
  <2>2. \E r \in Siblings(tasks, t.tgid, me) : n \in {0, tasks[r].pid}
    BY <1>4, <1>a, <1>b
  <2> HIDE DEF parked, dead, alive
  <2>3. tasks'[me] = parked /\ \A k \in Slots \ {me} : tasks'[k] = tasks[k]
    BY <1>a, <2>1
  <2>4. Joined(n)
    BY <1>1, <1>b, <2>1, <2>2, <2>3 DEF Joined
  <2> QED BY <1>c, <2>4 DEF Shaped
<1> QED BY <1>2, <1>3, <1>4

\* exit ends the caller's whole group, ...
LEMMA ExitShaped ==
    ASSUME TypeOK, Alone, Pids, 0 \in Cpus, tasks[cur[0]].is_user,
           tasks[cur[0]].state = "Running",
           tasks' = FinishZombie(Sweep(tasks, cur[0]), cur[0]), UNCHANGED <<nextPid, log>>
    PROVE  Shaped /\ tasks'[cur[0]].state # "Running"
<1> DEFINE me == cur[0]
           t == tasks[me]
<1>a. tasks \in [Slots -> Task] /\ me \in Slots /\ Sweep(tasks, me) \in [Slots -> Task]
  BY SweepType DEF TypeOK
<1>b. Distinct(tasks) /\ \A s \in Slots \ {me} : tasks[s].state # "Running"
  BY DEF Pids, Alone
<1>c. PICK G : G = Siblings(tasks, t.tgid, me)
  OBVIOUS
<1>d. PICK A \in [Slots -> Task] : A = Sweep(tasks, me)
  BY <1>a
<1>e. PICK F : F = FinishZombie(A, me)
  OBVIOUS
<1> DEFINE D == {me} \cup G
<1>1. /\ A[me] = tasks[me]
      /\ \A k \in Slots \ G : Steady(tasks[k], A[k])
      /\ \A k \in G : /\ Alike(tasks[k], A[k]) /\ A[k].kids = tasks[k].kids
                      /\ A[k].threads = tasks[k].threads /\ A[k].state = "Zombie"
      /\ \A r \in G : tasks[r].pid = tasks[r].tgid => Waiters(A, tasks[r]) = {}
  <2>1. GroupSwept(tasks, me, A, G)
    BY <1>a, <1>b, <1>c, <1>d, SweepEnds, ZenonT(40)
  <2> QED BY <2>1 DEF GroupSwept
<1>2. G \subseteq Live(tasks) \ {me} /\ me \in Live(tasks)
  BY <1>a, <1>c DEF Siblings, Live
<1>3. Live(tasks) \subseteq Slots
  BY DEF Live
<1>f. A[me].state \notin {"Dead", "Zombie"}
  BY <1>1
<1>4. /\ \A k \in Slots \ {me} : Steady(A[k], F[k])
      /\ Alike(t, F[me]) /\ F[me].kids = t.kids /\ F[me].threads = t.threads
      /\ F[me].state = "Zombie"
      /\ (\A v, w \in Waiters(A, t) : v = w) => Waiters(F, t) = {}
  <2>1. /\ \A k \in Slots \ {me} : Steady(A[k], F[k])
        /\ Alike(A[me], F[me]) /\ F[me].kids = A[me].kids /\ F[me].threads = A[me].threads
        /\ F[me].state = "Zombie"
        /\ (\A v, w \in Waiters(A, A[me]) : v = w) => Waiters(F, A[me]) = {}
    BY <1>a, <1>e, <1>f, FinishZombieEnds
  <2> QED BY <1>1, <2>1, ZenonT(40)
<1>5. tasks' = F
  BY <1>d, <1>e
<1>6. Distinct(A)
  <2>1. \A k \in Slots : A[k].pid = tasks[k].pid /\ (A[k].state = "Dead" <=> tasks[k].state = "Dead")
    BY <1>1, <1>2 DEF Alike, Steady, Live
  <2> QED BY <1>b, <2>1 DEF Distinct
<1>7. \A k \in Slots \ D : Steady(tasks[k], F[k])
  BY <1>1, <1>4, SteadyChain
<1>8. ASSUME NEW k \in D
      PROVE  /\ Alike(tasks[k], F[k]) /\ F[k].kids = tasks[k].kids
             /\ F[k].threads = tasks[k].threads /\ F[k].state = "Zombie"
  <2>1. CASE k = me
    BY <1>4, <2>1
  <2>2. CASE k # me
    <3>1. k \in G /\ k \in Slots
      BY <1>2, <1>3, <2>2
    <3>2. /\ Alike(tasks[k], A[k]) /\ A[k].kids = tasks[k].kids
          /\ A[k].threads = tasks[k].threads /\ A[k].state = "Zombie"
      BY <1>1, <3>1
    <3>3. Steady(A[k], F[k])
      BY <1>4, <2>2, <3>1
    <3> QED BY <3>2, <3>3 DEF Steady, Alike
  <2> QED BY <2>1, <2>2
<1>9. ASSUME NEW r \in D, tasks[r].pid = tasks[r].tgid PROVE Waiters(F, tasks[r]) = {}
  <2>1. CASE r = me
    <3>1. \A v, w \in Waiters(A, t) : v = w
      BY <1>6, <1>9, <2>1, OneParent
    <3> QED BY <1>4, <2>1, <3>1
  <2>2. CASE r # me
    <3>1. Waiters(A, tasks[r]) = {}
      BY <1>1, <1>9, <2>2
    <3>2. ASSUME NEW x \in Waiters(F, tasks[r]) PROVE FALSE
      <4>1. x \in Slots /\ F[x].state \in {"WaitingChild", "BlockedJoin"}
        BY WaitersWait
      <4>2. x # me
        BY <1>4, <4>1
      <4>3. x \in Waiters(A, tasks[r])
        BY <1>4, <4>1, <4>2, WaitersSteady
      <4> QED BY <3>1, <4>3
    <3> QED BY <3>2
  <2> QED BY <2>1, <2>2
<1>10. Dying(D)
  BY <1>2, <1>5, <1>7, <1>8, <1>9 DEF Dying
<1> QED BY <1>4, <1>5, <1>10, <1>c DEF Shaped, GroupEnds

\* ... texit of a thread the thread.
LEMMA TexitShaped ==
    ASSUME TypeOK, Pids, 0 \in Cpus, tasks[cur[0]].is_user,
           tasks[cur[0]].state = "Running", tasks[cur[0]].pid # tasks[cur[0]].tgid,
           tasks' = FinishZombie(tasks, cur[0]), UNCHANGED <<nextPid, log>>
    PROVE  Shaped /\ tasks'[cur[0]].state # "Running"
<1> DEFINE me == cur[0]
<1>a. tasks \in [Slots -> Task] /\ me \in Slots
  BY DEF TypeOK
<1>1. /\ \A k \in Slots \ {me} : Steady(tasks[k], tasks'[k])
      /\ Alike(tasks[me], tasks'[me]) /\ tasks'[me].kids = tasks[me].kids
      /\ tasks'[me].threads = tasks[me].threads /\ tasks'[me].state = "Zombie"
      /\ (\A v, w \in Waiters(tasks, tasks[me]) : v = w) => Waiters(tasks', tasks[me]) = {}
  BY <1>a, FinishZombieEnds
<1>2. me \in Live(tasks)
  BY <1>a DEF Live
<1>3. Dying({me})
  BY <1>1, <1>2 DEF Dying
<1> QED BY <1>1, <1>3 DEF Shaped, ThreadEnds

\* Every system call has its shape.
LEMMA SyscallShaped ==
    ASSUME Uni, TypeOK, Alone, Calm, Pids, Syscall(0)
    PROVE  Shaped /\ Seated
<1> DEFINE me == cur[0]
           Modes == {"task", "tail", "hooks", "reap", "pick"}
<1>a. /\ 0 \in Cpus /\ tasks \in [Slots -> Task] /\ mode \in [Cpus -> Modes] /\ me \in Slots
      /\ \A s \in Slots : tasks[s] \in Task
      /\ Me(0) = tasks[me] /\ nextPid \in Nat
  BY DEF TypeOK, Uni, Cpus, Me
<1>b. ASSUME ToTail(0) PROVE Seated
  BY <1>a, <1>b DEF ToTail, Seated
<1>c. \A call : InTask(0) => tasks[me].state = "Running"
  BY DEF InTask, Alone
<1>d. \A call : User(0, call) \/ Kernel(0, call) \/ Shell(0, call)
                  => call \in Workload /\ InTask(0)
  BY DEF User, Kernel, Shell
<1>e. /\ tasks[me].sig_pending = {} /\ ~tasks[me].die_flag
      /\ {"killkernel", "signal"} \cap Workload = {}
  BY <1>a DEF Calm, Uni
<1>f. ASSUME NEW s \in Slots, NEW u, tasks' = [tasks EXCEPT ![s] = u], Steady(tasks[s], u),
             UNCHANGED <<nextPid, log>>
      PROVE  Shaped
  BY <1>f, SettledOne DEF Shaped
<1>g. ASSUME tasks' = tasks, UNCHANGED <<nextPid, log>> PROVE Shaped
  BY <1>g, SteadyChain DEF Shaped, Settled
<1>h. ASSUME NEW st \in Blocked \ {"WaitingChild", "BlockedJoin"}, Park(0, st), InTask(0)
      PROVE  Shaped /\ Seated
  <2>1. PICK t \in Task : t = tasks[me]
    BY <1>a
  <2> DEFINE u == [t EXCEPT !.state = st]
  <2>2. tasks' = [tasks EXCEPT ![me] = u] /\ UNCHANGED <<nextPid, log>> /\ ToTail(0)
    BY <1>a, <1>h, <2>1 DEF Park
  <2>3. st \notin {"WaitingChild", "BlockedJoin", "Dead", "Zombie"} /\ t.state = "Running"
    BY <1>c, <1>h, <2>1 DEF Blocked
  <2>4. Steady(t, u)
    BY <2>1, <2>3 DEF Steady, Alike, Task
  <2> HIDE DEF u
  <2> QED BY <1>a, <1>b, <1>f, <2>1, <2>2, <2>4
<1>i. {"Sleeping", "BlockedInput", "BlockedChan", "BlockedSock"}
         \subseteq Blocked \ {"WaitingChild", "BlockedJoin"}
  BY DEF Blocked
<1>1. CASE Yield(0)
  BY <1>1, <1>b, <1>g DEF Yield
<1>2. CASE Sleep(0)
  BY <1>2, <1>d, <1>h, <1>i DEF Sleep
<1>3. CASE ReadChar(0)
  <2>1. CASE keys > 0
    BY <1>3, <1>b, <1>g, <2>1 DEF ReadChar
  <2>2. CASE ~(keys > 0)
    BY <1>3, <1>d, <1>h, <1>i, <2>2 DEF ReadChar
  <2> QED BY <2>1, <2>2
<1>4. CASE Block(0)
  BY <1>4, <1>d, <1>h, <1>i DEF Block
<1>5. ASSUME NEW s \in Slots, Wake(0, s) PROVE Shaped /\ Seated
  <2>1. PICK t \in Task : t = tasks[s]
    BY <1>a
  <2> DEFINE u == [t EXCEPT !.state = "Ready"]
  <2>2. tasks' = [tasks EXCEPT ![s] = u] /\ ToTail(0) /\ UNCHANGED <<nextPid, log>>
    BY <1>a, <1>5, <2>1 DEF Wake
  <2>3. t.state \in {"BlockedChan", "BlockedSock"}
    BY <1>5, <2>1 DEF Wake
  <2>4. Steady(t, u)
    BY <2>1, <2>3 DEF Steady, Alike, Task
  <2> HIDE DEF u
  <2> QED BY <1>b, <1>f, <2>1, <2>2, <2>4
<1>j. \A s \in Slots : tasks[s].pid \in Nat /\ tasks[s].tgid \in Nat
  BY <1>a DEF Task
<1>6. CASE Spawn(0)
  <2> DEFINE t == NewUser(nextPid, Me(0).pid)
  <2>1. Install(0, t) /\ mode' = mode /\ tasks[me].state = "Running"
    BY <1>6, <1>c, <1>d DEF Spawn
  <2>2. /\ t \in Task /\ t.pid = nextPid /\ t.tgid = nextPid /\ t.parent = tasks[me].pid
        /\ t.state = "Ready" /\ t.is_user /\ t.sig_pending = {} /\ ~t.die_flag
        /\ t.kids = {} /\ t.threads = {}
    BY <1>a, <1>j, NewUserFresh
  <2> HIDE DEF t
  <2>3. Shaped /\ tasks'[me].state = "Running"
    BY <1>a, <2>1, <2>2, InstallShaped
  <2>4. mode[0] = "task"
    BY <1>6, <1>d DEF Spawn, InTask
  <2> QED BY <2>1, <2>3, <2>4 DEF Seated
<1>7. CASE Fork(0)
  <2> DEFINE n == NewUser(nextPid, Me(0).pid)
             t == [n EXCEPT !.sig_handlers = Me(0).sig_handlers]
  <2>1. Install(0, t) /\ ToTail(0) /\ tasks[me].state = "Running"
    BY <1>7, <1>c, <1>d DEF Fork
  <2>2. /\ n \in Task /\ n.pid = nextPid /\ n.tgid = nextPid /\ n.parent = tasks[me].pid
        /\ n.state = "Ready" /\ n.is_user /\ n.sig_pending = {} /\ ~n.die_flag
        /\ n.kids = {} /\ n.threads = {}
    BY <1>a, <1>j, NewUserFresh
  <2>3. Me(0) \in Task
    BY <1>a
  <2> HIDE DEF n
  <2>4. /\ t \in Task /\ t.pid = nextPid /\ t.tgid = nextPid /\ t.parent = tasks[me].pid
        /\ t.state = "Ready" /\ t.is_user /\ t.sig_pending = {} /\ ~t.die_flag
        /\ t.kids = {} /\ t.threads = {}
    BY <2>2, <2>3 DEF Task
  <2> HIDE DEF t
  <2> QED BY <1>a, <1>b, <2>1, <2>4, InstallShaped
<1>8. CASE Clone(0)
  <2> DEFINE n == NewUser(nextPid, Me(0).tgid)
             t == [n EXCEPT !.tgid = Me(0).tgid, !.user_space = Me(0).user_space,
                            !.sig_handlers = Me(0).sig_handlers]
  <2>1. Install(0, t) /\ ToTail(0) /\ tasks[me].state = "Running" /\ tasks[me].is_user
    BY <1>8, <1>a, <1>c, <1>d DEF Clone, User
  <2>2. /\ n \in Task /\ n.pid = nextPid
        /\ n.state = "Ready" /\ n.is_user /\ n.sig_pending = {} /\ ~n.die_flag
        /\ n.kids = {} /\ n.threads = {}
    BY <1>a, <1>j, NewUserFresh
  <2>3. Me(0) \in Task
    BY <1>a
  <2> HIDE DEF n
  <2>4. /\ t \in Task /\ t.pid = nextPid /\ t.tgid = tasks[me].tgid
        /\ t.state = "Ready" /\ t.is_user /\ t.sig_pending = {} /\ ~t.die_flag
        /\ t.kids = {} /\ t.threads = {}
    BY <1>a, <2>2, <2>3 DEF Task
  <2> HIDE DEF t
  <2> QED BY <1>a, <1>b, <2>1, <2>4, InstallShaped
<1>9. CASE Exec(0)
  <2>1. PICK t \in Task : t = tasks[me]
    BY <1>a
  <2> DEFINE u == [t EXCEPT !.user_space = MaxPid + execs + 1,
                            !.sig_pending = {}, !.sig_handlers = {}]
  <2>2. ToTail(0) /\ UNCHANGED <<nextPid, log>>
    BY <1>9 DEF Exec
  <2>3. tasks' = tasks \/ tasks' = [tasks EXCEPT ![me] = u]
    BY <1>9, <2>1 DEF Exec
  <2>4. Steady(t, u)
    BY <1>e, <2>1 DEF Steady, Alike, Task
  <2> HIDE DEF u
  <2> QED BY <1>a, <1>b, <1>f, <1>g, <2>1, <2>2, <2>3, <2>4
<1>10. CASE Wait(0)
  <2>1. PICK n \in Me(0).kids : WaitFor(0, n)
    BY <1>10 DEF Wait
  <2>2. tasks[me].state = "Running" /\ ToTail(0)
    BY <1>10, <1>c, <1>d, <2>1 DEF Wait, WaitFor
  <2> QED BY <1>a, <1>b, <2>1, <2>2, WaitShaped
<1>11. CASE WaitAny(0)
  <2>1. WaitFor(0, 0)
    BY <1>11 DEF WaitAny
  <2>2. tasks[me].state = "Running" /\ ToTail(0)
    BY <1>11, <1>c, <1>d, <2>1 DEF WaitAny, WaitFor
  <2> QED BY <1>a, <1>b, <2>1, <2>2, WaitShaped
<1>12. CASE Join(0)
  <2>1. PICK n \in Me(0).threads : JoinFor(0, n)
    BY <1>12 DEF Join
  <2>2. tasks[me].state = "Running" /\ ToTail(0) /\ tasks[me].is_user
    BY <1>12, <1>a, <1>c, <1>d, <2>1 DEF Join, JoinFor, User
  <2> QED BY <1>a, <1>b, <2>1, <2>2, JoinShaped
<1>13. CASE JoinAny(0)
  <2>1. JoinFor(0, 0)
    BY <1>13 DEF JoinAny
  <2>2. tasks[me].state = "Running" /\ ToTail(0) /\ tasks[me].is_user /\ "joinany" \in Workload
    BY <1>13, <1>a, <1>c, <1>d, <2>1 DEF JoinAny, JoinFor, User
  <2> QED BY <1>a, <1>b, <2>1, <2>2, JoinShaped
<1>k. ASSUME mode' = [mode EXCEPT ![0] = "hooks"], tasks'[me].state # "Running" PROVE Seated
  BY <1>a, <1>k DEF Seated
<1>14. CASE Exit(0)
  <2>1. /\ tasks' = FinishZombie(Sweep(tasks, me), me) /\ UNCHANGED <<nextPid, log>>
        /\ mode' = [mode EXCEPT ![0] = "hooks"]
        /\ tasks[me].is_user /\ tasks[me].state = "Running"
    BY <1>14, <1>a, <1>c, <1>d DEF Exit, User
  <2> QED BY <1>a, <1>k, <2>1, ExitShaped
<1>15. CASE Texit(0)
  <2>1. /\ UNCHANGED <<nextPid, log>> /\ mode' = [mode EXCEPT ![0] = "hooks"]
        /\ tasks[me].is_user /\ tasks[me].state = "Running"
    BY <1>15, <1>a, <1>c, <1>d DEF Texit, User
  <2>2. CASE tasks[me].pid = tasks[me].tgid
    <3>1. tasks' = FinishZombie(Sweep(tasks, me), me)
      BY <1>15, <1>a, <2>2 DEF Texit
    <3> QED BY <1>a, <1>k, <2>1, <3>1, ExitShaped
  <2>3. CASE tasks[me].pid # tasks[me].tgid
    <3>1. tasks' = FinishZombie(tasks, me)
      BY <1>15, <1>a, <2>3 DEF Texit
    <3> QED BY <1>a, <1>k, <2>1, <2>3, <3>1, TexitShaped
  <2> QED BY <2>2, <2>3
<1>16. ASSUME NEW sig \in Signals, SigAction(0, sig) PROVE Shaped /\ Seated
  <2>1. PICK on \in BOOLEAN :
           tasks' = [tasks EXCEPT ![me].sig_handlers =
                        IF on THEN @ \cup {sig} ELSE @ \ {sig}]
    BY <1>16 DEF SigAction
  <2>2. PICK t \in Task : t = tasks[me]
    BY <1>a
  <2> DEFINE H == IF on THEN t.sig_handlers \cup {sig} ELSE t.sig_handlers \ {sig}
             u == [t EXCEPT !.sig_handlers = H]
  <2>3. tasks' = [tasks EXCEPT ![me] = u]
    BY <1>a, <2>1, <2>2
  <2>4. ToTail(0) /\ UNCHANGED <<nextPid, log>>
    BY <1>16 DEF SigAction
  <2>5. Steady(t, u)
    BY <2>2 DEF Steady, Alike, Task
  <2> HIDE DEF u
  <2> QED BY <1>a, <1>b, <1>f, <2>2, <2>3, <2>4, <2>5
<1>17. ASSUME NEW s \in Slots, KillZombie(0, s) PROVE Shaped /\ Seated
  <2>1. /\ tasks' = [tasks EXCEPT ![s] = DeadTask] /\ log' = LogPush(log, tasks[s].pid)
        /\ nextPid' = nextPid /\ mode' = mode
        /\ tasks[s].state = "Zombie" /\ s # me /\ tasks[me].state = "Running"
    BY <1>17, <1>a, <1>c, <1>d DEF KillZombie
  <2>2. tasks'[s] = DeadTask /\ \A k \in Slots \ {s} : tasks'[k] = tasks[k]
    BY <1>a, <2>1
  <2>3. Reaped
    BY <2>1, <2>2 DEF Reaped
  <2>4. Seated
    <3>1. mode[0] = "task" /\ tasks'[me] = tasks[me]
      BY <1>17, <1>a, <1>d, <2>1, <2>2 DEF KillZombie, InTask
    <3> QED BY <2>1, <3>1 DEF Seated
  <2> QED BY <2>3, <2>4 DEF Shaped
<1>18. \A s \in Slots : ~KillKernel(0, s) /\ \A sig \in Signals : ~SendSignal(0, s, sig)
  BY <1>d, <1>e DEF KillKernel, SendSignal
<1> QED BY <1>1, <1>2, <1>3, <1>4, <1>5, <1>6, <1>7, <1>8, <1>9, <1>10, <1>11, <1>12,
           <1>13, <1>14, <1>15, <1>16, <1>17, <1>18 DEF Syscall

\* The timer duties are steady.
LEMMA TimerSteady ==
    ASSUME TypeOK, NEW c \in Cpus
    PROVE  \A k \in Slots : Steady(tasks[k], TimerDuties(tasks, c)[k])
<1> DEFINE R == TimerDuties(tasks, c)
<1>1. KeyTaken(tasks) => tasks[Lowest(InputWaiters(tasks))].state = "BlockedInput"
  <2>1. InputWaiters(tasks) \in SUBSET Slots
    BY DEF InputWaiters
  <2>2. KeyTaken(tasks) => Lowest(InputWaiters(tasks)) \in InputWaiters(tasks)
    BY <2>1, LowestSlot DEF KeyTaken
  <2> QED BY <2>2 DEF InputWaiters
<1>2. SUFFICES ASSUME NEW k \in Slots PROVE Steady(tasks[k], R[k])
  OBVIOUS
<1>3. PICK t \in Task : t = tasks[k]
  BY DEF TypeOK
<1>4. \/ R[k] = t
      \/ /\ t.state \in {"Sleeping", "BlockedInput", "Running"}
         /\ R[k] = [t EXCEPT !.state = "Ready", !.wake_due = FALSE]
  BY <1>1, <1>3 DEF TimerDuties
<1> HIDE DEF R
<1>5. PICK u : u = R[k]
  OBVIOUS
<1>6. Steady(t, u)
  <2>1. CASE u = t
    BY <2>1, SteadyChain
  <2>2. CASE u # t
    BY <1>4, <1>5, <2>2 DEF Task, Steady, Alike
  <2> QED BY <2>1, <2>2
<1> QED BY <1>3, <1>5, <1>6

\* The entry of post_dispatch is steady where no task is marked for death.
LEMMA EnterShaped ==
    ASSUME TypeOK, Calm, 0 \in Cpus, NEW timer \in BOOLEAN, Enter(0, timer)
    PROVE  Settled /\ Seated
<1> DEFINE me == cur[0]
           A == IF timer THEN TimerDuties(tasks, 0) ELSE tasks
           B == IF A[me].die_flag /\ A[me].state = "Running" THEN FinishZombie(A, me) ELSE A
           P == IF B[me].state = "Running" THEN [B EXCEPT ![me].state = "Ready"] ELSE B
           Modes == {"task", "tail", "hooks", "reap", "pick"}
<1>a. /\ tasks \in [Slots -> Task] /\ mode \in [Cpus -> Modes] /\ me \in Slots
  BY DEF TypeOK
<1>1. A \in [Slots -> Task] /\ \A k \in Slots : Steady(tasks[k], A[k])
  BY <1>a, TimerDutiesType, TimerSteady, SteadyChain
<1>2. B = A
  <2>1. ~A[me].die_flag
    BY <1>1, <1>a DEF Calm, Steady, Alike
  <2> QED BY <2>1
<1> HIDE DEF A, B
<1>7. UNCHANGED <<nextPid, log>>
  BY DEF Enter
<1>3. \/ tasks' = P /\ \E m \in {"reap", "pick"} : mode' = [mode EXCEPT ![0] = m]
      \/ tasks' = B /\ B[me].state = "Running" /\ mode' = [mode EXCEPT ![0] = "task"]
  BY DEF Enter, A, B
<1>4. PICK b \in Task : b = A[me]
  BY <1>1, <1>a
<1> DEFINE p == [b EXCEPT !.state = "Ready"]
<1>5. P = B \/ (b.state = "Running" /\ P = [A EXCEPT ![me] = p])
  BY <1>1, <1>2, <1>4, <1>a
<1>6. b.state = "Running" => Steady(b, p)
  BY <1>4 DEF Task, Steady, Alike
<1> HIDE DEF P, p
<1>8. \A k \in Slots : Steady(A[k], tasks'[k])
  <2>1. CASE tasks' = B
    BY <1>2, <2>1, SteadyChain
  <2>2. CASE b.state = "Running" /\ tasks' = [A EXCEPT ![me] = p]
    <3>1. tasks'[me] = p /\ \A k \in Slots \ {me} : tasks'[k] = A[k]
      BY <1>1, <1>a, <2>2
    <3> QED BY <1>4, <1>6, <2>2, <3>1, SteadyChain
  <2> QED BY <1>3, <1>5, <2>1, <2>2
<1>9. Settled
  BY <1>1, <1>7, <1>8, SteadyChain DEF Settled
<1>10. Seated
  BY <1>3, <1>a DEF Seated
<1> QED BY <1>9, <1>10

\* A pick resumes a task: nothing is steadier.
LEMMA PickShaped ==
    ASSUME Uni, TypeOK, IdleInv, Alone, Calm, Pick(0)
    PROVE  Settled /\ Alone'
<1>a. /\ tasks \in [Slots -> Task] /\ cur \in [Cpus -> Slots] /\ 0 \in Cpus
      /\ mode \in [Cpus -> {"task", "tail", "hooks", "reap", "pick"}]
      /\ \A s \in Slots : tasks[s] \in Task
  BY DEF TypeOK, Uni, Cpus
<1>b. UNCHANGED <<nextPid, log>> /\ mode[0] = "pick"
  BY DEF Pick
<1>1. ASSUME NEW n \in Slots, NEW u, tasks[n].state = "Ready", u.state = "Running",
             Steady(tasks[n], u), tasks' = [tasks EXCEPT ![n] = u],
             mode' = [mode EXCEPT ![0] = "task"], cur'[0] = n
      PROVE  Settled /\ Alone'
  <2>1. tasks'[n] = u /\ \A k \in Slots \ {n} : tasks'[k] = tasks[k]
    BY <1>a, <1>1
  <2>2. Settled
    BY <1>1, <1>b, SettledOne
  <2>3. mode'[0] = "task"
    BY <1>1, <1>a
  <2>4. \A s \in Slots : tasks[s].state # "Running"
    BY <1>b DEF Alone
  <2>5. \A s \in Slots : tasks'[s].state = "Running" => s = n
    BY <2>1, <2>4
  <2> QED BY <1>1, <2>1, <2>2, <2>3, <2>5 DEF Alone
<1>2. ASSUME NEW n \in Slots, tasks[n].state = "Ready", Resume(0, n)
      PROVE  Settled /\ Alone'
  <2>1. PICK t \in Task : t = tasks[n]
    BY <1>a
  <2>2. ~Pending(t)
    BY <2>1 DEF Calm, Pending
  <2> DEFINE u == [t EXCEPT !.state = "Running", !.sig_pending = t.sig_pending]
  <2>3. /\ tasks' = [tasks EXCEPT ![n] = u] /\ mode' = [mode EXCEPT ![0] = "task"]
        /\ cur'[0] = n
    BY <1>2, <1>a, <2>1, <2>2 DEF Resume, Undelivered
  <2>4. Steady(t, u) /\ u.state = "Running"
    BY <1>2, <2>1 DEF Task, Steady, Alike
  <2> HIDE DEF u
  <2> QED BY <1>1, <1>2, <2>1, <2>3, <2>4
<1>3. ASSUME tasks[cur[0]].state = "Ready",
             tasks' = [tasks EXCEPT ![cur[0]].state = "Running"],
             mode' = [mode EXCEPT ![0] = "task"], UNCHANGED cur
      PROVE  Settled /\ Alone'
  <2>1. PICK t \in Task : t = tasks[cur[0]]
    BY <1>a
  <2> DEFINE u == [t EXCEPT !.state = "Running"]
  <2>2. tasks' = [tasks EXCEPT ![cur[0]] = u]
    BY <1>3, <2>1
  <2>3. Steady(t, u) /\ u.state = "Running"
    BY <1>3, <2>1 DEF Task, Steady, Alike
  <2> HIDE DEF u
  <2> QED BY <1>1, <1>3, <1>a, <2>1, <2>2, <2>3
<1>4. \A n \in Slots : ~Pending(tasks[n])
  BY DEF Calm, Pending
<1> QED BY <1>2, <1>3, <1>4, <1>a, PickShape

\* Every step has its shape, and the task that runs stays the only one.
LEMMA StepShaped ==
    ASSUME Uni, TypeOK, IdleInv, Alone, Calm, Pids, [Next]_vars
    PROVE  Shaped /\ Alone'
<1>a. /\ Cpus = {0} /\ cur[0] \in Slots /\ tasks \in [Slots -> Task]
      /\ mode \in [Cpus -> {"task", "tail", "hooks", "reap", "pick"}]
      /\ mode' \in [Cpus -> {"task", "tail", "hooks", "reap", "pick"}]
  BY StepType DEF TypeOK, Uni, Cpus
<1>1. CASE Pick(0)
  BY <1>1, PickShaped DEF Shaped
<1>2. ASSUME ~Pick(0), Seated PROVE Alone'
  <2>1. Quiet
    BY <1>2, <1>a, QuietStep
  <2>2. /\ cur' = cur
        /\ \A k \in Slots : tasks'[k].state = "Running" => tasks[k].state = "Running"
        /\ mode'[0] \in {"reap", "pick"} =>
              mode[0] \in {"reap", "pick"} \/ tasks'[cur[0]].state # "Running"
    <3>1. DeadTask.state # "Running"
      BY DEF DeadTask
    <3> QED BY <1>a, <2>1, <3>1 DEF Quiet, Kept, Freed, Born
  <2>3. ASSUME NEW s \in Slots, tasks'[s].state = "Running"
        PROVE  s = cur'[0] /\ mode'[0] \in {"task", "tail"}
    <3>1. s = cur[0] /\ mode[0] \in {"task", "tail"}
      BY <2>2, <2>3 DEF Alone
    <3> QED BY <1>2, <1>a, <2>2, <2>3, <3>1 DEF Seated
  <2> QED BY <1>2, <2>2, <2>3 DEF Seated, Alone
<1>3. CASE Syscall(0) /\ ~Pick(0)
  BY <1>2, <1>3, SyscallShaped
<1>4. CASE (Tail(0) \/ TimerIrq(0) \/ OtherIrq(0)) /\ ~Pick(0)
  <2>1. Enter(0, TRUE) \/ Enter(0, FALSE)
    BY <1>4 DEF Tail, TimerIrq, OtherIrq
  <2>2. Settled /\ Seated
    BY <1>a, <2>1, EnterShaped
  <2> QED BY <1>2, <1>4, <2>2 DEF Shaped
<1>5. CASE Reap(0) /\ ~Pick(0)
  <2> DEFINE Z == Zombies(tasks, cur[0])
             z == Lowest(Z)
  <2>1. z \in Slots /\ tasks[z].state = "Zombie"
    <3>1. z \in Z
      BY <1>5, LowestSlot DEF Reap, Zombies
    <3> QED BY <3>1 DEF Zombies
  <2>2. /\ tasks' = [tasks EXCEPT ![z] = DeadTask] /\ nextPid' = nextPid
        /\ log' = LogPush(log, tasks[z].pid) /\ mode'[0] \in {"reap", "pick"}
    BY <1>5, <1>a DEF Reap
  <2> HIDE DEF z
  <2>3. Reaped
    BY <1>a, <2>1, <2>2 DEF Reaped
  <2> QED BY <1>2, <1>5, <2>2, <2>3 DEF Seated, Shaped
<1>6. CASE Hooks(0) /\ ~Pick(0)
  <2>1. Settled /\ Seated
    BY <1>6, <1>a, SteadyChain DEF Hooks, ToTail, Settled, Seated
  <2> QED BY <1>2, <1>6, <2>1 DEF Shaped
<1>7. ASSUME NEW s \in Slots, Clock(s), ~Pick(0) PROVE Shaped /\ Alone'
  <2>1. PICK t \in Task : t = tasks[s]
    BY <1>a
  <2> DEFINE u == [t EXCEPT !.wake_due = TRUE]
  <2>2. /\ tasks' = [tasks EXCEPT ![s] = u] /\ UNCHANGED <<nextPid, log>>
        /\ mode' = mode /\ t.state = "Sleeping"
    BY <1>7, <2>1 DEF Clock
  <2>3. Steady(t, u) /\ u.state = t.state
    BY <2>1 DEF Task, Steady, Alike
  <2> HIDE DEF u
  <2>4. Settled
    BY <2>1, <2>2, <2>3, SettledOne
  <2>5. \A k \in Slots : tasks'[k].state = tasks[k].state
    BY <1>a, <2>1, <2>2, <2>3
  <2>6. mode[0] = "hooks" => tasks[cur[0]].state # "Running"
    BY <1>a DEF Alone
  <2>7. Seated
    BY <1>a, <2>2, <2>5, <2>6 DEF Seated, Alone
  <2> QED BY <1>2, <1>7, <2>4, <2>7 DEF Shaped
<1>8. CASE UNCHANGED vars /\ ~Pick(0)
  <2>1. Settled
    BY <1>8, SteadyChain DEF vars, Settled
  <2>2. mode[0] = "hooks" => tasks[cur[0]].state # "Running"
    BY <1>a DEF Alone
  <2>3. Seated
    BY <1>8, <2>2 DEF vars, Seated, Alone
  <2> QED BY <1>2, <1>8, <2>1, <2>3 DEF Shaped
<1> QED BY <1>1, <1>3, <1>4, <1>5, <1>6, <1>7, <1>8, <1>a DEF Next, Dispatch

\* Every step but a creation leaves in each slot the task it held, or none.
Same(k) ==
    \/ /\ Alike(tasks[k], tasks'[k])
       /\ tasks'[k].state = "Dead" <=> tasks[k].state = "Dead"
       /\ tasks'[k].kids \subseteq tasks[k].kids /\ tasks'[k].threads \subseteq tasks[k].threads
    \/ tasks'[k] = DeadTask

LEMMA ShapedSame ==
    ASSUME TypeOK, Shaped
    PROVE  \/ nextPid' = nextPid /\ \A k \in Slots : Same(k)
           \/ \E d \in Slots, t \in Task : Created(d, t)
<1>1. \A t, u : Steady(t, u) => /\ Alike(t, u) /\ (u.state = "Dead" <=> t.state = "Dead")
                                /\ u.kids = t.kids /\ u.threads = t.threads
  BY DEF Steady
<1>2. ASSUME NEW D, Dying(D) PROVE nextPid' = nextPid /\ \A k \in Slots : Same(k)
  <2>1. \A k \in D : tasks[k].state # "Dead"
    BY <1>2 DEF Dying, Live
  <2> QED BY <1>1, <1>2, <2>1 DEF Dying, Same
<1>3. CASE Settled
  BY <1>1, <1>3 DEF Settled, Same
<1>4. \A t : Alike(t, t)
  BY DEF Alike
<1>5. CASE Reaped
  BY <1>4, <1>5 DEF Reaped, Same
<1>6. CASE GroupEnds \/ ThreadEnds
  BY <1>2, <1>6 DEF GroupEnds, ThreadEnds
<1>7. ASSUME NEW n, Awaited(n) PROVE nextPid' = nextPid /\ \A k \in Slots : Same(k)
  BY <1>4, <1>7 DEF Awaited, Same
<1>8. ASSUME NEW n, Joined(n) PROVE nextPid' = nextPid /\ \A k \in Slots : Same(k)
  <2>1. /\ nextPid' = nextPid /\ Alike(tasks[cur[0]], tasks'[cur[0]])
        /\ tasks[cur[0]].state # "Dead" /\ tasks'[cur[0]].state # "Dead"
        /\ tasks'[cur[0]].kids = tasks[cur[0]].kids
        /\ tasks'[cur[0]].threads \subseteq tasks[cur[0]].threads
    BY <1>8 DEF Joined
  <2>2. \A k \in Slots \ {cur[0]} : tasks'[k] = tasks[k] \/ tasks'[k] = DeadTask
    BY <1>8 DEF Joined
  <2> QED BY <1>4, <2>1, <2>2 DEF Same
<1> QED BY <1>3, <1>5, <1>6, <1>7, <1>8 DEF Shaped

\* What holds on one CPU whoever runs.
Sole == Alone /\ Calm /\ Pids

\* Sole holds at boot ...
LEMMA SoleInit == Uni /\ TypeOK /\ Init => Sole
<1> SUFFICES ASSUME Uni, TypeOK, Init PROVE Sole
  OBVIOUS
<1>1. NDaemons \in Nat /\ MaxTasks \in Nat /\ NDaemons + 2 <= MaxTasks
      /\ MaxPid \in Nat /\ NDaemons + 2 <= MaxPid
  BY SizesAssumption DEF Uni
<1>2. /\ cur[0] = 0 /\ mode[0] = "task" /\ 0 \in Slots /\ Slots \subseteq Nat
      /\ nextPid = NDaemons + 3 /\ tasks = [s \in Slots |-> BootTask(s)]
  BY <1>1 DEF Init, Uni, Cpus, Slots
<1>3. ASSUME NEW s \in Slots
      PROVE  /\ tasks[s].sig_pending = {} /\ ~tasks[s].die_flag
             /\ tasks[s].state = "Running" <=> s = 0
             /\ IF s <= NDaemons + 1
                THEN tasks[s].pid = s + 1 /\ tasks[s].tgid = s + 1 /\ tasks[s].state # "Dead"
                ELSE tasks[s].pid = 0 /\ tasks[s].tgid = 0 /\ tasks[s].state = "Dead"
  <2>1. s \in Nat /\ tasks[s] = BootTask(s)
    BY <1>2
  <2>2. CASE s = 0
    BY <1>1, <2>1, <2>2 DEF BootTask, NewTask, DeadTask
  <2>3. CASE s = 1
    BY <1>1, <2>1, <2>3 DEF BootTask, NewTask, DeadTask
  <2>4. CASE s > 1 /\ s <= NDaemons + 1
    BY <1>1, <2>1, <2>4 DEF BootTask, NewTask, DeadTask
  <2>5. CASE s > NDaemons + 1
    <3>1. NCpus = 1 /\ ~(s <= NDaemons + NCpus) /\ s # 0 /\ s # 1 /\ ~(s <= NDaemons + 1)
      BY <1>1, <2>1, <2>5 DEF Uni
    <3>2. tasks[s] = DeadTask
      BY <2>1, <3>1 DEF BootTask
    <3> QED BY <1>1, <2>1, <2>5, <3>1, <3>2 DEF DeadTask
  <2> QED BY <1>1, <2>1, <2>2, <2>3, <2>4, <2>5
<1>4. Alone
  BY <1>2, <1>3 DEF Alone
<1>5. Calm
  BY <1>3 DEF Calm
<1>6. Pids
  <2>1. \A s \in Slots : tasks[s].pid < nextPid /\ tasks[s].tgid < nextPid
    BY <1>1, <1>2, <1>3
  <2>2. \A s \in Slots : tasks[s].state = "Dead" <=> tasks[s].pid = 0
    BY <1>1, <1>2, <1>3
  <2>3. \A s \in Slots : s \in Nat /\ (tasks[s].pid # 0 => tasks[s].pid = s + 1)
    BY <1>1, <1>2, <1>3
  <2>4. \A s, r \in Slots : tasks[s].pid = tasks[r].pid /\ tasks[s].pid # 0 => s = r
    BY <2>3
  <2> QED BY <1>1, <1>2, <2>1, <2>2, <2>4 DEF Pids, Distinct
<1> QED BY <1>4, <1>5, <1>6 DEF Sole

\* ... and is kept.
LEMMA SoleStep ==
    ASSUME Uni, TypeOK, IdleInv, Sole, [Next]_vars
    PROVE  Shaped /\ Sole'
<1>a. /\ tasks \in [Slots -> Task] /\ nextPid \in Nat /\ MaxPid \in Nat
      /\ \A s \in Slots : tasks[s].pid \in Nat /\ tasks[s].tgid \in Nat
  BY SizesAssumption DEF TypeOK, Task
<1>1. Shaped /\ Alone'
  BY StepShaped DEF Sole
<1>2. DeadTask.pid = 0 /\ DeadTask.tgid = 0 /\ DeadTask.sig_pending = {} /\ ~DeadTask.die_flag
      /\ DeadTask.state = "Dead"
  BY DEF DeadTask
<1>3. CASE nextPid' = nextPid /\ \A k \in Slots : Same(k)
  <2>1. Calm'
    BY <1>2, <1>3 DEF Sole, Calm, Same, Alike
  <2>2. \A k \in Slots : /\ tasks'[k].pid \in {tasks[k].pid, 0}
                         /\ tasks'[k].tgid \in {tasks[k].tgid, 0}
                         /\ tasks'[k].state = "Dead" <=> tasks'[k].pid = 0
    BY <1>2, <1>3 DEF Sole, Pids, Distinct, Same, Alike
  <2>3. \A k \in Slots : tasks'[k].pid < nextPid /\ tasks'[k].tgid < nextPid
    <3>1. SUFFICES ASSUME NEW k \in Slots
                   PROVE  tasks'[k].pid < nextPid /\ tasks'[k].tgid < nextPid
      OBVIOUS
    <3>2. tasks[k].pid < nextPid /\ tasks[k].tgid < nextPid
      BY DEF Sole, Pids
    <3> QED BY <1>a, <2>2, <3>2
  <2>4. \A s, r \in Slots : tasks'[s].pid = tasks'[r].pid /\ tasks'[s].pid # 0 => s = r
    BY <2>2 DEF Sole, Pids, Distinct
  <2> QED BY <1>1, <1>3, <2>1, <2>2, <2>3, <2>4 DEF Sole, Pids, Distinct
<1>4. ASSUME NEW d \in Slots, NEW t \in Task, Created(d, t) PROVE Calm' /\ Pids'
  <2> DEFINE me == cur[0]
  <2>a. /\ tasks'[d] = t /\ t.pid = nextPid /\ t.state = "Ready"
        /\ t.sig_pending = {} /\ ~t.die_flag
        /\ t.tgid = nextPid \/ t.tgid = tasks[me].tgid
        /\ nextPid <= MaxPid /\ nextPid' = nextPid + 1
        /\ Alike(tasks[me], tasks'[me]) /\ tasks[me].state = "Running"
        /\ tasks'[me].state = "Running"
        /\ \A k \in Slots \ {d, me} : tasks'[k] = tasks[k]
    BY <1>4 DEF Created
  <2>b. me \in Slots
    BY <1>4 DEF TypeOK, Created, Uni, Cpus
  <2>1. \A k \in Slots \ {d} : /\ Alike(tasks[k], tasks'[k])
                               /\ tasks'[k].state = "Dead" <=> tasks[k].state = "Dead"
    BY <2>a DEF Alike
  <2>2. Calm'
    BY <2>a, <2>1 DEF Sole, Calm, Alike
  <2>3. \A k \in Slots \ {d} : /\ tasks'[k].pid = tasks[k].pid /\ tasks'[k].tgid = tasks[k].tgid
                               /\ tasks'[k].pid < nextPid /\ tasks'[k].tgid < nextPid
    BY <2>1 DEF Sole, Pids, Alike
  <2>4. tasks[me].tgid < nextPid
    BY <2>b DEF Sole, Pids
  <2>5. nextPid # 0
    BY <1>a, <2>b, <2>4
  <2>6. \A k \in Slots : tasks'[k].pid < nextPid' /\ tasks'[k].tgid < nextPid'
    <3>1. SUFFICES ASSUME NEW k \in Slots
                   PROVE  tasks'[k].pid < nextPid' /\ tasks'[k].tgid < nextPid'
      OBVIOUS
    <3>2. CASE k = d
      BY <1>a, <2>a, <2>b, <2>4, <3>2
    <3>3. CASE k # d
      BY <1>a, <2>a, <2>3, <3>3
    <3> QED BY <3>2, <3>3
  <2>7. \A k \in Slots : tasks'[k].state = "Dead" <=> tasks'[k].pid = 0
    BY <2>a, <2>1, <2>3, <2>5 DEF Sole, Pids, Distinct
  <2>8. \A k \in Slots \ {d} : tasks'[k].pid # tasks'[d].pid
    BY <1>a, <2>a, <2>3
  <2>9. \A s, r \in Slots : tasks'[s].pid = tasks'[r].pid /\ tasks'[s].pid # 0 => s = r
    BY <2>3, <2>8 DEF Sole, Pids, Distinct
  <2>10. nextPid' <= MaxPid + 1
    BY <1>a, <2>a
  <2> QED BY <2>2, <2>6, <2>7, <2>9, <2>10 DEF Pids, Distinct
<1> QED BY <1>1, <1>3, <1>4, ShapedSame DEF Sole

-----------------------------------------------------------------------------
(* GroupDiesTogether.  It is inductive once it says that the main thread is  *)
(* a process.                                                               *)

Group ==
    \A s \in Live(tasks) : tasks[s].is_user =>
        \E r \in Live(tasks) : /\ tasks[r].is_user /\ tasks[r].pid = tasks[s].tgid
                               /\ tasks[r].tgid = tasks[r].pid

\* A step that ends nobody else's main thread keeps the groups.
LEMMA GroupKept ==
    ASSUME TypeOK, Group, NEW D, D \subseteq Live(tasks),
           \A k \in Slots \ D : \/ tasks'[k].state \in {"Dead", "Zombie"}
                                 /\ tasks[k].state \in {"Dead", "Zombie"}
                              \/ /\ Alike(tasks[k], tasks'[k])
                                 /\ tasks'[k].state \notin {"Dead", "Zombie"}
                                 /\ tasks[k].state \notin {"Dead", "Zombie"},
           \A k \in D : tasks'[k].state \in {"Dead", "Zombie"},
           \A r \in D : tasks[r].pid = tasks[r].tgid /\ tasks[r].is_user =>
              \A s \in Live(tasks) : tasks[s].is_user /\ tasks[s].tgid = tasks[r].tgid => s \in D
    PROVE  Group'
<1> SUFFICES ASSUME NEW s \in Slots, tasks'[s].state \notin {"Dead", "Zombie"},
                    tasks'[s].is_user
             PROVE  \E r \in Live(tasks)' : /\ tasks'[r].is_user
                                            /\ tasks'[r].pid = tasks'[s].tgid
                                            /\ tasks'[r].tgid = tasks'[r].pid
  BY DEF Group, Live
<1>1. /\ s \notin D /\ Alike(tasks[s], tasks'[s]) /\ s \in Live(tasks) /\ tasks[s].is_user
  BY DEF Live, Alike
<1>2. PICK r \in Live(tasks) : /\ tasks[r].is_user /\ tasks[r].pid = tasks[s].tgid
                               /\ tasks[r].tgid = tasks[r].pid
  BY <1>1 DEF Group
<1>3. r \in Slots \ D /\ tasks[r].state \notin {"Dead", "Zombie"}
  <2>1. tasks[s].tgid = tasks[r].tgid
    BY <1>2
  <2>2. r \notin D
    BY <1>1, <1>2, <2>1
  <2> QED BY <1>2, <2>2 DEF Live
<1>4. Alike(tasks[r], tasks'[r]) /\ tasks'[r].state \notin {"Dead", "Zombie"}
  BY <1>3
<1>5. r \in Live(tasks)'
  BY <1>3, <1>4 DEF Live
<1>6. /\ tasks'[r].is_user /\ tasks'[r].pid = tasks'[s].tgid
      /\ tasks'[r].tgid = tasks'[r].pid
  BY <1>1, <1>2, <1>4 DEF Alike
<1> QED BY <1>5, <1>6

\* Every step keeps the groups.
LEMMA GroupStep ==
    ASSUME TypeOK, Sole, Group, Shaped
    PROVE  Group'
<1> DEFINE Gone(k) == \/ /\ tasks'[k].state \in {"Dead", "Zombie"}
                         /\ tasks[k].state \in {"Dead", "Zombie"}
                      \/ /\ Alike(tasks[k], tasks'[k])
                         /\ tasks'[k].state \notin {"Dead", "Zombie"}
                         /\ tasks[k].state \notin {"Dead", "Zombie"}
<1>1. \A k : Steady(tasks[k], tasks'[k]) => Gone(k)
  BY DEF Steady
<1>2. \A k : tasks'[k] = tasks[k] => Gone(k)
  BY <1>1, SteadyChain
<1>3. DeadTask.state = "Dead"
  BY DEF DeadTask
<1>4. ASSUME \A k \in Slots : Gone(k) PROVE Group'
  <2>1. PICK D : D = {}
    OBVIOUS
  <2>2. /\ D \subseteq Live(tasks) /\ \A k \in Slots \ D : Gone(k)
        /\ \A k \in D : tasks'[k].state \in {"Dead", "Zombie"}
        /\ \A r \in D : tasks[r].pid = tasks[r].tgid /\ tasks[r].is_user =>
              \A s \in Live(tasks) : tasks[s].is_user /\ tasks[s].tgid = tasks[r].tgid => s \in D
    BY <1>4, <2>1
  <2> QED BY <2>2, GroupKept
<1>5. CASE Settled
  BY <1>1, <1>4, <1>5 DEF Settled
<1>6. CASE Reaped
  BY <1>2, <1>3, <1>4, <1>6 DEF Reaped
<1>7. CASE GroupEnds
  <2> DEFINE D == {cur[0]} \cup Siblings(tasks, tasks[cur[0]].tgid, cur[0])
  <2>1. Dying(D) /\ tasks[cur[0]].is_user
    BY <1>7 DEF GroupEnds
  <2>2. \A s \in Live(tasks) :
           tasks[s].is_user /\ tasks[s].tgid = tasks[cur[0]].tgid => s \in D
    BY DEF Siblings, Live
  <2>3. \A r \in D : tasks[r].tgid = tasks[cur[0]].tgid
    BY DEF Siblings
  <2> HIDE DEF D
  <2>4. /\ D \subseteq Live(tasks) /\ \A k \in Slots \ D : Gone(k)
        /\ \A k \in D : tasks'[k].state \in {"Dead", "Zombie"}
    BY <1>1, <2>1 DEF Dying
  <2> QED BY <2>2, <2>3, <2>4, GroupKept
<1>8. CASE ThreadEnds
  <2> DEFINE D == {cur[0]}
  <2>1. Dying(D) /\ tasks[cur[0]].pid # tasks[cur[0]].tgid
    BY <1>8 DEF ThreadEnds
  <2>2. /\ D \subseteq Live(tasks) /\ \A k \in Slots \ D : Gone(k)
        /\ \A k \in D : tasks'[k].state \in {"Dead", "Zombie"}
    BY <1>1, <2>1 DEF Dying
  <2>3. \A r \in D : ~(tasks[r].pid = tasks[r].tgid)
    BY <2>1
  <2> HIDE DEF D
  <2> QED BY <2>2, <2>3, GroupKept
<1>9. ASSUME NEW n, Awaited(n) PROVE Group'
  <2>1. Gone(cur[0])
    BY <1>9 DEF Awaited
  <2>2. \A k \in Slots \ {cur[0]} : Gone(k)
    BY <1>2, <1>9 DEF Awaited
  <2> QED BY <1>4, <2>1, <2>2
<1>10. ASSUME NEW n, Joined(n) PROVE Group'
  <2>1. Gone(cur[0])
    BY <1>10 DEF Joined
  <2>2. \A k \in Slots \ {cur[0]} : Gone(k)
    BY <1>2, <1>3, <1>10 DEF Joined
  <2> QED BY <1>4, <2>1, <2>2
<1>11. ASSUME NEW d \in Slots, NEW t \in Task, Created(d, t) PROVE Group'
  <2> DEFINE me == cur[0]
  <2>1. /\ tasks'[d] = t /\ t.state = "Ready" /\ t.is_user /\ t.pid = nextPid
        /\ \/ t.tgid = nextPid
           \/ t.tgid = tasks[me].tgid /\ tasks[me].is_user
        /\ tasks[d].state = "Dead" /\ tasks[me].state = "Running"
        /\ Alike(tasks[me], tasks'[me]) /\ tasks'[me].state = "Running"
        /\ \A k \in Slots \ {d, me} : tasks'[k] = tasks[k]
    BY <1>11 DEF Created
  <2>2. \A k \in Slots \ {d} : Gone(k)
    BY <1>2, <2>1
  <2>3. d \in Live(tasks)' /\ me \in Slots
    <3>1. 0 \in Cpus
      BY SizesAssumption DEF Cpus
    <3> QED BY <2>1, <3>1 DEF Live, TypeOK
  <2>4. ASSUME NEW s \in Live(tasks), tasks[s].is_user
        PROVE  \E r \in Live(tasks)' : /\ tasks'[r].is_user /\ tasks'[r].pid = tasks[s].tgid
                                       /\ tasks'[r].tgid = tasks'[r].pid
    <3>1. PICK r \in Live(tasks) : /\ tasks[r].is_user /\ tasks[r].pid = tasks[s].tgid
                                   /\ tasks[r].tgid = tasks[r].pid
      BY <2>4 DEF Group
    <3>2. r \in Slots \ {d} /\ tasks[r].state \notin {"Dead", "Zombie"}
      BY <2>1, <3>1 DEF Live
    <3>3. Alike(tasks[r], tasks'[r]) /\ r \in Live(tasks)'
      BY <2>2, <3>2 DEF Live
    <3> QED BY <3>1, <3>3 DEF Alike
  <2>5. \A s \in Live(tasks)' : s # d => /\ s \in Live(tasks) /\ tasks'[s].tgid = tasks[s].tgid
                                          /\ tasks'[s].is_user = tasks[s].is_user
    BY <2>2 DEF Live, Alike
  <2>6. ASSUME NEW s \in Live(tasks)', tasks'[s].is_user
        PROVE  \E r \in Live(tasks)' : /\ tasks'[r].is_user /\ tasks'[r].pid = tasks'[s].tgid
                                       /\ tasks'[r].tgid = tasks'[r].pid
    <3>1. CASE s # d
      BY <2>4, <2>5, <2>6, <3>1
    <3>2. CASE s = d /\ t.tgid = nextPid
      BY <2>1, <2>3, <3>2
    <3>3. CASE s = d /\ t.tgid = tasks[me].tgid /\ tasks[me].is_user
      <4>1. me \in Live(tasks)
        BY <2>1, <2>3 DEF Live
      <4> QED BY <2>1, <2>4, <3>3, <4>1
    <3> QED BY <2>1, <3>1, <3>2, <3>3
  <2> QED BY <2>6 DEF Group
<1> QED BY <1>5, <1>6, <1>7, <1>8, <1>9, <1>10, <1>11 DEF Shaped

\* At boot there is no user task.
LEMMA BootKernel ==
    ASSUME Init, NEW s \in Slots
    PROVE  /\ ~tasks[s].is_user /\ tasks[s].state \in {"Running", "Ready", "Dead"}
           /\ tasks[s].kids = {} /\ tasks[s].threads = {}
<1>1. tasks[s] = BootTask(s)
  BY DEF Init
<1>2. CASE s = 0
  BY <1>1, <1>2 DEF BootTask, NewTask, DeadTask
<1>3. CASE s = 1
  BY <1>1, <1>3 DEF BootTask, NewTask, DeadTask
<1>4. CASE s # 0 /\ s # 1 /\ s <= NDaemons + 1
  BY <1>1, <1>4 DEF BootTask, NewTask, DeadTask
<1>5. CASE s # 0 /\ s # 1 /\ ~(s <= NDaemons + 1)
  <2>1. CASE s <= NDaemons + NCpus
    BY <1>1, <1>5, <2>1 DEF BootTask, NewTask, DeadTask
  <2>2. CASE ~(s <= NDaemons + NCpus)
    <3>1. tasks[s] = DeadTask
      BY <1>1, <1>5, <2>2 DEF BootTask
    <3> QED BY <3>1 DEF DeadTask
  <2> QED BY <2>1, <2>2
<1> QED BY <1>2, <1>3, <1>4, <1>5

(* On one CPU, for any number of slots and programs that send no signals,    *)
(* "a process exit takes its whole thread group with it".                   *)
THEOREM GroupsDieTogether == Uni => (Spec => []GroupDiesTogether)
<1> SUFFICES ASSUME Uni PROVE Spec => []GroupDiesTogether
  OBVIOUS
<1>1. Init => TypeOK /\ IdleInv /\ Sole /\ Group
  BY InitType, IdleInit, SoleInit, BootKernel DEF Group, Live
<1>2. TypeOK /\ IdleInv /\ Sole /\ Group /\ [Next]_vars
         => (TypeOK /\ IdleInv /\ Sole /\ Group)'
  BY StepType, IdleStep, SoleStep, GroupStep DEF Uni
<1>3. Group => GroupDiesTogether
  BY DEF Group, GroupDiesTogether
<1> QED BY <1>1, <1>2, <1>3, PTL DEF Spec

-----------------------------------------------------------------------------
(* NoStrandedJoin and NoStrandedWait.  Both rest on who may wait for whom: a *)
(* pid is in one list of one task, and its creator takes it out when it      *)
(* waits for it.                                                            *)

Own(t) == t.kids \cup t.threads

Owned ==
    /\ \A s \in Slots : \A p \in Own(tasks[s]) : p # 0 /\ p < nextPid
    /\ \A s \in Slots : \A p \in tasks[s].kids : p \notin tasks[s].threads
    /\ \A s, r \in Slots : \A p \in Own(tasks[s]) : p \in Own(tasks[r]) => s = r

\* Every step keeps the lists apart.
LEMMA OwnedStep ==
    ASSUME TypeOK, Sole, Owned, Shaped
    PROVE  Owned'
<1>a. nextPid \in Nat /\ \A s \in Slots : \A p \in Own(tasks[s]) : p \in Nat
  BY DEF TypeOK, Task, Own
<1>1. CASE nextPid' = nextPid /\ \A k \in Slots : Same(k)
  <2>1. \A k \in Slots : /\ tasks'[k].kids \subseteq tasks[k].kids
                         /\ tasks'[k].threads \subseteq tasks[k].threads
    BY <1>1 DEF Same, DeadTask
  <2> QED BY <1>1, <2>1 DEF Owned, Own
<1>2. ASSUME NEW d \in Slots, NEW t \in Task, Created(d, t) PROVE Owned'
  <2> DEFINE me == cur[0]
  <2>1. /\ Own(tasks'[d]) = {}
        /\ \A k \in Slots \ {d, me} : tasks'[k] = tasks[k]
        /\ \/ /\ tasks'[me].kids = tasks[me].kids \cup {nextPid}
              /\ tasks'[me].threads = tasks[me].threads
           \/ /\ tasks'[me].threads = tasks[me].threads \cup {nextPid}
              /\ tasks'[me].kids = tasks[me].kids
        /\ nextPid' = nextPid + 1
    BY <1>2 DEF Created, Own
  <2>2. me \in Slots
    <3>1. 0 \in Cpus
      BY SizesAssumption DEF Cpus
    <3> QED BY <3>1 DEF TypeOK
  <2>3. nextPid # 0
    BY <1>a, <2>2 DEF Sole, Pids, TypeOK, Task
  <2>4. \A k \in Slots : nextPid \notin Own(tasks[k])
    BY <1>a DEF Owned
  <2>5. \A k \in Slots : \A p \in Own(tasks'[k]) : p \in Own(tasks[k]) \/ (p = nextPid /\ k = me)
    BY <2>1, <2>2 DEF Own
  <2>6. \A k \in Slots : \A p \in Own(tasks'[k]) : p # 0 /\ p < nextPid'
    <3>1. SUFFICES ASSUME NEW k \in Slots, NEW p \in Own(tasks'[k]) PROVE p # 0 /\ p < nextPid'
      OBVIOUS
    <3>2. CASE p = nextPid
      BY <1>a, <2>1, <2>3, <3>2
    <3>3. CASE p \in Own(tasks[k])
      <4>1. p # 0 /\ p < nextPid /\ p \in Nat
        BY <1>a, <3>3 DEF Owned
      <4> QED BY <1>a, <2>1, <4>1
    <3> QED BY <2>5, <3>2, <3>3
  <2>7. \A k \in Slots : \A p \in tasks'[k].kids : p \notin tasks'[k].threads
    <3>1. SUFFICES ASSUME NEW k \in Slots, NEW p \in tasks'[k].kids, p \in tasks'[k].threads
                   PROVE  FALSE
      OBVIOUS
    <3>2. k # d
      BY <2>1, <3>1 DEF Own
    <3>3. CASE k = me
      BY <2>1, <2>2, <2>4, <3>1, <3>3 DEF Owned, Own
    <3>4. CASE k # me
      BY <2>1, <3>1, <3>2, <3>4 DEF Owned
    <3> QED BY <3>3, <3>4
  <2>8. \A s, r \in Slots : \A p \in Own(tasks'[s]) : p \in Own(tasks'[r]) => s = r
    BY <2>4, <2>5 DEF Owned
  <2> QED BY <2>6, <2>7, <2>8 DEF Owned
<1> QED BY <1>1, <1>2, ShapedSame

\* Who is parked in join waits for a live sibling that nobody else may join.
JoinDue(s) ==
    /\ tasks[s].is_user /\ tasks[s].join_target # 0
    /\ tasks[s].join_target < nextPid
    /\ \A r \in Slots : tasks[s].join_target \notin Own(tasks[r])
    /\ \E r \in Siblings(tasks, tasks[s].tgid, s) : tasks[r].pid = tasks[s].join_target

Joins ==
    /\ \A s \in Slots : tasks[s].state = "BlockedJoin" => JoinDue(s)
    /\ \A s, r \in Slots :
          /\ tasks[s].state = "BlockedJoin" /\ tasks[r].state = "BlockedJoin"
          /\ tasks[s].join_target = tasks[r].join_target
          => s = r

Survives(r) ==
    /\ tasks'[r].state \notin {"Dead", "Zombie"} /\ Alike(tasks[r], tasks'[r])

\* Who was parked in join keeps a sibling to wait for where that one survives.
LEMMA JoinsKept ==
    ASSUME TypeOK, Joins, NEW M, M \subseteq Slots,
           \/ nextPid' = nextPid /\ \A k \in Slots : Same(k)
           \/ \E d \in Slots, t \in Task : Created(d, t),
           \A s \in M : /\ tasks[s].state = "BlockedJoin" /\ Alike(tasks[s], tasks'[s])
                        /\ tasks'[s].join_target = tasks[s].join_target,
           \A s \in M : \A r \in Siblings(tasks, tasks[s].tgid, s) :
              tasks[r].pid = tasks[s].join_target => Survives(r)
    PROVE  /\ \A s \in M : JoinDue(s)'
           /\ \A s, r \in M : tasks'[s].join_target = tasks'[r].join_target => s = r
<1>a. /\ nextPid \in Nat /\ \A s \in Slots : tasks[s].join_target \in Nat
      /\ cur[0] \in Slots
  <2>1. 0 \in Cpus
    BY SizesAssumption DEF Cpus
  <2> QED BY <2>1 DEF TypeOK, Task
<1>1. /\ nextPid' \in {nextPid, nextPid + 1}
      /\ \A k \in Slots : \A p \in Own(tasks'[k]) : p \in Own(tasks[k]) \/ p = nextPid
  <2>1. CASE nextPid' = nextPid /\ \A k \in Slots : Same(k)
    BY <2>1 DEF Same, DeadTask, Own
  <2>2. ASSUME NEW d \in Slots, NEW t \in Task, Created(d, t)
        PROVE  /\ nextPid' = nextPid + 1
               /\ \A k \in Slots : \A p \in Own(tasks'[k]) : p \in Own(tasks[k]) \/ p = nextPid
    <3>1. /\ Own(tasks'[d]) = {} /\ nextPid' = nextPid + 1
          /\ \A k \in Slots \ {d, cur[0]} : tasks'[k] = tasks[k]
          /\ \A p \in Own(tasks'[cur[0]]) : p \in Own(tasks[cur[0]]) \/ p = nextPid
      BY <2>2 DEF Created, Own
    <3> QED BY <3>1
  <2> QED BY <2>1, <2>2
<1>2. ASSUME NEW s \in M PROVE JoinDue(s)'
  <2>1. /\ s \in Slots /\ tasks[s].state = "BlockedJoin"
        /\ tasks'[s].tgid = tasks[s].tgid /\ tasks'[s].is_user = tasks[s].is_user
        /\ tasks'[s].join_target = tasks[s].join_target
    BY DEF Alike
  <2>2. /\ tasks[s].is_user /\ tasks[s].join_target # 0 /\ tasks[s].join_target < nextPid
        /\ \A r \in Slots : tasks[s].join_target \notin Own(tasks[r])
    BY <2>1 DEF Joins, JoinDue
  <2>3. PICK r \in Siblings(tasks, tasks[s].tgid, s) : tasks[r].pid = tasks[s].join_target
    BY <2>1 DEF Joins, JoinDue
  <2>4. /\ r \in Slots /\ r # s /\ tasks[r].is_user /\ tasks[r].tgid = tasks[s].tgid
        /\ Survives(r)
    BY <2>3 DEF Siblings
  <2>5. r \in Siblings(tasks', tasks'[s].tgid, s) /\ tasks'[r].pid = tasks'[s].join_target
    BY <2>1, <2>3, <2>4 DEF Siblings, Live, Survives, Alike
  <2>6. tasks'[s].join_target < nextPid' /\ tasks'[s].join_target # nextPid
    BY <1>a, <1>1, <2>1, <2>2
  <2>7. \A k \in Slots : tasks'[s].join_target \notin Own(tasks'[k])
    BY <1>1, <2>1, <2>2, <2>6
  <2> QED BY <2>1, <2>2, <2>5, <2>6, <2>7 DEF JoinDue
<1>3. \A s, r \in M : tasks'[s].join_target = tasks'[r].join_target => s = r
  BY DEF Joins
<1> QED BY <1>2, <1>3

\* Every step keeps the joins, where no thread joins just anyone.
LEMMA JoinsStep ==
    ASSUME "joinany" \notin Workload, TypeOK, Sole, Owned, Joins, Shaped
    PROVE  Joins'
<1> DEFINE me == cur[0]
           M == {s \in Slots : tasks'[s].state = "BlockedJoin"}
           Stays(s) == /\ tasks[s].state = "BlockedJoin" /\ Alike(tasks[s], tasks'[s])
                       /\ tasks'[s].join_target = tasks[s].join_target
           Meets(s) == \A r \in Siblings(tasks, tasks[s].tgid, s) :
                          tasks[r].pid = tasks[s].join_target => Survives(r)
<1>a. \/ nextPid' = nextPid /\ \A k \in Slots : Same(k)
      \/ \E d \in Slots, t \in Task : Created(d, t)
  BY ShapedSame
<1>b. me \in Slots /\ \A k : \A g : \A r \in Siblings(tasks, g, k) :
         /\ r \in Slots /\ tasks[r].state \notin {"Dead", "Zombie"} /\ r # k
         /\ tasks[r].is_user /\ tasks[r].tgid = g
  <2>1. 0 \in Cpus
    BY SizesAssumption DEF Cpus
  <2> QED BY <2>1 DEF TypeOK, Siblings, Live
<1>c. ASSUME NEW k, Steady(tasks[k], tasks'[k])
      PROVE  /\ tasks'[k].state = "BlockedJoin" => Stays(k)
             /\ tasks[k].state \notin {"Dead", "Zombie"} => Survives(k)
  BY <1>c DEF Steady, Survives
<1>d. ASSUME NEW k, tasks'[k] = tasks[k]
      PROVE  /\ tasks'[k].state = "BlockedJoin" => Stays(k)
             /\ tasks[k].state \notin {"Dead", "Zombie"} => Survives(k)
  BY <1>c, <1>d, SteadyChain
<1>e. ASSUME \A s \in M : Stays(s) /\ Meets(s) PROVE Joins'
  <2>1. M \subseteq Slots
    OBVIOUS
  <2>2. \A s \in Slots : tasks'[s].state = "BlockedJoin" => s \in M
    OBVIOUS
  <2> HIDE DEF M
  <2>3. /\ \A s \in M : JoinDue(s)'
        /\ \A s, r \in M : tasks'[s].join_target = tasks'[r].join_target => s = r
    BY <1>a, <1>e, <2>1, JoinsKept
  <2> QED BY <2>2, <2>3 DEF Joins
<1>f. DeadTask.state = "Dead"
  BY DEF DeadTask
<1>1. CASE Settled
  <2>1. \A s \in M : Stays(s) /\ Meets(s)
    BY <1>1, <1>b, <1>c DEF Settled
  <2> HIDE DEF M, Stays, Meets
  <2> QED BY <1>e, <2>1
<1>2. CASE Reaped
  <2>1. \A s \in M : Stays(s) /\ Meets(s)
    BY <1>2, <1>b, <1>d, <1>f DEF Reaped
  <2> HIDE DEF M, Stays, Meets
  <2> QED BY <1>e, <2>1
<1>3. ASSUME NEW D, Dying(D), NEW s \in M
      PROVE  /\ s \notin D /\ Stays(s)
             /\ \A r \in Slots \ D : tasks[r].state \notin {"Dead", "Zombie"} => Survives(r)
  <2>1. s \in Slots /\ s \notin D
    BY <1>3 DEF Dying
  <2> QED BY <1>3, <1>c, <2>1 DEF Dying
<1>4. CASE GroupEnds
  <2> DEFINE D == {me} \cup Siblings(tasks, tasks[me].tgid, me)
  <2>1. Dying(D) /\ tasks[me].is_user
    BY <1>4 DEF GroupEnds
  <2>2. \A r \in D : tasks[r].tgid = tasks[me].tgid
    BY <1>b
  <2>3. \A s \in Live(tasks) : tasks[s].is_user /\ tasks[s].tgid = tasks[me].tgid => s \in D
    BY DEF Siblings, Live
  <2> HIDE DEF D
  <2>4. ASSUME NEW s \in M PROVE Stays(s) /\ Meets(s)
    <3>1. /\ s \notin D /\ Stays(s) /\ s \in Slots
          /\ \A r \in Slots \ D : tasks[r].state \notin {"Dead", "Zombie"} => Survives(r)
      BY <1>3, <2>1
    <3>2. tasks[s].is_user /\ s \in Live(tasks)
      BY <3>1 DEF Joins, JoinDue, Live
    <3>3. \A r \in Siblings(tasks, tasks[s].tgid, s) : r \notin D
      BY <1>b, <2>2, <2>3, <3>1, <3>2
    <3> QED BY <1>b, <3>1, <3>3
  <2> HIDE DEF M, Stays, Meets
  <2> QED BY <1>e, <2>4
<1>5. CASE ThreadEnds
  <2>1. /\ Dying({me}) /\ tasks[me].is_user /\ tasks[me].pid # tasks[me].tgid
        /\ (\A v, w \in Waiters(tasks, tasks[me]) : v = w) => Waiters(tasks', tasks[me]) = {}
    BY <1>5 DEF ThreadEnds
  <2>2. Waiters(tasks', tasks[me]) = {}
    <3>1. \A v \in Waiters(tasks, tasks[me]) :
             /\ v \in Slots /\ tasks[v].state = "BlockedJoin"
             /\ tasks[v].join_target \in {0, tasks[me].pid}
      BY <2>1 DEF Waiters
    <3>2. \A v \in Waiters(tasks, tasks[me]) : tasks[v].join_target = tasks[me].pid
      BY <3>1 DEF Joins, JoinDue
    <3> QED BY <2>1, <3>1, <3>2 DEF Joins
  <2>3. ASSUME NEW s \in M PROVE Stays(s) /\ Meets(s)
    <3> DEFINE D == {me}
    <3>1. Dying(D)
      BY <2>1
    <3> HIDE DEF D
    <3>2. /\ Stays(s) /\ s \in Slots /\ tasks'[s].state = "BlockedJoin"
          /\ \A r \in Slots \ D : tasks[r].state \notin {"Dead", "Zombie"} => Survives(r)
      BY <1>3, <3>1
    <3>3. tasks'[s].tgid = tasks[s].tgid
      BY <3>2 DEF Alike
    <3>4. ~(tasks[me].tgid = tasks[s].tgid /\ tasks[me].pid = tasks[s].join_target)
      BY <2>1, <2>2, <3>2, <3>3 DEF Waiters
    <3>5. \A r \in Slots : r \notin D => r \in Slots \ D
      OBVIOUS
    <3>6. \A r \in D : r = me
      BY DEF D
    <3> QED BY <1>b, <3>2, <3>4, <3>5, <3>6
  <2> HIDE DEF M, Stays, Meets
  <2> QED BY <1>e, <2>3
<1>6. ASSUME NEW d \in Slots, NEW t \in Task, Created(d, t) PROVE Joins'
  <2>1. /\ tasks'[d].state = "Ready" /\ tasks[d].state = "Dead"
        /\ tasks'[me].state = "Running" /\ Survives(me)
        /\ \A k \in Slots \ {d, me} : tasks'[k] = tasks[k]
    BY <1>6 DEF Created, Survives
  <2>2. \A s \in M : Stays(s) /\ Meets(s)
    BY <1>b, <1>d, <2>1
  <2> HIDE DEF M, Stays, Meets
  <2> QED BY <1>e, <2>2
<1>7. ASSUME NEW n, Awaited(n) PROVE Joins'
  <2>1. /\ tasks'[me].state # "BlockedJoin" /\ Survives(me)
        /\ \A k \in Slots \ {me} : tasks'[k] = tasks[k]
    BY <1>7 DEF Awaited, Survives
  <2>2. \A s \in M : Stays(s) /\ Meets(s)
    BY <1>b, <1>d, <2>1
  <2> HIDE DEF M, Stays, Meets
  <2> QED BY <1>e, <2>2
<1>8. ASSUME NEW n, Joined(n), tasks'[me].state # "BlockedJoin" PROVE Joins'
  <2>1. /\ Survives(me)
        /\ \A k \in Slots \ {me} : \/ tasks'[k] = tasks[k]
                                   \/ tasks[k].state = "Zombie" /\ tasks'[k] = DeadTask
    BY <1>8 DEF Joined, Survives
  <2>2. \A s \in M : Stays(s) /\ Meets(s)
    BY <1>8, <1>b, <1>d, <1>f, <2>1
  <2> HIDE DEF M, Stays, Meets
  <2> QED BY <1>e, <2>2
<1>9. ASSUME NEW n, Joined(n), tasks'[me].state = "BlockedJoin" PROVE Joins'
  <2>1. /\ n \in tasks[me].threads /\ tasks[me].is_user
        /\ Alike(tasks[me], tasks'[me]) /\ tasks'[me].kids = tasks[me].kids
        /\ tasks'[me].threads \subseteq tasks[me].threads
        /\ Survives(me) /\ nextPid' = nextPid
    BY <1>9 DEF Joined, Survives
  <2>2. /\ tasks'[me].join_target = n /\ \A k \in Slots \ {me} : tasks'[k] = tasks[k]
        /\ \E r \in Siblings(tasks, tasks[me].tgid, me) : n \in {0, tasks[r].pid}
    BY <1>9 DEF Joined
  <2>3. n # 0 /\ n < nextPid /\ n \in Own(tasks[me]) /\ n \notin tasks[me].kids
    BY <1>b, <2>1 DEF Owned, Own
  <2>4. n \notin tasks'[me].threads
    BY <1>9, <2>3 DEF Joined
  <2>5. \A k \in Slots : n \notin Own(tasks'[k])
    BY <1>b, <2>1, <2>2, <2>3, <2>4 DEF Owned, Own
  <2>6. PICK r \in Siblings(tasks, tasks[me].tgid, me) : tasks[r].pid = n
    BY <2>2, <2>3
  <2>7. r \in Siblings(tasks', tasks'[me].tgid, me) /\ tasks'[r].pid = n
    <3>1. r \in Slots \ {me} /\ tasks'[r] = tasks[r] /\ tasks'[me].tgid = tasks[me].tgid
      BY <1>b, <2>1, <2>2, <2>6 DEF Alike
    <3> QED BY <1>b, <2>6, <3>1 DEF Siblings, Live
  <2>m. PICK m \in Slots : m = me
    BY <1>b
  <2>8. JoinDue(m)'
    <3>1. tasks'[me].is_user /\ tasks'[me].join_target = n /\ nextPid' = nextPid
      BY <2>1, <2>2 DEF Alike
    <3>2. \E x \in Siblings(tasks', tasks'[me].tgid, me) : tasks'[x].pid = n
      BY <2>7
    <3> QED BY <2>3, <2>5, <2>m, <3>1, <3>2 DEF JoinDue
  <2> DEFINE N == M \ {me}
  <2>9. N \subseteq Slots /\ \A s \in N : Stays(s) /\ Meets(s)
    BY <1>b, <1>d, <2>1, <2>2
  <2>10. \A s \in Slots : tasks'[s].state = "BlockedJoin" => s \in N \/ s = me
    OBVIOUS
  <2>11. \A s \in N : tasks'[s].join_target # n
    <3>1. \A s \in N : s \in Slots /\ s # me /\ tasks[s].state = "BlockedJoin"
      BY <2>9
    <3> QED BY <1>b, <2>2, <2>3, <3>1 DEF Joins, JoinDue
  <2> HIDE DEF N
  <2>12. /\ \A s \in N : JoinDue(s)'
         /\ \A s, x \in N : tasks'[s].join_target = tasks'[x].join_target => s = x
    BY <1>a, <2>9, JoinsKept
  <2>13. \A s \in Slots : tasks'[s].state = "BlockedJoin" => JoinDue(s)'
    BY <2>m, <2>8, <2>10, <2>12
  <2>14. \A s, x \in Slots : /\ tasks'[s].state = "BlockedJoin" /\ tasks'[x].state = "BlockedJoin"
                            /\ tasks'[s].join_target = tasks'[x].join_target
                            => s = x
    BY <2>2, <2>10, <2>11, <2>12
  <2> QED BY <2>13, <2>14 DEF Joins
<1> QED BY <1>1, <1>2, <1>4, <1>5, <1>6, <1>7, <1>8, <1>9 DEF Shaped

(* On one CPU, for any number of slots and programs that send no signals and *)
(* name the thread they join, "an exit cannot be missed": who is parked in   *)
(* join has a live sibling whose exit wakes it.                             *)
THEOREM JoinersWoken ==
    Uni /\ "joinany" \notin Workload => (Spec => []NoStrandedJoin)
<1> SUFFICES ASSUME Uni, "joinany" \notin Workload PROVE Spec => []NoStrandedJoin
  OBVIOUS
<1>1. Init => TypeOK /\ IdleInv /\ Sole /\ Owned /\ Joins
  BY InitType, IdleInit, SoleInit, BootKernel DEF Owned, Own, Joins
<1>2. TypeOK /\ IdleInv /\ Sole /\ Owned /\ Joins /\ [Next]_vars
         => (TypeOK /\ IdleInv /\ Sole /\ Owned /\ Joins)'
  BY StepType, IdleStep, SoleStep, OwnedStep, JoinsStep DEF Uni
<1>3. Joins => NoStrandedJoin
  BY DEF Joins, JoinDue, NoStrandedJoin
<1> QED BY <1>1, <1>2, <1>3, PTL DEF Spec

-----------------------------------------------------------------------------
(* REAP_LOG.                                                                *)

\* What is pushed is in the log.
LEMMA LogPushHas ==
    ASSUME NEW L \in [LogIdx -> Nat], NEW pid \in Nat
    PROVE  \E i \in LogIdx : LogPush(L, pid) = [L EXCEPT ![i] = pid]
<1>1. FreeEntries(L) \in SUBSET Nat /\ 0 \in LogIdx
  BY SizesAssumption DEF FreeEntries, LogIdx
<1>2. FreeEntries(L) # {} => Lowest(FreeEntries(L)) \in FreeEntries(L)
  BY <1>1, LowestIn
<1> QED BY <1>1, <1>2 DEF LogPush, FreeEntries

\* A push forgets no pid but the one whose entry it overwrites.
LEMMA LogPushKeeps ==
    ASSUME log \in [LogIdx -> Nat], NEW pid \in Nat \ {0}, log' = LogPush(log, pid),
           NEW p \in Nat \ {0}, ~Overwrites(p)
    PROVE  LogHas(log', pid) /\ (LogHas(log, p) => LogHas(log', p))
<1>1. PICK i \in LogIdx : log' = [log EXCEPT ![i] = pid]
  BY LogPushHas
<1>2. log'[i] = pid /\ \A j \in LogIdx \ {i} : log'[j] = log[j]
  BY <1>1
<1>3. log[i] = p => pid = p
  BY <1>2 DEF Overwrites
<1> QED BY <1>2, <1>3 DEF LogHas

\* Taking a pid out leaves the others in.
LEMMA LogTakeKeeps ==
    ASSUME NEW L \in [LogIdx -> Nat], NEW pid, LogHas(L, pid), NEW k, k # pid, LogHas(L, k)
    PROVE  LogHas(LogTake(L, pid), k)
<1> DEFINE E == {i \in LogIdx : L[i] = pid}
           i == Lowest(E)
<1>1. E \in SUBSET Nat /\ E # {}
  BY SizesAssumption DEF LogIdx, LogHas
<1>2. i \in E
  <2> HIDE DEF E
  <2> QED BY <1>1, LowestIn
<1>3. LogTake(L, pid) = [L EXCEPT ![i] = 0] /\ i \in LogIdx /\ L[i] = pid
  BY <1>2 DEF LogTake
<1> HIDE DEF i, E
<1> QED BY <1>3 DEF LogHas

-----------------------------------------------------------------------------
(* A child one may wait for is in the log, or in a slot as its child, unless  *)
(* its entry was overwritten: this is how REAP_LOG closes the race with the  *)
(* lazy reaper.                                                             *)

Child(T, r, k, p) == T[r].pid = k /\ T[r].tgid = k /\ T[r].parent = p

Accounted(p) ==
    \A s \in Slots :
        p \in tasks[s].kids
        => LogHas(log, p) \/ \E r \in Slots : Child(tasks, r, p, tasks[s].pid)

\* A step that does not forget the child.
LEMMA AccountedKept ==
    ASSUME TypeOK, Sole, Owned, NEW p \in Nat \ {0}, Accounted(p),
           \A k \in Slots : Same(k),
           \A r \in Slots : tasks[r].pid = p /\ tasks'[r] = DeadTask => LogHas(log', p),
           \A s \in Slots : p \in tasks'[s].kids /\ LogHas(log, p) => LogHas(log', p)
    PROVE  Accounted(p)'
<1> SUFFICES ASSUME NEW s \in Slots, p \in tasks'[s].kids, ~LogHas(log', p)
             PROVE  \E r \in Slots : Child(tasks', r, p, tasks'[s].pid)
  BY DEF Accounted
<1>1. p \in tasks[s].kids /\ tasks'[s].pid = tasks[s].pid
  BY DEF Same, DeadTask, Alike
<1>2. PICK r \in Slots : Child(tasks, r, p, tasks[s].pid)
  BY <1>1 DEF Accounted
<1>3. tasks[r].pid = p
  BY <1>2 DEF Child
<1>4. Alike(tasks[r], tasks'[r])
  BY <1>3 DEF Same
<1>5. tasks'[r].pid = p /\ tasks'[r].tgid = p /\ tasks'[r].parent = tasks'[s].pid
  BY <1>1, <1>2, <1>4 DEF Child, Alike
<1> QED BY <1>5 DEF Child

\* Every step that does not overwrite its entry accounts for the child.
LEMMA AccountedStep ==
    ASSUME TypeOK, Sole, Owned, NEW p \in Nat \ {0}, Accounted(p), ~Overwrites(p), Shaped
    PROVE  Accounted(p)'
<1> DEFINE me == cur[0]
<1>a. /\ me \in Slots /\ log \in [LogIdx -> Nat]
      /\ \A s \in Slots : tasks[s].pid \in Nat /\ \A k \in tasks[s].kids : k \in Nat \ {0}
  <2>1. 0 \in Cpus
    BY SizesAssumption DEF Cpus
  <2> QED BY <2>1 DEF TypeOK, Task, Owned, Own
<1>b. DeadTask.state = "Dead" /\ DeadTask.kids = {}
  BY DEF DeadTask
<1>c. \A r \in Slots : tasks[r].pid # 0 <=> tasks[r].state # "Dead"
  BY DEF Sole, Pids, Distinct
<1>d. \A r : Steady(tasks[r], tasks'[r]) /\ tasks'[r] = DeadTask => tasks[r].state = "Dead"
  BY <1>b DEF Steady
<1>1. CASE nextPid' = nextPid /\ \A k \in Slots : Same(k)
  <2>a. \A s \in Slots : \A k \in tasks'[s].kids : k \in tasks[s].kids
    BY <1>1, <1>b DEF Same
  <2>b. ASSUME log' = log, \A r \in Slots : tasks[r].pid # 0 => tasks'[r] # DeadTask
        PROVE  Accounted(p)'
    BY <1>1, <2>b, AccountedKept
  <2>c. ASSUME NEW n, Taken(n), \A s \in Slots : n \notin tasks'[s].kids,
               \A r \in Slots : tasks[r].pid # 0 => tasks'[r] # DeadTask
        PROVE  Accounted(p)'
    <3>1. \A s \in Slots : p \in tasks'[s].kids /\ LogHas(log, p) => LogHas(log', p)
      BY <1>a, <2>c, LogTakeKeeps DEF Taken
    <3> QED BY <1>1, <2>c, <3>1, AccountedKept
  <2>d. ASSUME NEW z \in Slots, tasks[z].state = "Zombie", log' = LogPush(log, tasks[z].pid),
               \A r \in Slots \ {z} : tasks[r].pid # 0 => tasks'[r] # DeadTask
        PROVE  Accounted(p)'
    <3>1. LogHas(log', tasks[z].pid) /\ (LogHas(log, p) => LogHas(log', p))
      BY <1>a, <1>c, <2>d, LogPushKeeps
    <3> QED BY <1>1, <1>a, <2>a, <2>d, <3>1, AccountedKept
  <2>1. CASE Settled
    BY <1>c, <1>d, <2>1, <2>b DEF Settled
  <2>2. CASE Reaped
    <3>1. PICK z \in Slots : /\ tasks[z].state = "Zombie" /\ log' = LogPush(log, tasks[z].pid)
                             /\ \A k \in Slots \ {z} : tasks'[k] = tasks[k]
      BY <2>2 DEF Reaped
    <3>2. \A r \in Slots \ {z} : tasks[r].pid # 0 => tasks'[r] # DeadTask
      BY <1>b, <1>c, <3>1
    <3> QED BY <2>d, <3>1, <3>2
  <2>3. ASSUME NEW D, Dying(D) PROVE Accounted(p)'
    <3>1. \A r \in Slots : tasks[r].pid # 0 => tasks'[r] # DeadTask
      BY <1>b, <1>c, <1>d, <2>3 DEF Dying
    <3> QED BY <2>3, <2>b, <3>1 DEF Dying
  <2>4. CASE GroupEnds \/ ThreadEnds
    BY <2>3, <2>4 DEF GroupEnds, ThreadEnds
  <2>5. ASSUME NEW n, Awaited(n) PROVE Accounted(p)'
    <3>1. /\ n \in tasks[me].kids \cup {0} /\ Taken(n)
          /\ tasks'[me].kids = tasks[me].kids \ (IF n = 0 THEN {} ELSE {n})
          /\ tasks'[me].state # "Dead"
          /\ \A k \in Slots \ {me} : tasks'[k] = tasks[k]
      BY <2>5 DEF Awaited, Taken
    <3>2. \A r \in Slots : tasks[r].pid # 0 => tasks'[r] # DeadTask
      BY <1>b, <1>c, <3>1
    <3>3. CASE n = 0
      BY <2>b, <3>1, <3>2, <3>3 DEF Taken
    <3>4. CASE n # 0
      <4>1. n \in tasks[me].kids /\ n \notin tasks'[me].kids
        BY <3>1, <3>4
      <4>2. \A s \in Slots \ {me} : n \notin tasks[s].kids
        BY <1>a, <4>1 DEF Owned, Own
      <4> QED BY <2>c, <3>1, <3>2, <4>1, <4>2
    <3> QED BY <3>3, <3>4
  <2>6. ASSUME NEW n, Joined(n) PROVE Accounted(p)'
    <3>1. /\ n \in tasks[me].threads \/ n = 0
          /\ tasks'[me].kids = tasks[me].kids /\ tasks'[me].state # "Dead"
      BY <2>6 DEF Joined
    <3>2. ASSUME NEW z \in Slots \ {me}, tasks[z].state = "Zombie",
                 log' = LogPush(log, tasks[z].pid),
                 \A k \in Slots \ {me, z} : tasks'[k] = tasks[k]
          PROVE  Accounted(p)'
      <4>1. \A r \in Slots \ {z} : tasks[r].pid # 0 => tasks'[r] # DeadTask
        BY <1>b, <1>c, <3>1, <3>2
      <4> QED BY <2>d, <3>2, <4>1
    <3>3. ASSUME Taken(n), \A k \in Slots \ {me} : tasks'[k] = tasks[k]
          PROVE  Accounted(p)'
      <4>1. \A r \in Slots : tasks[r].pid # 0 => tasks'[r] # DeadTask
        BY <1>b, <1>c, <3>1, <3>3
      <4>2. CASE n = 0
        BY <2>b, <3>3, <4>1, <4>2 DEF Taken
      <4>3. CASE n # 0
        <5>1. n \in tasks[me].threads
          BY <3>1, <4>3
        <5>2. \A s \in Slots : n \notin tasks[s].kids
          BY <1>a, <5>1 DEF Owned, Own
        <5> QED BY <2>a, <2>c, <3>3, <4>1, <5>2
      <4> QED BY <4>2, <4>3
    <3> QED BY <2>6, <3>2, <3>3 DEF Joined, Taken
  <2>7. ASSUME NEW d \in Slots, NEW t \in Task, Created(d, t) PROVE FALSE
    BY <1>1, <2>7 DEF Created, TypeOK
  <2> QED BY <2>1, <2>2, <2>4, <2>5, <2>6, <2>7 DEF Shaped
<1>2. ASSUME NEW d \in Slots, NEW t \in Task, Created(d, t) PROVE Accounted(p)'
  <2>1. /\ tasks'[d] = t /\ tasks[d].state = "Dead" /\ t.kids = {} /\ t.pid = nextPid
        /\ Alike(tasks[me], tasks'[me]) /\ log' = log /\ tasks[me].state = "Running"
        /\ \A k \in Slots \ {d, me} : tasks'[k] = tasks[k]
        /\ \/ /\ t.tgid = nextPid /\ t.parent = tasks[me].pid
              /\ tasks'[me].kids = tasks[me].kids \cup {nextPid}
           \/ tasks'[me].kids = tasks[me].kids
    BY <1>2 DEF Created
  <2>2. \A k \in Slots \ {d} : Alike(tasks[k], tasks'[k])
    BY <2>1 DEF Alike
  <2>3. SUFFICES ASSUME NEW s \in Slots, p \in tasks'[s].kids, ~LogHas(log, p)
                 PROVE  \E r \in Slots : Child(tasks', r, p, tasks'[s].pid)
    BY <2>1 DEF Accounted
  <2>4. s # d /\ tasks'[s].pid = tasks[s].pid
    BY <2>1, <2>2, <2>3 DEF Alike
  <2>5. CASE p \in tasks[s].kids
    <3>1. PICK r \in Slots : Child(tasks, r, p, tasks[s].pid)
      BY <2>3, <2>5 DEF Accounted
    <3>2. r # d
      BY <1>a, <1>c, <2>1, <2>5, <3>1 DEF Child
    <3>3. tasks'[r].pid = p /\ tasks'[r].tgid = p /\ tasks'[r].parent = tasks'[s].pid
      BY <2>2, <2>4, <3>1, <3>2 DEF Child, Alike
    <3> QED BY <3>3 DEF Child
  <2>6. CASE p \notin tasks[s].kids
    <3>1. s = me /\ p = nextPid /\ t.tgid = nextPid /\ t.parent = tasks[me].pid
      BY <2>1, <2>3, <2>4, <2>6
    <3>2. tasks'[d].pid = p /\ tasks'[d].tgid = p /\ tasks'[d].parent = tasks'[s].pid
      BY <2>1, <2>4, <3>1
    <3> QED BY <3>2 DEF Child
  <2> QED BY <2>5, <2>6
<1> QED BY <1>1, <1>2, ShapedSame

\* Who is parked in wait for child p has it alive.
WaitDue(T, s) == \E r \in Live(T) : Child(T, r, T[s].wait_target, T[s].pid)

Waits(p) ==
    \A s \in Slots :
        tasks[s].state = "WaitingChild" /\ tasks[s].wait_target = p => WaitDue(tasks, s)

\* It keeps the child where that one survives.
LEMMA WaitsKept ==
    ASSUME NEW p, Waits(p), NEW s \in Slots,
           tasks[s].state = "WaitingChild", tasks[s].wait_target = p,
           Alike(tasks[s], tasks'[s]), tasks'[s].wait_target = tasks[s].wait_target,
           \A r \in Live(tasks) :
              Child(tasks, r, tasks[s].wait_target, tasks[s].pid) => Survives(r)
    PROVE  WaitDue(tasks', s)
<1>1. PICK r \in Live(tasks) : Child(tasks, r, tasks[s].wait_target, tasks[s].pid)
  BY DEF Waits, WaitDue
<1>2. r \in Slots /\ Survives(r)
  BY <1>1 DEF Live
<1>3. r \in Live(tasks')
  BY <1>2 DEF Live, Survives
<1>4. Child(tasks', r, tasks'[s].wait_target, tasks'[s].pid)
  BY <1>1, <1>2 DEF Child, Survives, Alike
<1> QED BY <1>3, <1>4 DEF WaitDue

\* Every step keeps the waits.
LEMMA WaitsStep ==
    ASSUME TypeOK, Sole, Owned, NEW p \in Nat \ {0}, Accounted(p), Waits(p), Shaped
    PROVE  Waits(p)'
<1> DEFINE me == cur[0]
           Stays(s) == /\ tasks[s].state = "WaitingChild" /\ Alike(tasks[s], tasks'[s])
                       /\ tasks'[s].wait_target = tasks[s].wait_target
           Meets(s) == \A r \in Live(tasks) :
                          Child(tasks, r, tasks[s].wait_target, tasks[s].pid) => Survives(r)
           Parked(s) == tasks'[s].state = "WaitingChild" /\ tasks'[s].wait_target = p
<1>b. me \in Slots /\ \A r \in Live(tasks) :
         r \in Slots /\ tasks[r].state \notin {"Dead", "Zombie"}
  <2>1. 0 \in Cpus
    BY SizesAssumption DEF Cpus
  <2> QED BY <2>1 DEF TypeOK, Live
<1>c. ASSUME NEW k, Steady(tasks[k], tasks'[k])
      PROVE  /\ tasks'[k].state = "WaitingChild" => Stays(k)
             /\ tasks[k].state \notin {"Dead", "Zombie"} => Survives(k)
  BY <1>c DEF Steady, Survives
<1>d. ASSUME NEW k, tasks'[k] = tasks[k]
      PROVE  /\ tasks'[k].state = "WaitingChild" => Stays(k)
             /\ tasks[k].state \notin {"Dead", "Zombie"} => Survives(k)
  BY <1>c, <1>d, SteadyChain
<1>e. ASSUME NEW s \in Slots, Parked(s), Stays(s), Meets(s) PROVE WaitDue(tasks', s)
  BY <1>e, WaitsKept
<1>f. ASSUME \A s \in Slots : Parked(s) => WaitDue(tasks', s) PROVE Waits(p)'
  BY <1>f DEF Waits
<1>g. DeadTask.state = "Dead"
  BY DEF DeadTask
<1>h. ASSUME \A s \in Slots : Parked(s) => Stays(s) /\ Meets(s) PROVE Waits(p)'
  <2> HIDE DEF Stays, Meets, Parked
  <2> QED BY <1>e, <1>f, <1>h
<1>1. CASE Settled
  <2>1. \A s \in Slots : Parked(s) => Stays(s) /\ Meets(s)
    BY <1>1, <1>b, <1>c DEF Settled
  <2> HIDE DEF Stays, Meets, Parked
  <2> QED BY <1>h, <2>1
<1>2. CASE Reaped
  <2>1. \A s \in Slots : Parked(s) => Stays(s) /\ Meets(s)
    BY <1>2, <1>b, <1>d, <1>g DEF Reaped
  <2> HIDE DEF Stays, Meets, Parked
  <2> QED BY <1>h, <2>1
<1>3. ASSUME NEW D, Dying(D) PROVE Waits(p)'
  <2>1. ASSUME NEW s \in Slots, Parked(s) PROVE Stays(s) /\ Meets(s)
    <3>1. s \notin D
      BY <1>3, <2>1 DEF Dying
    <3>2. Stays(s)
      BY <1>3, <1>c, <2>1, <3>1 DEF Dying
    <3>3. \A r \in Slots \ D : tasks[r].state \notin {"Dead", "Zombie"} => Survives(r)
      BY <1>3, <1>c DEF Dying
    <3>4. ASSUME NEW r \in D, Child(tasks, r, tasks[s].wait_target, tasks[s].pid) PROVE FALSE
      <4>1. Waiters(tasks', tasks[r]) = {} /\ tasks[r].pid = tasks[r].tgid
        BY <1>3, <3>4 DEF Dying, Child
      <4>2. /\ tasks'[s].state = "WaitingChild" /\ tasks'[s].pid = tasks[r].parent
            /\ tasks'[s].wait_target = tasks[r].pid
        BY <2>1, <3>2, <3>4 DEF Child, Alike
      <4> QED BY <4>1, <4>2 DEF Waiters
    <3> QED BY <1>b, <3>2, <3>3, <3>4
  <2> HIDE DEF Stays, Meets, Parked
  <2> QED BY <1>h, <2>1
<1>4. CASE GroupEnds \/ ThreadEnds
  BY <1>3, <1>4 DEF GroupEnds, ThreadEnds
<1>5. ASSUME NEW d \in Slots, NEW t \in Task, Created(d, t) PROVE Waits(p)'
  <2>1. /\ tasks'[d].state = "Ready" /\ tasks[d].state = "Dead"
        /\ tasks'[me].state = "Running" /\ Survives(me)
        /\ \A k \in Slots \ {d, me} : tasks'[k] = tasks[k]
    BY <1>5 DEF Created, Survives
  <2>2. \A s \in Slots : Parked(s) => Stays(s) /\ Meets(s)
    BY <1>b, <1>d, <2>1
  <2> HIDE DEF Stays, Meets, Parked
  <2> QED BY <1>h, <2>2
<1>6. ASSUME NEW n, Joined(n) PROVE Waits(p)'
  <2>1. /\ Survives(me) /\ tasks'[me].state # "WaitingChild"
        /\ \A k \in Slots \ {me} : \/ tasks'[k] = tasks[k]
                                   \/ tasks[k].state = "Zombie" /\ tasks'[k] = DeadTask
    BY <1>6 DEF Joined, Survives
  <2>2. \A s \in Slots : Parked(s) => Stays(s) /\ Meets(s)
    BY <1>b, <1>d, <1>g, <2>1
  <2> HIDE DEF Stays, Meets, Parked
  <2> QED BY <1>h, <2>2
<1>7. ASSUME NEW n, Awaited(n) PROVE Waits(p)'
  <2>1. /\ Survives(me) /\ \A k \in Slots \ {me} : tasks'[k] = tasks[k]
        /\ tasks[me].state = "Running"
    BY <1>7 DEF Awaited, Survives
  <2>2. \A s \in Slots \ {me} : Parked(s) => Stays(s) /\ Meets(s)
    BY <1>b, <1>d, <2>1
  <2>3. ASSUME Parked(me) PROVE WaitDue(tasks', me)
    <3>1. /\ tasks'[me].wait_target = n /\ n = p /\ n \in tasks[me].kids
          /\ ~LogHas(log, n)
          /\ \A z \in Slots : /\ tasks[z].state = "Zombie" /\ tasks[z].pid = n
                              /\ tasks[z].tgid = n
                              => tasks[z].parent # tasks[me].pid
      BY <1>7, <2>3 DEF Awaited
    <3>2. PICK r \in Slots : Child(tasks, r, n, tasks[me].pid)
      BY <1>b, <3>1 DEF Accounted
    <3>3. tasks[r].state # "Zombie" /\ tasks[r].state # "Dead"
      BY <3>1, <3>2 DEF Child, Sole, Pids, Distinct
    <3>4. Survives(r)
      BY <1>d, <2>1, <3>3
    <3>5. r \in Live(tasks')
      BY <3>4 DEF Live, Survives
    <3>6. Child(tasks', r, tasks'[me].wait_target, tasks'[me].pid)
      BY <2>1, <3>1, <3>2, <3>4 DEF Child, Survives, Alike
    <3> QED BY <3>5, <3>6 DEF WaitDue
  <2> HIDE DEF Stays, Meets, Parked, me
  <2> QED BY <1>e, <1>f, <2>2, <2>3
<1> QED BY <1>1, <1>2, <1>4, <1>5, <1>6, <1>7 DEF Shaped

(* On one CPU, for any number of slots, any length of REAP_LOG and programs  *)
(* that send no signals: whoever is parked in wait(p) has p alive, so that   *)
(* its exit wakes the waiter, as long as the entry of p itself is not        *)
(* overwritten.  What happens to other entries, and a log full of pids       *)
(* nobody will ever wait for, does not matter.                              *)
THEOREM WaitersWoken ==
    ASSUME NEW p \in Nat \ {0}
    PROVE  Uni => (Spec /\ [][~Overwrites(p)]_vars => []WokenBy(p))
<1> SUFFICES ASSUME Uni PROVE Spec /\ [][~Overwrites(p)]_vars => []WokenBy(p)
  OBVIOUS
<1>1. Init => TypeOK /\ IdleInv /\ Sole /\ Owned /\ Accounted(p) /\ Waits(p)
  BY InitType, IdleInit, SoleInit, BootKernel DEF Owned, Own, Accounted, Waits
<1>2. /\ TypeOK /\ IdleInv /\ Sole /\ Owned /\ Accounted(p) /\ Waits(p)
      /\ [Next]_vars /\ [~Overwrites(p)]_vars
      => (TypeOK /\ IdleInv /\ Sole /\ Owned /\ Accounted(p) /\ Waits(p))'
  <2>1. vars' = vars => ~Overwrites(p)
    BY DEF vars, Overwrites
  <2> QED BY <2>1, StepType, IdleStep, SoleStep, OwnedStep, AccountedStep, WaitsStep DEF Uni
<1>3. Waits(p) => WokenBy(p)
  BY DEF Waits, WaitDue, Child, WokenBy
<1> QED BY <1>1, <1>2, <1>3, PTL DEF Spec

(* So nobody is stranded in wait as long as no entry is overwritten whose pid *)
(* a task may still wait for.  SchedLogFull is the case that is left.        *)
THEOREM NoWaiterStranded ==
    Uni => (Spec /\ [][OwedEntriesKept]_vars => []NoStrandedWait)
<1> DEFINE All == \A p \in Nat \ {0} : Accounted(p) /\ Waits(p)
<1> SUFFICES ASSUME Uni PROVE Spec /\ [][OwedEntriesKept]_vars => []NoStrandedWait
  OBVIOUS
<1>1. Init => TypeOK /\ IdleInv /\ Sole /\ Owned /\ All
  BY InitType, IdleInit, SoleInit, BootKernel DEF Owned, Own, Accounted, Waits
<1>2. /\ TypeOK /\ IdleInv /\ Sole /\ Owned /\ All /\ [Next]_vars /\ [OwedEntriesKept]_vars
      => (TypeOK /\ IdleInv /\ Sole /\ Owned /\ All)'
  <2> SUFFICES ASSUME TypeOK, IdleInv, Sole, Owned, All, [Next]_vars, [OwedEntriesKept]_vars
               PROVE  (TypeOK /\ IdleInv /\ Sole /\ Owned /\ All)'
    OBVIOUS
  <2>1. vars' = vars => \A p : ~Overwrites(p)
    BY DEF vars, Overwrites
  <2>2. Shaped /\ (TypeOK /\ IdleInv /\ Sole /\ Owned)'
    BY StepType, IdleStep, SoleStep, OwnedStep DEF Uni
  <2>3. ASSUME NEW p \in Nat \ {0} PROVE Accounted(p)' /\ Waits(p)'
    <3>1. Accounted(p) /\ Waits(p)
      OBVIOUS
    <3>2. Waits(p)'
      BY <2>2, <3>1, WaitsStep
    <3>3. CASE \E s \in Slots : p \in tasks'[s].kids
      <4>1. ~Overwrites(p)
        BY <2>1, <3>3 DEF OwedEntriesKept
      <4> QED BY <2>2, <3>1, <3>2, <4>1, AccountedStep
    <3>4. CASE ~(\E s \in Slots : p \in tasks'[s].kids)
      BY <3>2, <3>4 DEF Accounted
    <3> QED BY <3>3, <3>4
  <2> QED BY <2>2, <2>3
<1>3. TypeOK /\ All => NoStrandedWait
  <2> SUFFICES ASSUME TypeOK, All, NEW s \in Slots,
                      tasks[s].state = "WaitingChild", tasks[s].wait_target # 0
               PROVE  \E r \in Live(tasks) : tasks[r].pid = tasks[s].wait_target
    BY DEF NoStrandedWait
  <2>1. tasks[s].wait_target \in Nat \ {0}
    BY DEF TypeOK, Task
  <2>2. WaitDue(tasks, s)
    BY <2>1 DEF Waits
  <2> QED BY <2>2 DEF WaitDue, Child
<1> QED BY <1>1, <1>2, <1>3, PTL DEF Spec

-----------------------------------------------------------------------------
(* Any number of CPUs and every call.  A task that parks or ends itself      *)
(* leaves the lock before it leaves its stack; as long as nobody reaches it   *)
(* in between (Undisturbed), the slot a CPU calls current holds the task the  *)
(* CPU executes, and that task is Ready only while its CPU holds the lock.   *)

\* The task that was in a slot still is.
Kin(k) ==
    /\ tasks'[k].pid = tasks[k].pid
    /\ tasks'[k].state = "Dead" <=> tasks[k].state = "Dead"

Census ==
    \/ nextPid' = nextPid /\ \A k \in Slots : Kin(k) \/ tasks'[k] = DeadTask
    \/ \E d \in Slots : /\ tasks[d].state = "Dead" /\ tasks'[d].state = "Ready"
                        /\ tasks'[d].pid = nextPid
                        /\ nextPid <= MaxPid /\ nextPid' = nextPid + 1
                        /\ \A k \in Slots \ {d} : Kin(k)

\* Pids are unique and were handed out.
Numbered ==
    /\ nextPid <= MaxPid + 1 /\ Distinct(tasks)
    /\ \A s \in Slots : tasks[s].pid < nextPid

\* Every census keeps that.
LEMMA NumberedStep ==
    ASSUME TypeOK, Numbered, Census
    PROVE  Numbered'
<1>a. nextPid \in Nat /\ MaxPid \in Nat /\ \A s \in Slots : tasks[s].pid \in Nat
  BY SizesAssumption DEF TypeOK, Task
<1>b. DeadTask.pid = 0 /\ DeadTask.state = "Dead"
  BY DEF DeadTask
<1>1. CASE nextPid' = nextPid /\ \A k \in Slots : Kin(k) \/ tasks'[k] = DeadTask
  <2>1. \A k \in Slots : /\ tasks'[k].pid \in {0, tasks[k].pid}
                         /\ tasks'[k].state = "Dead" <=> tasks'[k].pid = 0
    BY <1>1, <1>b DEF Kin, Numbered, Distinct
  <2>2. \A k \in Slots : tasks'[k].pid < nextPid
    <3>1. SUFFICES ASSUME NEW k \in Slots PROVE tasks'[k].pid < nextPid
      OBVIOUS
    <3>2. tasks[k].pid < nextPid
      BY DEF Numbered
    <3> QED BY <1>a, <2>1, <3>2
  <2>3. \A s, r \in Slots : tasks'[s].pid = tasks'[r].pid /\ tasks'[s].pid # 0 => s = r
    BY <2>1 DEF Numbered, Distinct
  <2> QED BY <1>1, <2>1, <2>2, <2>3 DEF Numbered, Distinct
<1>2. ASSUME NEW d \in Slots, tasks[d].state = "Dead", tasks'[d].state = "Ready",
             tasks'[d].pid = nextPid,
             nextPid <= MaxPid, nextPid' = nextPid + 1, \A k \in Slots \ {d} : Kin(k)
      PROVE  Numbered'
  <2>1. \A k \in Slots \ {d} : /\ tasks'[k].pid = tasks[k].pid /\ tasks'[k].pid < nextPid
                               /\ tasks'[k].state = "Dead" <=> tasks'[k].pid = 0
    BY <1>2 DEF Kin, Numbered, Distinct
  <2>2. nextPid # 0
    BY <1>a, <1>2 DEF Numbered
  <2>3. \A k \in Slots : tasks'[k].pid < nextPid'
    <3>1. SUFFICES ASSUME NEW k \in Slots PROVE tasks'[k].pid < nextPid'
      OBVIOUS
    <3>2. CASE k = d
      BY <1>2, <1>a, <3>2
    <3>3. CASE k # d
      BY <1>2, <1>a, <2>1, <3>3
    <3> QED BY <3>2, <3>3
  <2>4. \A k \in Slots : tasks'[k].state = "Dead" <=> tasks'[k].pid = 0
    BY <1>2, <2>1, <2>2
  <2>5. \A k \in Slots \ {d} : tasks'[k].pid # nextPid
    BY <1>a, <2>1
  <2>6. \A s, r \in Slots : tasks'[s].pid = tasks'[r].pid /\ tasks'[s].pid # 0 => s = r
    BY <1>2, <2>1, <2>5 DEF Numbered, Distinct
  <2>7. nextPid' <= MaxPid + 1
    BY <1>2, <1>a
  <2> QED BY <2>3, <2>4, <2>6, <2>7 DEF Numbered, Distinct
<1> QED BY <1>1, <1>2 DEF Census

\* A CPU's current slot holds its task, Ready only if the CPU has the lock.
Held(c) ==
    /\ tasks[cur[c]].pid = ctx[c] /\ tasks[cur[c]].state # "Dead"
    /\ mode[c] \in {"reap", "pick"} => lock = c
    /\ tasks[cur[c]].state = "Ready" => lock = c /\ mode[c] \in {"reap", "pick"}

Seats ==
    /\ \A c \in Cpus : Held(c)
    /\ \A c, d \in Cpus : cur[c] = cur[d] => c = d

\* No Running task is made Ready or freed.
Firm == \A k \in Slots : tasks[k].state = "Running" => tasks'[k].state \notin {"Ready", "Dead"}

\* What a CPU without the lock runs is in its slot after the step.
LEMMA SeatsSafe ==
    ASSUME TypeOK, Seats, Census, Undisturbed, NEW d \in Cpus, lock # d,
           tasks[cur[d]].state = "Running" => tasks'[cur[d]].state \notin {"Ready", "Dead"}
    PROVE  tasks'[cur[d]].pid = ctx[d] /\ tasks'[cur[d]].state \notin {"Ready", "Dead"}
<1>a. cur[d] \in Slots /\ DeadTask.state = "Dead"
  BY DEF TypeOK, DeadTask
<1>1. Held(d)
  BY DEF Seats
<1>2. tasks[cur[d]].pid = ctx[d] /\ tasks[cur[d]].state \notin {"Ready", "Dead"}
  BY <1>1 DEF Held
<1>3. tasks'[cur[d]].state \notin {"Ready", "Dead"}
  BY <1>2 DEF Undisturbed
<1>4. PICK k \in Slots : k = cur[d]
  BY <1>a
<1>5. Kin(k)
  BY <1>a, <1>2, <1>3, <1>4 DEF Census
<1> QED BY <1>2, <1>3, <1>4, <1>5 DEF Kin

\* A step under the free lock that leaves Running tasks alone keeps the seats.
LEMMA SeatsKept ==
    ASSUME TypeOK, Seats, Undisturbed, Census, Firm, NEW c \in Cpus, Free,
           UNCHANGED <<cur, ctx, lock>>,
           \A d \in Cpus \ {c} : mode'[d] = mode[d], mode'[c] \notin {"reap", "pick"}
    PROVE  Seats'
<1>1. \A d \in Cpus : lock # d
  BY SizesAssumption DEF Free, NoLock, Cpus
<1>2. SUFFICES ASSUME NEW d \in Cpus PROVE Held(d)'
  BY DEF Seats
<1>3. cur[d] \in Slots /\ Held(d)
  BY DEF TypeOK, Seats
<1>4. mode'[d] \notin {"reap", "pick"}
  BY <1>1, <1>3 DEF Held
<1>5. tasks'[cur[d]].pid = ctx[d] /\ tasks'[cur[d]].state \notin {"Ready", "Dead"}
  BY <1>1, <1>3, SeatsSafe DEF Firm
<1> QED BY <1>4, <1>5 DEF Held

\* Installing a task fills a free slot and leaves the others where they are.
LEMMA InstallFirm ==
    ASSUME TypeOK, NEW c \in Cpus, NEW t \in Task, Install(c, t),
           tasks[cur[c]].state # "Dead", t.pid = nextPid, t.state = "Ready"
    PROVE  Census /\ Firm
<1> DEFINE me == cur[c]
<1>a. tasks \in [Slots -> Task] /\ me \in Slots /\ tasks[me] \in Task /\ Me(c) = tasks[me]
  BY DEF TypeOK, Me
<1>1. CASE DeadSlots(tasks) = {}
  <2>1. tasks' = tasks /\ nextPid' = nextPid
    BY <1>1 DEF Install
  <2> QED BY <2>1 DEF Census, Kin, Firm
<1>2. CASE DeadSlots(tasks) # {}
  <2> DEFINE d == Lowest(DeadSlots(tasks))
             v == Adopt(tasks[me], t)
  <2>1. d \in Slots /\ tasks[d].state = "Dead"
    <3>1. d \in DeadSlots(tasks)
      BY <1>2, LowestSlot DEF DeadSlots
    <3> QED BY <3>1 DEF DeadSlots
  <2>2. /\ tasks' = [tasks EXCEPT ![me] = v, ![d] = t]
        /\ nextPid <= MaxPid /\ nextPid' = nextPid + 1
    BY <1>2, <1>a DEF Install
  <2>3. v.state = tasks[me].state /\ v.pid = tasks[me].pid
    BY <1>a DEF Adopt, Task
  <2>4. d # me
    BY <2>1
  <2> HIDE DEF d, v
  <2>5. tasks'[me] = v /\ tasks'[d] = t /\ \A k \in Slots \ {d, me} : tasks'[k] = tasks[k]
    BY <1>a, <2>1, <2>2, <2>4
  <2>6. \A k \in Slots \ {d} : Kin(k)
    BY <2>3, <2>5 DEF Kin
  <2>7. Census
    BY <2>1, <2>2, <2>5, <2>6 DEF Census
  <2>8. Firm
    BY <2>1, <2>3, <2>5 DEF Firm
  <2> QED BY <2>7, <2>8
<1> QED BY <1>1, <1>2

\* finish_zombie_locked leaves every other task that does not wait alone.
LEMMA FinishZombieLeaves ==
    ASSUME NEW T \in [Slots -> Task], NEW s \in Slots
    PROVE  /\ FinishZombie(T, s)[s].pid = T[s].pid /\ FinishZombie(T, s)[s].state = "Zombie"
           /\ FinishZombie(T, s)[s].die_flag = T[s].die_flag
           /\ \A k \in Slots \ {s} :
                 /\ FinishZombie(T, s)[k].die_flag = T[k].die_flag
                 /\ FinishZombie(T, s)[k].pid = T[k].pid
                 /\ FinishZombie(T, s)[k].state = T[k].state
                    \/ (T[k].state \in Blocked /\ FinishZombie(T, s)[k].state = "Ready")
<1> DEFINE u == [T[s] EXCEPT !.state = "Zombie", !.user_space = 0]
           Z == [T EXCEPT ![s] = u]
           W == Waiters(Z, T[s])
           F == FinishZombie(T, s)
<1>1. u \in Task /\ T[s] \in Task
  BY FinishType
<1>2. Z \in [Slots -> Task]
  BY <1>1, Replace
<1>3. u.pid = T[s].pid /\ u.state = "Zombie" /\ u.die_flag = T[s].die_flag
  BY <1>1 DEF Task
<1>4. F = IF W = {} THEN Z ELSE WakeWaiter(Z, Lowest(W))
  BY DEF FinishZombie
<1>5. Z[s] = u /\ \A k \in Slots \ {s} : Z[k] = T[k]
  OBVIOUS
<1>6. W \in SUBSET Slots
  BY WaitersSlots
<1> HIDE DEF u, Z
<1>7. \A w \in W : w # s /\ Z[w].state \in {"WaitingChild", "BlockedJoin"}
  BY <1>3, <1>5, WaitersWait
<1>8. CASE W = {}
  BY <1>3, <1>4, <1>5, <1>8
<1>9. CASE W # {}
  <2> DEFINE w == Lowest(W)
  <2>1. w \in W /\ w \in Slots
    <3> HIDE DEF W
    <3> QED BY <1>6, <1>9, LowestSlot
  <2> HIDE DEF w, W
  <2>2. F = WakeWaiter(Z, w)
    BY <1>4, <1>9 DEF w
  <2> HIDE DEF F
  <2>3. /\ Steady(Z[w], F[w]) /\ F[w].state = "Ready"
        /\ \A k \in Slots \ {w} : F[k] = Z[k]
    BY <1>2, <1>7, <2>1, <2>2, WakeWaiterSteady
  <2>4. Z[w].state \in Blocked /\ w # s
    BY <1>7, <2>1 DEF Blocked
  <2>5. \A k \in Slots \ {s} : k # w => F[k] = T[k]
    BY <1>5, <2>3
  <2>6. F[s] = u
    BY <1>5, <2>3, <2>4
  <2>7. F[w].pid = T[w].pid /\ F[w].die_flag = T[w].die_flag /\ T[w] = Z[w]
    BY <1>5, <2>1, <2>3, <2>4 DEF Steady, Alike
  <2>8. ASSUME NEW k \in Slots \ {s}
        PROVE  /\ F[k].die_flag = T[k].die_flag /\ F[k].pid = T[k].pid
               /\ F[k].state = T[k].state \/ (T[k].state \in Blocked /\ F[k].state = "Ready")
    BY <2>3, <2>4, <2>5, <2>7
  <2> QED BY <1>3, <2>6, <2>8 DEF F
<1> QED BY <1>8, <1>9

\* The timer duties wake blocked tasks and park the CPU's own task only.
LEMMA TimerLeaves ==
    ASSUME TypeOK, NEW c \in Cpus, NEW k \in Slots
    PROVE  LET u == TimerDuties(tasks, c)[k]
           IN  /\ u.pid = tasks[k].pid /\ u.die_flag = tasks[k].die_flag
               /\ \/ u.state = tasks[k].state
                  \/ /\ u.state = "Ready"
                     /\ tasks[k].state \in Blocked \/ (k = cur[c] /\ tasks[k].state = "Running")
<1> DEFINE R == TimerDuties(tasks, c)
<1>1. KeyTaken(tasks) => tasks[Lowest(InputWaiters(tasks))].state = "BlockedInput"
  <2>1. InputWaiters(tasks) \in SUBSET Slots
    BY DEF InputWaiters
  <2>2. KeyTaken(tasks) => Lowest(InputWaiters(tasks)) \in InputWaiters(tasks)
    BY <2>1, LowestSlot DEF KeyTaken
  <2> QED BY <2>2 DEF InputWaiters
<1>2. PICK t \in Task : t = tasks[k]
  BY DEF TypeOK
<1>3. \/ R[k] = t
      \/ /\ t.state \in Blocked \/ (k = cur[c] /\ t.state = "Running")
         /\ R[k] = [t EXCEPT !.state = "Ready", !.wake_due = FALSE]
  BY <1>1, <1>2 DEF TimerDuties, Blocked
<1> HIDE DEF R
<1>4. PICK u : u = R[k]
  OBVIOUS
<1>5. /\ u.pid = t.pid /\ u.die_flag = t.die_flag
      /\ \/ u.state = t.state
         \/ u.state = "Ready" /\ (t.state \in Blocked \/ (k = cur[c] /\ t.state = "Running"))
  <2>1. CASE u = t
    BY <2>1
  <2>2. CASE u # t
    BY <1>3, <1>4, <2>2 DEF Task
  <2> QED BY <2>1, <2>2
<1> QED BY <1>2, <1>4, <1>5 DEF R

\* The sweep of exit_current keeps every pid and wakes or ends blocked tasks only.
LEMMA SweepLeaves ==
    ASSUME NEW T \in [Slots -> Task], NEW me \in Slots, NEW k \in Slots
    PROVE  /\ Sweep(T, me)[k].pid = T[k].pid
           /\ \/ Sweep(T, me)[k].state = T[k].state
              \/ /\ T[k].state \notin {"Running", "Dead"}
                 /\ Sweep(T, me)[k].state \in {"Zombie", "Ready"}
<1> DEFINE G == IF T[me].is_user THEN Siblings(T, T[me].tgid, me) ELSE {}
           R == [s \in Slots |->
                   IF s \notin G THEN T[s]
                   ELSE IF T[s].state = "Running" THEN [T[s] EXCEPT !.die_flag = TRUE]
                   ELSE [T[s] EXCEPT !.state = "Zombie", !.user_space = 0]]
           M == {s \in G : T[s].state # "Running" /\ T[s].pid = T[s].tgid}
           W == UNION {Waiters(R, T[s]) : s \in M}
           F == Sweep(T, me)
<1>1. F = IF W = {} THEN R ELSE WakeWaiter(R, Lowest(W))
  BY DEF Sweep
<1>2. R \in [Slots -> Task]
  <2>1. \A t \in Task : [t EXCEPT !.die_flag = TRUE] \in Task
    BY DEF Task
  <2>2. \A t \in Task : [t EXCEPT !.state = "Zombie", !.user_space = 0] \in Task
    BY FinishType
  <2> QED BY <2>1, <2>2
<1>3. \A j \in G : j \in Slots /\ T[j].state # "Dead"
  BY DEF Siblings, Live
<1>4. ASSUME NEW j \in Slots
      PROVE  /\ R[j].pid = T[j].pid
             /\ \/ R[j].state = T[j].state
                \/ T[j].state \notin {"Running", "Dead"} /\ R[j].state = "Zombie"
  <2>1. PICK t \in Task : t = T[j]
    OBVIOUS
  <2>2. \/ R[j] = t
        \/ R[j] = [t EXCEPT !.die_flag = TRUE]
        \/ /\ R[j] = [t EXCEPT !.state = "Zombie", !.user_space = 0]
           /\ t.state \notin {"Running", "Dead"}
    BY <1>3, <2>1
  <2>3. PICK u : u = R[j]
    OBVIOUS
  <2>4. u.pid = t.pid /\ (u.state = t.state \/ (t.state \notin {"Running", "Dead"}
                                                /\ u.state = "Zombie"))
    <3>1. CASE u = t
      BY <3>1
    <3>2. CASE u # t
      <4>1. \/ u = [t EXCEPT !.die_flag = TRUE]
            \/ /\ u = [t EXCEPT !.state = "Zombie", !.user_space = 0]
               /\ t.state \notin {"Running", "Dead"}
        BY <2>2, <2>3, <3>2
      <4> QED BY <2>1, <4>1 DEF Task
    <3> QED BY <3>1, <3>2
  <2> QED BY <2>1, <2>3, <2>4
<1>5. W # {} => Lowest(W) \in Slots /\ R[Lowest(W)].state \in {"WaitingChild", "BlockedJoin"}
  <2>1. \A x \in W : x \in Slots /\ R[x].state \in {"WaitingChild", "BlockedJoin"}
    <3> TAKE x \in W
    <3>1. PICK s \in M : x \in Waiters(R, T[s])
      OBVIOUS
    <3> HIDE DEF R
    <3> QED BY <3>1, WaitersWait
  <2> HIDE DEF W
  <2> QED BY <2>1, LowestSlot
<1> HIDE DEF R, W, G
<1>6. CASE W = {}
  BY <1>1, <1>4, <1>6
<1>7. CASE W # {}
  <2>1. PICK w \in Slots : w = Lowest(W) /\ R[w].state \in {"WaitingChild", "BlockedJoin"}
    BY <1>5, <1>7
  <2>2. F = WakeWaiter(R, w)
    BY <1>1, <1>7, <2>1
  <2> HIDE DEF F
  <2>3. /\ Steady(R[w], F[w]) /\ F[w].state = "Ready"
        /\ \A j \in Slots \ {w} : F[j] = R[j]
    BY <1>2, <2>1, <2>2, WakeWaiterSteady
  <2>4. F[w].pid = T[w].pid
    BY <1>4, <2>3 DEF Steady, Alike
  <2>5. T[w].state \notin {"Running", "Dead"}
    BY <1>4, <2>1
  <2>6. k # w => F[k] = R[k]
    BY <2>3
  <2> QED BY <1>4, <2>3, <2>4, <2>5, <2>6 DEF F
<1> QED BY <1>6, <1>7

\* Every call keeps the pids, makes no Running task Ready and frees none.
LEMMA FirmSyscall ==
    ASSUME TypeOK, NEW c \in Cpus, Syscall(c), tasks[cur[c]].state # "Dead"
    PROVE  Census /\ Firm
<1> DEFINE me == cur[c]
<1>a. /\ tasks \in [Slots -> Task] /\ me \in Slots
      /\ \A s \in Slots : tasks[s] \in Task
      /\ Me(c) = tasks[me] /\ nextPid \in Nat
  BY DEF TypeOK, Me
<1>b. DeadTask.state = "Dead"
  BY DEF DeadTask
<1>e. ASSUME NEW s \in Slots, NEW u, tasks' = [tasks EXCEPT ![s] = u], nextPid' = nextPid,
             u.pid = tasks[s].pid,
             \/ u.state = tasks[s].state
             \/ tasks[s].state # "Dead" /\ u.state \notin {"Ready", "Dead"}
             \/ tasks[s].state \in Blocked /\ u.state = "Ready"
      PROVE  Census /\ Firm
  <2>1. tasks'[s] = u /\ \A k \in Slots \ {s} : tasks'[k] = tasks[k]
    BY <1>a, <1>e
  <2>2. \A k \in Slots : Kin(k)
    BY <1>e, <2>1 DEF Kin, Blocked
  <2> QED BY <1>e, <2>1, <2>2 DEF Census, Firm, Blocked
<1>f. ASSUME tasks' = tasks, nextPid' = nextPid PROVE Census /\ Firm
  BY <1>f DEF Census, Kin, Firm
<1>g. ASSUME NEW s \in Slots, tasks[s].state # "Running", nextPid' = nextPid,
             tasks' = [tasks EXCEPT ![s] = DeadTask]
      PROVE  Census /\ Firm
  <2>1. tasks'[s] = DeadTask /\ \A k \in Slots \ {s} : tasks'[k] = tasks[k]
    BY <1>a, <1>g
  <2> QED BY <1>g, <2>1 DEF Census, Kin, Firm
<1>h. ASSUME NEW T \in [Slots -> Task], tasks' = FinishZombie(T, me), nextPid' = nextPid,
             \A k \in Slots : /\ T[k].pid = tasks[k].pid
                              /\ \/ T[k].state = tasks[k].state
                                 \/ /\ tasks[k].state \notin {"Running", "Dead"}
                                    /\ T[k].state \in {"Zombie", "Ready"}
      PROVE  Census /\ Firm
  <2>1. /\ tasks'[me].pid = T[me].pid /\ tasks'[me].state = "Zombie"
        /\ \A k \in Slots \ {me} :
              /\ tasks'[k].pid = T[k].pid
              /\ tasks'[k].state = T[k].state
                 \/ (T[k].state \in Blocked /\ tasks'[k].state = "Ready")
    BY <1>a, <1>h, FinishZombieLeaves
  <2>2. ASSUME NEW k \in Slots
        PROVE  /\ Kin(k)
               /\ tasks[k].state = "Running" => tasks'[k].state \notin {"Ready", "Dead"}
    <3>1. CASE k = me
      BY <1>a, <1>h, <2>1, <3>1 DEF Kin
    <3>2. CASE k # me
      BY <1>h, <2>1, <3>2 DEF Kin, Blocked
    <3> QED BY <3>1, <3>2
  <2> QED BY <1>h, <2>2 DEF Census, Firm
<1>i. ASSUME NEW st \in Blocked, Park(c, st) PROVE Census /\ Firm
  <2>1. PICK t \in Task : t = tasks[me]
    BY <1>a
  <2> DEFINE u == [t EXCEPT !.state = st]
  <2>2. tasks' = [tasks EXCEPT ![me] = u] /\ nextPid' = nextPid
    BY <1>i, <2>1 DEF Park
  <2>3. u.pid = t.pid /\ u.state \notin {"Ready", "Dead"}
    BY <2>1 DEF Task, Blocked
  <2> HIDE DEF u
  <2> QED BY <1>a, <1>e, <2>1, <2>2, <2>3
<1>1. CASE Yield(c)
  BY <1>1, <1>f DEF Yield
<1>2. CASE Sleep(c) \/ Block(c)
  BY <1>2, <1>i DEF Sleep, Block, Blocked
<1>3. CASE ReadChar(c)
  BY <1>3, <1>f, <1>i DEF ReadChar, Blocked
<1>4. ASSUME NEW s \in Slots, Wake(c, s) PROVE Census /\ Firm
  <2>1. PICK t \in Task : t = tasks[s]
    BY <1>a
  <2> DEFINE u == [t EXCEPT !.state = "Ready"]
  <2>2. tasks' = [tasks EXCEPT ![s] = u] /\ nextPid' = nextPid /\ t.state \in Blocked
    BY <1>4, <2>1 DEF Wake, Blocked
  <2>3. u.pid = t.pid /\ u.state = "Ready"
    BY <2>1 DEF Task
  <2> HIDE DEF u
  <2> QED BY <1>e, <2>1, <2>2, <2>3
<1>5. CASE Spawn(c)
  <2> DEFINE t == NewUser(nextPid, Me(c).pid)
  <2>1. Install(c, t)
    BY <1>5 DEF Spawn
  <2>2. t \in Task /\ t.pid = nextPid /\ t.state = "Ready"
    <3>1. Me(c).pid \in Nat
      BY <1>a DEF Task
    <3> QED BY <1>a, <3>1, NewUserFresh
  <2> HIDE DEF t
  <2> QED BY <2>1, <2>2, InstallFirm
<1>6. CASE Fork(c)
  <2> DEFINE n == NewUser(nextPid, Me(c).pid)
             t == [n EXCEPT !.sig_handlers = Me(c).sig_handlers]
  <2>1. Install(c, t)
    BY <1>6 DEF Fork
  <2>2. n \in Task /\ n.pid = nextPid /\ n.state = "Ready" /\ Me(c) \in Task
    <3>1. Me(c).pid \in Nat
      BY <1>a DEF Task
    <3> QED BY <1>a, <3>1, NewUserFresh
  <2> HIDE DEF n
  <2>3. t \in Task /\ t.pid = nextPid /\ t.state = "Ready"
    BY <2>2 DEF Task
  <2> HIDE DEF t
  <2> QED BY <2>1, <2>3, InstallFirm
<1>7. CASE Clone(c)
  <2> DEFINE n == NewUser(nextPid, Me(c).tgid)
             t == [n EXCEPT !.tgid = Me(c).tgid, !.user_space = Me(c).user_space,
                            !.sig_handlers = Me(c).sig_handlers]
  <2>1. Install(c, t)
    BY <1>7 DEF Clone
  <2>2. n \in Task /\ n.pid = nextPid /\ n.state = "Ready" /\ Me(c) \in Task
    <3>1. Me(c).tgid \in Nat
      BY <1>a DEF Task
    <3> QED BY <1>a, <3>1, NewUserFresh
  <2> HIDE DEF n
  <2>3. t \in Task /\ t.pid = nextPid /\ t.state = "Ready"
    BY <2>2 DEF Task
  <2> HIDE DEF t
  <2> QED BY <2>1, <2>3, InstallFirm
<1>8. CASE Exec(c)
  <2>1. PICK t \in Task : t = tasks[me]
    BY <1>a
  <2> DEFINE u == [t EXCEPT !.user_space = MaxPid + execs + 1,
                            !.sig_pending = {}, !.sig_handlers = {}]
  <2>2. nextPid' = nextPid /\ (tasks' = tasks \/ tasks' = [tasks EXCEPT ![me] = u])
    BY <1>8, <2>1 DEF Exec
  <2>3. u.pid = t.pid /\ u.state = t.state
    BY <2>1 DEF Task
  <2> HIDE DEF u
  <2> QED BY <1>a, <1>e, <1>f, <2>1, <2>2, <2>3
<1>9. ASSUME NEW n, WaitFor(c, n) PROVE Census /\ Firm
  <2>1. PICK t \in Task : t = tasks[me]
    BY <1>a
  <2> DEFINE K == IF n = 0 THEN {} ELSE {n}
             done == [t EXCEPT !.kids = t.kids \ K]
             parked == [t EXCEPT !.state = "WaitingChild", !.wait_target = n,
                                 !.kids = t.kids \ K]
  <2>2. /\ \/ tasks' = [tasks EXCEPT ![me] = done]
           \/ tasks' = [tasks EXCEPT ![me] = parked]
        /\ nextPid' = nextPid
    BY <1>9, <2>1 DEF WaitFor, Me
  <2>3. \A u \in {done, parked} : u.pid = t.pid /\ u.state \in {t.state, "WaitingChild"}
    BY <2>1 DEF Task
  <2> HIDE DEF done, parked
  <2> QED BY <1>a, <1>e, <2>1, <2>2, <2>3
<1>10. ASSUME NEW n, JoinFor(c, n) PROVE Census /\ Firm
  <2>1. PICK t \in Task : t = tasks[me]
    BY <1>a
  <2> DEFINE K == IF n = 0 THEN {} ELSE {n}
             dead == {s \in Slots : /\ tasks[s].state = "Zombie" /\ tasks[s].tgid = Me(c).tgid
                                    /\ tasks[s].pid # Me(c).pid /\ n \in {0, tasks[s].pid}}
             z == Lowest(dead)
             joined == [t EXCEPT !.threads = t.threads \ K]
             held == [t EXCEPT !.state = "BlockedJoin", !.join_target = n,
                               !.threads = t.threads \ K]
  <2>2. nextPid' = nextPid
    BY <1>10 DEF JoinFor
  <2>3. \A u \in {joined, held} : u.pid = t.pid /\ u.state \in {t.state, "BlockedJoin"}
    BY <2>1 DEF Task
  <2>4. CASE dead # {}
    <3>1. z \in dead
      BY <2>4, LowestSlot
    <3>2. tasks' = [tasks EXCEPT ![me] = joined, ![z] = DeadTask]
      BY <1>10, <2>1, <2>4 DEF JoinFor
    <3>3. z \in Slots /\ tasks[z].state = "Zombie" /\ z # me
      BY <1>a, <3>1
    <3>4. joined.state = t.state /\ joined.pid = t.pid
      BY <2>1 DEF Task
    <3> HIDE DEF z, dead, joined
    <3>5. /\ tasks'[z] = DeadTask /\ tasks'[me] = joined
          /\ \A k \in Slots \ {z, me} : tasks'[k] = tasks[k]
      BY <1>a, <3>2, <3>3
    <3>6. \A k \in Slots \ {z} : Kin(k)
      BY <2>1, <3>4, <3>5 DEF Kin
    <3>7. Firm
      BY <2>1, <3>3, <3>4, <3>5 DEF Firm
    <3> QED BY <2>2, <3>5, <3>6, <3>7 DEF Census
  <2>5. CASE dead = {}
    <3>1. tasks' = [tasks EXCEPT ![me] = joined] \/ tasks' = [tasks EXCEPT ![me] = held]
      BY <1>10, <2>1, <2>5 DEF JoinFor, Me
    <3> HIDE DEF joined, held
    <3> QED BY <1>a, <1>e, <2>1, <2>2, <2>3, <3>1
  <2> QED BY <2>4, <2>5
<1>11. CASE Wait(c) \/ WaitAny(c) \/ Join(c) \/ JoinAny(c)
  BY <1>11, <1>9, <1>10 DEF Wait, WaitAny, Join, JoinAny
<1>12. CASE Exit(c) \/ Texit(c)
  <2>1. /\ tasks' = FinishZombie(Sweep(tasks, me), me) \/ tasks' = FinishZombie(tasks, me)
        /\ nextPid' = nextPid
    BY <1>12 DEF Exit, Texit
  <2>2. CASE tasks' = FinishZombie(Sweep(tasks, me), me)
    <3>1. Sweep(tasks, me) \in [Slots -> Task]
      BY <1>a, SweepType
    <3> QED BY <1>a, <1>h, <2>1, <2>2, <3>1, SweepLeaves
  <2>3. CASE tasks' = FinishZombie(tasks, me)
    BY <1>a, <1>h, <2>1, <2>3
  <2> QED BY <2>1, <2>2, <2>3
<1>13. ASSUME NEW s \in Slots, NEW sig \in Signals, SendSignal(c, s, sig) PROVE Census /\ Firm
  <2>1. PICK t \in Task : t = tasks[s]
    BY <1>a
  <2> DEFINE st == IF t.state \in Blocked THEN "Ready" ELSE t.state
             u == [t EXCEPT !.sig_pending = t.sig_pending \cup {sig}, !.state = st,
                            !.wake_due = FALSE]
  <2>2. tasks' = [tasks EXCEPT ![s] = u] /\ nextPid' = nextPid
    BY <1>13, <2>1 DEF SendSignal
  <2>3. u.pid = t.pid /\ u.state = st
    BY <2>1 DEF Task
  <2> HIDE DEF u
  <2> QED BY <1>e, <2>1, <2>2, <2>3
<1>14. ASSUME NEW sig \in Signals, SigAction(c, sig) PROVE Census /\ Firm
  <2>1. PICK on \in BOOLEAN :
           tasks' = [tasks EXCEPT ![me].sig_handlers =
                        IF on THEN @ \cup {sig} ELSE @ \ {sig}]
    BY <1>14 DEF SigAction
  <2>2. PICK t \in Task : t = tasks[me]
    BY <1>a
  <2> DEFINE H == IF on THEN t.sig_handlers \cup {sig} ELSE t.sig_handlers \ {sig}
             u == [t EXCEPT !.sig_handlers = H]
  <2>3. tasks' = [tasks EXCEPT ![me] = u] /\ nextPid' = nextPid
    BY <1>14, <1>a, <2>1, <2>2 DEF SigAction
  <2>4. u.pid = t.pid /\ u.state = t.state
    BY <2>2 DEF Task
  <2> HIDE DEF u
  <2> QED BY <1>a, <1>e, <2>2, <2>3, <2>4
<1>15. ASSUME NEW s \in Slots, KillZombie(c, s) \/ KillKernel(c, s) PROVE Census /\ Firm
  <2>1. /\ nextPid' = nextPid /\ tasks[s].state # "Running"
        /\ tasks' = [tasks EXCEPT ![s] = DeadTask]
    BY <1>15 DEF KillZombie, KillKernel
  <2> QED BY <1>g, <2>1
<1> QED BY <1>1, <1>2, <1>3, <1>4, <1>5, <1>6, <1>7, <1>8, <1>11, <1>12, <1>13, <1>14, <1>15
        DEF Syscall

\* A call runs without the lock and does not enter the loops of post_dispatch.
LEMMA SyscallQuietly ==
    ASSUME TypeOK, NEW c \in Cpus, Syscall(c)
    PROVE  /\ Free /\ UNCHANGED <<cur, ctx, lock>>
           /\ \A d \in Cpus \ {c} : mode'[d] = mode[d]
           /\ mode'[c] \notin {"reap", "pick"}
<1>1. mode \in [Cpus -> {"task", "tail", "hooks", "reap", "pick"}]
  BY DEF TypeOK
<1>2. InTask(c) /\ UNCHANGED <<cur, ctx, lock>>
  BY DEF Syscall, User, Kernel, Shell, Yield, Sleep, ReadChar, Block, Park, Spawn, Fork,
         Clone, Install, Exec, Wait, WaitAny, WaitFor, Join, JoinAny, JoinFor, Exit, Texit,
         Wake, SendSignal, SigAction, KillZombie, KillKernel
<1>3. CASE \E s \in Slots, sig \in Signals : SendSignal(c, s, sig)
  <2>1. mode' = [mode EXCEPT ![c] = IF Me(c).is_user THEN "tail" ELSE mode[c]]
    BY <1>1, <1>3 DEF SendSignal
  <2> QED BY <1>1, <1>2, <2>1 DEF InTask
<1>4. CASE ~(\E s \in Slots, sig \in Signals : SendSignal(c, s, sig))
  <2>1. ToTail(c) \/ mode' = mode \/ mode' = [mode EXCEPT ![c] = "hooks"]
    BY <1>4 DEF Syscall, Yield, Sleep, ReadChar, Block, Park, Spawn, Fork,
           Clone, Exec, Wait, WaitAny, WaitFor, Join, JoinAny, JoinFor, Exit, Texit,
           Wake, SigAction, KillZombie, KillKernel
  <2> QED BY <1>1, <1>2, <2>1 DEF InTask, ToTail
<1> QED BY <1>3, <1>4

\* Entering post_dispatch keeps the CPU's task, or parks it under the lock.
LEMMA SeatsEnter ==
    ASSUME TypeOK, Seats, Undisturbed, NEW c \in Cpus, NEW timer \in BOOLEAN, Enter(c, timer)
    PROVE  Census /\ Seats'
<1> DEFINE me == cur[c]
           A == IF timer THEN TimerDuties(tasks, c) ELSE tasks
           B == IF A[me].die_flag /\ A[me].state = "Running" THEN FinishZombie(A, me) ELSE A
           P == IF B[me].state = "Running" THEN [B EXCEPT ![me].state = "Ready"] ELSE B
           Modes == {"task", "tail", "hooks", "reap", "pick"}
           Woken(t, u) == u.pid = t.pid /\ (u.state = t.state
                                             \/ (t.state \in Blocked /\ u.state = "Ready"))
<1>a. /\ tasks \in [Slots -> Task] /\ mode \in [Cpus -> Modes] /\ me \in Slots
      /\ \A d \in Cpus : cur[d] \in Slots
  BY DEF TypeOK
<1>0. tasks[me].pid = ctx[c] /\ tasks[me].state # "Dead"
  BY DEF Seats, Held
<1>1. /\ A \in [Slots -> Task]
      /\ \A k \in Slots \ {me} : Woken(tasks[k], A[k])
      /\ A[me].pid = tasks[me].pid /\ (A[me].state = "Dead" <=> tasks[me].state = "Dead")
  <2>1. A \in [Slots -> Task]
    BY <1>a, TimerDutiesType
  <2>2. \A k \in Slots : /\ A[k].pid = tasks[k].pid
                         /\ \/ A[k].state = tasks[k].state
                            \/ /\ A[k].state = "Ready"
                               /\ \/ tasks[k].state \in Blocked
                                  \/ k = me /\ tasks[k].state = "Running"
    BY <1>a, TimerLeaves
  <2> HIDE DEF A
  <2> QED BY <1>a, <2>1, <2>2 DEF Blocked
<1>2. Free /\ UNCHANGED <<cur, ctx, nextPid>>
  BY DEF Enter
<1>3. \/ /\ tasks' = P /\ lock' = c
         /\ \E m \in {"reap", "pick"} : mode' = [mode EXCEPT ![c] = m]
      \/ /\ tasks' = B /\ B[me].state = "Running" /\ lock' = lock
         /\ mode' = [mode EXCEPT ![c] = "task"]
  BY DEF Enter
<1> HIDE DEF A
<1>4. /\ B \in [Slots -> Task]
      /\ \A k \in Slots \ {me} : Woken(A[k], B[k])
      /\ B[me].pid = A[me].pid /\ (B[me].state = "Dead" <=> A[me].state = "Dead")
  <2>1. CASE A[me].die_flag /\ A[me].state = "Running"
    <3>1. B = FinishZombie(A, me)
      BY <2>1
    <3> HIDE DEF B
    <3>2. B \in [Slots -> Task]
      BY <1>1, <1>a, <3>1, FinishZombieType
    <3>3. /\ B[me].pid = A[me].pid /\ B[me].state = "Zombie"
          /\ \A k \in Slots \ {me} : Woken(A[k], B[k])
      BY <1>1, <1>a, <3>1, FinishZombieLeaves
    <3> QED BY <2>1, <3>2, <3>3
  <2>2. CASE ~(A[me].die_flag /\ A[me].state = "Running")
    BY <1>1, <2>2
  <2> QED BY <2>1, <2>2
<1> HIDE DEF B
<1>5. \A k \in Slots \ {me} : Woken(tasks[k], B[k])
  BY <1>1, <1>4 DEF Blocked
<1>6. B[me].pid = ctx[c] /\ B[me].state # "Dead"
  BY <1>0, <1>1, <1>4
<1>7. PICK b \in Task : b = B[me]
  BY <1>4, <1>a
<1> DEFINE p == [b EXCEPT !.state = "Ready"]
<1>8. P = IF b.state = "Running" THEN [B EXCEPT ![me] = p] ELSE B
  BY <1>7
<1>9. p.state = "Ready" /\ p.pid = b.pid
  BY <1>7 DEF Task
<1> HIDE DEF p, P
<1>10. \A k \in Slots \ {me} : P[k] = B[k]
  BY <1>4, <1>8, <1>a
<1>11. P[me].pid = ctx[c] /\ P[me].state # "Dead"
  BY <1>4, <1>6, <1>7, <1>8, <1>9, <1>a
<1>12. tasks'[me].pid = ctx[c] /\ tasks'[me].state # "Dead"
  BY <1>3, <1>6, <1>11
<1>13. \A k \in Slots \ {me} : Woken(tasks[k], tasks'[k])
  BY <1>3, <1>5, <1>10
<1>14. Census
  <2>1. ASSUME NEW k \in Slots PROVE Kin(k)
    <3>1. CASE k = me
      BY <1>0, <1>12, <3>1 DEF Kin
    <3>2. CASE k # me
      BY <1>13, <3>2 DEF Kin, Blocked
    <3> QED BY <3>1, <3>2
  <2> QED BY <1>2, <2>1 DEF Census
<1>b. \A d \in Cpus : lock # d
  BY <1>2, SizesAssumption DEF Free, NoLock, Cpus
<1>15. ASSUME NEW d \in Cpus, d # c PROVE Held(d)'
  <2>1. lock # d /\ Held(d) /\ cur[d] # me
    BY <1>b, <1>15 DEF Seats
  <2>2. mode'[d] = mode[d]
    BY <1>3, <1>15, <1>a
  <2>3. mode[d] \notin {"reap", "pick"}
    BY <2>1 DEF Held
  <2>4. PICK k \in Slots : k = cur[d] /\ k # me
    BY <1>a, <2>1
  <2>5. tasks[k].state = "Running" => tasks'[k].state \notin {"Ready", "Dead"}
    BY <1>13, <2>4 DEF Blocked
  <2>6. tasks'[cur[d]].pid = ctx[d] /\ tasks'[cur[d]].state \notin {"Ready", "Dead"}
    BY <1>14, <2>1, <2>4, <2>5, SeatsSafe
  <2> QED BY <1>2, <2>2, <2>3, <2>6 DEF Held
<1>16. Held(c)'
  <2>1. CASE tasks' = P /\ lock' = c /\ \E m \in {"reap", "pick"} : mode' = [mode EXCEPT ![c] = m]
    <3>1. mode'[c] \in {"reap", "pick"}
      BY <1>a, <2>1
    <3> QED BY <1>2, <1>12, <2>1, <3>1 DEF Held
  <2>2. CASE tasks' = B /\ B[me].state = "Running" /\ mode' = [mode EXCEPT ![c] = "task"]
    <3>1. mode'[c] = "task" /\ tasks'[me].state = "Running"
      BY <1>a, <2>2
    <3> QED BY <1>2, <1>12, <3>1 DEF Held
  <2> QED BY <1>3, <2>1, <2>2
<1>17. Seats'
  <2>1. \A d \in Cpus : Held(d)'
    BY <1>15, <1>16
  <2>2. \A d, e \in Cpus : cur'[d] = cur'[e] => d = e
    BY <1>2 DEF Seats
  <2> QED BY <2>1, <2>2 DEF Seats
<1> QED BY <1>14, <1>17

\* The reaper frees a zombie, which is not its own task.
LEMMA SeatsReap ==
    ASSUME TypeOK, Seats, Undisturbed, NEW c \in Cpus, Reap(c)
    PROVE  Census /\ Seats'
<1> DEFINE z == Lowest(Zombies(tasks, cur[c]))
           Modes == {"task", "tail", "hooks", "reap", "pick"}
<1>a. tasks \in [Slots -> Task] /\ mode \in [Cpus -> Modes] /\ cur \in [Cpus -> Slots]
  BY DEF TypeOK
<1>1. z \in Slots /\ tasks[z].state = "Zombie" /\ z # cur[c]
  <2>1. z \in Zombies(tasks, cur[c])
    BY LowestSlot DEF Reap, Zombies
  <2> QED BY <2>1 DEF Zombies
<1>2. tasks' = [tasks EXCEPT ![z] = DeadTask] /\ UNCHANGED <<cur, ctx, lock, nextPid>>
  BY DEF Reap
<1>3. /\ mode[c] = "reap" /\ mode'[c] \in {"reap", "pick"}
      /\ \A d \in Cpus \ {c} : mode'[d] = mode[d]
  BY <1>a DEF Reap
<1> HIDE DEF z
<1>4. tasks'[z] = DeadTask /\ \A k \in Slots \ {z} : tasks'[k] = tasks[k]
  BY <1>a, <1>1, <1>2
<1>5. Census
  BY <1>2, <1>4 DEF Census, Kin
<1>6. lock = c
  BY <1>3 DEF Seats, Held
<1>7. ASSUME NEW d \in Cpus \ {c} PROVE Held(d)'
  <2>1. lock # d /\ Held(d)
    BY <1>6 DEF Seats
  <2>2. PICK k \in Slots : k = cur[d]
    BY <1>a
  <2>3. tasks[k].state = "Running" => tasks'[k].state \notin {"Ready", "Dead"}
    BY <1>1, <1>4
  <2>4. tasks'[cur[d]].pid = ctx[d] /\ tasks'[cur[d]].state \notin {"Ready", "Dead"}
    BY <1>5, <2>1, <2>2, <2>3, SeatsSafe
  <2>5. mode'[d] \notin {"reap", "pick"}
    BY <1>3, <2>1 DEF Held
  <2> QED BY <1>2, <2>4, <2>5 DEF Held
<1>8. Held(c)'
  <2>1. tasks'[cur[c]] = tasks[cur[c]]
    BY <1>a, <1>1, <1>4
  <2>2. Held(c)
    BY DEF Seats
  <2> QED BY <1>2, <1>3, <1>6, <2>1, <2>2 DEF Held
<1> QED BY <1>2, <1>5, <1>7, <1>8 DEF Seats

\* A pick takes a parked task that no CPU calls current, ends one, or keeps the
\* CPU's own.
LEMMA SeatsPick ==
    ASSUME TypeOK, Seats, Undisturbed, NEW c \in Cpus, Pick(c)
    PROVE  Census /\ Seats'
<1> DEFINE Modes == {"task", "tail", "hooks", "reap", "pick"}
<1>a. /\ tasks \in [Slots -> Task] /\ mode \in [Cpus -> Modes] /\ cur \in [Cpus -> Slots]
      /\ ctx \in [Cpus -> Nat]
  BY DEF TypeOK
<1>b. mode[c] = "pick" /\ nextPid' = nextPid
  BY DEF Pick
<1>c. lock = c /\ tasks[cur[c]].pid = ctx[c] /\ tasks[cur[c]].state # "Dead"
  BY <1>b DEF Seats, Held
<1>d. \A d \in Cpus \ {c} : /\ lock # d /\ Held(d) /\ mode[d] \notin {"reap", "pick"}
                            /\ tasks[cur[d]].state # "Ready"
  BY <1>c DEF Seats, Held
<1>e. \A n \in Best(tasks, c) : n \in Slots /\ tasks[n].state = "Ready" /\ n # cur[c]
  BY DEF Best, Eligible
<1>1. ASSUME NEW n \in Best(tasks, c), Resume(c, n) PROVE Census /\ Seats'
  <2>1. PICK t \in Task : t = tasks[n]
    BY <1>a, <1>e
  <2> DEFINE u == [t EXCEPT !.state = "Running", !.sig_pending = Undelivered(t)]
  <2>2. /\ tasks' = [tasks EXCEPT ![n] = u] /\ cur' = [cur EXCEPT ![c] = n]
        /\ ctx' = [ctx EXCEPT ![c] = t.pid] /\ mode' = [mode EXCEPT ![c] = "task"]
    BY <1>1, <2>1 DEF Resume
  <2>3. u.state = "Running" /\ u.pid = t.pid
    BY <2>1 DEF Task
  <2> HIDE DEF u
  <2>4. tasks'[n] = u /\ \A k \in Slots \ {n} : tasks'[k] = tasks[k]
    BY <1>a, <1>e, <2>2
  <2>5. t.state = "Ready" /\ n \in Slots
    BY <1>e, <2>1
  <2>6. Census
    <3>1. \A k \in Slots : Kin(k)
      BY <2>1, <2>3, <2>4, <2>5 DEF Kin
    <3> QED BY <1>b, <3>1 DEF Census
  <2>7. Held(c)'
    <3>1. cur'[c] = n /\ ctx'[c] = t.pid /\ mode'[c] = "task"
      BY <1>a, <2>2
    <3> QED BY <2>3, <2>4, <3>1 DEF Held
  <2>8. \A d \in Cpus \ {c} : cur'[d] = cur[d] /\ ctx'[d] = ctx[d] /\ mode'[d] = mode[d]
                              /\ cur[d] # n
    BY <1>a, <1>d, <2>1, <2>2, <2>5
  <2>9. ASSUME NEW d \in Cpus \ {c} PROVE Held(d)'
    <3>1. tasks'[cur[d]] = tasks[cur[d]]
      BY <1>a, <2>4, <2>8
    <3> QED BY <1>d, <2>8, <3>1 DEF Held
  <2>10. cur'[c] = n
    BY <1>a, <2>2
  <2>11. \A d, e \in Cpus : cur'[d] = cur'[e] => d = e
    BY <2>8, <2>10 DEF Seats
  <2>12. \A d \in Cpus : Held(d)'
    BY <2>7, <2>9
  <2> QED BY <2>6, <2>11, <2>12 DEF Seats
<1>2. ASSUME NEW n \in Best(tasks, c), tasks' = FinishZombie(tasks, n),
             UNCHANGED <<cur, ctx, mode, lock>>
      PROVE  Census /\ Seats'
  <2>1. n \in Slots /\ tasks[n].state = "Ready" /\ n # cur[c]
    BY <1>e
  <2>2. /\ tasks'[n].pid = tasks[n].pid /\ tasks'[n].state = "Zombie"
        /\ \A k \in Slots \ {n} :
              /\ tasks'[k].pid = tasks[k].pid
              /\ tasks'[k].state = tasks[k].state
                 \/ (tasks[k].state \in Blocked /\ tasks'[k].state = "Ready")
    BY <1>a, <1>2, <2>1, FinishZombieLeaves
  <2>3. \A k \in Slots : Kin(k)
    BY <2>1, <2>2 DEF Kin, Blocked
  <2>4. Census
    BY <1>b, <2>3 DEF Census
  <2>5. ASSUME NEW d \in Cpus \ {c} PROVE Held(d)'
    <3>1. PICK k \in Slots : k = cur[d]
      BY <1>a
    <3>2. tasks[k].state = "Running" => tasks'[k].state \notin {"Ready", "Dead"}
      BY <2>1, <2>2 DEF Blocked
    <3>3. tasks'[cur[d]].pid = ctx[d] /\ tasks'[cur[d]].state \notin {"Ready", "Dead"}
      BY <1>d, <2>4, <3>1, <3>2, SeatsSafe
    <3> QED BY <1>2, <1>d, <3>3 DEF Held
  <2>6. Held(c)'
    <3>1. PICK k \in Slots : k = cur[c]
      BY <1>a
    <3>2. tasks'[k].pid = ctx[c] /\ tasks'[k].state # "Dead"
      BY <1>c, <2>3, <3>1 DEF Kin
    <3> QED BY <1>2, <1>b, <1>c, <3>1, <3>2 DEF Held
  <2> QED BY <1>2, <2>4, <2>5, <2>6 DEF Seats
<1>3. ASSUME tasks' = [tasks EXCEPT ![cur[c]].state = "Running"],
             mode' = [mode EXCEPT ![c] = "task"], UNCHANGED <<cur, ctx>>
      PROVE  Census /\ Seats'
  <2>1. PICK n \in Slots : n = cur[c]
    BY <1>a
  <2>2. PICK t \in Task : t = tasks[n]
    BY <1>a
  <2> DEFINE u == [t EXCEPT !.state = "Running"]
  <2>3. u.state = "Running" /\ u.pid = t.pid
    BY <2>2 DEF Task
  <2>4. tasks' = [tasks EXCEPT ![n] = u]
    BY <1>3, <2>1, <2>2
  <2> HIDE DEF u
  <2>5. tasks'[n] = u /\ \A k \in Slots \ {n} : tasks'[k] = tasks[k]
    BY <1>a, <2>4
  <2>6. \A k \in Slots : Kin(k)
    BY <1>c, <2>1, <2>2, <2>3, <2>5 DEF Kin
  <2>7. Held(c)'
    <3>1. cur'[c] = n /\ mode'[c] = "task" /\ ctx'[c] = t.pid
      BY <1>a, <1>c, <1>3, <2>1, <2>2
    <3> QED BY <2>3, <2>5, <3>1 DEF Held
  <2>8. ASSUME NEW d \in Cpus \ {c} PROVE Held(d)'
    <3>1. cur[d] \in Slots \ {n}
      BY <1>a, <2>1 DEF Seats
    <3>2. tasks'[cur[d]] = tasks[cur[d]] /\ mode'[d] = mode[d]
      BY <1>a, <1>3, <2>5, <3>1
    <3> QED BY <1>3, <1>d, <3>2 DEF Held
  <2>9. \A d \in Cpus : Held(d)'
    BY <2>7, <2>8
  <2> QED BY <1>3, <1>b, <2>6, <2>9 DEF Seats, Census
<1> QED BY <1>1, <1>2, <1>3 DEF Pick

\* Every undisturbed step keeps the pids and the seats.
LEMMA SeatsStep ==
    TypeOK /\ Numbered /\ Seats /\ [Next]_vars /\ [Undisturbed]_vars => (Numbered /\ Seats)'
<1> SUFFICES ASSUME TypeOK, Numbered, Seats, [Next]_vars, [Undisturbed]_vars PROVE Census /\ Seats'
  BY NumberedStep
<1>a. /\ mode \in [Cpus -> {"task", "tail", "hooks", "reap", "pick"}]
      /\ \A c \in Cpus : Held(c) /\ cur[c] \in Slots
  BY DEF TypeOK, Seats
<1>1. ASSUME Undisturbed, NEW c \in Cpus, Syscall(c) PROVE Census /\ Seats'
  <2>1. tasks[cur[c]].state # "Dead"
    BY <1>a DEF Held
  <2> QED BY <1>1, <2>1, FirmSyscall, SyscallQuietly, SeatsKept
<1>2. ASSUME Undisturbed, NEW c \in Cpus, Tail(c) \/ TimerIrq(c) \/ OtherIrq(c)
      PROVE  Census /\ Seats'
  <2>1. TRUE \in BOOLEAN /\ FALSE \in BOOLEAN
    OBVIOUS
  <2>2. Enter(c, TRUE) \/ Enter(c, FALSE)
    BY <1>2 DEF Tail, TimerIrq, OtherIrq
  <2> QED BY <1>2, <2>1, <2>2, SeatsEnter
<1>3. ASSUME Undisturbed, NEW c \in Cpus, Reap(c) PROVE Census /\ Seats'
  BY <1>3, SeatsReap
<1>4. ASSUME Undisturbed, NEW c \in Cpus, Pick(c) PROVE Census /\ Seats'
  BY <1>4, SeatsPick
<1>5. ASSUME \A k \in Slots : tasks'[k].pid = tasks[k].pid /\ tasks'[k].state = tasks[k].state,
             UNCHANGED <<cur, ctx, lock, nextPid>>,
             \A d \in Cpus : \/ mode'[d] = mode[d]
                             \/ mode[d] = "hooks" /\ mode'[d] = "tail"
      PROVE  Census /\ Seats'
  <2>1. Census
    BY <1>5 DEF Census, Kin
  <2>2. ASSUME NEW d \in Cpus PROVE Held(d)'
    BY <1>a, <1>5 DEF Held
  <2> QED BY <1>5, <2>1, <2>2 DEF Seats
<1>6. ASSUME NEW c \in Cpus, Hooks(c) PROVE Census /\ Seats'
  <2>1. \A d \in Cpus : mode'[d] = mode[d] \/ (mode[d] = "hooks" /\ mode'[d] = "tail")
    BY <1>a, <1>6 DEF Hooks, ToTail
  <2> QED BY <1>5, <1>6, <2>1 DEF Hooks
<1>7. ASSUME NEW s \in Slots, Clock(s) PROVE Census /\ Seats'
  <2>1. PICK t \in Task : t = tasks[s]
    BY DEF TypeOK
  <2> DEFINE u == [t EXCEPT !.wake_due = TRUE]
  <2>2. u.pid = t.pid /\ u.state = t.state
    BY <2>1 DEF Task
  <2>3. tasks' = [tasks EXCEPT ![s] = u] /\ UNCHANGED <<cur, ctx, mode, lock, nextPid>>
    BY <1>7, <2>1 DEF Clock
  <2> HIDE DEF u
  <2>4. tasks'[s] = u /\ \A k \in Slots \ {s} : tasks'[k] = tasks[k]
    BY <2>3 DEF TypeOK
  <2>5. \A k \in Slots : tasks'[k].pid = tasks[k].pid /\ tasks'[k].state = tasks[k].state
    BY <2>1, <2>2, <2>4
  <2> QED BY <1>5, <2>3, <2>5
<1>8. CASE UNCHANGED vars
  BY <1>5, <1>8 DEF vars
<1> QED BY <1>1, <1>2, <1>3, <1>4, <1>6, <1>7, <1>8 DEF Next, Dispatch

\* The boot table: slot s holds pid s + 1 or nothing.
LEMMA BootPids ==
    ASSUME Init, NEW s \in Slots
    PROVE  IF s <= NDaemons + NCpus THEN tasks[s].pid = s + 1 /\ tasks[s].state # "Dead"
           ELSE tasks[s].pid = 0 /\ tasks[s].state = "Dead"
<1>1. s \in Nat /\ tasks[s] = BootTask(s) /\ NCpus \in Nat \ {0} /\ NDaemons \in Nat
  BY SizesAssumption DEF Slots, Init
<1>2. CASE s = 0
  BY <1>1, <1>2 DEF BootTask, NewTask, DeadTask
<1>3. CASE s = 1
  <2>1. BootTask(s) = [NewTask(2, 0, 1) EXCEPT !.idle = TRUE]
    BY <1>3 DEF BootTask
  <2>2. BootTask(s).pid = 2 /\ BootTask(s).state = "Ready"
    BY <2>1 DEF NewTask, DeadTask
  <2> QED BY <1>1, <1>3, <2>2
<1>4. CASE s > 1 /\ s <= NDaemons + 1
  <2>1. BootTask(s) = NewTask(s + 1, CPU_ANY, 1)
    BY <1>1, <1>4 DEF BootTask
  <2>2. BootTask(s).pid = s + 1 /\ BootTask(s).state = "Ready"
    BY <2>1 DEF NewTask, DeadTask
  <2> QED BY <1>1, <1>4, <2>2
<1>5. CASE s > NDaemons + 1 /\ s <= NDaemons + NCpus
  <2>1. BootTask(s) = [NewTask(s + 1, s - NDaemons - 1, 1) EXCEPT
                          !.idle = TRUE, !.state = "Running"]
    BY <1>1, <1>5 DEF BootTask
  <2>2. BootTask(s).pid = s + 1 /\ BootTask(s).state = "Running"
    BY <2>1 DEF NewTask, DeadTask
  <2> QED BY <1>1, <1>5, <2>2
<1>6. CASE s > NDaemons + NCpus
  <2>1. BootTask(s) = DeadTask
    BY <1>1, <1>6 DEF BootTask
  <2> QED BY <1>1, <1>6, <2>1 DEF DeadTask
<1> QED BY <1>1, <1>2, <1>3, <1>4, <1>5, <1>6

\* At boot every CPU has a Running task of its own.
LEMMA SeatsInit == TypeOK /\ Init => Numbered /\ Seats
<1> SUFFICES ASSUME TypeOK, Init PROVE Numbered /\ Seats
  OBVIOUS
<1>a. /\ nextPid = NCpus + NDaemons + 2 /\ nextPid <= MaxPid + 1
      /\ NCpus \in Nat \ {0} /\ NDaemons \in Nat /\ \A s \in Slots : s \in Nat
  BY SizesAssumption DEF Init, Slots
<1>1. Numbered
  <2>1. \A s \in Slots : tasks[s].pid < nextPid
    BY <1>a, BootPids
  <2>2. \A s \in Slots : /\ tasks[s].state = "Dead" <=> tasks[s].pid = 0
                         /\ tasks[s].pid # 0 => tasks[s].pid = s + 1
    BY <1>a, BootPids
  <2>3. \A s, r \in Slots : tasks[s].pid = tasks[r].pid /\ tasks[s].pid # 0 => s = r
    BY <1>a, <2>2
  <2> QED BY <1>a, <2>1, <2>2, <2>3 DEF Numbered, Distinct
<1>2. ASSUME NEW c \in Cpus PROVE Held(c)
  <2>1. tasks[cur[c]].pid = ctx[c] /\ mode[c] = "task"
    BY OwnSlotInit DEF OwnSlot, Init
  <2>2. cur[c] \in Slots /\ tasks[cur[c]] = BootTask(cur[c])
    BY DEF Init, TypeOK
  <2>3. CASE c = 0
    BY <2>1, <2>2, <2>3 DEF Init, BootTask, NewTask, DeadTask, Held
  <2>4. CASE c # 0
    <3>1. cur[c] = NDaemons + 1 + c /\ c \in Nat /\ c < NCpus
      BY <1>a, <2>4 DEF Init, Kidle, Cpus
    <3>2. /\ cur[c] \in Nat /\ cur[c] > NDaemons + 1 /\ cur[c] > 1
          /\ cur[c] <= NDaemons + NCpus
      BY <1>a, <2>4, <3>1
    <3> DEFINE s == cur[c]
    <3>3. BootTask(s) = [NewTask(s + 1, s - NDaemons - 1, 1) EXCEPT
                            !.idle = TRUE, !.state = "Running"]
      BY <1>a, <3>2 DEF BootTask
    <3>4. BootTask(s).state = "Running"
      BY <3>3 DEF NewTask, DeadTask
    <3> QED BY <2>1, <2>2, <3>4 DEF Held
  <2> QED BY <2>3, <2>4
<1>3. \A c, d \in Cpus : cur[c] = cur[d] => c = d
  BY <1>a DEF Init, Kidle, Cpus
<1> QED BY <1>1, <1>2, <1>3 DEF Seats

(* "Two CPUs can never grab the same task" (sched.rs:18), and the slot of a  *)
(* task on a CPU is neither freed nor reused, for every number of CPUs and   *)
(* every call the programs make, as long as no step is disturbed: between    *)
(* the moment a task parks or ends itself and the moment its CPU holds the   *)
(* lock in post_dispatch, no wake-up, signal or reaper of another CPU       *)
(* reaches it.  The code does not see to that: SchedDoubleRun and            *)
(* SchedPulledSlot are the two disturbances.                                *)
THEOREM NoTaskTwice == Spec /\ [][Undisturbed]_vars => [](NoDoubleRun /\ NoPulledSlot)
<1>1. Init => TypeOK /\ Numbered /\ Seats
  BY InitType, SeatsInit
<1>2. TypeOK /\ Numbered /\ Seats /\ [Next]_vars /\ [Undisturbed]_vars
         => (TypeOK /\ Numbered /\ Seats)'
  BY StepType, SeatsStep
<1>3. TypeOK /\ Numbered /\ Seats => NoDoubleRun /\ NoPulledSlot
  <2> SUFFICES ASSUME TypeOK, Numbered, Seats PROVE NoDoubleRun /\ NoPulledSlot
    OBVIOUS
  <2>1. NoPulledSlot
    BY DEF NoPulledSlot, Seats, Held
  <2>2. ASSUME NEW c \in Cpus, NEW d \in Cpus, ctx[c] = ctx[d] PROVE c = d
    <3>1. Held(c) /\ Held(d) /\ cur[c] \in Slots /\ cur[d] \in Slots
      BY DEF Seats, TypeOK
    <3>2. tasks[cur[c]].pid = tasks[cur[d]].pid /\ tasks[cur[c]].state # "Dead"
      BY <2>2, <3>1 DEF Held
    <3>3. cur[c] = cur[d]
      BY <3>1, <3>2 DEF Numbered, Distinct
    <3> QED BY <3>3 DEF Seats
  <2> QED BY <2>1, <2>2 DEF NoDoubleRun
<1> QED BY <1>1, <1>2, <1>3, PTL DEF Spec
=============================================================================
