------------------------------ MODULE MCSched ------------------------------
(* Workloads for model checking Sched on small tables.                      *)
EXTENDS Sched

\* Process and thread lifecycles: creation, waiting, joining, exiting.
LifecycleCalls == {"spawn", "fork", "clone", "wait", "join", "exit", "texit", "yield",
                   "killzombie", "killkernel"}

\* Ring-3 programs that never block: preemption, creation, signals.
PreemptCalls == {"yield", "spawn", "fork", "clone", "signal", "sigaction", "exec"}

\* Everything that parks and wakes a task, in a system that must keep moving.
LiveCalls == {"sleep", "readchar", "chan", "sock", "spawn", "fork", "clone", "wait", "waitany",
              "joinany", "exit"}

\* What the shell and its pipelines do: spawn, wait in reverse order, exit.
PipelineCalls == {"spawn", "wait", "exit"}

\* Threads that are created and joined, and leave.
JoinCalls == {"spawn", "clone", "join", "joinany", "texit", "yield"}

\* Programs that only sleep.
SleepCalls == {"spawn", "sleep"}

\* Processes and threads that exit on their own CPU.
ExitCalls == {"spawn", "exit", "sleep"}

\* Threaded processes that exit and are waited for.
GroupCalls == {"spawn", "clone", "exit", "wait"}

\* A threaded program that replaces its image.
ExecCalls == {"spawn", "clone", "exec", "sleep"}

\* The shell's kill command.
KillCalls == {"spawn", "killkernel", "sleep", "exit"}
=============================================================================
