-------------------------------- MODULE Ipc --------------------------------
(***************************************************************************)
(* The named byte-stream channels of GLM OS (src/src/ipc.rs), the part of  *)
(* the scheduler they use (mark_blocked_chan, wake_chan_waiter, the wakeup *)
(* of send_signal) and the retry loop of the user library (chan_send and   *)
(* chan_recv of src/user/src/lib.rs).                                      *)
(*                                                                         *)
(* Everything the code does under IPC_LOCK is one action.  A call that     *)
(* succeeds drops the lock before it wakes the waiter it took out of the   *)
(* channel; that gap is the variable `waking'.  A call that cannot         *)
(* progress registers and parks the caller under the lock and answers      *)
(* WOULD_BLOCK; the library repeats it once the task runs again, so the    *)
(* call stays in `call' until the kernel gives another answer.             *)
(*                                                                         *)
(* A task is Ready (running or waiting for a CPU), BlockedChan or Dead;    *)
(* the statistics counters sent and got of a channel are left out.         *)
(***************************************************************************)
EXTENDS RingBuffer

CONSTANTS
    NChans,    \* NCHANS
    MaxMsg,    \* MAXMSG: most bytes one send or recv moves
    NTasks,    \* task slots that use channels
    Keys,      \* the rendezvous keys programs open channels with
    Programs,  \* the set of calls the program in each slot makes
    Faults,    \* the channels whose receiver may pass an unwritable buffer
    MaxDeaths  \* bound: tasks that are killed or exit

Ids == 0..(NChans - 1)
Slots == 1..NTasks      \* slot indices are stored + 1
NONE == 0               \* "no waiter"

NoCall == [kind |-> "none"]

ASSUME IpcAssumption ==
    /\ NChans \in Nat /\ NTasks \in Nat /\ MaxDeaths \in Nat
    /\ MaxMsg \in 1..Cap /\ Faults \subseteq Ids /\ Keys \subseteq Nat
    /\ \A s \in Slots : \A call \in Programs[s] :
          /\ call.kind \in {"send", "recv"} /\ call.id \in Ids
          /\ call.kind = "send" => call.data \in Seq(Bytes) /\ Len(call.data) \in 1..MaxMsg
          /\ call.kind = "recv" => call.len \in 1..MaxMsg

VARIABLES
    chans,   \* CHANS
    state,   \* Task::state of each slot
    call,    \* the chan_send or chan_recv the program is in, or NoCall
    waking,  \* the waiter the task's finished call still has to wake
    got,     \* the bytes the last successful recv of a task returned
    deaths   \* tasks that died so far

vars == <<chans, state, call, waking, got, deaths>>

Fresh == [used |-> FALSE, key |-> 0, buf |-> FreshRing, head |-> 0, count |-> 0,
          wait_recv |-> NONE, wait_send |-> NONE]

Init ==
    /\ chans = [i \in Ids |-> Fresh]
    /\ state = [s \in Slots |-> "Ready"]
    /\ call = [s \in Slots |-> NoCall]
    /\ waking = [s \in Slots |-> NONE]
    /\ got = [s \in Slots |-> <<>>]
    /\ deaths = 0

\* Task s executes ring-3 code, outside any channel call of the kernel.
Runs(s) == state[s] = "Ready" /\ waking[s] = NONE

Answer(s) == call' = [call EXCEPT ![s] = NoCall]

First(S) == CHOOSE i \in S : \A j \in S : i <= j

\* Mutant: the key is not looked up.
OpenAnew(s, key) ==
    LET unused == {i \in Ids : ~chans[i].used}
    IN  /\ Runs(s) /\ call[s] = NoCall /\ unused # {}
        /\ chans' = [chans EXCEPT ![First(unused)] =
                        [Fresh EXCEPT !.used = TRUE, !.key = key]]
        /\ UNCHANGED <<state, call, waking, got, deaths>>

(* open(key) takes the first free channel unless one with that key is open  *)
(* (0 is private and never joined).  Joining and failing change nothing.    *)
Open(s, key) ==
    LET joined == {i \in Ids : chans[i].used /\ key # 0 /\ chans[i].key = key}
        unused == {i \in Ids : ~chans[i].used}
    IN  /\ Runs(s) /\ call[s] = NoCall
        /\ joined = {} /\ unused # {}
        /\ chans' = [chans EXCEPT ![First(unused)] =
                        [Fresh EXCEPT !.used = TRUE, !.key = key]]
        /\ UNCHANGED <<state, call, waking, got, deaths>>

\* The program enters chan_send or chan_recv.
Begin(s) ==
    /\ Runs(s) /\ call[s] = NoCall
    /\ \E c \in Programs[s] : call' = [call EXCEPT ![s] = c]
    /\ UNCHANGED <<chans, state, waking, got, deaths>>

\* -1: the channel is not open, or the bytes to send cannot be copied in.
Refuse(s) ==
    /\ Runs(s) /\ call[s] # NoCall
    /\ call[s].kind = "send" \/ ~chans[call[s].id].used
    /\ Answer(s)
    /\ UNCHANGED <<chans, state, waking, got, deaths>>

Fits(c, data) == c.count + Len(data) <= Cap

\* Mutant: the bytes are written from the oldest one on.
SentOver(c, data) ==
    [c EXCEPT !.buf = Store(c.buf, TailOf(c.head, c.count), data),
              !.head = (c.head + Len(data)) % Cap,
              !.count = c.count + Len(data), !.wait_recv = NONE]

\* The channel after a send; the waiting receiver is taken out of it.
Sent(c, data) ==
    [c EXCEPT !.buf = Store(c.buf, c.head, data), !.head = (c.head + Len(data)) % Cap,
              !.count = c.count + Len(data), !.wait_recv = NONE]

\* Mutant: the waiter is looked up after it was cleared.
SendForgets(s) ==
    LET c == chans[call[s].id]
    IN  /\ Runs(s) /\ call[s].kind = "send"
        /\ c.used /\ Fits(c, call[s].data)
        /\ chans' = [chans EXCEPT ![call[s].id] = Sent(c, call[s].data)]
        /\ waking' = [waking EXCEPT ![s] = NONE]
        /\ Answer(s)
        /\ UNCHANGED <<state, got, deaths>>

Send(s) ==
    LET c == chans[call[s].id]
    IN  /\ Runs(s) /\ call[s].kind = "send"
        /\ c.used /\ Fits(c, call[s].data)
        /\ chans' = [chans EXCEPT ![call[s].id] = Sent(c, call[s].data)]
        /\ waking' = [waking EXCEPT ![s] = c.wait_recv]
        /\ Answer(s)
        /\ UNCHANGED <<state, got, deaths>>

\* Mutant: the sender parks without registering.
SendParksUnseen(s) ==
    LET c == chans[call[s].id]
    IN  /\ Runs(s) /\ call[s].kind = "send" /\ c.used /\ ~Fits(c, call[s].data)
        /\ state' = [state EXCEPT ![s] = "BlockedChan"]
        /\ UNCHANGED <<chans, call, waking, got, deaths>>

SendParks(s) ==
    LET c == chans[call[s].id]
    IN  /\ Runs(s) /\ call[s].kind = "send"
        /\ c.used /\ ~Fits(c, call[s].data)
        /\ chans' = [chans EXCEPT ![call[s].id].wait_send = s]
        /\ state' = [state EXCEPT ![s] = "BlockedChan"]
        /\ UNCHANGED <<call, waking, got, deaths>>

Taken(c, len) == IF c.count < len THEN c.count ELSE len

(* recv consumes the bytes before it copies them out.  When the copy fails  *)
(* it answers -1 at once and the waiting sender stays where it is.          *)
Recv(s) ==
    LET c == chans[call[s].id]
        n == Taken(c, call[s].len)
    IN  /\ Runs(s) /\ call[s].kind = "recv"
        /\ c.used /\ c.count > 0
        /\ Answer(s)
        /\ \/ /\ chans' = [chans EXCEPT ![call[s].id] =
                              [c EXCEPT !.count = c.count - n, !.wait_send = NONE]]
              /\ got' = [got EXCEPT ![s] = Load(c.buf, TailOf(c.head, c.count), n)]
              /\ waking' = [waking EXCEPT ![s] = c.wait_send]
           \/ /\ call[s].id \in Faults
              /\ chans' = [chans EXCEPT ![call[s].id] = [c EXCEPT !.count = c.count - n]]
              /\ UNCHANGED <<got, waking>>
        /\ UNCHANGED <<state, deaths>>

RecvParks(s) ==
    /\ Runs(s) /\ call[s].kind = "recv"
    /\ chans[call[s].id].used /\ chans[call[s].id].count = 0
    /\ chans' = [chans EXCEPT ![call[s].id].wait_recv = s]
    /\ state' = [state EXCEPT ![s] = "BlockedChan"]
    /\ UNCHANGED <<call, waking, got, deaths>>

\* wake_chan_waiter, after the lock is dropped.
Wake(s) ==
    /\ waking[s] # NONE
    /\ state' = [state EXCEPT ![waking[s]] = IF @ = "BlockedChan" THEN "Ready" ELSE @]
    /\ waking' = [waking EXCEPT ![s] = NONE]
    /\ UNCHANGED <<chans, call, got, deaths>>

\* A handled signal makes a parked task Ready; it stays registered.
Signal(s) ==
    /\ state[s] = "BlockedChan"
    /\ state' = [state EXCEPT ![s] = "Ready"]
    /\ UNCHANGED <<chans, call, waking, got, deaths>>

\* The task exits or a signal ends it; the channel keeps its registration.
Die(s) ==
    /\ state[s] # "Dead" /\ waking[s] = NONE /\ deaths < MaxDeaths
    /\ state' = [state EXCEPT ![s] = "Dead"]
    /\ call' = [call EXCEPT ![s] = NoCall]
    /\ deaths' = deaths + 1
    /\ UNCHANGED <<chans, waking, got>>

\* Another program starts in the slot.
Reuse(s) ==
    /\ state[s] = "Dead"
    /\ state' = [state EXCEPT ![s] = "Ready"]
    /\ UNCHANGED <<chans, call, waking, got, deaths>>

Syscall(s) == Refuse(s) \/ Send(s) \/ SendParks(s) \/ Recv(s) \/ RecvParks(s)

Next ==
    \E s \in Slots :
        \/ \E key \in Keys : Open(s, key)
        \/ Begin(s) \/ Syscall(s) \/ Wake(s) \/ Signal(s) \/ Die(s) \/ Reuse(s)

Spec == Init /\ [][Next]_vars

(***************************************************************************)
(* Fairness, for the run about progress: a task that is Ready gets a CPU   *)
(* (ReadyRuns of Sched), so it finishes the system call it is in, and the  *)
(* program in a slot of Receivers receives in a loop, as ping and pong do. *)
(***************************************************************************)
Receivers == {s \in Slots : \A c \in Programs[s] : c.kind = "recv"}

LiveSpec ==
    /\ Spec
    /\ \A s \in Slots : WF_vars(Syscall(s)) /\ WF_vars(Wake(s))
    /\ \A s \in Receivers : WF_vars(Begin(s))

-----------------------------------------------------------------------------
(* Properties.                                                              *)

Chan == [used : BOOLEAN, key : Nat, buf : [Ring -> Bytes], head : Ring, count : 0..Cap,
         wait_recv : Slots \cup {NONE}, wait_send : Slots \cup {NONE}]

\* Every variable keeps its type; in particular head and count stay in the ring.
TypeOK ==
    /\ chans \in [Ids -> Chan]
    /\ state \in [Slots -> {"Ready", "BlockedChan", "Dead"}]
    /\ call \in [Slots -> (UNION {Programs[s] : s \in Slots}) \cup {NoCall}]
    /\ \A s \in Slots : call[s] \in Programs[s] \cup {NoCall}
    /\ waking \in [Slots -> Slots \cup {NONE}]
    /\ got \in [Slots -> Seq(Bytes)]
    /\ deaths \in Nat

(* The channels implement bounded byte streams: the content of a stream is   *)
(* what lies between tail and head of its ring.                             *)
Contents(c) == Load(c.buf, TailOf(c.head, c.count), c.count)
Streams == INSTANCE ByteStream WITH queue <- [i \in Ids |-> Contents(chans[i])],
                                    Users <- Slots
ImplementsStreams == Streams!Spec

\* "open(key) joins an existing one": a key names one channel, however opens race.
OneChannelPerKey ==
    \A i, j \in Ids : chans[i].used /\ chans[j].used /\ chans[i].key = chans[j].key
                      => i = j \/ chans[i].key = 0

\* Each side of a channel is used by one task: "single waiter per side".
OneEach ==
    \A s, r \in Slots : \A c \in Programs[s] : \A d \in Programs[r] :
        c.kind = d.kind /\ c.id = d.id => s = r

ParkedIn(s, kind) == state[s] = "BlockedChan" /\ call[s].kind = kind
BeingWoken(s) == \E r \in Slots : waking[r] = s

(* "A peer on another CPU can never miss the wakeup": a task is parked only  *)
(* while its call cannot progress, or a peer is about to wake it; the sender *)
(* of a channel whose receiver faults is the exception.                     *)
NoLostWakeup ==
    \A s \in Slots :
        /\ ParkedIn(s, "recv") => chans[call[s].id].count = 0 \/ BeingWoken(s)
        /\ ParkedIn(s, "send") /\ call[s].id \notin Faults
           => ~Fits(chans[call[s].id], call[s].data) \/ BeingWoken(s)

\* The same for every sender, as the comment has it: IpcFault refutes this one.
NoLostSender ==
    \A s \in Slots : ParkedIn(s, "send")
                     => ~Fits(chans[call[s].id], call[s].data) \/ BeingWoken(s)

(* "Parks us until a peer recv()s; retry transparently so callers see        *)
(* blocking semantics" (chan_send): with a receiver that keeps receiving     *)
(* into good buffers and stays alive, a send returns.                       *)
SendReturns ==
    \A s \in Slots : call[s].kind = "send" /\ call[s].id \notin Faults
                     ~> call[s] = NoCall \/ deaths > 0
=============================================================================
