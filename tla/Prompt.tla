------------------------------- MODULE Prompt -------------------------------
(***************************************************************************)
(* The interactive side of the system: the keyboard ring (cpu/keyboard.rs),*)
(* the line editor with its history (lineedit.rs), the shell loop that     *)
(* runs a command and waits for it (shell.rs, term.rs), and the job        *)
(* control that turns Ctrl+C into SIGINT (jobs.rs).                        *)
(*                                                                         *)
(* One terminal is modelled.  It is the text console, a grid of cells with *)
(* a caret, or a terminal window, a live line that can only grow and lose  *)
(* cells at its end; the same editor drives both.  The keyboard interrupt, *)
(* the compositor (which moves keys from the one keyboard ring into the    *)
(* queue of the focused window), the shell, the child it waits for and     *)
(* jobd are separate actors.                                               *)
(***************************************************************************)
EXTENDS Integers, FiniteSets, Sequences, SequencesExt

CONSTANTS
    Chars,        \* printable characters
    Keys,         \* the keystrokes the user makes: characters and Controls
    LINE_MAX,     \* length of a line
    HIST_MAX,     \* lines the history keeps
    COLS,         \* cells of a row of the terminal window
    RING_SIZE,    \* the keyboard ring
    TERM_IN_CAP,  \* the input queue of a terminal window
    Consoles,     \* subset of {"console", "window"}: the terminals
    Background,   \* whether a background program prints to the terminal
    MaxKeys,      \* bound: keystrokes other than Enter
    MaxCmds       \* bound: programs run

\* The keys that are no characters.
Controls == {"bs", "del", "left", "right", "home", "end", "up", "down", "pgup", "pgdn",
             "enter", "intr", "eof", "tab"}

ASSUME PromptAssumption ==
    /\ {LINE_MAX, HIST_MAX, COLS, RING_SIZE, TERM_IN_CAP, MaxKeys, MaxCmds} \subseteq Nat \ {0}
    /\ LINE_MAX > 1 /\ RING_SIZE > 1 /\ COLS > 2
    /\ Chars \subseteq Keys /\ Keys \subseteq Chars \cup Controls /\ Chars \cap Controls = {}
    /\ Consoles \subseteq {"console", "window"} /\ Background \in BOOLEAN

VARIABLES
    sink,    \* console or window: the terminal this session has
    ring,    \* the keyboard ring: decoded keystrokes nobody has popped yet
    inp,     \* the window's input queue, filled by the compositor
    ed,      \* the LineEdit
    scr,     \* the live line: its cells, and the caret counted from their end
    sh,      \* the shell: prompt, spawned, waiting; its command's number
    kid,     \* the foreground child: none, running, caught, dead
    intr,    \* the pending flag of jobs.rs, and the command it was aimed at
    jobd,    \* where jobd is in its tick, and the pids it has collected
    report,  \* the "[ sig ]" report: none, queued, held by jobd
    recent,  \* a delivery happened within the last 250 ms
    odd,     \* why the live line is known not to match (see Honest)
    ghost    \* history: submitted lines; ^C pressed, flagged, sent, echoed; keys typed

vars == <<sink, ring, inp, ed, scr, sh, kid, intr, jobd, report, recent, odd, ghost>>

PROMPT == <<">">>
BLANK == " "
Windowed == sink = "window"

---------------------------------------------------------------------------
(* The two terminals.                                                      *)

\* The cell the caret is on, 0 for the first (draw_term_content).
Caret(s) == IF s.off < Len(s.cells) THEN Len(s.cells) - s.off ELSE 0
Put(s, at) == [s EXCEPT !.off = Len(s.cells) - at]

\* put_char of a text at the caret of the console.
Over(s, text) ==
    LET rest == SubSeq(s.cells, Caret(s) + Len(text) + 1, Len(s.cells))
    IN  [cells |-> SubSeq(s.cells, 1, Caret(s)) \o text \o rest, off |-> Len(rest)]

\* 0x08 moves the caret left; before the first cell it leaves the row.
Left(s, n) == Put(s, IF Caret(s) >= n THEN Caret(s) - n ELSE 0)

\* push_cell: a full row of a window goes to the scrollback.
push_cell(s, c) ==
    [s EXCEPT !.cells = IF Len(@) + 1 >= COLS THEN <<>> ELSE Append(@, c)]

\* print_ch: one cell at the end of a window's row, at the console's caret.
print_ch(s, c) == IF Windowed THEN push_cell(s, c) ELSE Over(s, <<c>>)

\* "\x08 \x08": a window pops its last cell (twice, with a blank pushed in
\* between), the console blanks the cell before its caret.
Rub(s) ==
    IF Windowed THEN [s EXCEPT !.cells = IF @ = <<>> THEN @ ELSE Front(@)]
    ELSE Left(Over(Left(s, 1), <<BLANK>>), 1)

\* A newline, then the prompt.  A window's caret offset is left as it was.
Fresh(s, text) == [cells |-> text, off |-> IF Windowed THEN s.off ELSE 0]
Newline(s) == Fresh(s, <<>>)
NewPrompt(s) == Fresh(s, PROMPT)

---------------------------------------------------------------------------
(* The editor.  ed and scr change together: [e, s, odd].                   *)

Blank == [buf |-> <<>>, pos |-> 0, shown |-> 0, hist |-> [i \in 0 .. HIST_MAX - 1 |-> <<>>],
          head |-> 0, n |-> 0, nav |-> 0, stash |-> <<>>]
Cut(e) == [e EXCEPT !.buf = <<>>, !.pos = 0, !.shown = 0, !.nav = 0, !.stash = <<>>]

Room(e, s, spare) ==
    LET own == IF e.shown < Len(s.cells) THEN e.shown ELSE Len(s.cells)
        taken == Len(s.cells) - own + spare
        left == IF taken < COLS THEN COLS - taken ELSE 0
    IN  IF ~Windowed THEN LINE_MAX ELSE IF left < LINE_MAX THEN left ELSE LINE_MAX

\* Mutant: no cell is kept for the caret.
roomTight(e, s) == Room(e, s, 0)

\* room, term_room: a window keeps the line inside one row, with a spare cell.
room(e, s) == Room(e, s, 1)

\* console_redraw walks back e.pos cells, blanks what was shown and prints
\* the line up to the caret.
console_redraw(e, s, to) ==
    LET home == Left(s, e.pos)
        bare == Left(Over(home, [i \in 1 .. e.shown |-> BLANK]), e.shown)
    IN  Over(bare, SubSeq(e.buf, 1, to))

\* term_redraw_input: the shown cells are popped, the line pushed.
window_redraw(e, s, to) ==
    LET keep == IF e.shown < Len(s.cells) THEN Len(s.cells) - e.shown ELSE 0
    IN  [cells |-> SubSeq(s.cells, 1, keep) \o e.buf, off |-> Len(e.buf) - to]

\* redraw; on the console it is right only when the caret is where e.pos says
\* and the whole line is printed.
redraw(x, to) ==
    LET e == x.e
        sure == Windowed \/ (Caret(x.s) = Len(PROMPT) + e.pos /\ to = Len(e.buf))
    IN  [e |-> [e EXCEPT !.shown = Len(e.buf)],
         s |-> IF Windowed THEN window_redraw(e, x.s, to) ELSE console_redraw(e, x.s, to),
         odd |-> IF sure THEN x.odd ELSE x.odd \cup {"walk"}]

move_to(x, new_pos) ==
    LET e == x.e
        to == IF new_pos < Len(e.buf) THEN new_pos ELSE Len(e.buf)
        s2 == IF Windowed THEN window_redraw(e, x.s, to)
              ELSE IF to > e.pos THEN Over(x.s, SubSeq(e.buf, e.pos + 1, to))
              ELSE Left(x.s, e.pos - to)
    IN  [x EXCEPT !.e.pos = to, !.s = s2, !.e.shown = IF Windowed THEN Len(e.buf) ELSE @]

\* Mutant: off by one entry.
hist_slot_late(e, back) == (e.head + HIST_MAX * 2 - back) % HIST_MAX

hist_slot(e, back) == (e.head + HIST_MAX * 2 - 1 - back) % HIST_MAX

Loaded(e, line) == [e EXCEPT !.buf = line, !.pos = Len(line)]

remember(e, line) ==
    IF line = <<>> \/ (e.n > 0 /\ e.hist[hist_slot(e, 0)] = line) THEN e
    ELSE [e EXCEPT !.hist[e.head] = line, !.head = (@ + 1) % HIST_MAX,
                   !.n = IF @ < HIST_MAX THEN @ + 1 ELSE @]

history_up(x) ==
    LET e == x.e
        parked == IF e.nav = 0 THEN [e EXCEPT !.stash = e.buf] ELSE e
        up == Loaded([parked EXCEPT !.nav = @ + 1], e.hist[hist_slot(e, e.nav)])
    IN  IF e.nav >= e.n THEN x ELSE redraw([x EXCEPT !.e = up], up.pos)

history_down(x) ==
    LET e == [x.e EXCEPT !.nav = @ - 1]
        down == Loaded(e, IF e.nav = 0 THEN e.stash ELSE e.hist[hist_slot(e, e.nav - 1)])
    IN  IF x.e.nav = 0 THEN x ELSE redraw([x EXCEPT !.e = down], down.pos)

insert_printable(x, c) ==
    LET e == x.e
        new == [e EXCEPT !.buf = InsertAt(@, e.pos + 1, c), !.pos = @ + 1]
    IN  IF Len(e.buf) >= room(e, x.s) THEN x
        ELSE IF new.pos = Len(new.buf) /\ e.shown = Len(e.buf)
        THEN [x EXCEPT !.e = [new EXCEPT !.shown = Len(new.buf)], !.s = print_ch(x.s, c)]
        ELSE redraw([x EXCEPT !.e = new], new.pos)

backspace(x) ==
    LET e == x.e
        new == [e EXCEPT !.buf = RemoveAt(@, e.pos), !.pos = @ - 1]
    IN  IF e.pos = 0 THEN x
        ELSE IF e.pos = Len(e.buf) /\ e.shown = Len(e.buf)
        THEN [x EXCEPT !.e = [new EXCEPT !.shown = @ - 1], !.s = Rub(x.s)]
        ELSE redraw([x EXCEPT !.e = new], new.pos)

forward_delete(x) ==
    LET e == x.e
    IN  IF e.pos >= Len(e.buf) THEN x
        ELSE redraw([x EXCEPT !.e.buf = RemoveAt(@, e.pos + 1)], e.pos)

\* tab_complete: the shell's completer replaces the line up to the caret by a
\* longer one, or lists candidates under a new prompt.  pos stays behind.
Completions(e) ==
    LET at == IF e.pos < Len(e.buf) THEN e.pos ELSE Len(e.buf)
        typed == SubSeq(e.buf, 1, at)
        words == {typed} \cup {typed \o <<c>> : c \in Chars}
    IN  {[line |-> e.buf, pos |-> at, list |-> FALSE], [line |-> typed, pos |-> at, list |-> TRUE]}
        \cup {[line |-> w, pos |-> Len(w), list |-> FALSE] : w \in words \ {typed}}
        \cup {[line |-> w \o <<BLANK>>, pos |-> Len(w), list |-> FALSE] : w \in words}

tab_complete(x, comp) ==
    LET cut == IF Len(comp.line) < LINE_MAX THEN Len(comp.line) ELSE LINE_MAX - 1
        e == [x.e EXCEPT !.buf = IF comp.line = @ THEN @ ELSE SubSeq(comp.line, 1, cut)]
        to == IF comp.pos < Len(e.buf) THEN comp.pos ELSE Len(e.buf)
        known == [x EXCEPT !.e = e, !.odd = @ \cup {"tab"}]
    IN  IF comp.list
        THEN redraw([known EXCEPT !.e.pos = 0, !.e.shown = 0, !.s = NewPrompt(@)], to)
        ELSE IF comp.line # x.e.buf THEN redraw(known, to) ELSE move_to(x, to)

\* Finishing the visible line before it is left.
Finish(x) ==
    LET e == x.e
    IN  IF e.pos >= Len(e.buf) THEN x
        ELSE IF Windowed THEN redraw(x, Len(e.buf))
        ELSE [x EXCEPT !.s = Over(@, SubSeq(e.buf, e.pos + 1, Len(e.buf))), !.e.pos = Len(e.buf)]

\* feed for the keys that keep the line.
Edited(x, k) ==
    CASE k \in Chars -> insert_printable(x, k)
      [] k = "bs"    -> backspace(x)
      [] k = "del"   -> forward_delete(x)
      [] k = "left"  -> IF x.e.pos > 0 THEN move_to(x, x.e.pos - 1) ELSE x
      [] k = "right" -> IF x.e.pos < Len(x.e.buf) THEN move_to(x, x.e.pos + 1) ELSE x
      [] k = "home"  -> move_to(x, 0)
      [] k = "end"   -> move_to(x, Len(x.e.buf))
      [] k = "up"    -> history_up(x)
      [] k = "down"  -> history_down(x)
      [] k = "pgup"  -> history_up(history_up(history_up(history_up(x))))
      [] k = "pgdn"  -> history_down(history_down(history_down(history_down(x))))

\* The editor indexes its buffer from pos: it panics when pos is past the end.
EditPanics(k) ==
    /\ ed.pos > Len(ed.buf)
    /\ \/ k \in Chars /\ Len(ed.buf) < room(ed, scr)
       \/ k = "bs"

---------------------------------------------------------------------------
(* The keyboard.                                                           *)

Init ==
    /\ sink \in Consoles
    /\ ring = <<>> /\ inp = <<>> /\ ed = Blank /\ scr = [cells |-> PROMPT, off |-> 0]
    /\ sh = [at |-> "prompt", cmd |-> 0] /\ kid = "none"
    /\ intr = [set |-> FALSE, aim |-> 0] /\ recent = FALSE /\ odd = {}
    /\ jobd = [at |-> "sleep", to |-> {}] /\ report = "none"
    /\ ghost = [lines |-> <<>>, presses |-> 0, flags |-> 0, sent |-> 0, echoes |-> 0,
                keys |-> 0, hit |-> {}, stray |-> FALSE, late |-> FALSE]

\* The command that is registered in the foreground table.
Registered == IF sh.at \in {"waiting", "reaped"} THEN {sh.cmd} ELSE {}
Alive == kid \in {"running", "caught"}
Running(c) == sh.cmd = c /\ Alive

Flagged == [set |-> TRUE, aim |-> IF Registered = {} THEN 0 ELSE sh.cmd]

\* decode and push: a keystroke is dropped when the ring is full.  Ctrl+C sets
\* the flag of the console, whether its byte fits or not.
Press(k) ==
    LET noted == k = "intr" /\ ~Windowed
    IN  /\ k # "enter" => ghost.keys < MaxKeys
        /\ ring' = IF Len(ring) < RING_SIZE - 1 THEN Append(ring, k) ELSE ring
        /\ intr' = IF noted THEN Flagged ELSE intr
        /\ ghost' = [ghost EXCEPT !.keys = IF k = "enter" THEN @ ELSE @ + 1,
                                  !.presses = IF k = "intr" THEN @ + 1 ELSE @,
                                  !.flags = IF noted THEN @ + 1 ELSE @]
        /\ UNCHANGED <<sink, inp, ed, scr, sh, kid, jobd, report, recent, odd>>

\* The compositor moves a key to the window that has the focus, and sets the
\* window's flag when the key is a Ctrl+C that its queue had room for.
Route ==
    LET k == Head(ring)
        fits == Len(inp) < TERM_IN_CAP
        noted == k = "intr" /\ fits
    IN  /\ Windowed /\ sh.at # "closed" /\ ring # <<>>
        /\ ring' = Tail(ring)
        /\ inp' = IF fits THEN Append(inp, k) ELSE inp
        /\ intr' = IF noted THEN Flagged ELSE intr
        /\ ghost' = IF noted THEN [ghost EXCEPT !.flags = @ + 1] ELSE ghost
        /\ UNCHANGED <<sink, ed, scr, sh, kid, jobd, report, recent, odd>>

---------------------------------------------------------------------------
(* The shell.                                                              *)

Here == [e |-> ed, s |-> scr, odd |-> odd]
\* The next key of the session: a window's comes from its own queue.
Source == IF Windowed THEN inp ELSE ring
Pop(k) ==
    /\ sh.at = "prompt" /\ Source # <<>> /\ Head(Source) = k
    /\ inp' = IF Windowed THEN Tail(inp) ELSE inp
    /\ ring' = IF Windowed THEN ring ELSE Tail(ring)

\* What is left of the oddities once a new prompt is out.
Settled(s) == IF Windowed /\ s.off # 0 THEN {"caret"} ELSE {}

FeedEdit(k) ==
    /\ Pop(k) /\ k \notin {"enter", "intr", "eof", "tab"} /\ ~EditPanics(k)
    /\ LET x == Edited(Here, k)
       IN  ed' = x.e /\ scr' = x.s /\ odd' = x.odd
    /\ UNCHANGED <<sink, sh, kid, intr, jobd, report, recent, ghost>>

FeedTab ==
    /\ Pop("tab")
    /\ \E comp \in Completions(ed) :
        LET x == tab_complete(Here, comp)
        IN  ed' = x.e /\ scr' = x.s /\ odd' = x.odd
    /\ UNCHANGED <<sink, sh, kid, intr, jobd, report, recent, ghost>>

\* Enter: the line is submitted and remembered.  It is empty, a built-in
\* command, or a program that execute() has just spawned.
FeedEnter(run) ==
    LET x == Finish(Here)
        line == ed.buf
        past == ghost.lines
    IN  /\ Pop("enter")
        /\ run => line # <<>> /\ sh.cmd < MaxCmds
        /\ ed' = Cut(remember(x.e, line))
        /\ scr' = NewPrompt(x.s) /\ odd' = Settled(x.s)
        /\ sh' = IF run THEN [at |-> "spawned", cmd |-> sh.cmd + 1] ELSE sh
        /\ kid' = IF run THEN "running" ELSE kid
        /\ ghost' = [ghost EXCEPT !.lines =
                IF line = <<>> \/ (past # <<>> /\ Last(past) = line) THEN past
                ELSE Append(IF Len(past) = HIST_MAX THEN Tail(past) ELSE past, line)]
        /\ UNCHANGED <<sink, intr, jobd, report, recent>>

\* Ctrl+C at the prompt: the byte of a delivery is swallowed, any other is
\* echoed and the line dies.
FeedIntr ==
    /\ Pop("intr")
    /\ ed' = Cut(ed)
    /\ IF recent
       THEN /\ scr' = scr /\ ghost' = ghost
            /\ odd' = IF ed.buf = <<>> /\ odd = {} THEN odd ELSE odd \cup {"swallow"}
       ELSE /\ scr' = NewPrompt(Finish(Here).s) /\ odd' = Settled(Finish(Here).s)
            /\ ghost' = [ghost EXCEPT !.echoes = @ + 1]
    /\ UNCHANGED <<sink, sh, kid, intr, jobd, report, recent>>

\* Ctrl+D: on an empty line the console prints a hint and prompts again; a
\* window closes and its session ends.
FeedEof ==
    /\ Pop("eof")
    /\ IF ed.buf # <<>> THEN UNCHANGED <<scr, sh, odd>>
       ELSE /\ scr' = NewPrompt(scr) /\ odd' = Settled(scr)
            /\ sh' = IF Windowed THEN [sh EXCEPT !.at = "closed"] ELSE sh
    /\ UNCHANGED <<sink, ed, kid, intr, jobd, report, recent, ghost>>

\* fg_wait_all: the child is registered after it was spawned ...
fg_begin ==
    /\ sh.at = "spawned"
    /\ sh' = [sh EXCEPT !.at = "waiting"]
    /\ UNCHANGED <<sink, ring, inp, ed, scr, kid, intr, jobd, report, recent, odd, ghost>>

\* ... waited for, the queued report printed ...
Reaped ==
    /\ sh.at = "waiting" /\ kid = "dead"
    /\ sh' = [sh EXCEPT !.at = "reaped"] /\ kid' = "none"
    /\ report' = IF report = "queued" THEN "none" ELSE report
    /\ UNCHANGED <<sink, ring, inp, ed, scr, intr, jobd, recent, odd, ghost>>

\* ... and taken off the table; cmd_run prints its own report and the loop
\* the prompt.
fg_end ==
    /\ sh.at = "reaped"
    /\ sh' = [sh EXCEPT !.at = "prompt"]
    /\ scr' = NewPrompt(scr) /\ odd' = Settled(scr)
    /\ ghost' = [ghost EXCEPT !.late = @ \/ report = "held"]
    /\ UNCHANGED <<sink, ring, inp, ed, kid, intr, jobd, report, recent>>

---------------------------------------------------------------------------
(* The child, jobd, and the 250 ms window.                                 *)

KidEnds ==
    /\ Alive /\ kid' = "dead"
    /\ UNCHANGED <<sink, ring, inp, ed, scr, sh, intr, jobd, report, recent, odd, ghost>>

\* A child that reads its standard input pops the keyboard ring, on the console
\* and, before the compositor gets there, in a window: the key is its own.
KidReads ==
    /\ Alive /\ ring # <<>> /\ ring' = Tail(ring)
    /\ UNCHANGED <<sink, inp, ed, scr, sh, kid, intr, jobd, report, recent, odd, ghost>>

\* tick: the queued reports are taken out of their queue ...
TickDrain ==
    /\ jobd.at = "sleep" /\ report = "queued"
    /\ jobd' = [jobd EXCEPT !.at = "print"] /\ report' = "held"
    /\ UNCHANGED <<sink, ring, inp, ed, scr, sh, kid, intr, recent, odd, ghost>>

\* ... and printed, on whatever the terminal is showing by then ...
TickPrint ==
    /\ jobd.at = "print"
    /\ jobd' = [jobd EXCEPT !.at = IF intr.set THEN "look" ELSE "sleep"] /\ report' = "none"
    /\ IF sh.at = "prompt" THEN scr' = Newline(scr) /\ odd' = odd \cup {"async"}
       ELSE UNCHANGED <<scr, odd>>
    /\ UNCHANGED <<sink, ring, inp, ed, sh, kid, intr, recent, ghost>>

\* Mutant: the flag is only looked at, and stays up for the next tick.
TickSwapKeeps ==
    /\ jobd.at = "look" \/ (jobd.at = "sleep" /\ report # "queued")
    /\ intr.set /\ intr' = intr
    /\ jobd' = [at |-> "table", to |-> {}]
    /\ UNCHANGED <<sink, ring, inp, ed, scr, sh, kid, report, recent, odd, ghost>>

\* ... the flag is swapped ...
TickSwap ==
    /\ jobd.at = "look" \/ (jobd.at = "sleep" /\ report # "queued")
    /\ intr.set /\ intr' = [intr EXCEPT !.set = FALSE]
    /\ jobd' = [at |-> "table", to |-> {}]
    /\ UNCHANGED <<sink, ring, inp, ed, scr, sh, kid, report, recent, odd, ghost>>

\* ... the pids that are registered by then are collected ...
TickTable ==
    /\ jobd.at = "table" /\ jobd' = [at |-> "send", to |-> Registered]
    /\ UNCHANGED <<sink, ring, inp, ed, scr, sh, kid, intr, report, recent, odd, ghost>>

Deliver(dies, flag) ==
    LET hit == sh.cmd \in jobd.to /\ Alive
    IN  /\ jobd.at = "send" /\ jobd' = [at |-> "sleep", to |-> {}]
        /\ intr' = flag
        /\ kid' = IF hit THEN IF dies THEN "dead" ELSE "caught" ELSE kid
        /\ report' = IF hit /\ dies THEN "queued" ELSE report
        /\ recent' = (recent \/ hit)
        /\ ghost' = IF ~hit THEN ghost
                    ELSE [ghost EXCEPT !.hit = @ \cup {sh.cmd}, !.sent = @ + 1,
                             !.echoes = IF Windowed THEN @ ELSE @ + 1,
                             !.stray = @ \/ intr.aim # sh.cmd]
        /\ UNCHANGED <<sink, ring, inp, ed, scr, sh, odd>>

\* Mutant: the flag is cleared once more when the delivery is over.
TickSendClears(dies) == Deliver(dies, [intr EXCEPT !.set = FALSE])

\* ... then SIGINT is sent to the ones that are alive.  A child that does not
\* catch it dies and its report is queued; jobd echoes ^C on the console.
TickSend(dies) == Deliver(dies, intr)

\* 250 ms pass after a delivery (recent_delivery).
Expire ==
    /\ recent /\ recent' = FALSE
    /\ UNCHANGED <<sink, ring, inp, ed, scr, sh, kid, intr, jobd, report, odd, ghost>>

\* A program started with `spawn` prints to the terminal of its shell.
BackgroundPrints ==
    /\ Background /\ sh.at = "prompt" /\ "async" \notin odd
    /\ scr' = print_ch(scr, "*")
    /\ odd' = odd \cup {"async"}
    /\ UNCHANGED <<sink, ring, inp, ed, sh, kid, intr, jobd, report, recent, ghost>>

fg_wait_all == fg_begin \/ Reaped \/ fg_end
Shell ==
    \/ \E k \in Keys : FeedEdit(k)
    \/ FeedTab \/ FeedIntr \/ FeedEof
    \/ \E run \in BOOLEAN : FeedEnter(run)
    \/ fg_wait_all
Jobd == TickDrain \/ TickPrint \/ TickSwap \/ TickTable \/ \E dies \in BOOLEAN : TickSend(dies)

Next ==
    \/ \E k \in Keys : Press(k)
    \/ Route \/ Shell \/ Jobd
    \/ KidEnds \/ KidReads \/ Expire \/ BackgroundPrints

Spec == Init /\ [][Next]_vars

\* jobd wakes every 40 ms, whatever the others do.
LiveSpec == Spec /\ WF_vars(Jobd)

---------------------------------------------------------------------------
Lines == UNION {[1 .. n -> Chars \cup {BLANK}] : n \in 0 .. LINE_MAX}

\* Types and limits: the caret is inside the line buffer, the history inside its
\* ring, and a recalled entry exists.
TypeOK ==
    /\ sink \in Consoles /\ Len(ring) < RING_SIZE /\ Len(inp) <= TERM_IN_CAP
    /\ ed.buf \in Lines /\ ed.stash \in Lines
    /\ ed.shown \in 0 .. LINE_MAX /\ ed.pos \in 0 .. LINE_MAX
    /\ ed.head \in 0 .. HIST_MAX - 1 /\ ed.n \in 0 .. HIST_MAX /\ ed.nav \in 0 .. ed.n
    /\ \A i \in 0 .. HIST_MAX - 1 : ed.hist[i] \in Lines
    /\ sh.at \in {"prompt", "spawned", "waiting", "reaped", "closed"} /\ sh.cmd \in 0 .. MaxCmds
    /\ kid \in {"none", "running", "caught", "dead"} 
    /\ jobd.at \in {"sleep", "print", "look", "table", "send"} /\ jobd.to \subseteq 1 .. MaxCmds
    /\ report \in {"none", "queued", "held"}

\* What the live line shows is the prompt and the line that Enter would
\* submit, with the caret where the next character goes.
Honest ==
    /\ Caret(scr) = Len(PROMPT) + ed.pos
    /\ Len(scr.cells) >= Len(PROMPT) + Len(ed.buf)
    /\ \A i \in 1 .. Len(scr.cells) :
        scr.cells[i] = CASE i <= Len(PROMPT) -> PROMPT[i]
                         [] i > Len(PROMPT) /\ i <= Len(PROMPT) + Len(ed.buf) ->
                                ed.buf[i - Len(PROMPT)]
                         [] OTHER -> BLANK

\* On a terminal window every edit, wherever the caret is, and every walk
\* through the history leaves the live line honest; on the console every edit
\* at the end of the line does.  odd names the causes that are known to break
\* it: a console redraw away from the end, completion, a swallowed ^C on a line
\* already typed, and output of a background program or of jobd.
LineHonest == sh.at = "prompt" /\ odd = {} => Honest

\* The history is the last HIST_MAX submitted lines in their order, however
\* often the ring has wrapped; lines killed with ^C and repeats are not in it.
HistoryIsPast ==
    /\ ed.n = IF Len(ghost.lines) < HIST_MAX THEN Len(ghost.lines) ELSE HIST_MAX
    /\ \A back \in 0 .. ed.n - 1 :
        ed.hist[hist_slot(ed, back)] = ghost.lines[Len(ghost.lines) - back]

\* A Ctrl+C that its terminal took while a command was registered reaches that
\* command, unless the command ends by itself: nothing is lost between the flag,
\* the swap and the collection of the pids.  (In a window a child that reads
\* its input may pop the key first, and then no terminal took it.)
IntrReaches ==
    \A c \in 1 .. MaxCmds :
        (intr.set /\ intr.aim = c /\ Running(c)) ~> (c \in ghost.hit \/ ~Running(c))

\* A command is signalled for a Ctrl+C that was typed, once: over any number of
\* commands and of ticks there are never more signals than Ctrl+C keys taken.
OneSignalPerKey == ghost.sent <= ghost.flags

\* What the comments say and the code does not keep.
\* The live line is honest whatever happened.
LineAlwaysHonest == sh.at = "prompt" => Honest
\* "so the two paths never double-print": one echo for one press.
EchoOnce == ghost.echoes <= ghost.presses
\* "Ctrl+C interrupts the child": also in a window, also one that reads its input.
CtrlCTaken == ghost.presses > ghost.flags =>
    \E i \in DOMAIN ring : ring[i] = "intr"
\* Ctrl+C interrupts the command it was typed at, never a later one.
NoStrayIntr == ~ghost.stray
\* "so the [ sig ] line lands first": never after the exit report.
SigFirst == ~ghost.late
\* The caret never passes the end of the line.
CaretInLine == ed.pos <= Len(ed.buf)
=============================================================================
