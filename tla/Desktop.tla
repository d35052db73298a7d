------------------------------ MODULE Desktop ------------------------------
(***************************************************************************)
(* The window system of src/src/gui.rs: the compositor loop that the shell *)
(* task runs, the GUI system calls of ring-3 programs, and the terminal    *)
(* sessions of src/src/term.rs.  All of them change one scene under        *)
(* GUI_LOCK, so one call and one frame are atomic; everything else about   *)
(* their order is free.                                                    *)
(*                                                                         *)
(* One screen axis is modelled: a window covers the columns x .. x+w-1 of  *)
(* a row of W columns, and every column shows one pixel of the topmost     *)
(* window on it.  The taskbar is one more cell.  The code treats the       *)
(* vertical axis in the same way.  The damage list is the set of cells its *)
(* rectangles cover (on one axis the union of two touching rectangles      *)
(* covers no more than they do).  A pixel is the pid that painted it.      *)
(***************************************************************************)
EXTENDS Integers, FiniteSets, Sequences, SequencesExt, FiniteSetsExt

CONSTANTS
    W,             \* columns of the screen
    MIN_WIN_W,     \* smallest width of a window
    KERNEL_W,      \* width of the monitor, about and terminal windows
    MENU_W,        \* columns under the start menu
    MAX_WINS,      \* window slots
    EV_CAP,        \* events a window keeps
    TERM_IN_CAP,   \* keystrokes a terminal keeps
    XWRAP,         \* coordinates are passed modulo this (2^16 in the code)
    Apps,          \* ring-3 programs with a window
    Terms,         \* terminal session tasks
    Requests,      \* the <<x, w>> programs ask for; x = -1 is GUI_AUTO
    MenuItems,     \* the menu items a user picks
    MaxFrames,     \* bound: frames composed
    MaxCalls,      \* bound: calls of programs and sessions
    MaxRuns        \* bound: times the desktop is entered

ASSUME GeometryAssumption ==
    /\ {W, MIN_WIN_W, KERNEL_W, MENU_W, MAX_WINS, EV_CAP, TERM_IN_CAP, XWRAP} \subseteq Nat \ {0}
    /\ MIN_WIN_W <= KERNEL_W /\ KERNEL_W + 1 < W /\ W <= XWRAP
    /\ EV_CAP >= 2 /\ MAX_WINS >= 2
    /\ Apps \cap Terms = {} /\ 0 \notin Apps \cup Terms
    /\ \A req \in Requests : req[1] \in Int /\ req[2] \in Int

VARIABLES
    pc,       \* the compositor: off, frames, leaving (with its reason), frozen, panic
    sc,       \* DESK.sc; meaningless while pc is off
    shown,    \* the framebuffer: what each cell shows
    task,     \* per program or session: its life, its window, what it heard
    bound     \* frames, calls and runs so far

vars == <<pc, sc, shown, task, bound>>

MONITOR == 1
ABOUT == 2
Cols == 0 .. W - 1
BAR == W                     \* the cell that stands for the taskbar
Cells == 0 .. W
Menu == 0 .. MENU_W - 1
Kinds == {"Monitor", "About", "User", "Term"}
EDGE == 1                    \* what clamping keeps free at the right edge

---------------------------------------------------------------------------
(* Windows and the scene.                                                  *)

NewWin(kind, w) ==
    [id |-> 0, kind |-> kind, owner |-> 0, x |-> 0, w |-> w, open |-> FALSE,
     minimized |-> FALSE, buf |-> <<>>, back |-> <<>>, pending |-> FALSE,
     ev |-> <<>>, input |-> <<>>, text |-> 0]

Slots(s) == 1 .. Len(s.wins)
Visible(s, i) == s.wins[i].open /\ ~s.wins[i].minimized
body_rect(win) == {c \in Cols : win.x <= c /\ c < win.x + win.w}

\* active_idx: the topmost open window that is not minimized, 0 for None.
active_idx(s) ==
    LET up == {k \in DOMAIN s.z : Visible(s, s.z[k])}
    IN  IF up = {} THEN 0 ELSE s.z[Max(up)]

\* find_by_id: position() gives the first slot with the id, 0 for None.
find_by_id(s, id) ==
    LET found == {i \in Slots(s) : s.wins[i].id = id}
    IN  IF found = {} THEN 0 ELSE Min(found)

\* term_slot: the open terminal with the id; nobody asks whose it is.
term_slot(s, id) ==
    LET i == find_by_id(s, id)
    IN  IF i # 0 /\ s.wins[i].kind = "Term" /\ s.wins[i].open THEN i ELSE 0

Clamp(v, lo, hi) == IF v < lo THEN lo ELSE IF v > hi THEN hi ELSE v
clamp_win(win) == [win EXCEPT !.x = Clamp(@, 0, Max({W - win.w - EDGE, 0}))]

push_rect(s, cells) == [s EXCEPT !.dirty = @ \cup (cells \cap Cells)]
dirty_win(s, i) == push_rect(s, body_rect(s.wins[i]))

\* Mutant: the newest event is dropped.
push_event_newest(s, i, ev) ==
    [s EXCEPT !.wins[i].ev = IF Len(@) >= EV_CAP THEN @ ELSE Append(@, ev)]

\* push_event: the oldest event makes room.
push_event(s, i, ev) ==
    [s EXCEPT !.wins[i].ev =
        Append(IF Len(@) >= EV_CAP THEN Tail(@) ELSE @, ev)]

\* A slot comes on top; z lists every slot once, a new one not yet.
Raised(z, i) == Append(RemoveFirst(z, i), i)

\* focus: nothing to do for a window that is on top and not minimized.
focus(s, i) ==
    IF Last(s.z) = i /\ ~s.wins[i].minimized THEN s
    ELSE LET up == [s EXCEPT !.z = Raised(@, i), !.wins[i].minimized = FALSE]
         IN  push_rect(up, {BAR} \cup UNION {body_rect(up.wins[j]) :
                                 j \in {k \in Slots(up) : Visible(up, k)}})

\* The end of minimizing and of closing: the next window down is focused.
FocusTop(s) ==
    IF active_idx(s) = 0 THEN push_rect(s, {BAR}) ELSE focus(s, active_idx(s))

\* Mutant: what the window uncovers is not damaged.
minimize_win_clean(s, i) == FocusTop([s EXCEPT !.wins[i].minimized = TRUE])

minimize_win(s, i) ==
    FocusTop(dirty_win([s EXCEPT !.wins[i].minimized = TRUE], i))

\* open_win of a kernel window.
open_win(s, i) ==
    IF s.wins[i].open THEN focus([s EXCEPT !.wins[i].minimized = FALSE], i)
    ELSE LET at == IF i # ABOUT THEN s.wins[i].x
                   ELSE IF s.wins[MONITOR].open THEN s.wins[MONITOR].x + 1
                   ELSE (W - KERNEL_W) \div 2
             wide == IF i = ABOUT THEN KERNEL_W ELSE s.wins[i].w
         IN  focus([s EXCEPT !.wins[i] = clamp_win(
                      [@ EXCEPT !.open = TRUE, !.x = at, !.w = wide])], i)

task_btn_click(s, i) ==
    IF active_idx(s) = i THEN minimize_win(s, i) ELSE focus(s, i)

\* close box: a program is told, and its slot is free for the next window.
CloseBox(s, i) ==
    LET shut == dirty_win([s EXCEPT !.wins[i].open = FALSE], i)
        told == IF s.wins[i].kind = "User" THEN push_event(shut, i, "close")
                ELSE shut
    IN  IF \E j \in Slots(told) : told.wins[j].open THEN FocusTop(told) ELSE told

---------------------------------------------------------------------------
(* Composition: what a cell shows when it is drawn from the scene.         *)

\* draw_window and the content painters: who is on top of column c, and the
\* pixel it has there.
Pixel(win, c) ==
    CASE win.kind = "User" -> IF Len(win.buf) = win.w THEN win.buf[c - win.x + 1]
                              ELSE 0
      [] win.kind = "Term" -> win.text
      [] OTHER -> 0

TopAt(s, c) ==
    LET on == {k \in DOMAIN s.z : Visible(s, s.z[k]) /\ c \in body_rect(s.wins[s.z[k]])}
    IN  IF on = {} THEN 0 ELSE s.z[Max(on)]

\* The taskbar: a button per open window, the active one lit, the start button.
draw_taskbar(s) == <<{i \in Slots(s) : s.wins[i].open}, active_idx(s), s.menu_open>>
draw_menu == <<"menu">>

\* compose of one cell: desktop, windows in z order, taskbar, start menu.
DrawnAt(s, c) ==
    IF c = BAR THEN draw_taskbar(s)
    ELSE IF s.menu_open /\ c \in Menu THEN draw_menu
    ELSE LET i == TopAt(s, c)
         IN  IF i = 0 THEN <<"desktop">>
             ELSE <<i, s.wins[i].id, Pixel(s.wins[i], c), i = active_idx(s)>>

\* Phase B of a frame: the damaged cells are composed and blitted.
Render(s) ==
    /\ shown' = [c \in Cells |-> IF c \in s.dirty THEN DrawnAt(s, c) ELSE shown[c]]
    /\ sc' = [s EXCEPT !.dirty = {}]

---------------------------------------------------------------------------
(* Phase A: input.  Every step is a function of the scene.                 *)

\* The resize of window i to the cursor, both buffers renewed: the front
\* keeps what was shown, clipped, the back starts empty.
Rebuffer(win, nw) ==
    [win EXCEPT !.w = nw,
                !.buf = [k \in 1 .. nw |-> IF k <= Len(win.buf) THEN win.buf[k] ELSE 0],
                !.back = [k \in 1 .. nw |-> 0],
                !.pending = TRUE]

ResizeTo(s, i) == Clamp(s.cur - s.wins[i].x + 1, MIN_WIN_W, W - s.wins[i].x - EDGE)

\* A motion panics where clamp gets bounds that cross, and where the old
\* front buffer is shorter than the window it belonged to.
MotionPanics(s) ==
    LET i == s.resizing.slot
    IN  /\ i # 0
        /\ \/ MIN_WIN_W > W - s.wins[i].x - EDGE
           \/ /\ s.wins[i].kind = "User" /\ ResizeTo(s, i) # s.wins[i].w
              /\ Len(s.wins[i].buf) < s.wins[i].w

Dragged(s) ==
    LET i == s.dragging.slot
        to == [s EXCEPT !.wins[i] = clamp_win([@ EXCEPT !.x = s.cur - s.dragging.off])]
    IN  IF i = 0 THEN s
        ELSE push_rect(dirty_win(to, i), body_rect(s.wins[i]))

Resized(s) ==
    LET i == s.resizing.slot
        nw == ResizeTo(s, i)
        to == IF nw = s.wins[i].w THEN s
              ELSE [s EXCEPT !.wins[i] = IF @.kind = "User" THEN Rebuffer(@, nw)
                                         ELSE [@ EXCEPT !.w = nw]]
    IN  IF i = 0 THEN s ELSE push_rect(dirty_win(to, i), body_rect(s.wins[i]))

\* The cursor moved to column c; a drag, then a resize, follows it.
Moved(s, c) == Dragged([s EXCEPT !.cur = c])
Motion(s, c) == IF c = s.cur THEN s ELSE Resized(Moved(s, c))

NoGrip == [slot |-> 0, id |-> 0]
NoGrab == [slot |-> 0, off |-> 0, id |-> 0]

\* The button goes up: the gesture ends, and a resized program is told.
Released(s) ==
    LET i == s.resizing.slot
        free == [s EXCEPT !.resizing = NoGrip, !.dragging = NoGrab]
    IN  IF i = 0 \/ s.wins[i].kind # "User" THEN free
        ELSE push_event([free EXCEPT !.wins[i].pending = FALSE], i, "resize")

MenuShut(s) == push_rect([s EXCEPT !.menu_open = FALSE], Menu)

\* What on_click does to the scene when the click hits "part" of what is
\* under the cursor.  The last column of a window holds its boxes and grip;
\* the row of the click, so the taskbar too, is free.
OnMenu(s, part) ==
    CASE part = "monitor" -> open_win(MenuShut(s), MONITOR)
      [] part = "about"   -> open_win(MenuShut(s), ABOUT)
      [] part = "app"     -> push_rect(MenuShut(s), Cells)
      [] OTHER            -> MenuShut(s)

OnWindow(s, i, part) ==
    LET last == s.cur = s.wins[i].x + s.wins[i].w - 1
    IN  CASE active_idx(s) # i -> focus(s, i)
          [] active_idx(s) = i /\ last /\ part = "close" -> CloseBox(s, i)
          [] active_idx(s) = i /\ last /\ part = "minimize" -> minimize_win(s, i)
          [] active_idx(s) = i /\ last /\ part = "grip" ->
                [s EXCEPT !.resizing = [slot |-> i, id |-> s.wins[i].id]]
          [] active_idx(s) = i /\ ~last /\ part = "title" ->
                [s EXCEPT !.dragging = [slot |-> i, off |-> s.cur - s.wins[i].x,
                                        id |-> s.wins[i].id]]
          [] active_idx(s) = i /\ part = "content" /\ s.wins[i].kind = "User" ->
                push_event(s, i, "click")
          [] OTHER -> s

\* The parts a click at the cursor can hit.
Hits(s) ==
    LET i == TopAt(s, s.cur)
        parts == CASE s.menu_open -> {"outside"} \cup IF s.cur \in Menu THEN MenuItems ELSE {}
                   [] ~s.menu_open /\ (i = 0 \/ active_idx(s) # i) -> {"start", "content"}
                   [] OTHER -> {"start", "content"} \cup
                        IF s.cur = s.wins[i].x + s.wins[i].w - 1
                        THEN {"close", "minimize", "grip"} ELSE {"title"}
    IN  (parts \X {0}) \cup
        IF s.menu_open THEN {} ELSE {"button"} \X {j \in Slots(s) : s.wins[j].open}

on_click(s, hit) ==
    CASE s.menu_open -> OnMenu(s, hit[1])
      [] ~s.menu_open /\ hit[1] = "start" ->
            push_rect([s EXCEPT !.menu_open = TRUE], {BAR} \cup Menu)
      [] ~s.menu_open /\ hit[1] = "button" -> task_btn_click(s, hit[2])
      [] OTHER -> IF TopAt(s, s.cur) = 0 THEN s
                  ELSE OnWindow(s, TopAt(s, s.cur), hit[1])

\* Why the click ends the session, "go" when it does not.
ClickReason(s, hit) ==
    IF s.menu_open THEN IF hit[1] \in {"reboot", "halt"} THEN hit[1] ELSE "go"
    ELSE IF hit[1] = "close" /\ ~\E j \in Slots(s) : on_click(s, hit).wins[j].open
         THEN "closed" ELSE "go"

\* A key: Esc shuts the menu, any other goes to the active window.
Typed(s, key) ==
    LET i == active_idx(s)
    IN  CASE key = "none" -> s
          [] key = "esc" -> IF s.menu_open THEN MenuShut(s) ELSE s
          [] key = "char" /\ i # 0 /\ s.wins[i].kind = "User" -> push_event(s, i, "key")
          [] key = "char" /\ i # 0 /\ s.wins[i].kind = "Term" ->
                IF Len(s.wins[i].input) < TERM_IN_CAP
                THEN [s EXCEPT !.wins[i].input = Append(@, "char")] ELSE s
          [] OTHER -> s

---------------------------------------------------------------------------
(* The compositor task.                                                    *)

\* run: the scene a session starts with, composed and blitted whole.
Fresh ==
    [wins |-> <<clamp_win([NewWin("Monitor", KERNEL_W) EXCEPT
                    !.open = TRUE, !.x = (W - KERNEL_W) \div 2]),
                NewWin("About", KERNEL_W)>>,
     z |-> <<MONITOR, ABOUT>>, dirty |-> {}, cur |-> W \div 2, left |-> FALSE,
     dragging |-> NoGrab, resizing |-> NoGrip, menu_open |-> FALSE, next_id |-> 0]

Init ==
    /\ pc = "off" /\ sc = Fresh /\ shown = [c \in Cells |-> <<"text">>]
    /\ task = [t \in Apps \cup Terms |-> [st |-> "none", id |-> 0, told |-> FALSE]]
    /\ bound = [frames |-> 0, calls |-> 0, runs |-> 0]

Enter ==
    /\ pc = "off" /\ bound.runs < MaxRuns
    /\ pc' = "go" /\ sc' = Fresh /\ shown' = [c \in Cells |-> DrawnAt(Fresh, c)]
    /\ bound' = [bound EXCEPT !.runs = @ + 1]
    /\ UNCHANGED task

\* The menu starts a task of its kind when the task table has room.
Launched(part) ==
    LET of == IF part = "term" THEN Terms ELSE IF part = "app" THEN Apps ELSE {}
        new == {t \in of : task[t].st = "none"}
    IN  IF new = {} THEN {task}
        ELSE {[task EXCEPT ![t].st = "run"] : t \in new}

\* The periodic tick repaints the monitor's content.
Ticked(s, tick) ==
    IF tick /\ Visible(s, MONITOR) THEN dirty_win(s, MONITOR) ELSE s

\* One frame: motion, click or release, one key, the tick, then the render.
\* A reason to leave takes effect after the frame's sleep.
Frame(c, left, hit, key, tick) ==
    LET s1 == Motion(sc, c)
        press == left /\ ~sc.left
        s2 == IF press THEN on_click(s1, hit)
              ELSE IF ~left /\ sc.left THEN Released(s1) ELSE s1
        s3 == Typed([s2 EXCEPT !.left = left], key)
        why == IF press THEN ClickReason(s1, hit) ELSE "go"
    IN  /\ pc = "go" /\ bound.frames < MaxFrames
        /\ ~(c # sc.cur /\ MotionPanics(Moved(sc, c)))
        /\ hit \in (IF press THEN Hits(s1) ELSE {<<"content", 0>>})
        /\ pc' = IF why = "go" /\ key = "esc" /\ ~s2.menu_open THEN "esc" ELSE why
        /\ Render(Ticked(s3, tick))
        /\ task' \in IF press /\ s1.menu_open THEN Launched(hit[1]) ELSE {task}
        /\ bound' = [bound EXCEPT !.frames = @ + 1]

\* An assertion of the language in phase A: the kernel stops.
FramePanics(c) ==
    /\ pc = "go" /\ bound.frames < MaxFrames
    /\ c # sc.cur /\ MotionPanics(Moved(sc, c))
    /\ pc' = "panic"
    /\ UNCHANGED <<sc, shown, task, bound>>

\* teardown: DESK is None again.
Teardown ==
    /\ pc \in {"esc", "closed", "reboot"}
    /\ pc' = IF pc = "reboot" THEN "reset" ELSE "off"
    /\ shown' = [c \in Cells |-> <<"text">>]
    /\ sc' = Fresh
    /\ UNCHANGED <<task, bound>>

\* A halt keeps the desk, covers the screen with the farewell and composes no more.
Freeze ==
    /\ pc = "halt"
    /\ pc' = "frozen"
    /\ shown' = [c \in Cells |-> <<"halted">>]
    /\ UNCHANGED <<sc, task, bound>>

---------------------------------------------------------------------------
(* System calls of ring-3 programs.                                        *)

Desk == pc \in {"go", "esc", "closed", "reboot", "halt", "frozen"}
Alive(t) == task[t].st = "run" /\ pc \notin {"panic", "reset"}
Call == bound.calls < MaxCalls /\ bound' = [bound EXCEPT !.calls = @ + 1]

\* A program started from a shell.
Run(p) ==
    /\ task[p].st = "none" /\ Call
    /\ task' = [task EXCEPT ![p].st = "run"]
    /\ UNCHANGED <<pc, sc, shown>>

\* A closed slot of the kind, else a new one; 0 when the table is full.
SlotFor(s, kind) ==
    LET free == {i \in Slots(s) : s.wins[i].kind = kind /\ ~s.wins[i].open}
    IN  IF free # {} THEN Min(free)
        ELSE IF Len(s.wins) < MAX_WINS THEN Len(s.wins) + 1 ELSE 0

\* Mutant: a reused slot keeps its buffers.
OpenedUncleared(s, i, win) ==
    LET old == IF i > Len(s.wins) THEN win ELSE s.wins[i]
        put == [s EXCEPT !.wins = IF i > Len(@) THEN Append(@, win)
                    ELSE [@ EXCEPT ![i] = [win EXCEPT !.buf = old.buf, !.back = old.back]],
                         !.next_id = @ + 1, !.z = Raised(@, i)]
    IN  push_rect(put, {BAR} \cup body_rect(win))

\* The slot is given out: new id, new owner, on top of the z order.
Opened(s, i, win) ==
    LET room == IF i > Len(s.wins) THEN [s EXCEPT !.wins = Append(@, win)] ELSE s
        put == [room EXCEPT !.wins[i] = win, !.next_id = @ + 1, !.z = Raised(@, i)]
    IN  push_rect(put, {BAR} \cup body_rect(win))

\* sys_open's window: the coordinates come as 16 bits, so none is negative.
UserWin(p, id, req) ==
    LET w == Min({Clamp(req[2], MIN_WIN_W, W), W - 1})
        blank == [k \in 1 .. w |-> 0]
    IN  [NewWin("User", w) EXCEPT !.id = id, !.owner = p, !.x = req[1] % XWRAP,
             !.open = TRUE, !.buf = blank, !.back = blank]

\* A program may open several; the calls below name the one it opened last.
sys_open(p, req) ==
    LET i == SlotFor(sc, "User")
        ok == Desk /\ i # 0
    IN  /\ Alive(p) /\ Call
        /\ sc' = IF ok THEN Opened(sc, i, UserWin(p, sc.next_id + 1, req)) ELSE sc
        /\ task' = IF ok THEN [task EXCEPT ![p].id = sc.next_id + 1, ![p].told = FALSE] ELSE task
        /\ UNCHANGED <<pc, shown>>

\* The window a program names, when it is there and the program's own.
Own(p) ==
    LET i == IF Desk THEN find_by_id(sc, task[p].id) ELSE 0
    IN  IF i # 0 /\ sc.wins[i].owner = p THEN i ELSE 0

Shut(s, i) == [s EXCEPT !.wins[i].open = FALSE, !.wins[i].buf = <<>>, !.wins[i].back = <<>>]

sys_close(p) ==
    LET i == Own(p)
    IN  /\ Alive(p) /\ task[p].id # 0 /\ Call
        /\ sc' = IF i = 0 THEN sc
                 ELSE IF sc.wins[i].open THEN dirty_win(Shut(sc, i), i) ELSE Shut(sc, i)
        /\ task' = [task EXCEPT ![p].told = TRUE]
        /\ UNCHANGED <<pc, shown>>

\* sys_rect and sys_text: paint the back buffer, if it fits the window.
sys_rect(p) ==
    LET i == Own(p)
    IN  /\ Alive(p) /\ i # 0 /\ sc.wins[i].open /\ Call
        /\ Len(sc.wins[i].back) = sc.wins[i].w
        /\ sc' = [sc EXCEPT !.wins[i].back = [k \in 1 .. sc.wins[i].w |-> p]]
        /\ UNCHANGED <<pc, shown, task>>

\* sys_flush: present the back buffer unless a resize is going on.
sys_flush(p) ==
    LET i == Own(p)
        win == sc.wins[i]
    IN  /\ Alive(p) /\ i # 0 /\ win.open /\ Call
        /\ ~win.pending /\ Len(win.buf) = win.w /\ Len(win.back) = win.w
        /\ sc' = dirty_win([sc EXCEPT !.wins[i].buf = win.back], i)
        /\ UNCHANGED <<pc, shown, task>>

\* sys_event: the next event; -1 tells the program that its window is gone.
sys_event(p) ==
    LET i == Own(p)
        ev == IF i = 0 THEN "gone" ELSE IF sc.wins[i].ev = <<>> THEN "none"
              ELSE Head(sc.wins[i].ev)
    IN  /\ Alive(p) /\ task[p].id # 0 /\ ev # "none" /\ Call
        /\ sc' = IF i = 0 THEN sc ELSE [sc EXCEPT !.wins[i].ev = Tail(@)]
        /\ task' = [task EXCEPT ![p].told = @ \/ ev \in {"close", "gone"}]
        /\ UNCHANGED <<pc, shown>>

\* on_task_exit: the windows of the task are closed with it.
Exited(s, t) ==
    LET mine == {i \in Slots(s) : s.wins[i].open /\ s.wins[i].owner = t}
        shut == [s EXCEPT !.wins = [i \in Slots(s) |->
                    IF i \notin mine THEN @[i]
                    ELSE IF @[i].kind = "User" THEN Shut(s, i).wins[i]
                    ELSE [@[i] EXCEPT !.open = FALSE, !.input = <<>>]]]
    IN  IF mine = {} THEN s
        ELSE push_rect(shut, {BAR} \cup UNION {body_rect(s.wins[i]) : i \in mine})

on_task_exit(t) ==
    /\ sc' = IF Desk THEN Exited(sc, t) ELSE sc
    /\ task' = [task EXCEPT ![t] = [st |-> "gone", id |-> 0, told |-> TRUE]]

\* A program ends: by itself, by a fault or by a signal.
AppExit(p) == Alive(p) /\ Call /\ on_task_exit(p) /\ UNCHANGED <<pc, shown>>

---------------------------------------------------------------------------
(* Terminal sessions.                                                      *)

\* term_open_for, and the banner that goes to the new window.
TermStart(t) ==
    LET i == SlotFor(sc, "Term")
        x == IF sc.wins[MONITOR].open THEN sc.wins[MONITOR].x + 1
             ELSE (W - KERNEL_W) \div 2
        up == Cardinality({j \in Slots(sc) : sc.wins[j].kind = "Term" /\ sc.wins[j].open})
    IN  /\ Alive(t) /\ task[t].id = 0 /\ Call
        /\ IF Desk /\ i # 0
           THEN /\ sc' = Opened(sc, i, [NewWin("Term", KERNEL_W) EXCEPT
                            !.id = sc.next_id + 1, !.owner = t, !.x = x + up,
                            !.open = TRUE, !.text = t])
                /\ task' = [task EXCEPT ![t].id = sc.next_id + 1]
           ELSE on_task_exit(t)
        /\ UNCHANGED <<pc, shown>>

MyTerm(t) == IF Desk THEN term_slot(sc, task[t].id) ELSE 0

\* term_feed: the session, or a command it runs, prints.
TermPrint(t) ==
    LET i == MyTerm(t)
    IN  /\ Alive(t) /\ task[t].id # 0 /\ i # 0 /\ Call
        /\ sc' = dirty_win([sc EXCEPT !.wins[i].text = t], i)
        /\ UNCHANGED <<pc, shown, task>>

\* The poll: take a keystroke and echo it, or find the window closed and die.
TermPoll(t) ==
    LET i == MyTerm(t)
    IN  /\ Alive(t) /\ task[t].id # 0 /\ Call
        /\ IF i = 0 THEN on_task_exit(t)
           ELSE /\ sc.wins[i].input # <<>>
                /\ sc' = dirty_win([sc EXCEPT !.wins[i].input = Tail(@), !.wins[i].text = t], i)
                /\ UNCHANGED task
        /\ UNCHANGED <<pc, shown>>

\* `exit` or Ctrl+D: term_close, then the task dies.
TermClose(t) ==
    LET i == MyTerm(t)
        shut == push_rect(dirty_win([sc EXCEPT !.wins[i].open = FALSE,
                                               !.wins[i].input = <<>>], i), {BAR})
    IN  /\ Alive(t) /\ task[t].id # 0 /\ i # 0 /\ Call
        /\ sc' = Exited(shut, t)
        /\ task' = [task EXCEPT ![t] = [st |-> "gone", id |-> 0, told |-> TRUE]]
        /\ UNCHANGED <<pc, shown>>

\* The `gui` command of a terminal session: desktop_open_monitor.
TermMonitor(t) ==
    /\ Alive(t) /\ MyTerm(t) # 0 /\ Call
    /\ sc' = open_win(sc, MONITOR)
    /\ UNCHANGED <<pc, shown, task>>

\* A frame finds the mouse, a key or the tick; what comes together in the code
\* comes in two frames here.  The cursor goes where a press or a gesture needs
\* it: other motion changes nothing but the cursor.
Mouse ==
    \E left \in BOOLEAN :
        LET busy == left # sc.left \/ sc.dragging.slot # 0 \/ sc.resizing.slot # 0
        IN  \E c \in IF busy THEN Cols ELSE {sc.cur} :
                \E hit \in IF left /\ ~sc.left THEN Hits(Motion(sc, c)) ELSE {<<"content", 0>>} :
                    Frame(c, left, hit, "none", FALSE)

Compositor ==
    \/ Enter \/ Teardown \/ Freeze
    \/ Mouse
    \/ \E key \in {"esc", "char"} : Frame(sc.cur, sc.left, <<"content", 0>>, key, FALSE)
    \/ Frame(sc.cur, sc.left, <<"content", 0>>, "none", TRUE)
    \/ \E c \in Cols : FramePanics(c)

Programs ==
    \E p \in Apps :
        \/ Run(p) \/ \E req \in Requests : sys_open(p, req)
        \/ sys_close(p) \/ sys_rect(p) \/ sys_flush(p) \/ sys_event(p) \/ AppExit(p)

Sessions ==
    \E t \in Terms : TermStart(t) \/ TermPrint(t) \/ TermPoll(t) \/ TermClose(t)
                      \/ TermMonitor(t)

Next == Compositor \/ Programs \/ Sessions

Spec == Init /\ [][Next]_vars

---------------------------------------------------------------------------
Pids == Apps \cup Terms \cup {0}
WinType ==
    [id : Nat, kind : Kinds, owner : Pids, x : Nat, w : 1 .. W,
     open : BOOLEAN, minimized : BOOLEAN, buf : Seq(Pids), back : Seq(Pids),
     pending : BOOLEAN, ev : Seq({"click", "close", "key", "resize"}),
     input : Seq({"char"}), text : Pids]

\* Types, the queue limits, and: the z order lists every slot once.
TypeOK ==
    /\ pc \in {"off", "go", "esc", "closed", "reboot", "halt", "frozen", "reset", "panic"}
    /\ \A i \in Slots(sc) : /\ sc.wins[i] \in WinType
                            /\ Len(sc.wins[i].ev) <= EV_CAP
                            /\ Len(sc.wins[i].input) <= TERM_IN_CAP
    /\ Len(sc.wins) <= MAX_WINS
    /\ Len(sc.z) = Len(sc.wins) /\ ToSet(sc.z) = Slots(sc)
    /\ sc.dirty \subseteq Cells /\ sc.cur \in Cols
    /\ \A t \in Apps \cup Terms : task[t].st \in {"none", "run", "gone"}

\* Damage is complete for programs: a column where a program's or a
\* session's window is on top, or no window at all, shows that window's
\* current pixel, or is on the damage list of the next frame.  (focus,
\* minimize_win, drags, resizes, flushes, closes and exits all have to
\* push the right rectangles.)
Picture(cell) == IF Len(cell) = 4 THEN <<cell[1], cell[2], cell[3]>> ELSE cell
DamageComplete ==
    Desk /\ pc # "frozen" => \A c \in Cols \ sc.dirty :
        LET i == TopAt(sc, c)
        IN  i = 0 \/ sc.wins[i].kind \in {"User", "Term"}
                => Picture(shown[c]) = Picture(DrawnAt(sc, c))

\* A window is closed under a program only in a way the program finds out:
\* its next event is EV_CLOSE or comes before one that is, or the call says
\* that the window is gone.  (The queue drops its oldest event when full.)
CloseHeard ==
    Desk => \A p \in Apps :
        LET i == Own(p)
        IN  Alive(p) /\ task[p].id # 0 /\ ~task[p].told /\ i # 0 /\ ~sc.wins[i].open
                => "close" \in ToSet(sc.wins[i].ev)

\* A program sees its own pixels only: slots are given out again, and what
\* the last program painted must not show in the window of the next.
OwnPixels ==
    \A i \in Slots(sc) :
        sc.wins[i].open /\ sc.wins[i].kind = "User" =>
            (ToSet(sc.wins[i].buf) \cup ToSet(sc.wins[i].back)) \subseteq {0, sc.wins[i].owner}

\* An open window can be painted and presented: its two buffers have its
\* size, and presents are held back only while the button holds its grip.
\* (A window that failed this would refuse every later frame of its program.)
CanPresent ==
    \A i \in Slots(sc) :
        sc.wins[i].open /\ sc.wins[i].kind = "User" =>
            /\ Len(sc.wins[i].buf) = sc.wins[i].w /\ Len(sc.wins[i].back) = sc.wins[i].w
            /\ sc.wins[i].pending => sc.resizing.slot = i /\ sc.left

\* What the comments say and the code does not keep.
\* "mark every affected region (all title bars + taskbar) dirty": the taskbar
\* and the title bars show the windows that are open and the active one.
BarsFresh ==
    pc = "go" /\ sc.dirty = {} => \A c \in Cells : shown[c] = DrawnAt(sc, c)

\* A gesture ends on the window it began on.
GestureSameWindow ==
    /\ sc.resizing.slot # 0 => sc.wins[sc.resizing.slot].id = sc.resizing.id
    /\ sc.dragging.slot # 0 => sc.wins[sc.dragging.slot].id = sc.dragging.id

\* No input of the user panics the compositor.
NoPanic == pc # "panic"

\* A window placed by GUI_AUTO is on the screen.
AutoOnScreen ==
    \A i \in Slots(sc) : sc.wins[i].open => body_rect(sc.wins[i]) # {}

\* A terminal shows its own session, and not one of an earlier desktop.
TermOwnText ==
    \A i \in Slots(sc) :
        sc.wins[i].open /\ sc.wins[i].kind = "Term" => sc.wins[i].text = sc.wins[i].owner
=============================================================================
