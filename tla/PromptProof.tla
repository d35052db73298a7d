----------------------------- MODULE PromptProof -----------------------------
(***************************************************************************)
(* Proofs about Prompt: types, the history, the line on the screen, and    *)
(* the number of signals.                                                  *)
(* An editor operation takes a record x = [e, s, odd] (the LineEdit, the   *)
(* live line, what is odd about it); each is shown to keep its type        *)
(* (Screens), its history, and the line sharp where nothing is odd.        *)
(***************************************************************************)
EXTENDS Prompt, SequenceTheorems, TLAPS

Char == Chars \cup {BLANK}
Cell == Chars \cup {BLANK, ">", "*"}
Causes == {"walk", "tab", "caret", "swallow", "async"}

Edits == [buf : Lines, pos : 0..LINE_MAX, shown : 0..LINE_MAX,
          hist : [0..HIST_MAX - 1 -> Lines], head : 0..HIST_MAX - 1,
          n : 0..HIST_MAX, nav : 0..HIST_MAX, stash : Lines]
Rows == [cells : Seq(Cell), off : Nat]

-----------------------------------------------------------------------------
(* Lines and rows.                                                          *)

\* A line is a sequence of characters, not too long.
LEMMA LineIs == \A l : l \in Lines <=> l \in Seq(Char) /\ Len(l) <= LINE_MAX
<1>1. ASSUME NEW l \in Lines PROVE l \in Seq(Char) /\ Len(l) <= LINE_MAX
  <2>1. PICK n \in 0..LINE_MAX : l \in [1..n -> Char]
    BY DEF Lines, Char
  <2>2. n \in Nat /\ n <= LINE_MAX
    BY PromptAssumption
  <2> QED BY <2>1, <2>2
<1>2. ASSUME NEW l \in Seq(Char), Len(l) <= LINE_MAX PROVE l \in Lines
  <2>1. Len(l) \in 0..LINE_MAX /\ l \in [1..Len(l) -> Char]
    BY <1>2, PromptAssumption
  <2> QED BY <2>1 DEF Lines, Char
<1> QED BY <1>1, <1>2

\* A line is also a row's contents.
LEMMA LineCells ==
    ASSUME NEW l \in Seq(Char)
    PROVE  l \in Seq(Cell)
BY DEF Char, Cell

\* The caret is inside the row or at its end.
LEMMA CaretIn ==
    ASSUME NEW s \in Rows
    PROVE  /\ Caret(s) \in 0..Len(s.cells)
           /\ s.off <= Len(s.cells) => Caret(s) = Len(s.cells) - s.off
BY DEF Rows, Caret

\* A part of a sequence, entry by entry; it is empty when it begins past its end.
LEMMA PartIs ==
    ASSUME NEW S, NEW s \in Seq(S), NEW m \in Nat \ {0}, NEW n \in 0..Len(s)
    PROVE  /\ SubSeq(s, m, n) \in Seq(S)
           /\ Len(SubSeq(s, m, n)) = IF m <= n THEN n + 1 - m ELSE 0
           /\ \A i \in 1..n + 1 - m : SubSeq(s, m, n)[i] = s[m + i - 1]
<1>1. m \in Int /\ n \in Int /\ n - m + 1 = n + 1 - m
  OBVIOUS
<1>2. \A i \in m..n : s[i] \in S
  OBVIOUS
<1>3. /\ SubSeq(s, m, n) \in Seq(S)
      /\ Len(SubSeq(s, m, n)) = IF m <= n THEN n - m + 1 ELSE 0
      /\ \A i \in 1..n - m + 1 : SubSeq(s, m, n)[i] = s[m + i - 1]
  BY <1>1, <1>2, SubSeqProperties
<1> QED BY <1>1, <1>3

\* Two sequences in a row, entry by entry.
LEMMA JoinedIs ==
    ASSUME NEW S, NEW s \in Seq(S), NEW t \in Seq(S), NEW m, m = Len(s), NEW n, n = Len(t)
    PROVE  /\ s \o t \in Seq(S) /\ Len(s \o t) = m + n
           /\ \A i \in 1..m + n : (s \o t)[i] = IF i <= m THEN s[i] ELSE t[i - m]
BY ConcatProperties

\* Row r is s with the text printed at its caret, cell by cell.
Printed(r, s, text) ==
    LET c == Caret(s)
        n == c + Len(text)
    IN  /\ r \in Rows /\ Caret(r) = n
        /\ n < Len(s.cells) => Len(r.cells) = Len(s.cells)
        /\ ~(n < Len(s.cells)) => Len(r.cells) = n
        /\ r.off = Len(r.cells) - n
        /\ \A i \in 1..Len(r.cells) : /\ i <= c \/ i > n => r.cells[i] = s.cells[i]
                                      /\ c < i /\ i <= n => r.cells[i] = text[i - c]

LEMMA OverPrints ==
    ASSUME NEW s \in Rows, NEW text \in Seq(Cell)
    PROVE  Printed(Over(s, text), s, text)
<1> DEFINE k == Len(text)
           L == Len(s.cells)
           c == Caret(s)
           n == c + k
           a == SubSeq(s.cells, 1, c)
           rest == SubSeq(s.cells, n + 1, L)
           ab == a \o text
           all == ab \o rest
           d == Len(rest)
           r == [cells |-> all, off |-> d]
<1>1. /\ s.cells \in Seq(Cell) /\ L \in Nat /\ c \in Nat /\ c <= L /\ k \in Nat
      /\ L = Len(s.cells) /\ k = Len(text) /\ n = c + k /\ L \in 0..L /\ c \in 0..L
      /\ n + 1 \in Nat \ {0} /\ n \in Nat
  BY CaretIn DEF Rows
<1>0. Over(s, text) = r
  BY DEF Over
<1> HIDE DEF L, c, n, k
<1>2. a \in Seq(Cell) /\ Len(a) = c /\ \A i \in 1..c : a[i] = s.cells[i]
  <2>1. /\ a \in Seq(Cell) /\ Len(a) = IF 1 <= c THEN c + 1 - 1 ELSE 0
        /\ \A i \in 1..c + 1 - 1 : a[i] = s.cells[1 + i - 1]
    BY <1>1, PartIs
  <2> QED BY <1>1, <2>1
<1>3. /\ rest \in Seq(Cell) /\ d \in Nat
      /\ n < L => d = L - n
      /\ ~(n < L) => d = 0
      /\ \A i \in 1..L - n : rest[i] = s.cells[n + i]
  <2>1. /\ rest \in Seq(Cell) /\ d = IF n + 1 <= L THEN L + 1 - (n + 1) ELSE 0
        /\ \A i \in 1..L + 1 - (n + 1) : rest[i] = s.cells[n + 1 + i - 1]
    BY <1>1, PartIs
  <2>2. /\ n < L => d = L - n
        /\ ~(n < L) => d = 0
    BY <1>1, <2>1
  <2>3. ASSUME NEW i \in 1..L - n PROVE rest[i] = s.cells[n + i]
    <3>1. i \in 1..L + 1 - (n + 1) /\ n + 1 + i - 1 = n + i
      BY <1>1
    <3> QED BY <2>1, <3>1
  <2> QED BY <1>1, <2>1, <2>2, <2>3
<1> HIDE DEF a, rest
<1>4. /\ ab \in Seq(Cell) /\ Len(ab) = n
      /\ \A i \in 1..n : ab[i] = IF i <= c THEN s.cells[i] ELSE text[i - c]
  <2>1. /\ ab \in Seq(Cell) /\ Len(ab) = c + k
        /\ \A i \in 1..c + k : ab[i] = IF i <= c THEN a[i] ELSE text[i - c]
    BY <1>1, <1>2, JoinedIs
  <2> QED BY <1>1, <1>2, <2>1
<1>d. d = Len(rest)
  OBVIOUS
<1> HIDE DEF ab, d
<1>5. /\ all \in Seq(Cell) /\ Len(all) = n + d
      /\ \A i \in 1..n + d : all[i] = IF i <= n THEN ab[i] ELSE rest[i - n]
  <2>1. ab \in Seq(Cell) /\ rest \in Seq(Cell) /\ n = Len(ab)
    BY <1>3, <1>4
  <2> QED BY <2>1, <1>d, JoinedIs
<1> HIDE DEF all
<1>6. /\ n < L => Len(all) = L
      /\ ~(n < L) => Len(all) = n
  BY <1>1, <1>3, <1>5
<1>7. ASSUME NEW i \in 1..Len(all)
      PROVE  /\ i <= c \/ i > n => all[i] = s.cells[i]
             /\ c < i /\ i <= n => all[i] = text[i - c]
  <2>1. /\ i <= n => all[i] = ab[i] /\ i \in 1..n
        /\ i > n => all[i] = rest[i - n]
    BY <1>1, <1>3, <1>5
  <2>2. CASE i <= n
    BY <1>1, <1>4, <2>1, <2>2
  <2>3. CASE i > n
    <3>1. i - n \in 1..L - n /\ n + (i - n) = i
      BY <1>1, <1>3, <1>5, <2>3
    <3>2. rest[i - n] = s.cells[i]
      BY <1>3, <3>1
    <3> QED BY <1>1, <2>1, <2>3, <3>2
  <2> QED BY <1>1, <2>2, <2>3
<1>8. d = Len(all) - n /\ d \in Nat
  BY <1>1, <1>3, <1>6
<1>9. r \in Rows /\ r.cells = all /\ r.off = d
  BY <1>5, <1>8 DEF Rows
<1> HIDE DEF r
<1>10. Caret(r) = n
  <2>1. Len(r.cells) \in Nat /\ r.off \in Nat /\ r.off <= Len(r.cells)
    BY <1>1, <1>5, <1>6, <1>8, <1>9
  <2>2. Caret(r) = Len(r.cells) - r.off
    BY <1>9, <2>1, CaretIn
  <2> QED BY <1>1, <1>8, <1>9, <2>1, <2>2
<1>11. Printed(r, s, text)
  BY <1>6, <1>7, <1>8, <1>9, <1>10 DEF Printed, n, c, L, k
<1> QED BY <1>0, <1>11

\* The caret moved left.
LEMMA LeftCaret ==
    ASSUME NEW s \in Rows, NEW n \in Nat
    PROVE  LET r == Left(s, n)
           IN  /\ r \in Rows /\ r.cells = s.cells
               /\ Caret(r) = IF Caret(s) >= n THEN Caret(s) - n ELSE 0
               /\ r.off = Len(r.cells) - Caret(r)
<1> DEFINE at == IF Caret(s) >= n THEN Caret(s) - n ELSE 0
           off == Len(s.cells) - at
<1>1. at \in 0..Len(s.cells) /\ Len(s.cells) \in Nat
  BY CaretIn DEF Rows
<1> HIDE DEF at
<1>2. Left(s, n) = [s EXCEPT !.off = off]
  BY DEF Left, Put, at
<1>3. off \in Nat /\ off <= Len(s.cells) /\ Len(s.cells) - off = at
  BY <1>1
<1> HIDE DEF off
<1>4. PICK r : r = [s EXCEPT !.off = off]
  OBVIOUS
<1>5. r \in Rows /\ r.cells = s.cells /\ r.off = off
  BY <1>3, <1>4 DEF Rows
<1>6. Caret(r) = at
  BY <1>1, <1>3, <1>5 DEF Caret
<1> QED BY <1>1, <1>2, <1>3, <1>4, <1>5, <1>6 DEF at


-----------------------------------------------------------------------------
(* The editor.                                                              *)

Screens == [e : Edits, s : Rows, odd : SUBSET Causes]

\* The row begins with the prompt, then n cells, then blanks (a window: none).
Holds(s, n) ==
    /\ Len(s.cells) >= n + 1 /\ s.cells[1] = ">"
    /\ \A i \in n + 2..Len(s.cells) : s.cells[i] = BLANK
    /\ Windowed => Len(s.cells) = n + 1

\* The row shows the line, with the caret at its place in it.
Sharp(e, s) ==
    /\ e.pos <= Len(e.buf) /\ Holds(s, Len(e.buf))
    /\ \A i \in 1..Len(e.buf) : s.cells[i + 1] = e.buf[i]
    /\ s.off = Len(s.cells) - 1 - e.pos

\* What holds between two keystrokes.
Fine(x) ==
    /\ x \in Screens /\ x.e.nav <= x.e.n /\ x.e.shown = Len(x.e.buf)
    /\ Len(x.e.buf) = 0 => x.e.pos = 0
    /\ x.odd = {} => Sharp(x.e, x.s)

SamePast(d, e) == e.hist = d.hist /\ e.head = d.head /\ e.n = d.n

\* The caret of a sharp row.
LEMMA SharpCaret ==
    ASSUME NEW e \in Edits, NEW s \in Rows, Sharp(e, s)
    PROVE  Caret(s) = e.pos + 1 /\ e.pos + 1 <= Len(s.cells)
<1>1. Len(s.cells) \in Nat /\ e.pos \in Nat /\ Len(e.buf) \in Nat
  <2>1. e.buf \in Lines /\ e.pos \in 0..LINE_MAX
    BY DEF Edits
  <2>2. e.buf \in Seq(Char)
    BY <2>1, LineIs
  <2>3. s.cells \in Seq(Cell)
    BY DEF Rows
  <2> QED BY <2>1, <2>2, <2>3, PromptAssumption
<1>2. /\ s.off = Len(s.cells) - 1 - e.pos /\ e.pos <= Len(e.buf)
      /\ Len(s.cells) >= Len(e.buf) + 1
  BY DEF Sharp, Holds
<1> QED BY <1>1, <1>2, CaretIn

\* A row of blanks.
LEMMA BlanksAre ==
    ASSUME NEW n \in Nat
    PROVE  /\ [i \in 1..n |-> BLANK] \in Seq(Cell) /\ Len([i \in 1..n |-> BLANK]) = n
           /\ \A i \in 1..n : [j \in 1..n |-> BLANK][i] = BLANK
<1>1. BLANK \in Cell
  BY DEF Cell
<1>2. [i \in 1..n |-> BLANK] \in [1..n -> Cell]
  BY <1>1
<1> QED BY <1>2

\* console_redraw prints the line over blanks.
LEMMA ConsoleRedraw ==
    ASSUME NEW e \in Edits, NEW s \in Rows, NEW to \in 0..Len(e.buf)
    PROVE  /\ console_redraw(e, s, to) \in Rows
           /\ Holds(s, e.shown) /\ ~Windowed /\ Caret(s) = 1 + e.pos /\ to = Len(e.buf)
              /\ to = e.pos
              => Sharp(e, console_redraw(e, s, to))
<1> DEFINE sp == [i \in 1..e.shown |-> BLANK]
           text == SubSeq(e.buf, 1, to)
<1>1. /\ e.pos \in Nat /\ e.shown \in Nat /\ e.buf \in Seq(Char) /\ Len(e.buf) \in Nat
      /\ e.buf \in Seq(Cell) /\ s.cells \in Seq(Cell) /\ Len(s.cells) \in Nat /\ to \in Nat
  <2>1. e.buf \in Seq(Char)
    BY LineIs DEF Edits
  <2> QED BY <2>1, LineCells, PromptAssumption DEF Edits, Rows
<1>2. sp \in Seq(Cell) /\ Len(sp) = e.shown /\ \A i \in 1..e.shown : sp[i] = BLANK
  BY <1>1, BlanksAre
<1>3. text \in Seq(Cell)
  BY <1>1, PartIs
<1>4. PICK home : home = Left(s, e.pos)
  OBVIOUS
<1>5. PICK o : o = Over(home, sp)
  OBVIOUS
<1>6. PICK bare : bare = Left(o, e.shown)
  OBVIOUS
<1>7. PICK r : r = Over(bare, text)
  OBVIOUS
<1>8. r = console_redraw(e, s, to)
  BY <1>4, <1>5, <1>6, <1>7 DEF console_redraw
<1>9. /\ home \in Rows /\ home.cells = s.cells
      /\ Caret(home) = IF Caret(s) >= e.pos THEN Caret(s) - e.pos ELSE 0
  BY <1>1, <1>4, LeftCaret
<1> HIDE DEF sp
<1>o. Printed(o, home, sp)
  BY <1>2, <1>5, <1>9, OverPrints
<1>10. /\ o \in Rows /\ Caret(o) = Caret(home) + e.shown
       /\ Caret(o) < Len(s.cells) => Len(o.cells) = Len(s.cells)
       /\ ~(Caret(o) < Len(s.cells)) => Len(o.cells) = Caret(o)
       /\ \A i \in 1..Len(o.cells) :
             /\ i <= Caret(home) \/ i > Caret(o) => o.cells[i] = s.cells[i]
             /\ Caret(home) < i /\ i <= Caret(o) => o.cells[i] = sp[i - Caret(home)]
  BY <1>2, <1>9, <1>o DEF Printed
<1>11. /\ bare \in Rows /\ bare.cells = o.cells
       /\ Caret(bare) = IF Caret(o) >= e.shown THEN Caret(o) - e.shown ELSE 0
  BY <1>1, <1>6, <1>10, LeftCaret
<1> HIDE DEF text
<1>r. Printed(r, bare, text)
  BY <1>3, <1>7, <1>11, OverPrints
<1>12. /\ r \in Rows /\ Caret(r) = Caret(bare) + Len(text)
       /\ Caret(r) < Len(o.cells) => Len(r.cells) = Len(o.cells)
       /\ ~(Caret(r) < Len(o.cells)) => Len(r.cells) = Caret(r)
       /\ r.off = Len(r.cells) - Caret(r)
       /\ \A i \in 1..Len(r.cells) :
             /\ i <= Caret(bare) \/ i > Caret(r) => r.cells[i] = o.cells[i]
             /\ Caret(bare) < i /\ i <= Caret(r) => r.cells[i] = text[i - Caret(bare)]
  BY <1>11, <1>r DEF Printed
<1>13. ASSUME Holds(s, e.shown), ~Windowed, Caret(s) = 1 + e.pos, to = Len(e.buf), to = e.pos
       PROVE  Sharp(e, r)
  <2>1. /\ Len(s.cells) >= e.shown + 1 /\ s.cells[1] = ">"
        /\ \A i \in e.shown + 2..Len(s.cells) : s.cells[i] = BLANK
    BY <1>13 DEF Holds
  <2>2. text = e.buf
    BY <1>1, <1>13, SubSeqFull DEF text
  <2>3. Caret(home) = 1
    BY <1>1, <1>9, <1>13
  <2>4. Caret(o) = e.shown + 1 /\ Len(o.cells) = Len(s.cells)
    BY <1>1, <1>10, <2>1, <2>3
  <2>5. o.cells[1] = ">" /\ \A i \in 2..Len(s.cells) : o.cells[i] = BLANK
    <3>1. o.cells[1] = ">"
      BY <1>1, <1>10, <2>1, <2>3, <2>4
    <3>2. ASSUME NEW i \in 2..Len(s.cells), i <= e.shown + 1 PROVE o.cells[i] = BLANK
      <4>1. i - 1 \in 1..e.shown /\ i \in 1..Len(o.cells) /\ 1 < i
        BY <1>1, <2>4, <3>2
      <4>2. o.cells[i] = sp[i - 1]
        BY <1>10, <2>3, <2>4, <3>2, <4>1
      <4> QED BY <1>2, <4>1, <4>2
    <3>3. ASSUME NEW i \in 2..Len(s.cells), i > e.shown + 1 PROVE o.cells[i] = BLANK
      BY <1>1, <1>10, <2>1, <2>3, <2>4, <3>3
    <3> QED BY <1>1, <3>1, <3>2, <3>3
  <2>6. Caret(bare) = 1
    BY <1>1, <1>11, <2>4
  <2>7. Caret(r) = Len(e.buf) + 1
    BY <1>1, <1>12, <2>2, <2>6
  <2>8. Len(r.cells) >= Len(e.buf) + 1 /\ Len(r.cells) \in Nat /\ Len(o.cells) \in Nat
        /\ (Len(r.cells) > Len(e.buf) + 1 => Len(r.cells) = Len(s.cells))
    BY <1>1, <1>12, <2>4, <2>7
  <2>9. r.cells[1] = ">"
    BY <1>1, <1>12, <2>5, <2>6, <2>8
  <2>10. \A i \in Len(e.buf) + 2..Len(r.cells) : r.cells[i] = BLANK
    <3>1. SUFFICES ASSUME NEW i \in Len(e.buf) + 2..Len(r.cells) PROVE r.cells[i] = BLANK
      OBVIOUS
    <3>2. i \in 1..Len(r.cells) /\ i > Caret(r) /\ i \in 2..Len(s.cells)
      BY <1>1, <2>7, <2>8
    <3> QED BY <1>12, <2>5, <3>2
  <2>11. \A i \in 1..Len(e.buf) : r.cells[i + 1] = e.buf[i]
    <3>1. SUFFICES ASSUME NEW i \in 1..Len(e.buf) PROVE r.cells[i + 1] = e.buf[i]
      OBVIOUS
    <3>2. i + 1 \in 1..Len(r.cells) /\ 1 < i + 1 /\ i + 1 <= Caret(r) /\ i + 1 - 1 = i
      BY <1>1, <2>7, <2>8
    <3> QED BY <1>12, <2>2, <2>6, <3>2
  <2>12. r.off = Len(r.cells) - 1 - e.pos
    <3>1. r.off = Len(r.cells) - (Len(e.buf) + 1) /\ Len(e.buf) = e.pos
      BY <1>12, <1>13, <2>7
    <3> QED BY <1>1, <2>8, <3>1
  <2> QED BY <1>1, <1>13, <2>8, <2>9, <2>10, <2>11, <2>12 DEF Sharp, Holds
<1> QED BY <1>8, <1>12, <1>13

\* A window's row is rebuilt from its prompt.
LEMMA WindowRedraw ==
    ASSUME NEW e \in Edits, NEW s \in Rows, NEW to \in 0..Len(e.buf), NEW f, f.buf = e.buf
    PROVE  /\ window_redraw(e, s, to) \in Rows
           /\ Holds(s, e.shown) /\ Windowed /\ f.pos = to
              => Sharp(f, window_redraw(e, s, to))
<1> DEFINE keep == IF e.shown < Len(s.cells) THEN Len(s.cells) - e.shown ELSE 0
           a == SubSeq(s.cells, 1, keep)
           all == a \o e.buf
           off == Len(e.buf) - to
           r == [cells |-> all, off |-> off]
<1>1. /\ e.shown \in Nat /\ Len(e.buf) \in Nat /\ to \in Nat
      /\ e.buf \in Seq(Cell) /\ s.cells \in Seq(Cell) /\ Len(s.cells) \in Nat
      /\ to <= Len(e.buf)
  <2>1. e.buf \in Seq(Char)
    BY LineIs DEF Edits
  <2> QED BY <2>1, LineCells, PromptAssumption DEF Edits, Rows
<1>2. r = window_redraw(e, s, to)
  BY DEF window_redraw
<1>3. keep \in 0..Len(s.cells) /\ keep \in Nat
  BY <1>1
<1>k. Len(s.cells) = e.shown + 1 => keep = 1
  BY <1>1
<1> HIDE DEF keep
<1>4. /\ a \in Seq(Cell) /\ Len(a) = IF 1 <= keep THEN keep + 1 - 1 ELSE 0
      /\ \A i \in 1..keep + 1 - 1 : a[i] = s.cells[1 + i - 1]
  BY <1>1, <1>3, PartIs
<1> HIDE DEF a
<1>5. /\ all \in Seq(Cell) /\ Len(all) = Len(a) + Len(e.buf)
      /\ \A i \in 1..Len(a) + Len(e.buf) :
            all[i] = IF i <= Len(a) THEN a[i] ELSE e.buf[i - Len(a)]
  BY <1>1, <1>4, ConcatProperties, Zenon
<1> HIDE DEF all
<1>6. off \in Nat
  BY <1>1
<1>7. r \in Rows /\ r.cells = all /\ r.off = off
  BY <1>5, <1>6 DEF Rows
<1>8. ASSUME Holds(s, e.shown), Windowed, f.pos = to PROVE Sharp(f, r)
  <2>1. keep = 1 /\ s.cells[1] = ">"
    BY <1>8, <1>k DEF Holds
  <2>2. Len(a) = 1 /\ a[1] = ">"
    BY <1>4, <2>1
  <2>3. Len(all) = Len(e.buf) + 1
    BY <1>1, <1>5, <2>2
  <2>4. all[1] = ">" /\ \A i \in 1..Len(e.buf) : all[i + 1] = e.buf[i]
    <3>1. all[1] = ">"
      BY <1>1, <1>5, <2>2
    <3>2. ASSUME NEW i \in 1..Len(e.buf) PROVE all[i + 1] = e.buf[i]
      <4>1. i + 1 \in 1..Len(a) + Len(e.buf) /\ ~(i + 1 <= Len(a)) /\ i + 1 - Len(a) = i
        BY <1>1, <2>2
      <4> QED BY <1>5, <4>1
    <3> QED BY <3>1, <3>2
  <2>5. off = Len(all) - 1 - to
    BY <1>1, <2>3
  <2>6. Holds(r, Len(e.buf))
    BY <1>1, <1>7, <2>3, <2>4 DEF Holds
  <2> QED BY <1>1, <1>7, <1>8, <2>4, <2>5, <2>6 DEF Sharp
<1> QED BY <1>2, <1>7, <1>8


\* A character put into a line, or taken out.
Inserted(r, l, p, c) ==
    /\ r \in Seq(Char) /\ Len(r) = Len(l) + 1
    /\ \A i \in 1..p : r[i] = l[i]
    /\ r[p + 1] = c

LEMMA InsertIs ==
    ASSUME NEW l \in Seq(Char), NEW p \in 0..Len(l), NEW c \in Char, NEW r, r = InsertAt(l, p + 1, c)
    PROVE  Inserted(r, l, p, c)
<1> DEFINE n == Len(l)
           a == SubSeq(l, 1, (p + 1) - 1)
           m == <<c>>
           z == SubSeq(l, p + 1, n)
           am == a \o m
<1>1. /\ n \in Nat /\ p \in Nat /\ p <= n /\ (p + 1) - 1 = p /\ p \in 0..Len(l)
      /\ p + 1 \in Nat \ {0} /\ n \in 0..Len(l)
  OBVIOUS
<1>0. r = am \o z
  BY DEF InsertAt
<1>2. a \in Seq(Char) /\ Len(a) = p /\ \A i \in 1..p : a[i] = l[i]
  <2>1. a = SubSeq(l, 1, p)
    BY <1>1
  <2>2. /\ a \in Seq(Char) /\ Len(a) = IF 1 <= p THEN p + 1 - 1 ELSE 0
        /\ \A i \in 1..p + 1 - 1 : a[i] = l[1 + i - 1]
    BY <1>1, <2>1, PartIs
  <2> HIDE DEF a
  <2> QED BY <1>1, <2>2
<1>3. z \in Seq(Char) /\ Len(z) = n - p
  <2>1. /\ z \in Seq(Char) /\ Len(z) = IF p + 1 <= n THEN n + 1 - (p + 1) ELSE 0
    BY <1>1, PartIs
  <2> HIDE DEF z
  <2> QED BY <1>1, <2>1
<1>4. m \in Seq(Char) /\ Len(m) = 1 /\ m[1] = c
  OBVIOUS
<1> HIDE DEF a, z, m
<1>5. /\ am \in Seq(Char) /\ Len(am) = Len(a) + Len(m)
      /\ \A i \in 1..Len(a) + Len(m) : am[i] = IF i <= Len(a) THEN a[i] ELSE m[i - Len(a)]
  BY <1>2, <1>4, ConcatProperties, Zenon
<1>6. Len(am) = p + 1 /\ am[p + 1] = c /\ \A i \in 1..p : am[i] = l[i]
  <2>1. p + 1 \in 1..Len(a) + Len(m) /\ ~(p + 1 <= Len(a)) /\ p + 1 - Len(a) = 1
    BY <1>1, <1>2, <1>4
  <2> QED BY <1>1, <1>2, <1>4, <1>5, <2>1
<1> HIDE DEF am
<1>s. am \in Seq(Char) /\ z \in Seq(Char)
  BY <1>3, <1>5
<1>7. /\ am \o z \in Seq(Char) /\ Len(am \o z) = Len(am) + Len(z)
      /\ \A i \in 1..Len(am) + Len(z) :
            (am \o z)[i] = IF i <= Len(am) THEN am[i] ELSE z[i - Len(am)]
  BY <1>s, ConcatProperties, Zenon
<1>8. Len(am) = p + 1 /\ Len(z) = n - p
  BY <1>3, <1>6
<1>9. ASSUME NEW i \in 1..p + 1 PROVE r[i] = am[i]
  <2>1. i \in 1..Len(am) + Len(z) /\ i <= Len(am)
    BY <1>1, <1>8
  <2> QED BY <1>0, <1>7, <2>1
<1>10. Len(r) = n + 1
  <2>1. Len(r) = Len(am) + Len(z)
    BY <1>0, <1>7, Zenon
  <2>2. Len(r) = (p + 1) + (n - p)
    BY <1>8, <2>1
  <2> HIDE DEF n
  <2> QED BY <1>1, <2>2
<1>11. p + 1 \in 1..p + 1 /\ \A i \in 1..p : i \in 1..p + 1
  BY <1>1
<1> QED BY <1>0, <1>6, <1>7, <1>9, <1>10, <1>11 DEF Inserted

LEMMA RemoveIs ==
    ASSUME NEW l \in Seq(Char), NEW p \in 1..Len(l), NEW r, r = RemoveAt(l, p)
    PROVE  /\ r \in Seq(Char) /\ Len(r) = Len(l) - 1
           /\ \A i \in 1..p - 1 : r[i] = l[i]
<1> DEFINE n == Len(l)
           a == SubSeq(l, 1, p - 1)
           z == SubSeq(l, p + 1, n)
<1>1. /\ n \in Nat /\ p \in Nat /\ p <= n /\ p - 1 \in 0..Len(l) /\ p - 1 \in Nat
      /\ p + 1 \in Nat \ {0} /\ n \in 0..Len(l) /\ p - 1 + 1 - 1 = p - 1
  OBVIOUS
<1>0. r = a \o z
  BY DEF RemoveAt
<1>2. a \in Seq(Char) /\ Len(a) = p - 1 /\ \A i \in 1..p - 1 : a[i] = l[i]
  <2>2. /\ a \in Seq(Char) /\ Len(a) = IF 1 <= p - 1 THEN p - 1 + 1 - 1 ELSE 0
        /\ \A i \in 1..p - 1 + 1 - 1 : a[i] = l[1 + i - 1]
    BY <1>1, PartIs
  <2> HIDE DEF a
  <2> QED BY <1>1, <2>2
<1>3. z \in Seq(Char) /\ Len(z) = n - p
  <2>1. /\ z \in Seq(Char) /\ Len(z) = IF p + 1 <= n THEN n + 1 - (p + 1) ELSE 0
    BY <1>1, PartIs
  <2> HIDE DEF z
  <2> QED BY <1>1, <2>1
<1> HIDE DEF a, z
<1>7. /\ a \o z \in Seq(Char) /\ Len(a \o z) = Len(a) + Len(z)
      /\ \A i \in 1..Len(a) + Len(z) : (a \o z)[i] = IF i <= Len(a) THEN a[i] ELSE z[i - Len(a)]
  BY <1>2, <1>3, ConcatProperties, Zenon
<1> QED BY <1>0, <1>1, <1>2, <1>3, <1>7

\* The fields of the editor's record.
LEMMA EditFields ==
    ASSUME NEW e \in Edits
    PROVE  /\ e.buf \in Seq(Char) /\ Len(e.buf) \in Nat /\ Len(e.buf) <= LINE_MAX
           /\ e.pos \in Nat /\ e.shown \in Nat /\ e.nav \in Nat /\ e.n \in Nat /\ e.head \in Nat
           /\ e.pos <= LINE_MAX /\ e.n <= HIST_MAX /\ e.head < HIST_MAX
           /\ e.stash \in Lines /\ e.buf \in Lines
<1>1. e.buf \in Lines /\ e.stash \in Lines
  BY DEF Edits
<1>2. e.buf \in Seq(Char) /\ Len(e.buf) <= LINE_MAX
  BY <1>1, LineIs
<1> QED BY <1>1, <1>2, PromptAssumption DEF Edits

\* redraw brings the row up to date.
Redrawn(x, y) ==
    /\ y \in Screens /\ SamePast(x.e, y.e) /\ x.odd \subseteq y.odd
    /\ y.e.buf = x.e.buf /\ y.e.pos = x.e.pos /\ y.e.nav = x.e.nav /\ y.e.shown = Len(y.e.buf)

LEMMA RedrawIs ==
    ASSUME NEW x \in Screens, NEW to \in 0..Len(x.e.buf), NEW y, y = redraw(x, to)
    PROVE  /\ Redrawn(x, y)
           /\ Holds(x.s, x.e.shown) /\ x.e.pos = to /\ y.odd = {} => Sharp(y.e, y.s)
<1>1. PICK e \in Edits : e = x.e
  BY DEF Screens
<1>2. PICK s \in Rows : s = x.s
  BY DEF Screens
<1> DEFINE f == [e EXCEPT !.shown = Len(e.buf)]
           t == IF Windowed THEN window_redraw(e, s, to) ELSE console_redraw(e, s, to)
           sure == Windowed \/ (Caret(s) = Len(PROMPT) + e.pos /\ to = Len(e.buf))
           o == IF sure THEN x.odd ELSE x.odd \cup {"walk"}
<1>3. y = [e |-> f, s |-> t, odd |-> o]
  BY <1>1, <1>2 DEF redraw
<1>4. Len(e.buf) \in 0..LINE_MAX
  BY EditFields, PromptAssumption
<1>5. /\ f \in Edits /\ f.buf = e.buf /\ f.pos = e.pos /\ f.nav = e.nav /\ f.shown = Len(e.buf)
      /\ SamePast(e, f)
  BY <1>4 DEF Edits, SamePast
<1> HIDE DEF f
<1>6. t \in Rows /\ (Holds(s, e.shown) /\ Windowed /\ f.pos = to => Sharp(f, t))
  BY <1>1, <1>5, WindowRedraw, ConsoleRedraw
<1>7. o \in SUBSET Causes /\ x.odd \subseteq o /\ (o = {} => sure)
  BY DEF Screens, Causes
<1>8. ASSUME Holds(s, e.shown), e.pos = to, o = {} PROVE Sharp(f, t)
  <2>1. CASE Windowed
    BY <1>5, <1>6, <1>8, <2>1
  <2>2. CASE ~Windowed
    <3>1. Caret(s) = 1 + e.pos /\ to = Len(e.buf)
      BY <1>7, <1>8, <2>2 DEF PROMPT
    <3>2. Sharp(e, t)
      BY <1>1, <1>8, <2>2, <3>1, ConsoleRedraw
    <3> QED BY <1>5, <3>2 DEF Sharp
  <2> QED BY <2>1, <2>2
<1> HIDE DEF t, o, sure
<1>9. y \in Screens /\ y.e = f /\ y.s = t /\ y.odd = o
  BY <1>3, <1>5, <1>6, <1>7 DEF Screens
<1> QED BY <1>1, <1>2, <1>5, <1>7, <1>8, <1>9 DEF Redrawn

-----------------------------------------------------------------------------
(* The keys.                                                                *)

Keeps(x, y) == Fine(y) /\ SamePast(x.e, y.e)

\* An edit that redraws the line.
LEMMA EditRedraw ==
    ASSUME NEW x, Fine(x), NEW f \in Edits, f.shown = x.e.shown, SamePast(x.e, f), f.nav <= f.n,
           f.pos <= Len(f.buf), NEW y, y = redraw([x EXCEPT !.e = f], f.pos)
    PROVE  Keeps(x, y)
<1>1. PICK w : w = [x EXCEPT !.e = f]
  OBVIOUS
<1>2. x \in Screens
  BY DEF Fine
<1>3. w \in Screens /\ w.e = f /\ w.s = x.s /\ w.odd = x.odd
  BY <1>1, <1>2 DEF Screens
<1>4. f.pos \in 0..Len(w.e.buf) /\ Len(f.buf) \in Nat /\ f.pos \in Nat
  BY <1>3, EditFields
<1>5. y = redraw(w, f.pos)
  BY <1>1
<1>6. /\ Redrawn(w, y)
      /\ Holds(w.s, w.e.shown) /\ y.odd = {} => Sharp(y.e, y.s)
  BY <1>3, <1>4, <1>5, RedrawIs
<1>7. /\ y \in Screens /\ SamePast(f, y.e) /\ x.odd \subseteq y.odd
      /\ y.e.buf = f.buf /\ y.e.pos = f.pos /\ y.e.nav = f.nav /\ y.e.shown = Len(y.e.buf)
  BY <1>3, <1>6 DEF Redrawn
<1>8. SamePast(x.e, y.e) /\ y.e.n = f.n
  BY <1>7 DEF SamePast
<1>9. ASSUME y.odd = {} PROVE Sharp(y.e, y.s)
  <2>1. x.odd = {}
    BY <1>7, <1>9
  <2>2. Sharp(x.e, x.s) /\ x.e.shown = Len(x.e.buf)
    BY <2>1 DEF Fine
  <2>3. Holds(w.s, w.e.shown)
    BY <1>3, <2>2 DEF Sharp
  <2> QED BY <1>6, <1>9, <2>3
<1>10. Len(y.e.buf) = 0 => y.e.pos = 0
  BY <1>4, <1>7
<1> QED BY <1>7, <1>8, <1>9, <1>10 DEF Keeps, Fine

\* The record of a fine screen.
LEMMA FineParts ==
    ASSUME NEW x, Fine(x)
    PROVE  /\ x \in Screens /\ x.e \in Edits /\ x.s \in Rows /\ x.odd \in SUBSET Causes
           /\ x.e.nav <= x.e.n /\ x.e.shown = Len(x.e.buf) /\ SamePast(x.e, x.e)
           /\ x.odd = {} => /\ Sharp(x.e, x.s) /\ Caret(x.s) = x.e.pos + 1
                            /\ x.e.pos + 1 <= Len(x.s.cells)
BY SharpCaret DEF Fine, Screens, SamePast

\* What a screen is after an edit that did not redraw.
LEMMA KeptBy ==
    ASSUME NEW x, Fine(x), NEW f \in Edits, NEW t \in Rows, SamePast(x.e, f), f.nav <= f.n,
           f.shown = Len(f.buf), Len(f.buf) = 0 => f.pos = 0,
           x.odd = {} => Sharp(f, t), NEW y, y = [x EXCEPT !.e = f, !.s = t]
    PROVE  Keeps(x, y)
<1>1. x \in Screens
  BY DEF Fine
<1>2. y \in Screens /\ y.e = f /\ y.s = t /\ y.odd = x.odd
  BY <1>1 DEF Screens
<1> QED BY <1>2 DEF Keeps, Fine

\* The caret moves.
LEMMA MoveKeeps ==
    ASSUME NEW x, Fine(x), NEW new_pos \in Nat
    PROVE  Keeps(x, move_to(x, new_pos))
<1>1. PICK e \in Edits : e = x.e
  BY FineParts
<1>2. PICK s \in Rows : s = x.s
  BY FineParts
<1>3. PICK to : to = IF new_pos < Len(e.buf) THEN new_pos ELSE Len(e.buf)
  OBVIOUS
<1>4. PICK t : t = IF Windowed THEN window_redraw(e, s, to)
                   ELSE IF to > e.pos THEN Over(s, SubSeq(e.buf, e.pos + 1, to))
                   ELSE Left(s, e.pos - to)
  OBVIOUS
<1>5. PICK f : f = [e EXCEPT !.pos = to]
  OBVIOUS
<1>6. /\ e.buf \in Seq(Char) /\ Len(e.buf) \in Nat /\ e.pos \in Nat /\ Len(e.buf) <= LINE_MAX
      /\ e.shown = Len(e.buf) /\ e.nav <= e.n
  BY <1>1, EditFields, FineParts
<1>7. to \in 0..Len(e.buf) /\ to \in 0..LINE_MAX
  BY <1>3, <1>6, PromptAssumption
<1>8. /\ f \in Edits /\ f.buf = e.buf /\ f.pos = to /\ f.shown = e.shown /\ f.nav = e.nav
      /\ f.n = e.n /\ SamePast(e, f)
  BY <1>5, <1>7 DEF Edits, SamePast
<1>9. move_to(x, new_pos) = [x EXCEPT !.e = f, !.s = t]
  <2>1. x \in Screens
    BY FineParts
  <2>2. PICK z : z = [x EXCEPT !.e.pos = to, !.s = t,
                               !.e.shown = IF Windowed THEN Len(e.buf) ELSE @]
    OBVIOUS
  <2>3. z = move_to(x, new_pos)
    BY <1>1, <1>2, <1>3, <1>4, <2>2 DEF move_to
  <2>4. z = [x EXCEPT !.e = f, !.s = t]
    BY <1>1, <1>5, <1>6, <2>1, <2>2 DEF Screens, Edits
  <2> QED BY <2>3, <2>4
<1>10. ASSUME ~Windowed, to > e.pos
       PROVE  t \in Rows /\ (x.odd = {} => Sharp(f, t))
  <2>0. PICK m \in Nat \ {0} : m = e.pos + 1
    BY <1>6
  <2>1. PICK text : text = SubSeq(e.buf, m, to)
    OBVIOUS
  <2>2. t = Over(s, text)
    BY <1>4, <1>10, <2>0, <2>1
  <2>4. /\ text \in Seq(Char) /\ Len(text) = IF m <= to THEN to + 1 - m ELSE 0
        /\ \A i \in 1..to + 1 - m : text[i] = e.buf[m + i - 1]
    <3>1. PICK b \in Seq(Char) : b = e.buf
      BY <1>6
    <3>2. to \in 0..Len(b) /\ text = SubSeq(b, m, to)
      BY <1>7, <2>1, <3>1
    <3>3. /\ text \in Seq(Char) /\ Len(text) = IF m <= to THEN to + 1 - m ELSE 0
          /\ \A i \in 1..to + 1 - m : text[i] = b[m + i - 1]
      BY <3>2, PartIs
    <3> QED BY <3>1, <3>3, Zenon
  <2>5. m + Len(text) = to + 1
    <3>1. m <= to /\ to \in Nat
      BY <1>6, <1>7, <1>10, <2>0
    <3>2. Len(text) = to + 1 - m
      BY <2>4, <3>1, Zenon
    <3> QED BY <3>1, <3>2
  <2>6. Printed(t, s, text)
    BY <2>2, <2>4, LineCells, OverPrints
  <2>7. ASSUME x.odd = {} PROVE Sharp(f, t)
    <3>1. /\ Holds(s, Len(e.buf)) /\ \A i \in 1..Len(e.buf) : s.cells[i + 1] = e.buf[i]
          /\ Caret(s) = m
      BY <1>1, <1>2, <2>0, <2>7, FineParts DEF Sharp
    <3>2. /\ Len(s.cells) >= Len(e.buf) + 1 /\ s.cells[1] = ">" /\ Len(s.cells) \in Nat
          /\ \A i \in Len(e.buf) + 2..Len(s.cells) : s.cells[i] = BLANK
      BY <3>1 DEF Holds, Rows
    <3>3. /\ t \in Rows /\ Caret(t) = to + 1
          /\ to + 1 < Len(s.cells) => Len(t.cells) = Len(s.cells)
          /\ ~(to + 1 < Len(s.cells)) => Len(t.cells) = to + 1
          /\ t.off = Len(t.cells) - (to + 1)
          /\ \A i \in 1..Len(t.cells) :
                /\ i <= m \/ i > to + 1 => t.cells[i] = s.cells[i]
                /\ m < i /\ i <= to + 1 => t.cells[i] = text[i - m]
      BY <2>5, <2>6, <3>1, Zenon DEF Printed
    <3>4. Len(t.cells) = Len(s.cells)
      BY <1>6, <1>7, <3>2, <3>3
    <3>5. ASSUME NEW i \in 1..Len(t.cells) PROVE t.cells[i] = s.cells[i]
      <4>1. CASE m < i /\ i <= to + 1
        <5>1. /\ i - m \in 1..to + 1 - m /\ m + (i - m) - 1 = i - 1
              /\ i - 1 \in 1..Len(e.buf) /\ i - 1 + 1 = i
          BY <1>6, <1>7, <4>1
        <5>2. text[i - m] = e.buf[i - 1]
          BY <2>4, <5>1
        <5> QED BY <3>1, <3>3, <4>1, <5>1, <5>2
      <4> QED BY <1>6, <1>7, <3>3, <4>1
    <3>6. t.off = Len(t.cells) - 1 - to
      BY <1>6, <1>7, <3>2, <3>3, <3>4
    <3>7. Holds(t, Len(e.buf))
      BY <1>6, <1>10, <3>2, <3>4, <3>5 DEF Holds
    <3>8. ASSUME NEW i \in 1..Len(e.buf) PROVE t.cells[i + 1] = e.buf[i]
      <4>1. i + 1 \in 1..Len(t.cells)
        BY <1>6, <3>2, <3>4
      <4> QED BY <3>1, <3>5, <4>1
    <3> QED BY <1>7, <1>8, <3>6, <3>7, <3>8 DEF Sharp
  <2> QED BY <2>6, <2>7 DEF Printed
<1>11. ASSUME ~Windowed, ~(to > e.pos)
       PROVE  t \in Rows /\ (x.odd = {} => Sharp(f, t))
  <2>1. PICK n \in Nat : n = e.pos - to
    BY <1>6, <1>7, <1>11
  <2>2. t = Left(s, n)
    BY <1>4, <1>11, <2>1
  <2>3. /\ t \in Rows /\ t.cells = s.cells /\ t.off = Len(t.cells) - Caret(t)
        /\ Caret(t) = IF Caret(s) >= n THEN Caret(s) - n ELSE 0
    BY <2>2, LeftCaret
  <2>4. ASSUME x.odd = {} PROVE Sharp(f, t)
    <3>1. /\ Holds(s, Len(e.buf)) /\ \A i \in 1..Len(e.buf) : s.cells[i + 1] = e.buf[i]
          /\ Caret(s) = e.pos + 1
      BY <1>1, <1>2, <2>4, FineParts DEF Sharp
    <3>2. Caret(t) = to + 1
      BY <1>6, <1>7, <2>1, <2>3, <3>1
    <3>3. t.off = Len(t.cells) - 1 - to /\ to <= Len(e.buf)
      BY <1>7, <2>3, <3>2 DEF Rows
    <3>4. Holds(t, Len(e.buf))
      BY <2>3, <3>1 DEF Holds
    <3> QED BY <1>8, <2>3, <3>1, <3>3, <3>4 DEF Sharp
  <2> QED BY <2>3, <2>4
<1>12. ASSUME Windowed PROVE t \in Rows /\ (x.odd = {} => Sharp(f, t))
  <2>1. t = window_redraw(e, s, to)
    BY <1>4, <1>12
  <2>2. x.odd = {} => Holds(s, e.shown)
    BY <1>1, <1>2, FineParts DEF Sharp
  <2> QED BY <1>7, <1>8, <1>12, <2>1, <2>2, WindowRedraw
<1>13. t \in Rows /\ (x.odd = {} => Sharp(f, t))
  BY <1>10, <1>11, <1>12
<1>14. f.nav <= f.n /\ f.shown = Len(f.buf) /\ (Len(f.buf) = 0 => f.pos = 0)
  BY <1>6, <1>7, <1>8
<1> QED BY <1>1, <1>8, <1>9, <1>13, <1>14, KeptBy

\* A cell printed at the end of the line.
LEMMA PrintedAtEnd ==
    ASSUME NEW x, Fine(x), NEW c \in Chars,
           Windowed => Len(x.s.cells) + 1 < COLS \/ x.odd # {},
           x.e.pos = Len(x.e.buf), NEW f \in Edits, f.pos = x.e.pos + 1,
           Len(f.buf) = Len(x.e.buf) + 1, f.buf[x.e.pos + 1] = c,
           \A i \in 1..x.e.pos : f.buf[i] = x.e.buf[i],
           NEW t, t = print_ch(x.s, c)
    PROVE  t \in Rows /\ (x.odd = {} => Sharp(f, t))
<1>1. PICK e \in Edits : e = x.e
  BY FineParts
<1>2. PICK s \in Rows : s = x.s
  BY FineParts
<1>3. PICK L \in Nat : L = Len(e.buf) /\ e.pos = L /\ f.pos = L + 1 /\ Len(f.buf) = L + 1
  BY <1>1, EditFields
<1>4. c \in Cell /\ s.cells \in Seq(Cell) /\ Len(s.cells) \in Nat /\ s.off \in Nat
  BY DEF Cell, Rows
<1>5. x.odd = {} => /\ Len(s.cells) >= L + 1 /\ s.cells[1] = ">"
                    /\ \A i \in L + 2..Len(s.cells) : s.cells[i] = BLANK
                    /\ Windowed => Len(s.cells) = L + 1
                    /\ \A i \in 1..L : s.cells[i + 1] = e.buf[i]
                    /\ s.off = Len(s.cells) - 1 - L /\ Caret(s) = L + 1
  BY <1>1, <1>2, <1>3, FineParts DEF Sharp, Holds
<1>6. /\ \A i \in 1..L : f.buf[i] = e.buf[i]
      /\ f.buf[L + 1] = c
  BY <1>1, <1>3
<1>7. CASE Windowed
  <2>1. t = push_cell(s, c)
    BY <1>2, <1>7 DEF print_ch
  <2>2. PICK k : k = IF Len(s.cells) + 1 >= COLS THEN <<>> ELSE Append(s.cells, c)
    OBVIOUS
  <2>3. t = [s EXCEPT !.cells = k]
    BY <2>1, <2>2 DEF push_cell
  <2>4. k \in Seq(Cell)
    BY <1>4, <2>2
  <2>5. t \in Rows /\ t.cells = k /\ t.off = s.off
    BY <2>3, <2>4 DEF Rows
  <2>6. ASSUME x.odd = {} PROVE Sharp(f, t)
    <3>1. Len(s.cells) + 1 < COLS
      BY <1>2, <1>7, <2>6
    <3>2. k = Append(s.cells, c)
      <4>1. ~(Len(s.cells) + 1 >= COLS)
        BY <1>4, <3>1, PromptAssumption
      <4> QED BY <2>2, <4>1
    <3>3. /\ Len(k) = L + 2 /\ k[L + 2] = c /\ \A i \in 1..L + 1 : k[i] = s.cells[i]
      BY <1>4, <1>5, <1>7, <2>6, <3>2
    <3>4. \A i \in 1..L + 1 : k[i + 1] = f.buf[i]
      <4>1. SUFFICES ASSUME NEW i \in 1..L + 1 PROVE k[i + 1] = f.buf[i]
        OBVIOUS
      <4>2. CASE i = L + 1
        BY <1>3, <1>6, <3>3, <4>2
      <4>3. CASE i \in 1..L
        <5>1. i + 1 \in 1..L + 1
          BY <4>3
        <5> QED BY <1>5, <1>6, <2>6, <3>3, <4>3, <5>1
      <4> QED BY <1>3, <4>2, <4>3
    <3>5. k[1] = ">" /\ t.off = Len(k) - 1 - f.pos
      <4>1. 1 \in 1..L + 1 /\ s.off = 0 /\ (L + 2) - 1 - (L + 1) = 0
        BY <1>5, <1>7, <2>6
      <4>2. k[1] = s.cells[1]
        BY <3>3, <4>1
      <4>3. t.off = 0 /\ Len(k) - 1 - f.pos = 0
        BY <1>3, <2>5, <3>3, <4>1
      <4> QED BY <1>5, <2>6, <4>2, <4>3
    <3>6. Holds(t, L + 1)
      BY <1>3, <2>5, <3>3, <3>5 DEF Holds
    <3>7. f.pos <= Len(f.buf)
      BY <1>3
    <3> QED BY <1>3, <2>5, <3>4, <3>5, <3>6, <3>7, Zenon DEF Sharp
  <2> QED BY <2>5, <2>6
<1>8. CASE ~Windowed
  <2>1. PICK text : text = <<c>>
    OBVIOUS
  <2>2. text \in Seq(Cell) /\ Len(text) = 1 /\ text[1] = c
    BY <1>4, <2>1
  <2>3. t = Over(s, text)
    BY <1>2, <1>8, <2>1 DEF print_ch
  <2>4. Printed(t, s, text)
    BY <2>2, <2>3, OverPrints
  <2>5. ASSUME x.odd = {} PROVE Sharp(f, t)
    <3>1. Caret(s) = L + 1 /\ Caret(s) + Len(text) = L + 2
      BY <1>3, <1>5, <2>2, <2>5
    <3>2. /\ t \in Rows /\ t.off = Len(t.cells) - (L + 2)
          /\ L + 2 < Len(s.cells) => Len(t.cells) = Len(s.cells)
          /\ ~(L + 2 < Len(s.cells)) => Len(t.cells) = L + 2
          /\ \A i \in 1..Len(t.cells) :
                /\ i <= L + 1 \/ i > L + 2 => t.cells[i] = s.cells[i]
                /\ L + 1 < i /\ i <= L + 2 => t.cells[i] = text[i - (L + 1)]
      BY <2>4, <3>1, Zenon DEF Printed
    <3>3. Len(t.cells) >= L + 2 /\ Len(t.cells) \in Nat
          /\ (Len(t.cells) > L + 2 => Len(t.cells) = Len(s.cells))
      BY <1>3, <1>4, <3>2
    <3>4. t.cells[L + 2] = c
      <4>1. L + 2 \in 1..Len(t.cells) /\ L + 1 < L + 2 /\ L + 2 - (L + 1) = 1
        BY <1>3, <3>3
      <4> QED BY <2>2, <3>2, <4>1
    <3>5. \A i \in 1..L + 1 : t.cells[i + 1] = f.buf[i]
      <4>1. SUFFICES ASSUME NEW i \in 1..L + 1 PROVE t.cells[i + 1] = f.buf[i]
        OBVIOUS
      <4>2. CASE i = L + 1
        BY <1>3, <1>6, <3>4, <4>2
      <4>3. CASE i \in 1..L
        <5>1. i + 1 \in 1..Len(t.cells) /\ i + 1 <= L + 1
          BY <1>3, <3>3, <4>3
        <5> QED BY <1>5, <1>6, <2>5, <3>2, <4>3, <5>1
      <4> QED BY <1>3, <4>2, <4>3
    <3>6. t.cells[1] = ">" /\ t.off = Len(t.cells) - 1 - f.pos
      <4>1. 1 \in 1..Len(t.cells) /\ 1 <= L + 1 /\ Len(t.cells) - (L + 2) = Len(t.cells) - 1 - (L + 1)
        BY <3>3
      <4>2. t.cells[1] = s.cells[1]
        BY <3>2, <4>1
      <4>3. t.off = Len(t.cells) - 1 - f.pos
        BY <1>3, <3>2, <4>1, Zenon
      <4> QED BY <1>5, <2>5, <4>2, <4>3
    <3>7. \A i \in L + 1 + 2..Len(t.cells) : t.cells[i] = BLANK
      <4>1. SUFFICES ASSUME NEW i \in L + 1 + 2..Len(t.cells) PROVE t.cells[i] = BLANK
        OBVIOUS
      <4>2. i \in 1..Len(t.cells) /\ i > L + 2 /\ i \in L + 2..Len(s.cells)
        BY <1>3, <3>3
      <4> QED BY <1>5, <2>5, <3>2, <4>2
    <3>8. Holds(t, L + 1)
      BY <1>3, <1>8, <3>3, <3>6, <3>7 DEF Holds
    <3>9. f.pos <= Len(f.buf)
      BY <1>3
    <3> QED BY <1>3, <3>5, <3>6, <3>8, <3>9, Zenon DEF Sharp
  <2> QED BY <2>4, <2>5 DEF Printed
<1> QED BY <1>7, <1>8

\* A line shorter than its room leaves a cell of the row for the caret.
LEMMA RowRoom ==
    ASSUME NEW cols \in Nat, NEW max \in Nat, NEW len \in Nat, NEW shown \in Nat,
           NEW own \in Nat, own = IF shown < len THEN shown ELSE len,
           NEW taken \in Nat, taken = len - own + 1,
           NEW left \in Nat, left = IF taken < cols THEN cols - taken ELSE 0,
           shown < IF left < max THEN left ELSE max
    PROVE  shown < max /\ shown < cols - (len - shown) - 1
<1>1. shown < left /\ shown < max
  OBVIOUS
<1>2. left = cols - taken
  BY <1>1
<1>3. shown < cols - (len - own) - 1
  BY <1>1, <1>2
<1>4. own <= shown
  OBVIOUS
<1> QED BY <1>1, <1>3, <1>4

LEMMA RoomIs ==
    ASSUME NEW e \in Edits, NEW s \in Rows, e.shown \in Nat
    PROVE  /\ room(e, s) \in Int
           /\ e.shown < room(e, s) => /\ e.shown < LINE_MAX
                                      /\ Windowed => e.shown < COLS - (Len(s.cells) - e.shown) - 1
<1>1. PICK len \in Nat : len = Len(s.cells)
  BY DEF Rows
<1>2. PICK shown \in Nat : shown = e.shown
  OBVIOUS
<1>3. PICK own \in Nat : own = IF shown < len THEN shown ELSE len
  OBVIOUS
<1>4. own <= len
  BY <1>3
<1>5. PICK taken \in Nat : taken = len - own + 1
  BY <1>4
<1>6. COLS \in Nat /\ LINE_MAX \in Nat
  BY PromptAssumption
<1>7. PICK left \in Nat : left = IF taken < COLS THEN COLS - taken ELSE 0
  BY <1>6
<1>8. room(e, s) = IF ~Windowed THEN LINE_MAX ELSE IF left < LINE_MAX THEN left ELSE LINE_MAX
  BY <1>1, <1>2, <1>3, <1>5, <1>7, Zenon DEF room, Room
<1>9. CASE ~Windowed
  BY <1>2, <1>6, <1>8, <1>9
<1>10. CASE Windowed
  <2>1. room(e, s) = IF left < LINE_MAX THEN left ELSE LINE_MAX
    BY <1>8, <1>10
  <2>2. shown < room(e, s) => shown < LINE_MAX /\ shown < COLS - (len - shown) - 1
    BY <1>3, <1>5, <1>6, <1>7, <2>1, RowRoom
  <2> QED BY <1>1, <1>2, <1>6, <2>1, <2>2
<1> QED BY <1>9, <1>10

\* A printable key.
LEMMA InsertKeeps ==
    ASSUME NEW x, Fine(x), NEW c \in Chars,
           x.e.pos <= Len(x.e.buf) \/ ~(Len(x.e.buf) < room(x.e, x.s))
    PROVE  Keeps(x, insert_printable(x, c))
<1>1. PICK e \in Edits : e = x.e
  BY FineParts
<1>2. PICK s \in Rows : s = x.s
  BY FineParts
<1>3. PICK L \in Nat : L = Len(e.buf)
  BY EditFields
<1>4. PICK b : b = InsertAt(e.buf, e.pos + 1, c)
  OBVIOUS
<1>5. PICK new : new = [e EXCEPT !.buf = b, !.pos = e.pos + 1]
  OBVIOUS
<1>6. /\ e.buf \in Seq(Char) /\ e.pos \in Nat /\ L <= LINE_MAX /\ LINE_MAX \in Nat
      /\ e.shown = L /\ e.nav <= e.n /\ COLS \in Nat
      /\ Len(s.cells) \in Nat /\ c \in Char
  <2>1. e.buf \in Seq(Char) /\ e.pos \in Nat /\ L <= LINE_MAX
    BY <1>3, EditFields
  <2>2. e.shown = L /\ e.nav <= e.n
    BY <1>1, <1>3, FineParts
  <2>3. Len(s.cells) \in Nat /\ c \in Char
    BY DEF Rows, Char
  <2> QED BY <2>1, <2>2, <2>3, PromptAssumption
<1>7. /\ room(e, s) \in Int
      /\ L < room(e, s) => /\ L < LINE_MAX
                           /\ Windowed => L < COLS - (Len(s.cells) - L) - 1
  <2>1. e.shown = L /\ e.shown \in Nat
    BY <1>6
  <2> QED BY <2>1, RoomIs
<1>8. CASE ~(L < room(e, s))
  <2>1. insert_printable(x, c) = x
    BY <1>1, <1>2, <1>3, <1>6, <1>7, <1>8 DEF insert_printable
  <2> QED BY <2>1, FineParts DEF Keeps
<1>9. CASE L < room(e, s)
  <2>1. e.pos \in 0..L /\ L < LINE_MAX
    BY <1>1, <1>2, <1>3, <1>6, <1>7, <1>9
  <2>2. b \in Seq(Char) /\ Len(b) = L + 1 /\ b[e.pos + 1] = c /\ \A i \in 1..e.pos : b[i] = e.buf[i]
    <3>1. PICK l \in Seq(Char) : l = e.buf
      BY <1>6
    <3>2. PICK p \in 0..Len(l) : p = e.pos
      BY <1>3, <2>1, <3>1
    <3>3. PICK d \in Char : d = c
      BY <1>6
    <3>4. b = InsertAt(l, p + 1, d)
      BY <1>4, <3>1, <3>2, <3>3
    <3>5. Inserted(b, l, p, d)
      BY <3>4, InsertIs
    <3> QED BY <1>3, <3>1, <3>2, <3>3, <3>5, Zenon DEF Inserted
  <2>3. b \in Lines /\ e.pos + 1 \in 0..LINE_MAX
    BY <1>6, <2>1, <2>2, LineIs
  <2>4. /\ new \in Edits /\ new.buf = b /\ new.pos = e.pos + 1 /\ new.shown = e.shown
        /\ new.nav = e.nav /\ new.n = e.n /\ SamePast(e, new)
    BY <1>5, <2>3 DEF Edits, SamePast
  <2>5. insert_printable(x, c) =
            IF new.pos = Len(new.buf) /\ e.shown = Len(e.buf)
            THEN [x EXCEPT !.e = [new EXCEPT !.shown = Len(new.buf)], !.s = print_ch(x.s, c)]
            ELSE redraw([x EXCEPT !.e = new], new.pos)
    BY <1>1, <1>2, <1>3, <1>4, <1>5, <1>6, <1>7, <1>9 DEF insert_printable
  <2>6. CASE new.pos = Len(new.buf)
    <3>1. PICK f : f = [new EXCEPT !.shown = Len(new.buf)]
      OBVIOUS
    <3>2. PICK t : t = print_ch(x.s, c)
      OBVIOUS
    <3>3. L + 1 \in 0..LINE_MAX
      BY <1>3, <1>6, <2>1
    <3>4. /\ f \in Edits /\ f.buf = b /\ f.pos = e.pos + 1 /\ f.shown = Len(f.buf)
          /\ f.nav = e.nav /\ f.n = e.n /\ SamePast(e, f)
      BY <2>2, <2>4, <3>1, <3>3 DEF Edits, SamePast
    <3>5. e.pos = L
      BY <1>6, <2>2, <2>4, <2>6
    <3>6. Windowed => Len(x.s.cells) + 1 < COLS
      <4>1. Windowed => Len(s.cells) + 1 < COLS
        <5>1. PICK n \in Nat : n = Len(s.cells)
          BY <1>6
        <5>2. Windowed => L < COLS - (n - L) - 1
          BY <1>7, <1>9, <5>1, Zenon
        <5>3. COLS \in Nat
          BY <1>6
        <5>4. Windowed => n + 1 < COLS
          BY <5>2, <5>3
        <5> QED BY <5>1, <5>4
      <4> QED BY <1>2, <4>1
    <3>7. t \in Rows /\ (x.odd = {} => Sharp(f, t))
      BY <1>1, <1>3, <2>2, <3>2, <3>4, <3>5, <3>6, PrintedAtEnd
    <3>8. insert_printable(x, c) = [x EXCEPT !.e = f, !.s = t]
      BY <1>3, <1>6, <2>5, <2>6, <3>1, <3>2
    <3>9. ~(Len(f.buf) = 0) /\ f.nav <= f.n
      BY <1>3, <1>6, <2>2, <3>4
    <3> QED BY <1>1, <3>4, <3>7, <3>8, <3>9, KeptBy
  <2>7. CASE new.pos # Len(new.buf)
    <3>1. insert_printable(x, c) = redraw([x EXCEPT !.e = new], new.pos)
      BY <2>5, <2>7
    <3>2. new.pos <= Len(new.buf) /\ new.nav <= new.n
      BY <1>3, <1>6, <2>1, <2>2, <2>4
    <3> QED BY <1>1, <2>4, <3>1, <3>2, EditRedraw
  <2> QED BY <2>6, <2>7
<1> QED BY <1>8, <1>9

\* The last cell of the line rubbed out.
LEMMA RubbedAtEnd ==
    ASSUME NEW x, Fine(x), x.e.pos # 0, x.e.pos = Len(x.e.buf), NEW f \in Edits,
           f.pos = x.e.pos - 1, Len(f.buf) = Len(x.e.buf) - 1,
           \A i \in 1..x.e.pos - 1 : f.buf[i] = x.e.buf[i],
           NEW t, t = Rub(x.s)
    PROVE  t \in Rows /\ (x.odd = {} => Sharp(f, t))
<1>1. PICK e \in Edits : e = x.e
  BY FineParts
<1>2. PICK s \in Rows : s = x.s
  BY FineParts
<1>3. PICK L \in Nat : /\ L + 1 = Len(e.buf) /\ e.pos = L + 1 /\ f.pos = L /\ Len(f.buf) = L
                       /\ \A i \in 1..L : f.buf[i] = e.buf[i]
  <2>1. Len(e.buf) \in Nat /\ e.pos = Len(e.buf) /\ e.pos # 0
    BY <1>1, EditFields
  <2>2. PICK n \in Nat : n = Len(e.buf) /\ n # 0
    BY <2>1
  <2> DEFINE L == n - 1
  <2>3. L \in Nat /\ (L + 1) - 1 = L /\ L + 1 = n
    BY <2>2
  <2> HIDE DEF L
  <2>4. /\ L + 1 = Len(e.buf) /\ e.pos = L + 1 /\ f.pos = L /\ Len(f.buf) = L
        /\ \A i \in 1..L : f.buf[i] = e.buf[i]
    <3>1. L = n - 1
      BY DEF L
    <3> QED BY <1>1, <2>1, <2>2, <2>3, <3>1, Zenon
  <2> QED BY <2>3, <2>4
<1>4. s.cells \in Seq(Cell) /\ Len(s.cells) \in Nat /\ s.off \in Nat /\ BLANK \in Cell
  BY DEF Cell, Rows
<1>5. x.odd = {} => /\ Len(s.cells) >= L + 2 /\ s.cells[1] = ">"
                    /\ \A i \in L + 3..Len(s.cells) : s.cells[i] = BLANK
                    /\ Windowed => Len(s.cells) = L + 2
                    /\ \A i \in 1..L : s.cells[i + 1] = e.buf[i]
                    /\ s.off = Len(s.cells) - 1 - (L + 1) /\ Caret(s) = L + 2
  <2>1. SUFFICES ASSUME x.odd = {}
                 PROVE  /\ Len(s.cells) >= L + 2 /\ s.cells[1] = ">"
                        /\ \A i \in L + 3..Len(s.cells) : s.cells[i] = BLANK
                        /\ Windowed => Len(s.cells) = L + 2
                        /\ \A i \in 1..L : s.cells[i + 1] = e.buf[i]
                        /\ s.off = Len(s.cells) - 1 - (L + 1) /\ Caret(s) = L + 2
    OBVIOUS
  <2>2. Sharp(e, s) /\ Caret(s) = e.pos + 1
    BY <1>1, <1>2, <2>1, FineParts
  <2>3. L + 1 + 1 = L + 2 /\ L + 1 + 2 = L + 3 /\ \A i \in 1..L : i \in 1..L + 1
    OBVIOUS
  <2> QED BY <1>3, <2>2, <2>3, Zenon DEF Sharp, Holds
<1>6. CASE Windowed
  <2>1. PICK k : k = IF s.cells = <<>> THEN s.cells ELSE Front(s.cells)
    OBVIOUS
  <2>2. t = [s EXCEPT !.cells = k]
    BY <1>2, <1>6, <2>1 DEF Rub
  <2>3. k \in Seq(Cell) /\ (Len(s.cells) = L + 2 => /\ Len(k) = L + 1
                                                   /\ \A i \in 1..L + 1 : k[i] = s.cells[i])
    <3>1. CASE s.cells = <<>>
      BY <1>4, <2>1, <3>1
    <3>2. CASE s.cells # <<>>
      <4>1. k = SubSeq(s.cells, 1, Len(s.cells) - 1)
        BY <2>1, <3>2 DEF Front
      <4>2. PICK c \in Seq(Cell) : c = s.cells
        BY <1>4
      <4>0. Len(c) - 1 \in 0..Len(c)
        BY <3>2, <4>2
      <4>3. PICK n \in 0..Len(c) : n = Len(c) - 1
        BY <4>0, Zenon
      <4>4. k = SubSeq(c, 1, n)
        BY <4>1, <4>2, <4>3
      <4>5. /\ SubSeq(c, 1, n) \in Seq(Cell)
            /\ Len(SubSeq(c, 1, n)) = IF 1 <= n THEN n + 1 - 1 ELSE 0
            /\ \A i \in 1..n + 1 - 1 : SubSeq(c, 1, n)[i] = c[1 + i - 1]
        BY PartIs
      <4>6. ASSUME Len(s.cells) = L + 2
            PROVE  Len(k) = L + 1 /\ \A i \in 1..L + 1 : k[i] = s.cells[i]
        <5>1. n = L + 1
          BY <4>2, <4>3, <4>6
        <5>2. Len(k) = L + 1
          BY <4>4, <4>5, <5>1
        <5>3. ASSUME NEW i \in 1..L + 1 PROVE k[i] = s.cells[i]
          <6>1. i \in 1..n + 1 - 1 /\ 1 + i - 1 = i
            BY <5>1
          <6> QED BY <4>2, <4>4, <4>5, <6>1
        <5> QED BY <5>2, <5>3
      <4> QED BY <4>4, <4>5, <4>6
    <3> QED BY <3>1, <3>2
  <2>4. t \in Rows /\ t.cells = k /\ t.off = s.off
    BY <2>2, <2>3 DEF Rows
  <2>5. ASSUME x.odd = {} PROVE Sharp(f, t)
    <3>1. Len(k) = L + 1 /\ \A i \in 1..L + 1 : k[i] = s.cells[i]
      BY <1>5, <1>6, <2>3, <2>5
    <3>2. s.off = 0 /\ 1 \in 1..L + 1 /\ (L + 1) - 1 - L = 0
      BY <1>5, <1>6, <2>5
    <3>3. k[1] = ">" /\ t.off = Len(k) - 1 - L
      BY <1>5, <2>4, <2>5, <3>1, <3>2
    <3>4. \A i \in 1..L : k[i + 1] = f.buf[i]
      <4>1. SUFFICES ASSUME NEW i \in 1..L PROVE k[i + 1] = f.buf[i]
        OBVIOUS
      <4>2. i + 1 \in 1..L + 1
        OBVIOUS
      <4> QED BY <1>3, <1>5, <2>5, <3>1, <4>2
    <3>5. Holds(t, L)
      BY <2>4, <3>1, <3>3 DEF Holds
    <3>6. L <= L
      OBVIOUS
    <3> QED BY <1>3, <2>4, <3>3, <3>4, <3>5, <3>6, Zenon DEF Sharp
  <2> QED BY <2>4, <2>5
<1>7. CASE ~Windowed
  <2>1. PICK text : text = <<BLANK>>
    OBVIOUS
  <2>2. text \in Seq(Cell) /\ Len(text) = 1 /\ text[1] = BLANK
    BY <1>4, <2>1
  <2>3. PICK back : back = Left(s, 1)
    OBVIOUS
  <2>4. PICK o : o = Over(back, text)
    OBVIOUS
  <2>5. t = Left(o, 1)
    BY <1>2, <1>7, <2>1, <2>3, <2>4 DEF Rub
  <2>6. /\ back \in Rows /\ back.cells = s.cells
        /\ Caret(back) = IF Caret(s) >= 1 THEN Caret(s) - 1 ELSE 0
    BY <2>3, LeftCaret
  <2>7. Printed(o, back, text)
    BY <2>2, <2>4, <2>6, OverPrints
  <2>8. o \in Rows
    BY <2>7 DEF Printed
  <2>9. /\ t \in Rows /\ t.cells = o.cells /\ t.off = Len(t.cells) - Caret(t)
        /\ Caret(t) = IF Caret(o) >= 1 THEN Caret(o) - 1 ELSE 0
    BY <2>5, <2>8, LeftCaret
  <2>10. ASSUME x.odd = {} PROVE Sharp(f, t)
    <3>1. Caret(back) = L + 1 /\ Caret(back) + Len(text) = L + 2
      <4>1. Caret(s) = L + 2
        BY <1>5, <2>10
      <4> QED BY <2>2, <2>6, <4>1
    <3>2. /\ Caret(o) = L + 2
          /\ L + 2 < Len(s.cells) => Len(o.cells) = Len(s.cells)
          /\ ~(L + 2 < Len(s.cells)) => Len(o.cells) = L + 2
          /\ \A i \in 1..Len(o.cells) :
                /\ i <= L + 1 \/ i > L + 2 => o.cells[i] = s.cells[i]
                /\ L + 1 < i /\ i <= L + 2 => o.cells[i] = text[i - (L + 1)]
      BY <2>6, <2>7, <3>1, Zenon DEF Printed
    <3>3. Len(o.cells) = Len(s.cells) /\ Len(s.cells) >= L + 2
      BY <1>4, <1>5, <2>10, <3>2
    <3>4. o.cells[L + 2] = BLANK
      <4>0. PICK n \in Nat : n = Len(o.cells) /\ n >= L + 2
        BY <1>4, <3>3
      <4>1. L + 2 \in 1..n /\ L + 1 < L + 2 /\ L + 2 - (L + 1) = 1 /\ L + 2 <= L + 2
        BY <4>0
      <4> QED BY <2>2, <3>2, <4>0, <4>1
    <3>5. \A i \in L + 2..Len(o.cells) : o.cells[i] = BLANK
      <4>1. SUFFICES ASSUME NEW i \in L + 2..Len(o.cells) PROVE o.cells[i] = BLANK
        OBVIOUS
      <4>2. CASE i = L + 2
        BY <3>4, <4>2
      <4>3. CASE i > L + 2
        <5>1. i \in 1..Len(o.cells) /\ i \in L + 3..Len(s.cells)
          BY <1>4, <3>3, <4>3
        <5> QED BY <1>5, <2>10, <3>2, <4>3, <5>1
      <4> QED BY <1>4, <3>3, <4>2, <4>3
    <3>6. o.cells[1] = ">" /\ \A i \in 1..L : o.cells[i + 1] = f.buf[i]
      <4>1. 1 \in 1..Len(o.cells) /\ 1 <= L + 1
        BY <1>4, <3>3
      <4>2. o.cells[1] = s.cells[1]
        BY <3>2, <4>1
      <4>3. ASSUME NEW i \in 1..L PROVE o.cells[i + 1] = f.buf[i]
        <5>1. i + 1 \in 1..Len(o.cells) /\ i + 1 <= L + 1
          BY <1>4, <3>3
        <5> QED BY <1>3, <1>5, <2>10, <3>2, <5>1
      <4> QED BY <1>5, <2>10, <4>2, <4>3
    <3>7. Caret(t) = L + 1
      BY <2>9, <3>2
    <3>8. t.off = Len(t.cells) - 1 - L /\ L <= L
      <4>1. Len(t.cells) = Len(s.cells) /\ Len(s.cells) - (L + 1) = Len(s.cells) - 1 - L
        BY <1>4, <2>9, <3>3
      <4>2. t.off = Len(s.cells) - (L + 1)
        BY <2>9, <3>7, <4>1, Zenon
      <4>3. L <= L
        OBVIOUS
      <4> QED BY <4>1, <4>2, <4>3, Zenon
    <3>9. Holds(t, L)
      <4>1. Len(o.cells) >= L + 1
        BY <1>4, <3>3
      <4> QED BY <1>7, <2>9, <3>5, <3>6, <4>1 DEF Holds
    <3> QED BY <1>3, <2>9, <3>6, <3>8, <3>9, Zenon DEF Sharp
  <2> QED BY <2>9, <2>10
<1> QED BY <1>6, <1>7

\* The backspace key.
LEMMA BackspaceKeeps ==
    ASSUME NEW x, Fine(x), x.e.pos <= Len(x.e.buf)
    PROVE  Keeps(x, backspace(x))
<1>1. PICK e \in Edits : e = x.e
  BY FineParts
<1>2. PICK L \in Nat : L = Len(e.buf) /\ L <= LINE_MAX
  BY EditFields
<1>3. /\ e.buf \in Seq(Char) /\ e.pos \in Nat /\ e.shown = L /\ e.nav <= e.n /\ e.pos <= L
      /\ LINE_MAX \in Nat
  <2>1. e.buf \in Seq(Char) /\ e.pos \in Nat
    BY EditFields
  <2>2. e.shown = L /\ e.nav <= e.n
    BY <1>1, <1>2, FineParts
  <2> QED BY <1>1, <1>2, <2>1, <2>2, PromptAssumption
<1>4. CASE e.pos = 0
  <2>1. backspace(x) = x
    BY <1>1, <1>4 DEF backspace
  <2> QED BY <2>1, FineParts DEF Keeps
<1>5. CASE e.pos # 0
  <2>1. PICK b : b = RemoveAt(e.buf, e.pos)
    OBVIOUS
  <2>2. PICK new : new = [e EXCEPT !.buf = b, !.pos = e.pos - 1]
    OBVIOUS
  <2>3. b \in Seq(Char) /\ Len(b) = L - 1 /\ \A i \in 1..e.pos - 1 : b[i] = e.buf[i]
    <3>1. PICK l \in Seq(Char) : l = e.buf
      BY <1>3
    <3>2. PICK p \in 1..Len(l) : p = e.pos
      BY <1>2, <1>3, <1>5, <3>1
    <3>3. b = RemoveAt(l, p)
      BY <2>1, <3>1, <3>2
    <3>4. /\ b \in Seq(Char) /\ Len(b) = Len(l) - 1
          /\ \A i \in 1..p - 1 : b[i] = l[i]
      BY <3>3, RemoveIs
    <3> QED BY <1>2, <3>1, <3>2, <3>4, Zenon
  <2>4. b \in Lines /\ e.pos - 1 \in 0..LINE_MAX /\ L - 1 \in 0..LINE_MAX
    <3>1. L - 1 <= LINE_MAX /\ e.pos - 1 \in 0..LINE_MAX /\ L - 1 \in 0..LINE_MAX
      BY <1>2, <1>3, <1>5
    <3> QED BY <2>3, <3>1, LineIs
  <2>5. /\ new \in Edits /\ new.buf = b /\ new.pos = e.pos - 1 /\ new.shown = e.shown
        /\ new.nav = e.nav /\ new.n = e.n /\ SamePast(e, new)
    BY <2>2, <2>4 DEF Edits, SamePast
  <2>6. backspace(x) =
            IF e.pos = Len(e.buf) /\ e.shown = Len(e.buf)
            THEN [x EXCEPT !.e = [new EXCEPT !.shown = @ - 1], !.s = Rub(x.s)]
            ELSE redraw([x EXCEPT !.e = new], new.pos)
    BY <1>1, <1>5, <2>1, <2>2 DEF backspace
  <2>7. CASE e.pos = L
    <3>1. PICK f : f = [new EXCEPT !.shown = new.shown - 1]
      OBVIOUS
    <3>2. PICK t : t = Rub(x.s)
      OBVIOUS
    <3>3. new.shown - 1 = L - 1
      BY <1>3, <2>5
    <3>4. /\ f \in Edits /\ f.buf = b /\ f.pos = e.pos - 1 /\ f.shown = Len(f.buf)
          /\ f.nav = e.nav /\ f.n = e.n /\ SamePast(e, f)
      BY <2>3, <2>4, <2>5, <3>1, <3>3 DEF Edits, SamePast
    <3>5. t \in Rows /\ (x.odd = {} => Sharp(f, t))
      <4>1. Len(f.buf) = Len(x.e.buf) - 1
        BY <1>1, <1>2, <2>3, <3>4
      <4>2. \A i \in 1..x.e.pos - 1 : f.buf[i] = x.e.buf[i]
        BY <1>1, <2>3, <3>4
      <4>3. x.e.pos # 0 /\ x.e.pos = Len(x.e.buf) /\ f.pos = x.e.pos - 1
        BY <1>1, <1>2, <1>5, <2>7, <3>4
      <4> QED BY <3>2, <3>4, <4>1, <4>2, <4>3, RubbedAtEnd
    <3>6. backspace(x) = [x EXCEPT !.e = f, !.s = t]
      BY <1>2, <1>3, <2>6, <2>7, <3>1, <3>2
    <3>7. f.nav <= f.n /\ (Len(f.buf) = 0 => f.pos = 0)
      BY <1>2, <1>3, <2>3, <2>7, <3>4
    <3> QED BY <1>1, <3>4, <3>5, <3>6, <3>7, KeptBy
  <2>8. CASE e.pos # L
    <3>1. backspace(x) = redraw([x EXCEPT !.e = new], new.pos)
      BY <1>2, <2>6, <2>8
    <3>2. new.pos <= Len(new.buf) /\ new.nav <= new.n
      BY <1>2, <1>3, <2>3, <2>5
    <3> QED BY <1>1, <2>5, <3>1, <3>2, EditRedraw
  <2> QED BY <2>7, <2>8
<1> QED BY <1>4, <1>5

\* The delete key.
LEMMA DeleteKeeps ==
    ASSUME NEW x, Fine(x)
    PROVE  Keeps(x, forward_delete(x))
<1>1. PICK e \in Edits : e = x.e
  BY FineParts
<1>2. PICK L \in Nat : L = Len(e.buf) /\ L <= LINE_MAX
  BY EditFields
<1>3. /\ e.buf \in Seq(Char) /\ e.pos \in Nat /\ e.nav <= e.n /\ LINE_MAX \in Nat
  BY <1>1, EditFields, FineParts, PromptAssumption
<1>4. CASE e.pos >= L
  <2>1. forward_delete(x) = x
    BY <1>1, <1>2, <1>4 DEF forward_delete
  <2> QED BY <2>1, FineParts DEF Keeps
<1>5. CASE ~(e.pos >= L)
  <2>1. PICK b : b = RemoveAt(e.buf, e.pos + 1)
    OBVIOUS
  <2>2. PICK f : f = [e EXCEPT !.buf = b]
    OBVIOUS
  <2>3. b \in Seq(Char) /\ Len(b) = L - 1
    <3>1. PICK l \in Seq(Char) : l = e.buf
      BY <1>3
    <3>2. PICK p \in 1..Len(l) : p = e.pos + 1
      BY <1>2, <1>3, <1>5, <3>1
    <3>3. b = RemoveAt(l, p)
      BY <2>1, <3>1, <3>2
    <3>4. b \in Seq(Char) /\ Len(b) = Len(l) - 1
      BY <3>3, RemoveIs
    <3> QED BY <1>2, <3>1, <3>4
  <2>4. b \in Lines
    <3>1. L - 1 <= LINE_MAX
      BY <1>2, <1>3
    <3> QED BY <2>3, <3>1, LineIs
  <2>5. /\ f \in Edits /\ f.buf = b /\ f.pos = e.pos /\ f.shown = e.shown
        /\ f.nav = e.nav /\ f.n = e.n /\ SamePast(e, f)
    BY <2>2, <2>4 DEF Edits, SamePast
  <2>6. forward_delete(x) = redraw([x EXCEPT !.e = f], f.pos)
    <3>1. x \in Screens
      BY FineParts
    <3>2. [x EXCEPT !.e.buf = RemoveAt(@, e.pos + 1)] = [x EXCEPT !.e = f]
      BY <1>1, <2>1, <2>2, <3>1 DEF Screens
    <3> QED BY <1>1, <1>2, <1>5, <2>5, <3>2 DEF forward_delete
  <2>7. f.pos <= Len(f.buf) /\ f.nav <= f.n
    BY <1>2, <1>3, <1>5, <2>3, <2>5
  <2> QED BY <1>1, <2>5, <2>6, <2>7, EditRedraw
<1> QED BY <1>4, <1>5

\* A slot of the history, without the remainder.
LEMMA SlotIs ==
    ASSUME NEW e \in Edits, NEW back \in 0..HIST_MAX - 1
    PROVE  /\ hist_slot(e, back) \in 0..HIST_MAX - 1
           /\ back < e.head => hist_slot(e, back) = e.head - 1 - back
           /\ ~(back < e.head) => hist_slot(e, back) = e.head - 1 - back + HIST_MAX
<1>1. PICK h \in 0..HIST_MAX - 1 : h = e.head
  BY DEF Edits
<1>2. HIST_MAX \in Nat /\ HIST_MAX > 0 /\ h \in Nat /\ back \in Nat /\ h < HIST_MAX /\ back < HIST_MAX
  BY PromptAssumption
<1> DEFINE x == h + HIST_MAX * 2 - 1 - back
<1>3. x \in Nat /\ x = h - 1 - back + HIST_MAX + HIST_MAX
  BY <1>2
<1>4. /\ back < h => x >= HIST_MAX + HIST_MAX /\ x < HIST_MAX + HIST_MAX + HIST_MAX
      /\ ~(back < h) => x >= HIST_MAX /\ x < HIST_MAX + HIST_MAX
  BY <1>2, <1>3
<1> HIDE DEF x
<1>5. /\ x % HIST_MAX \in 0..HIST_MAX - 1
      /\ x >= HIST_MAX /\ x < HIST_MAX + HIST_MAX => x % HIST_MAX = x - HIST_MAX
      /\ x >= HIST_MAX + HIST_MAX /\ x < HIST_MAX + HIST_MAX + HIST_MAX
         => x % HIST_MAX = x - HIST_MAX - HIST_MAX
  BY <1>2, <1>3
<1>6. hist_slot(e, back) = x % HIST_MAX
  BY <1>1 DEF hist_slot, x
<1> QED BY <1>1, <1>2, <1>3, <1>4, <1>5, <1>6

\* A line put in the place of the one being edited.
LEMMA LoadedIs ==
    ASSUME NEW e \in Edits, NEW line \in Lines, NEW f, f = Loaded(e, line)
    PROVE  /\ f \in Edits /\ f.buf = line /\ f.pos = Len(line) /\ f.shown = e.shown
           /\ f.nav = e.nav /\ f.n = e.n /\ SamePast(e, f) /\ Len(line) \in Nat
<1>1. Len(line) \in 0..LINE_MAX /\ Len(line) \in Nat
  BY LineIs, PromptAssumption
<1> QED BY <1>1 DEF Loaded, Edits, SamePast

LEMMA UpKeeps ==
    ASSUME NEW x, Fine(x)
    PROVE  Keeps(x, history_up(x))
<1>1. PICK e \in Edits : e = x.e
  BY FineParts
<1>2. CASE e.nav >= e.n
  <2>1. history_up(x) = x
    BY <1>1, <1>2 DEF history_up
  <2> QED BY <2>1, FineParts DEF Keeps
<1>3. CASE ~(e.nav >= e.n)
  <2>1. /\ e.nav \in Nat /\ e.n \in Nat /\ e.n <= HIST_MAX /\ HIST_MAX \in Nat /\ e.buf \in Lines
        /\ e.head \in 0..HIST_MAX - 1 /\ e.hist \in [0..HIST_MAX - 1 -> Lines]
    BY EditFields, PromptAssumption DEF Edits
  <2>2. e.nav \in 0..HIST_MAX - 1 /\ e.nav + 1 \in 0..HIST_MAX /\ e.nav + 1 <= e.n
    BY <1>3, <2>1
  <2>3. PICK line \in Lines : line = e.hist[hist_slot(e, e.nav)]
    BY <2>1, <2>2, SlotIs
  <2>4. PICK parked : parked = IF e.nav = 0 THEN [e EXCEPT !.stash = e.buf] ELSE e
    OBVIOUS
  <2>5. /\ parked \in Edits /\ parked.shown = e.shown /\ parked.nav = e.nav /\ SamePast(e, parked)
    BY <2>1, <2>4 DEF Edits, SamePast
  <2>6. PICK g : g = [parked EXCEPT !.nav = parked.nav + 1]
    OBVIOUS
  <2>7. g \in Edits /\ g.shown = e.shown /\ g.nav = e.nav + 1 /\ SamePast(e, g)
    <3>1. PICK v \in 0..HIST_MAX : v = e.nav + 1
      BY <2>2
    <3>2. g = [parked EXCEPT !.nav = v]
      BY <2>5, <2>6, <3>1
    <3>3. g \in Edits
      BY <2>5, <3>2 DEF Edits
    <3>4. g.shown = parked.shown /\ g.nav = v /\ g.hist = parked.hist /\ g.head = parked.head
          /\ g.n = parked.n
      BY <2>5, <3>2 DEF Edits
    <3> QED BY <2>5, <3>1, <3>3, <3>4, ZenonT(40) DEF SamePast
  <2>8. PICK up : up = Loaded(g, line)
    OBVIOUS
  <2>9. history_up(x) = redraw([x EXCEPT !.e = up], up.pos)
    BY <1>1, <1>3, <2>3, <2>4, <2>6, <2>8 DEF history_up
  <2>10. /\ up \in Edits /\ up.buf = line /\ up.pos = Len(line) /\ up.shown = g.shown
         /\ up.nav = g.nav /\ up.n = g.n /\ SamePast(g, up) /\ Len(line) \in Nat
    BY <2>7, <2>8, LoadedIs
  <2>11. SamePast(e, up) /\ up.n = e.n /\ up.shown = e.shown /\ up.nav = e.nav + 1
    BY <2>7, <2>10 DEF SamePast
  <2>12. up.nav <= up.n /\ up.pos <= Len(up.buf)
    <3>1. up.nav <= up.n
      BY <2>2, <2>11, Zenon
    <3>2. PICK m \in Nat : up.pos = m /\ Len(up.buf) = m
      BY <2>10, Zenon
    <3>3. m <= m
      OBVIOUS
    <3>4. up.pos <= Len(up.buf)
      BY <3>2, <3>3, Zenon
    <3> QED BY <3>1, <3>4, Zenon
  <2> QED BY <1>1, <2>9, <2>10, <2>11, <2>12, EditRedraw
<1> QED BY <1>2, <1>3

\* The line after the one recalled, and one step towards it.
Below(e) == Loaded(e, IF e.nav = 0 THEN e.stash ELSE e.hist[hist_slot(e, e.nav - 1)])
SteppedDown(e) == [e EXCEPT !.nav = @ - 1]

LEMMA DownUnfolds ==
    ASSUME NEW x
    PROVE  history_down(x) =
             IF x.e.nav = 0 THEN x
             ELSE redraw([x EXCEPT !.e = Below(SteppedDown(x.e))], Below(SteppedDown(x.e)).pos)
BY ZenonT(60) DEF history_down, Below, SteppedDown

LEMMA DownKeeps ==
    ASSUME NEW x, Fine(x)
    PROVE  Keeps(x, history_down(x))
<1>1. PICK e \in Edits : e = x.e
  BY FineParts
<1>2. CASE e.nav = 0
  <2>1. history_down(x) = x
    BY <1>1, <1>2, DownUnfolds, Zenon
  <2> QED BY <2>1, FineParts DEF Keeps
<1>3. CASE e.nav # 0
  <2>1. /\ e.nav \in Nat /\ e.n \in Nat /\ e.n <= HIST_MAX /\ HIST_MAX \in Nat /\ e.stash \in Lines
        /\ e.head \in 0..HIST_MAX - 1 /\ e.hist \in [0..HIST_MAX - 1 -> Lines] /\ e.nav <= e.n
    BY <1>1, EditFields, FineParts, PromptAssumption DEF Edits
  <2>2. e.nav - 1 \in 0..HIST_MAX - 1 /\ e.nav - 1 \in 0..HIST_MAX /\ e.nav - 1 <= e.n
    BY <1>3, <2>1
  <2>6. PICK g : g = [e EXCEPT !.nav = e.nav - 1]
    OBVIOUS
  <2>7. /\ g \in Edits /\ g.shown = e.shown /\ g.nav = e.nav - 1 /\ SamePast(e, g)
        /\ g.head = e.head /\ g.hist = e.hist /\ g.stash = e.stash
    BY <2>2, <2>6 DEF Edits, SamePast
  <2>3. PICK line \in Lines : line = IF g.nav = 0 THEN g.stash ELSE g.hist[hist_slot(g, g.nav - 1)]
    <3>1. CASE g.nav = 0
      BY <2>1, <2>7, <3>1
    <3>2. CASE g.nav # 0
      <4>1. g.nav - 1 \in 0..HIST_MAX - 1
        BY <2>1, <2>2, <2>7, <3>2
      <4>2. hist_slot(g, g.nav - 1) \in 0..HIST_MAX - 1
        BY <2>7, <4>1, SlotIs, Zenon
      <4> QED BY <2>1, <2>7, <3>2, <4>2
    <3> QED BY <3>1, <3>2
  <2>8. PICK down : down = Loaded(g, line)
    OBVIOUS
  <2>9. history_down(x) = redraw([x EXCEPT !.e = down], down.pos)
    <3>1. SteppedDown(x.e) = g /\ x.e.nav # 0
      BY <1>1, <1>3, <2>6, Zenon DEF SteppedDown
    <3>2. Below(g) = down
      BY <2>3, <2>8, Zenon DEF Below
    <3>3. history_down(x) = redraw([x EXCEPT !.e = Below(g)], Below(g).pos)
      BY <3>1, DownUnfolds, Zenon
    <3> QED BY <3>2, <3>3
  <2>10. /\ down \in Edits /\ down.buf = line /\ down.pos = Len(line) /\ down.shown = g.shown
         /\ down.nav = g.nav /\ down.n = g.n /\ SamePast(g, down) /\ Len(line) \in Nat
    BY <2>7, <2>8, LoadedIs
  <2>11. SamePast(e, down) /\ down.n = e.n /\ down.shown = e.shown /\ down.nav = e.nav - 1
    BY <2>7, <2>10 DEF SamePast
  <2>12. down.nav <= down.n /\ down.pos <= Len(down.buf)
    <3>1. down.nav <= down.n
      BY <2>2, <2>11, Zenon
    <3>2. PICK m \in Nat : down.pos = m /\ Len(down.buf) = m
      BY <2>10, Zenon
    <3>3. m <= m
      OBVIOUS
    <3>4. down.pos <= Len(down.buf)
      BY <3>2, <3>3, Zenon
    <3> QED BY <3>1, <3>4, Zenon
  <2> QED BY <1>1, <2>9, <2>10, <2>11, <2>12, EditRedraw
<1> QED BY <1>2, <1>3

LEMMA KeepsOn ==
    ASSUME NEW x, NEW y, NEW z, Keeps(x, y), Keeps(y, z)
    PROVE  Keeps(x, z)
BY DEF Keeps, SamePast

\* Every key of the editor but Enter, Ctrl+C, Ctrl+D and Tab.
LEMMA EditedKeeps ==
    ASSUME NEW x, Fine(x), NEW k \in Keys \ {"enter", "intr", "eof", "tab"},
           k \in Chars => x.e.pos <= Len(x.e.buf) \/ ~(Len(x.e.buf) < room(x.e, x.s)),
           k = "bs" => x.e.pos <= Len(x.e.buf)
    PROVE  Keeps(x, Edited(x, k))
<1>1. x.e.pos \in Nat /\ Len(x.e.buf) \in Nat
  BY FineParts, EditFields
<1>2. Keeps(x, x)
  BY FineParts DEF Keeps
<1>3. \/ k \in Chars /\ k \notin Controls
      \/ k \in Controls /\ k \notin Chars
  BY PromptAssumption
<1>4. CASE k \in Chars
  <2>1. Edited(x, k) = insert_printable(x, k)
    BY <1>3, <1>4 DEF Edited, Controls
  <2> QED BY <1>4, <2>1, InsertKeeps
<1>5. CASE k \in Controls /\ k \notin Chars
  <2>1. CASE k = "bs"
    BY <1>5, <2>1, BackspaceKeeps DEF Edited
  <2>2. CASE k = "del"
    BY <1>5, <2>2, DeleteKeeps DEF Edited
  <2>3. CASE k = "left"
    <3>1. Edited(x, k) = IF x.e.pos > 0 THEN move_to(x, x.e.pos - 1) ELSE x
      BY <1>5, <2>3 DEF Edited
    <3>2. x.e.pos > 0 => x.e.pos - 1 \in Nat
      BY <1>1
    <3> QED BY <1>2, <3>1, <3>2, MoveKeeps
  <2>4. CASE k = "right"
    <3>1. Edited(x, k) = IF x.e.pos < Len(x.e.buf) THEN move_to(x, x.e.pos + 1) ELSE x
      BY <1>5, <2>4 DEF Edited
    <3>2. x.e.pos + 1 \in Nat
      BY <1>1
    <3> QED BY <1>2, <3>1, <3>2, MoveKeeps
  <2>5. CASE k = "home"
    <3>1. Edited(x, k) = move_to(x, 0)
      BY <1>5, <2>5 DEF Edited
    <3> QED BY <3>1, MoveKeeps
  <2>6. CASE k = "end"
    <3>1. Edited(x, k) = move_to(x, Len(x.e.buf))
      BY <1>5, <2>6 DEF Edited
    <3> QED BY <1>1, <3>1, MoveKeeps
  <2>7. CASE k = "up"
    BY <1>5, <2>7, UpKeeps DEF Edited
  <2>8. CASE k = "down"
    BY <1>5, <2>8, DownKeeps DEF Edited
  <2>9. CASE k = "pgup"
    <3>1. PICK a : a = history_up(x)
      OBVIOUS
    <3>2. PICK b : b = history_up(a)
      OBVIOUS
    <3>3. PICK c : c = history_up(b)
      OBVIOUS
    <3>4. PICK d : d = history_up(c)
      OBVIOUS
    <3>5. Edited(x, k) = d
      BY <1>5, <2>9, <3>1, <3>2, <3>3, <3>4 DEF Edited
    <3>6. Keeps(x, a) /\ Fine(a)
      BY <3>1, UpKeeps DEF Keeps
    <3>7. Keeps(a, b) /\ Fine(b)
      BY <3>2, <3>6, UpKeeps DEF Keeps
    <3>8. Keeps(b, c) /\ Fine(c)
      BY <3>3, <3>7, UpKeeps DEF Keeps
    <3>9. Keeps(c, d)
      BY <3>4, <3>8, UpKeeps
    <3> QED BY <3>5, <3>6, <3>7, <3>8, <3>9, KeepsOn
  <2>10. CASE k = "pgdn"
    <3>1. PICK a : a = history_down(x)
      OBVIOUS
    <3>2. PICK b : b = history_down(a)
      OBVIOUS
    <3>3. PICK c : c = history_down(b)
      OBVIOUS
    <3>4. PICK d : d = history_down(c)
      OBVIOUS
    <3>5. Edited(x, k) = d
      BY <1>5, <2>10, <3>1, <3>2, <3>3, <3>4 DEF Edited
    <3>6. Keeps(x, a) /\ Fine(a)
      BY <3>1, DownKeeps DEF Keeps
    <3>7. Keeps(a, b) /\ Fine(b)
      BY <3>2, <3>6, DownKeeps DEF Keeps
    <3>8. Keeps(b, c) /\ Fine(c)
      BY <3>3, <3>7, DownKeeps DEF Keeps
    <3>9. Keeps(c, d)
      BY <3>4, <3>8, DownKeeps
    <3> QED BY <3>5, <3>6, <3>7, <3>8, <3>9, KeepsOn
  <2> QED BY <1>5, <2>1, <2>2, <2>3, <2>4, <2>5, <2>6, <2>7, <2>8, <2>9, <2>10 DEF Controls
<1> QED BY <1>3, <1>4, <1>5

\* A line of the completer.
LEMMA CompletionIs ==
    ASSUME NEW e \in Edits, NEW comp \in Completions(e)
    PROVE  /\ comp.line \in Seq(Char) /\ Len(comp.line) \in Nat /\ comp.pos \in Nat
           /\ comp.list \in BOOLEAN
           /\ Len(e.buf) # 0 /\ e.pos # 0 => Len(comp.line) # 0
<1> DEFINE at == IF e.pos < Len(e.buf) THEN e.pos ELSE Len(e.buf)
           typed == SubSeq(e.buf, 1, at)
           words == {typed} \cup {typed \o <<c>> : c \in Chars}
<1>1. e.buf \in Seq(Char) /\ Len(e.buf) \in Nat /\ e.pos \in Nat
  BY EditFields
<1>2. at \in 0..Len(e.buf) /\ at \in Nat /\ (Len(e.buf) # 0 /\ e.pos # 0 => at # 0)
  <2>1. PICK p \in Nat, n \in Nat : p = e.pos /\ n = Len(e.buf)
    BY <1>1
  <2>2. PICK a : a = IF p < n THEN p ELSE n
    OBVIOUS
  <2>3. a \in 0..n /\ a \in Nat /\ (n # 0 /\ p # 0 => a # 0)
    BY <2>2
  <2>4. at = a
    BY <2>1, <2>2, Zenon
  <2> QED BY <2>1, <2>3, <2>4, Zenon
<1>0. /\ comp \in {[line |-> e.buf, pos |-> at, list |-> FALSE],
                   [line |-> typed, pos |-> at, list |-> TRUE]}
            \cup {[line |-> w, pos |-> Len(w), list |-> FALSE] : w \in words \ {typed}}
            \cup {[line |-> w \o <<BLANK>>, pos |-> Len(w), list |-> FALSE] : w \in words}
  BY DEF Completions
<1> HIDE DEF at
<1>3. typed \in Seq(Char) /\ Len(typed) \in Nat /\ (at # 0 => Len(typed) # 0)
  <2>1. PICK b \in Seq(Char) : b = e.buf
    BY <1>1
  <2>2. at \in 0..Len(b) /\ typed = SubSeq(b, 1, at)
    BY <1>2, <2>1
  <2>3. typed \in Seq(Char) /\ Len(typed) = IF 1 <= at THEN at + 1 - 1 ELSE 0
    BY <2>2, PartIs
  <2> HIDE DEF typed
  <2> QED BY <1>2, <2>3
<1> HIDE DEF typed
<1>4. ASSUME NEW w \in words PROVE w \in Seq(Char) /\ Len(w) \in Nat /\ (at # 0 => Len(w) # 0)
  <2>1. ASSUME NEW c \in Chars
        PROVE  LET v == typed \o <<c>> IN v \in Seq(Char) /\ Len(v) \in Nat /\ Len(v) # 0
    <3>1. <<c>> \in Seq(Char) /\ Len(<<c>>) = 1
      BY DEF Char
    <3> QED BY <1>3, <3>1
  <2> QED BY <1>3, <2>1
<1>5. ASSUME NEW w \in words
      PROVE  LET v == w \o <<BLANK>> IN v \in Seq(Char) /\ Len(v) \in Nat /\ Len(v) # 0
  <2>1. <<BLANK>> \in Seq(Char) /\ Len(<<BLANK>>) = 1
    BY DEF Char
  <2>2. w \in Seq(Char) /\ Len(w) \in Nat
    BY <1>4
  <2>3. w \o <<BLANK>> \in Seq(Char) /\ Len(w \o <<BLANK>>) = Len(w) + 1
    BY <2>1, <2>2
  <2> QED BY <2>2, <2>3
<1> HIDE DEF words
<1>6. CASE comp = [line |-> e.buf, pos |-> at, list |-> FALSE]
  BY <1>1, <1>2, <1>6
<1>7. CASE comp = [line |-> typed, pos |-> at, list |-> TRUE]
  BY <1>2, <1>3, <1>7
<1>8. ASSUME NEW w \in words, comp = [line |-> w, pos |-> Len(w), list |-> FALSE]
      PROVE  /\ comp.line \in Seq(Char) /\ Len(comp.line) \in Nat /\ comp.pos \in Nat
             /\ comp.list \in BOOLEAN
             /\ Len(e.buf) # 0 /\ e.pos # 0 => Len(comp.line) # 0
  BY <1>2, <1>4, <1>8
<1>9. ASSUME NEW w \in words, comp = [line |-> w \o <<BLANK>>, pos |-> Len(w), list |-> FALSE]
      PROVE  /\ comp.line \in Seq(Char) /\ Len(comp.line) \in Nat /\ comp.pos \in Nat
             /\ comp.list \in BOOLEAN
             /\ Len(e.buf) # 0 /\ e.pos # 0 => Len(comp.line) # 0
  BY <1>4, <1>5, <1>9
<1> QED BY <1>0, <1>6, <1>7, <1>8, <1>9

\* A terminal at a new prompt.
LEMMA PromptIs ==
    ASSUME NEW s \in Rows, NEW e \in Edits, Len(e.buf) = 0, e.pos = 0
    PROVE  /\ NewPrompt(s) \in Rows /\ Newline(s) \in Rows /\ Settled(s) \in SUBSET Causes
           /\ Settled(s) = {} => Sharp(e, NewPrompt(s))
<1>1. PROMPT \in Seq(Cell) /\ Len(PROMPT) = 1 /\ PROMPT[1] = ">" /\ <<>> \in Seq(Cell)
  BY DEF PROMPT, Cell
<1>2. PICK off : off = IF Windowed THEN s.off ELSE 0
  OBVIOUS
<1>3. off \in Nat
  BY <1>2 DEF Rows
<1>4. NewPrompt(s) = [cells |-> PROMPT, off |-> off] /\ Newline(s) = [cells |-> <<>>, off |-> off]
  BY <1>2 DEF NewPrompt, Newline, Fresh
<1>5. PICK t \in Rows : t = NewPrompt(s) /\ t.cells = PROMPT /\ t.off = off
  BY <1>1, <1>3, <1>4 DEF Rows
<1>6. Newline(s) \in Rows
  BY <1>1, <1>3, <1>4 DEF Rows
<1>7. Settled(s) \in SUBSET Causes /\ (Settled(s) = {} => off = 0)
  BY <1>2 DEF Settled, Causes
<1>8. ASSUME off = 0 PROVE Sharp(e, t)
  <2>1. Len(t.cells) = 1 /\ t.cells[1] = ">" /\ t.off = 0
    BY <1>1, <1>5, <1>8
  <2>2. Holds(t, 0)
    BY <2>1 DEF Holds
  <2>3. 0 = 1 - 1 - 0 /\ \A i \in 1..0 : t.cells[i + 1] = e.buf[i]
    OBVIOUS
  <2>4. e.pos <= Len(e.buf)
    OBVIOUS
  <2> QED BY <2>1, <2>2, <2>3, <2>4, Zenon DEF Sharp
<1> QED BY <1>5, <1>6, <1>7, <1>8

\* The empty line.
LEMMA CutIs ==
    ASSUME NEW e \in Edits
    PROVE  /\ Cut(e) \in Edits /\ SamePast(e, Cut(e)) /\ Len(Cut(e).buf) = 0 /\ Cut(e).pos = 0
           /\ Cut(e).buf = <<>> /\ Cut(e).shown = 0 /\ Cut(e).nav = 0
<1>1. <<>> \in Lines /\ 0 \in 0..LINE_MAX /\ 0 \in 0..HIST_MAX
  <2>1. <<>> \in Seq(Char) /\ Len(<<>>) = 0 /\ 0 <= LINE_MAX
    BY PromptAssumption
  <2>2. <<>> \in Lines
    BY <2>1, LineIs, Zenon
  <2> QED BY <2>2, PromptAssumption
<1> QED BY <1>1 DEF Cut, Edits, SamePast

\* The tab key: the row is not known to be sharp after it, unless nothing changed.
LEMMA TabKeeps ==
    ASSUME NEW x, Fine(x), NEW comp \in Completions(x.e)
    PROVE  Keeps(x, tab_complete(x, comp))
<1>1. PICK e \in Edits : e = x.e
  BY FineParts
<1>2. PICK s \in Rows : s = x.s
  BY FineParts
<1>3. /\ comp.line \in Seq(Char) /\ Len(comp.line) \in Nat /\ comp.pos \in Nat
      /\ comp.list \in BOOLEAN
      /\ Len(e.buf) # 0 /\ e.pos # 0 => Len(comp.line) # 0
  BY <1>1, CompletionIs
<1>4. PICK cut : cut = IF Len(comp.line) < LINE_MAX THEN Len(comp.line) ELSE LINE_MAX - 1
  OBVIOUS
<1>5. PICK b : b = IF comp.line = e.buf THEN e.buf ELSE SubSeq(comp.line, 1, cut)
  OBVIOUS
<1>6. /\ e.buf \in Seq(Char) /\ Len(e.buf) \in Nat /\ Len(e.buf) <= LINE_MAX /\ e.buf \in Lines
      /\ e.nav <= e.n /\ (Len(e.buf) = 0 => e.pos = 0) /\ LINE_MAX \in Nat /\ LINE_MAX > 1
  <2>1. Len(e.buf) = 0 => e.pos = 0
    BY <1>1 DEF Fine
  <2> QED BY <1>1, <2>1, EditFields, FineParts, PromptAssumption
<1>7. b \in Lines /\ Len(b) \in Nat /\ (Len(b) = 0 => e.pos = 0)
  <2>1. CASE comp.line = e.buf
    BY <1>5, <1>6, <2>1
  <2>2. CASE comp.line # e.buf
    <3>1. cut \in 0..Len(comp.line) /\ cut <= LINE_MAX /\ (Len(comp.line) # 0 => cut # 0)
      BY <1>3, <1>4, <1>6
    <3>2. b = SubSeq(comp.line, 1, cut)
      BY <1>5, <2>2
    <3>3. PICK l \in Seq(Char) : l = comp.line
      BY <1>3
    <3>4. b = SubSeq(l, 1, cut) /\ cut \in 0..Len(l)
      BY <3>1, <3>2, <3>3
    <3>5. b \in Seq(Char) /\ Len(b) = IF 1 <= cut THEN cut + 1 - 1 ELSE 0
      BY <3>4, PartIs
    <3>6. Len(b) = cut
      BY <3>1, <3>5
    <3> QED BY <1>3, <1>6, <3>1, <3>5, <3>6, LineIs
  <2> QED BY <2>1, <2>2
<1>8. PICK f : f = [e EXCEPT !.buf = b]
  OBVIOUS
<1>9. /\ f \in Edits /\ f.buf = b /\ f.pos = e.pos /\ f.shown = e.shown /\ f.nav = e.nav
      /\ f.n = e.n /\ SamePast(e, f)
  BY <1>7, <1>8 DEF Edits, SamePast
<1>10. PICK to : to = IF comp.pos < Len(f.buf) THEN comp.pos ELSE Len(f.buf)
  OBVIOUS
<1>11. to \in 0..Len(f.buf) /\ to \in Nat
  BY <1>3, <1>7, <1>9, <1>10
<1>12. PICK known : known = [x EXCEPT !.e = f, !.odd = x.odd \cup {"tab"}]
  OBVIOUS
<1>13. /\ known \in Screens /\ known.e = f /\ known.s = s /\ "tab" \in known.odd
  <2>1. x \in Screens /\ x.odd \in SUBSET Causes
    BY FineParts
  <2>2. PICK o \in SUBSET Causes : o = x.odd \cup {"tab"}
    BY <2>1 DEF Causes
  <2>3. known = [x EXCEPT !.e = f, !.odd = o]
    BY <1>12, <2>2
  <2> QED BY <1>2, <1>9, <2>1, <2>2, <2>3 DEF Screens
<1>14. PICK listed : listed = [known EXCEPT !.e.pos = 0, !.e.shown = 0, !.s = NewPrompt(known.s)]
  OBVIOUS
<1>15. tab_complete(x, comp) =
          IF comp.list THEN redraw(listed, to)
          ELSE IF comp.line # e.buf THEN redraw(known, to) ELSE move_to(x, to)
  <2> DEFINE C == IF Len(comp.line) < LINE_MAX THEN Len(comp.line) ELSE LINE_MAX - 1
             E == [x.e EXCEPT !.buf = IF comp.line = @ THEN @ ELSE SubSeq(comp.line, 1, C)]
             T == IF comp.pos < Len(E.buf) THEN comp.pos ELSE Len(E.buf)
             K == [x EXCEPT !.e = E, !.odd = @ \cup {"tab"}]
             P == [K EXCEPT !.e.pos = 0, !.e.shown = 0, !.s = NewPrompt(@)]
  <2>1. tab_complete(x, comp) =
            IF comp.list THEN redraw(P, T)
            ELSE IF comp.line # x.e.buf THEN redraw(K, T) ELSE move_to(x, T)
    BY ZenonT(40) DEF tab_complete
  <2>2. C = cut
    BY <1>4, Zenon
  <2> HIDE DEF C
  <2>3. E = f
    BY <1>1, <1>5, <1>8, <2>2, Zenon
  <2> HIDE DEF E
  <2>4. T = to /\ K = known
    BY <1>10, <1>12, <2>3, Zenon
  <2> HIDE DEF T, K
  <2>5. P = listed
    BY <1>14, <2>4, Zenon
  <2> HIDE DEF P
  <2> QED BY <1>1, <2>1, <2>4, <2>5, Zenon
<1>16. ASSUME NEW w \in Screens, SamePast(e, w.e), w.e.buf = b, w.e.nav = e.nav, "tab" \in w.odd,
              w.e.pos = e.pos \/ w.e.pos = 0
       PROVE  Keeps(x, redraw(w, to))
  <2>1. PICK y : y = redraw(w, to)
    OBVIOUS
  <2>2. to \in 0..Len(w.e.buf)
    BY <1>9, <1>11, <1>16
  <2>3. Redrawn(w, y)
    BY <2>1, <2>2, RedrawIs
  <2>4. /\ y \in Screens /\ SamePast(w.e, y.e) /\ w.odd \subseteq y.odd
        /\ y.e.buf = b /\ y.e.pos = w.e.pos /\ y.e.nav = e.nav /\ y.e.shown = Len(y.e.buf)
    BY <1>16, <2>3 DEF Redrawn
  <2>5. SamePast(e, y.e) /\ y.e.n = e.n /\ y.odd # {}
    BY <1>16, <2>4 DEF SamePast
  <2>6. Len(y.e.buf) = 0 => y.e.pos = 0
    BY <1>7, <1>16, <2>4
  <2> QED BY <1>1, <1>6, <2>1, <2>4, <2>5, <2>6 DEF Keeps, Fine
<1>17. CASE comp.list
  <2>1. PICK g : g = [f EXCEPT !.pos = 0, !.shown = 0]
    OBVIOUS
  <2>2. g \in Edits /\ g.buf = b /\ g.pos = 0 /\ g.nav = e.nav /\ SamePast(e, g)
    <3>1. 0 \in 0..LINE_MAX
      BY <1>6
    <3>2. PICK h : h = [f EXCEPT !.pos = 0]
      OBVIOUS
    <3>3. h \in Edits /\ h.buf = b /\ h.pos = 0 /\ h.nav = e.nav /\ SamePast(f, h)
      BY <1>9, <3>1, <3>2 DEF Edits, SamePast
    <3>4. g = [h EXCEPT !.shown = 0]
      BY <2>1, <3>2
    <3>5. g \in Edits /\ g.buf = b /\ g.pos = 0 /\ g.nav = e.nav /\ SamePast(h, g)
      BY <3>1, <3>3, <3>4 DEF Edits, SamePast
    <3> QED BY <1>9, <3>3, <3>5 DEF SamePast
  <2>3. NewPrompt(s) \in Rows
    BY CutIs, PromptIs
  <2>4. PICK t \in Rows : t = NewPrompt(s)
    BY <2>3
  <2>5. listed = [known EXCEPT !.e = g, !.s = t]
    BY <1>13, <1>14, <2>1, <2>4 DEF Screens
  <2>6. /\ listed \in Screens /\ listed.e = g /\ "tab" \in listed.odd
    BY <1>13, <2>2, <2>5 DEF Screens
  <2> QED BY <1>15, <1>16, <1>17, <2>2, <2>6
<1>18. CASE ~comp.list /\ comp.line # e.buf
  BY <1>9, <1>13, <1>15, <1>16, <1>18
<1>19. CASE ~comp.list /\ comp.line = e.buf
  BY <1>11, <1>15, <1>19, MoveKeeps
<1> QED BY <1>3, <1>17, <1>18, <1>19

\* The line is finished before it is left.
LEMMA FinishIs ==
    ASSUME NEW x, Fine(x)
    PROVE  /\ Finish(x) \in Screens /\ SamePast(x.e, Finish(x).e)
<1>1. PICK e \in Edits : e = x.e
  BY FineParts
<1>2. PICK s \in Rows : s = x.s
  BY FineParts
<1>3. x \in Screens /\ SamePast(e, e)
  BY <1>1, FineParts
<1>4. e.buf \in Seq(Char) /\ Len(e.buf) \in Nat /\ Len(e.buf) \in 0..LINE_MAX /\ e.pos \in Nat
  BY EditFields, PromptAssumption
<1>5. CASE e.pos >= Len(e.buf)
  BY <1>1, <1>3, <1>5 DEF Finish
<1>6. CASE ~(e.pos >= Len(e.buf)) /\ Windowed
  <2>1. Finish(x) = redraw(x, Len(x.e.buf))
    BY <1>1, <1>6 DEF Finish
  <2>2. Len(x.e.buf) \in 0..Len(x.e.buf)
    BY <1>1, <1>4
  <2>3. Redrawn(x, Finish(x))
    BY <1>3, <2>1, <2>2, RedrawIs
  <2> QED BY <2>3 DEF Redrawn
<1>7. CASE ~(e.pos >= Len(e.buf)) /\ ~Windowed
  <2>1. PICK text : text = SubSeq(e.buf, e.pos + 1, Len(e.buf))
    OBVIOUS
  <2>2. text \in Seq(Cell)
    <3>1. PICK b \in Seq(Char) : b = e.buf
      BY <1>4
    <3>2. PICK m \in Nat \ {0} : m = e.pos + 1
      BY <1>4
    <3>3. text = SubSeq(b, m, Len(b)) /\ Len(b) \in 0..Len(b)
      BY <1>4, <2>1, <3>1, <3>2
    <3>4. text \in Seq(Char)
      BY <3>3, PartIs
    <3> QED BY <3>4, LineCells
  <2>3. PICK t : t = Over(s, text)
    OBVIOUS
  <2>4. t \in Rows
    BY <2>2, <2>3, OverPrints DEF Printed
  <2>5. PICK f : f = [e EXCEPT !.pos = Len(e.buf)]
    OBVIOUS
  <2>6. f \in Edits /\ SamePast(e, f)
    BY <1>4, <2>5 DEF Edits, SamePast
  <2>7. Finish(x) = [x EXCEPT !.s = t, !.e.pos = Len(e.buf)]
    BY <1>1, <1>2, <1>7, <2>1, <2>3 DEF Finish
  <2>8. Finish(x) = [x EXCEPT !.s = t, !.e = f]
    BY <1>1, <1>3, <2>5, <2>7 DEF Screens
  <2>9. Finish(x) \in Screens /\ Finish(x).e = f
    BY <1>3, <2>4, <2>6, <2>8 DEF Screens
  <2> QED BY <1>1, <2>6, <2>9
<1> QED BY <1>5, <1>6, <1>7

-----------------------------------------------------------------------------
(* The history.                                                             *)

\* The ring holds these lines, the newest in the slot before the head.
InPast(e, past) ==
    /\ e.n = Len(past)
    /\ \A back \in 0..e.n - 1 : e.hist[hist_slot(e, back)] = past[Len(past) - back]

LEMMA SameInPast ==
    ASSUME NEW d, NEW e, SamePast(d, e), NEW past, InPast(d, past)
    PROVE  InPast(e, past)
BY DEF SamePast, InPast, hist_slot

\* A line is pushed over the oldest one.
Pushed(past, line) == Append(IF Len(past) = HIST_MAX THEN Tail(past) ELSE past, line)

PushedOn(later, past, line) ==
    /\ later \in Seq(Lines) /\ Len(later) \in Nat
    /\ Len(later) = IF Len(past) < HIST_MAX THEN Len(past) + 1 ELSE HIST_MAX
    /\ later[Len(later)] = line
    /\ \A i \in 1..Len(later) - 1 : later[Len(later) - i] = past[Len(past) - (i - 1)]

LEMMA PushedIs ==
    ASSUME NEW past \in Seq(Lines), Len(past) <= HIST_MAX, NEW line \in Lines,
           NEW later, later = Pushed(past, line)
    PROVE  PushedOn(later, past, line)
<1>1. Len(past) \in Nat /\ HIST_MAX \in Nat /\ HIST_MAX > 0
  BY PromptAssumption
<1>2. CASE Len(past) = HIST_MAX
  <2>1. PICK t : t = Tail(past)
    OBVIOUS
  <2>2. t \in Seq(Lines) /\ Len(t) = HIST_MAX - 1 /\ \A i \in 1..HIST_MAX - 1 : t[i] = past[i + 1]
    <3>1. past # <<>>
      BY <1>1, <1>2
    <3> QED BY <1>1, <1>2, <2>1, <3>1
  <2>3. later = Append(t, line)
    BY <1>2, <2>1 DEF Pushed
  <2>4. /\ later \in Seq(Lines) /\ Len(later) = HIST_MAX /\ later[HIST_MAX] = line
        /\ \A i \in 1..HIST_MAX - 1 : later[i] = t[i]
    BY <1>1, <2>2, <2>3
  <2>5. ASSUME NEW i \in 1..HIST_MAX - 1 PROVE later[HIST_MAX - i] = past[HIST_MAX - (i - 1)]
    <3>1. HIST_MAX - i \in 1..HIST_MAX - 1 /\ HIST_MAX - i + 1 = HIST_MAX - (i - 1)
      BY <1>1
    <3> QED BY <2>2, <2>4, <3>1
  <2> QED BY <1>1, <1>2, <2>4, <2>5 DEF PushedOn
<1>3. CASE Len(past) # HIST_MAX
  <2>1. later = Append(past, line)
    BY <1>3 DEF Pushed
  <2>2. PICK n \in Nat : n = Len(past) /\ n < HIST_MAX
    BY <1>1, <1>3
  <2>3. /\ later \in Seq(Lines) /\ Len(later) = n + 1 /\ later[n + 1] = line
        /\ \A i \in 1..n : later[i] = past[i]
    BY <2>1, <2>2
  <2>4. ASSUME NEW i \in 1..n PROVE later[n + 1 - i] = past[n - (i - 1)]
    <3>1. n + 1 - i \in 1..n /\ n + 1 - i = n - (i - 1)
      BY <2>2
    <3> QED BY <2>3, <3>1
  <2>5. n + 1 - 1 = n /\ n + 1 \in Nat
    BY <2>2
  <2> QED BY <2>2, <2>3, <2>4, <2>5 DEF PushedOn
<1> QED BY <1>2, <1>3

\* Slots of one line before and after a push.
LEMMA SlotMoves ==
    ASSUME NEW H \in Nat, NEW h \in 0..H - 1, NEW g, NEW b \in Nat, b + 1 < H, NEW x, NEW y,
           h + 1 < H => g = h + 1, ~(h + 1 < H) => g = 0,
           b + 1 < g => x = g - 1 - (b + 1), ~(b + 1 < g) => x = g - 1 - (b + 1) + H,
           b < h => y = h - 1 - b, ~(b < h) => y = h - 1 - b + H
    PROVE  x = y /\ y # h
<1>1. CASE h + 1 < H
  BY <1>1
<1>2. CASE ~(h + 1 < H)
  BY <1>2
<1> QED BY <1>1, <1>2

\* remember pushes the line on the history.
LEMMA RememberIs ==
    ASSUME NEW e \in Edits, NEW line \in Lines, NEW past \in Seq(Lines), Len(past) <= HIST_MAX,
           InPast(e, past), NEW f, f = remember(e, line), NEW later,
           later = IF line = <<>> \/ (past # <<>> /\ Last(past) = line) THEN past
                   ELSE Pushed(past, line)
    PROVE  f \in Edits /\ InPast(f, later) /\ later \in Seq(Lines) /\ Len(later) <= HIST_MAX
<1>1. /\ e.n \in Nat /\ e.n <= HIST_MAX /\ e.head \in 0..HIST_MAX - 1 /\ HIST_MAX \in Nat
      /\ HIST_MAX > 0 /\ e.hist \in [0..HIST_MAX - 1 -> Lines] /\ e.n = Len(past)
  BY EditFields, PromptAssumption DEF Edits, InPast
<1>2. e.n > 0 => e.hist[hist_slot(e, 0)] = Last(past) /\ past # <<>>
  <2>1. SUFFICES ASSUME e.n > 0 PROVE e.hist[hist_slot(e, 0)] = Last(past) /\ past # <<>>
    OBVIOUS
  <2>2. 0 \in 0..e.n - 1 /\ Len(past) - 0 = Len(past)
    BY <1>1, <2>1
  <2> QED BY <1>1, <2>1, <2>2 DEF InPast, Last
<1>3. past # <<>> => e.n > 0
  BY <1>1
<1>4. CASE line = <<>> \/ (past # <<>> /\ Last(past) = line)
  <2>1. f = e
    BY <1>2, <1>3, <1>4 DEF remember
  <2> QED BY <1>4, <2>1
<1>5. CASE ~(line = <<>> \/ (past # <<>> /\ Last(past) = line))
  <2>1. PICK hist : hist = [e.hist EXCEPT ![e.head] = line]
    OBVIOUS
  <2>2. PICK head : head = (e.head + 1) % HIST_MAX
    OBVIOUS
  <2>3. PICK n : n = IF e.n < HIST_MAX THEN e.n + 1 ELSE e.n
    OBVIOUS
  <2>4. f = [e EXCEPT !.hist = hist, !.head = head, !.n = n]
    <3>1. f = [e EXCEPT !.hist[e.head] = line, !.head = (e.head + 1) % HIST_MAX,
                        !.n = IF e.n < HIST_MAX THEN e.n + 1 ELSE e.n]
      BY <1>2, <1>3, <1>5 DEF remember
    <3> QED BY <2>1, <2>2, <2>3, <3>1 DEF Edits
  <2>5. /\ head \in 0..HIST_MAX - 1
        /\ e.head + 1 < HIST_MAX => head = e.head + 1
        /\ ~(e.head + 1 < HIST_MAX) => head = 0 /\ e.head = HIST_MAX - 1
    <3>1. PICK h \in 0..HIST_MAX - 1 : h = e.head
      BY <1>1
    <3>2. head = (h + 1) % HIST_MAX /\ HIST_MAX \in Nat /\ HIST_MAX > 0
      BY <1>1, <2>2, <3>1
    <3>3. /\ head \in 0..HIST_MAX - 1
          /\ h + 1 < HIST_MAX => head = h + 1
          /\ ~(h + 1 < HIST_MAX) => head = 0 /\ h = HIST_MAX - 1
      BY <3>2
    <3> QED BY <3>1, <3>3
  <2>6. /\ n \in 0..HIST_MAX /\ n \in Nat /\ n > 0 /\ n - 1 <= e.n
        /\ e.n < HIST_MAX => n = e.n + 1
        /\ ~(e.n < HIST_MAX) => n = HIST_MAX
    BY <1>1, <2>3
  <2>7. /\ hist \in [0..HIST_MAX - 1 -> Lines] /\ hist[e.head] = line
        /\ \A i \in 0..HIST_MAX - 1 : i # e.head => hist[i] = e.hist[i]
    BY <1>1, <2>1
  <2>8. f \in Edits /\ f.hist = hist /\ f.head = head /\ f.n = n
    BY <2>4, <2>5, <2>6, <2>7 DEF Edits
  <2>9. later = Pushed(past, line)
    BY <1>5
  <2>10. /\ later \in Seq(Lines) /\ Len(later) = n /\ later[n] = line
         /\ \A i \in 1..n - 1 : later[n - i] = past[e.n - (i - 1)]
    <3>0. PushedOn(later, past, line)
      BY <2>9, PushedIs
    <3>1. /\ later \in Seq(Lines) /\ Len(later) \in Nat
          /\ Len(later) = IF Len(past) < HIST_MAX THEN Len(past) + 1 ELSE HIST_MAX
          /\ later[Len(later)] = line
          /\ \A i \in 1..Len(later) - 1 : later[Len(later) - i] = past[Len(past) - (i - 1)]
      BY <3>0 DEF PushedOn
    <3>2. Len(later) = n
      BY <1>1, <2>6, <3>1
    <3> QED BY <1>1, <3>1, <3>2, Zenon
  <2>11. ASSUME NEW back \in 0..n - 1
         PROVE  f.hist[hist_slot(f, back)] = later[n - back]
    <3>1. back \in 0..HIST_MAX - 1 /\ back \in Nat
      BY <1>1, <2>6
    <3>2. /\ hist_slot(f, back) \in 0..HIST_MAX - 1
          /\ back < head => hist_slot(f, back) = head - 1 - back
          /\ ~(back < head) => hist_slot(f, back) = head - 1 - back + HIST_MAX
      <4>1. /\ hist_slot(f, back) \in 0..HIST_MAX - 1
            /\ back < f.head => hist_slot(f, back) = f.head - 1 - back
            /\ ~(back < f.head) => hist_slot(f, back) = f.head - 1 - back + HIST_MAX
        BY <2>8, <3>1, SlotIs
      <4> QED BY <2>8, <4>1, Zenon
    <3>3. CASE back = 0
      <4>1. hist_slot(f, back) = e.head
        BY <1>1, <2>5, <3>2, <3>3
      <4>2. n - back = n
        BY <2>6, <3>3
      <4> QED BY <2>7, <2>8, <2>10, <4>1, <4>2
    <3>4. CASE back # 0
      <4>1. PICK b \in Nat : b = back - 1 /\ back = b + 1
        BY <3>1, <3>4
      <4>2. b \in 0..HIST_MAX - 1 /\ b \in 0..e.n - 1 /\ back \in 1..n - 1
        BY <1>1, <2>6, <3>1, <4>1
      <4>3. /\ hist_slot(e, b) \in 0..HIST_MAX - 1
            /\ b < e.head => hist_slot(e, b) = e.head - 1 - b
            /\ ~(b < e.head) => hist_slot(e, b) = e.head - 1 - b + HIST_MAX
        BY <4>2, SlotIs
      <4>4. hist_slot(f, back) = hist_slot(e, b) /\ hist_slot(e, b) # e.head
        <5>1. PICK h \in 0..HIST_MAX - 1 : h = e.head
          BY <1>1
        <5>2. PICK x : x = hist_slot(f, back)
          OBVIOUS
        <5>3. PICK y : y = hist_slot(e, b)
          OBVIOUS
        <5>4. /\ h + 1 < HIST_MAX => head = h + 1
              /\ ~(h + 1 < HIST_MAX) => head = 0
          BY <2>5, <5>1
        <5>5. /\ b + 1 < head => x = head - 1 - (b + 1)
              /\ ~(b + 1 < head) => x = head - 1 - (b + 1) + HIST_MAX
          BY <3>2, <4>1, <5>2, Zenon
        <5>6. /\ b < h => y = h - 1 - b
              /\ ~(b < h) => y = h - 1 - b + HIST_MAX
          BY <4>3, <5>1, <5>3, Zenon
        <5>7. b + 1 < HIST_MAX
          BY <1>1, <3>1, <4>1
        <5>8. x = y /\ y # h
          BY <1>1, <5>4, <5>5, <5>6, <5>7, SlotMoves
        <5> QED BY <5>1, <5>2, <5>3, <5>8
      <4>5. f.hist[hist_slot(f, back)] = e.hist[hist_slot(e, b)]
        BY <2>7, <2>8, <4>3, <4>4
      <4>6. e.hist[hist_slot(e, b)] = past[e.n - b]
        BY <1>1, <4>2, Zenon DEF InPast
      <4>7. later[n - back] = past[e.n - (back - 1)]
        BY <2>10, <4>2
      <4> QED BY <4>1, <4>5, <4>6, <4>7
    <3> QED BY <3>3, <3>4
  <2>12. InPast(f, later)
    BY <2>8, <2>10, <2>11, Zenon DEF InPast
  <2> QED BY <2>6, <2>8, <2>10, <2>12
<1> QED BY <1>4, <1>5

-----------------------------------------------------------------------------
(* The invariant.                                                           *)

Ghosts == [lines : Seq(Lines), presses : Nat, flags : Nat, sent : Nat, echoes : Nat,
           keys : Nat, hit : SUBSET (0..MaxCmds), stray : BOOLEAN, late : BOOLEAN]

\* The actors around the line.
Actors ==
    /\ sink \in Consoles /\ ring \in Seq(Keys) /\ Len(ring) < RING_SIZE
    /\ inp \in Seq(Keys) /\ Len(inp) <= TERM_IN_CAP
    /\ sh \in [at : {"prompt", "spawned", "waiting", "reaped", "closed"}, cmd : 0..MaxCmds]
    /\ sh.at \in {"spawned", "waiting", "reaped"} => sh.cmd # 0
    /\ kid \in {"none", "running", "caught", "dead"}
    /\ intr \in [set : BOOLEAN, aim : 0..MaxCmds]
    /\ jobd \in [at : {"sleep", "print", "look", "table", "send"}, to : SUBSET (1..MaxCmds)]
    /\ report \in {"none", "queued", "held"}

\* The line is edited at the prompt only, and sharp whenever nothing is odd.
LineFine == Fine(Here) /\ (sh.at # "prompt" => Len(ed.buf) = 0)

\* The history holds the submitted lines.
PastKept == ghost \in Ghosts /\ Len(ghost.lines) <= HIST_MAX /\ InPast(ed, ghost.lines)

PromptInv == Actors /\ LineFine /\ PastKept

\* The fields of the state.
LEMMA Fields ==
    ASSUME PromptInv
    PROVE  /\ ed \in Edits /\ scr \in Rows /\ odd \in SUBSET Causes /\ Fine(Here)
           /\ Here.e = ed /\ Here.s = scr /\ Here.odd = odd
           /\ ed.nav <= ed.n /\ ed.shown = Len(ed.buf) /\ (Len(ed.buf) = 0 => ed.pos = 0)
           /\ odd = {} => Sharp(ed, scr)
<1>1. Here.e = ed /\ Here.s = scr /\ Here.odd = odd
  BY DEF Here
<1>2. Fine(Here)
  BY DEF PromptInv, LineFine
<1>3. Here.e \in Edits /\ Here.s \in Rows /\ Here.odd \in SUBSET Causes
  BY <1>2, FineParts
<1>4. /\ Here.e.nav <= Here.e.n /\ Here.e.shown = Len(Here.e.buf)
      /\ Len(Here.e.buf) = 0 => Here.e.pos = 0
      /\ Here.odd = {} => Sharp(Here.e, Here.s)
  BY <1>2 DEF Fine
<1> HIDE DEF Here
<1> QED BY <1>1, <1>2, <1>3, <1>4

\* The line in the next state.
LEMMA LineNext ==
    ASSUME sink' = sink, NEW x, Fine(x), ed' = x.e, scr' = x.s, odd' = x.odd,
           sh'.at # "prompt" => Len(x.e.buf) = 0
    PROVE  LineFine'
<1>1. x \in Screens
  BY DEF Fine
<1>2. x = [e |-> ed', s |-> scr', odd |-> odd']
  BY <1>1 DEF Screens
<1>3. Fine(x)'
  <2>1. CASE x.odd = {}
    <3>1. Sharp(x.e, x.s)
      BY <2>1 DEF Fine
    <3>2. Sharp(x.e, x.s)'
      BY <3>1 DEF Sharp, Holds, Windowed
    <3> QED BY <3>2 DEF Fine, Screens, Edits, Rows
  <2>2. CASE x.odd # {}
    BY <2>2 DEF Fine, Screens, Edits, Rows
  <2> QED BY <2>1, <2>2
<1> QED BY <1>2, <1>3 DEF LineFine, Here

\* Nothing on the line changes.
LEMMA LineStays ==
    ASSUME PromptInv, sink' = sink, ed' = ed, scr' = scr, odd' = odd,
           sh'.at # "prompt" => sh.at # "prompt"
    PROVE  LineFine'
<1>1. Fine(Here) /\ Here.e = ed /\ Here.s = scr /\ Here.odd = odd
  BY Fields
<1>2. PICK x : x = Here
  OBVIOUS
<1>3. sh'.at # "prompt" => Len(x.e.buf) = 0
  BY <1>1, <1>2 DEF PromptInv, LineFine
<1> QED BY <1>1, <1>2, <1>3, LineNext

\* The history and the submitted lines stay.
LEMMA PastStays ==
    ASSUME PromptInv, SamePast(ed, ed'), ghost' \in Ghosts, ghost'.lines = ghost.lines
    PROVE  PastKept'
<1>1. Len(ghost.lines) <= HIST_MAX /\ InPast(ed, ghost.lines)
  BY DEF PromptInv, PastKept
<1>2. InPast(ed', ghost.lines)
  BY <1>1, SameInPast
<1> QED BY <1>1, <1>2 DEF PastKept, InPast, Ghosts, hist_slot

\* A flag that is set.
LEMMA FlagIs == PromptInv => Flagged \in [set : BOOLEAN, aim : 0..MaxCmds]
<1> SUFFICES ASSUME PromptInv PROVE Flagged \in [set : BOOLEAN, aim : 0..MaxCmds]
  OBVIOUS
<1>1. sh.cmd \in 0..MaxCmds /\ 0 \in 0..MaxCmds
  BY PromptAssumption DEF PromptInv, Actors
<1>2. PICK n \in 0..MaxCmds : n = IF Registered = {} THEN 0 ELSE sh.cmd
  BY <1>1
<1> QED BY <1>2 DEF Flagged

\* The keys.
LEMMA PressStep ==
    ASSUME PromptInv, NEW k \in Keys, Press(k)
    PROVE  PromptInv'
<1>1. UNCHANGED <<sink, inp, ed, scr, sh, kid, jobd, report, recent, odd>>
  BY DEF Press
<1>2. ring' \in Seq(Keys) /\ Len(ring') < RING_SIZE
  <2>1. ring \in Seq(Keys) /\ Len(ring) < RING_SIZE /\ Len(ring) \in Nat /\ RING_SIZE \in Nat
    BY PromptAssumption DEF PromptInv, Actors
  <2>2. CASE Len(ring) < RING_SIZE - 1
    <3>1. ring' = Append(ring, k)
      BY <2>2 DEF Press
    <3>2. Len(ring') = Len(ring) + 1 /\ ring' \in Seq(Keys)
      BY <2>1, <3>1
    <3> QED BY <2>1, <2>2, <3>2
  <2>3. CASE ~(Len(ring) < RING_SIZE - 1)
    BY <2>1, <2>3 DEF Press
  <2> QED BY <2>2, <2>3
<1>3. intr' \in [set : BOOLEAN, aim : 0..MaxCmds]
  BY FlagIs DEF Press, PromptInv, Actors
<1>4. ghost' \in Ghosts /\ ghost'.lines = ghost.lines
  <2>1. ghost \in Ghosts
    BY DEF PromptInv, PastKept
  <2>2. PICK n \in Nat : n = IF k = "enter" THEN ghost.keys ELSE ghost.keys + 1
    BY <2>1 DEF Ghosts
  <2>3. PICK p \in Nat : p = IF k = "intr" THEN ghost.presses + 1 ELSE ghost.presses
    BY <2>1 DEF Ghosts
  <2>4. PICK f \in Nat : f = IF k = "intr" /\ ~Windowed THEN ghost.flags + 1 ELSE ghost.flags
    BY <2>1 DEF Ghosts
  <2>5. ghost' = [ghost EXCEPT !.keys = n, !.presses = p, !.flags = f]
    BY <2>2, <2>3, <2>4 DEF Press
  <2> QED BY <2>1, <2>5 DEF Ghosts
<1>5. Actors'
  BY <1>1, <1>2, <1>3 DEF PromptInv, Actors
<1>6. LineFine'
  BY <1>1, LineStays
<1>7. PastKept'
  BY <1>1, <1>4, PastStays DEF SamePast
<1> QED BY <1>5, <1>6, <1>7 DEF PromptInv

\* A key taken from a queue.
LEMMA Popped ==
    ASSUME NEW S, NEW q \in Seq(S), q # <<>>
    PROVE  Tail(q) \in Seq(S) /\ Len(Tail(q)) = Len(q) - 1 /\ Head(q) \in S
OBVIOUS

LEMMA RingPop ==
    ASSUME PromptInv, NEW k, Pop(k)
    PROVE  /\ ring' \in Seq(Keys) /\ Len(ring') < RING_SIZE
           /\ inp' \in Seq(Keys) /\ Len(inp') <= TERM_IN_CAP
<1>1. /\ ring \in Seq(Keys) /\ Len(ring) < RING_SIZE /\ Len(ring) \in Nat /\ RING_SIZE \in Nat
      /\ inp \in Seq(Keys) /\ Len(inp) <= TERM_IN_CAP /\ Len(inp) \in Nat /\ TERM_IN_CAP \in Nat
  BY PromptAssumption DEF PromptInv, Actors
<1>2. CASE Windowed
  <2>1. inp # <<>> /\ inp' = Tail(inp) /\ ring' = ring
    BY <1>2 DEF Pop, Source
  <2>2. inp' \in Seq(Keys) /\ Len(inp') = Len(inp) - 1
    BY <1>1, <2>1, Popped
  <2> QED BY <1>1, <2>1, <2>2
<1>3. CASE ~Windowed
  <2>1. ring # <<>> /\ ring' = Tail(ring) /\ inp' = inp
    BY <1>3 DEF Pop, Source
  <2>2. ring' \in Seq(Keys) /\ Len(ring') = Len(ring) - 1
    BY <1>1, <2>1, Popped
  <2> QED BY <1>1, <2>1, <2>2
<1> QED BY <1>2, <1>3

\* The compositor moves a key, or drops it.
LEMMA RouteStep ==
    ASSUME PromptInv, Route
    PROVE  PromptInv'
<1>1. /\ UNCHANGED <<sink, ed, scr, sh, kid, jobd, report, recent, odd>>
      /\ ring # <<>> /\ ring' = Tail(ring)
  BY DEF Route
<1>2. /\ ring \in Seq(Keys) /\ Len(ring) < RING_SIZE /\ Len(ring) \in Nat /\ RING_SIZE \in Nat
      /\ inp \in Seq(Keys) /\ Len(inp) <= TERM_IN_CAP /\ Len(inp) \in Nat /\ TERM_IN_CAP \in Nat
  BY PromptAssumption DEF PromptInv, Actors
<1>3. ring' \in Seq(Keys) /\ Len(ring') = Len(ring) - 1 /\ Head(ring) \in Keys
  BY <1>1, <1>2, Popped
<1>4. inp' \in Seq(Keys) /\ Len(inp') <= TERM_IN_CAP
  <2>1. CASE Len(inp) < TERM_IN_CAP
    <3>1. inp' = Append(inp, Head(ring))
      BY <2>1 DEF Route
    <3>2. Len(inp') = Len(inp) + 1 /\ inp' \in Seq(Keys)
      BY <1>2, <1>3, <3>1
    <3> QED BY <1>2, <2>1, <3>2
  <2>2. CASE ~(Len(inp) < TERM_IN_CAP)
    BY <1>2, <2>2 DEF Route
  <2> QED BY <2>1, <2>2
<1>5. intr' \in [set : BOOLEAN, aim : 0..MaxCmds]
  BY FlagIs DEF Route, PromptInv, Actors
<1>6. ghost' \in Ghosts /\ ghost'.lines = ghost.lines
  <2>1. ghost \in Ghosts
    BY DEF PromptInv, PastKept
  <2>2. PICK f \in Nat : f = ghost.flags + 1
    BY <2>1 DEF Ghosts
  <2>3. ghost' = ghost \/ ghost' = [ghost EXCEPT !.flags = f]
    BY <2>2 DEF Route
  <2> QED BY <2>1, <2>3 DEF Ghosts
<1>7. Actors'
  BY <1>1, <1>2, <1>3, <1>4, <1>5 DEF PromptInv, Actors
<1>8. LineFine'
  BY <1>1, LineStays
<1>9. PastKept'
  BY <1>1, <1>6, PastStays DEF SamePast
<1> QED BY <1>7, <1>8, <1>9 DEF PromptInv

LEMMA FeedEditStep ==
    ASSUME PromptInv, NEW k \in Keys, FeedEdit(k)
    PROVE  PromptInv'
<1>1. /\ UNCHANGED <<sink, sh, kid, intr, jobd, report, recent, ghost>>
      /\ sh.at = "prompt" /\ Pop(k)
      /\ k \notin {"enter", "intr", "eof", "tab"} /\ ~EditPanics(k)
  BY DEF FeedEdit, Pop
<1>2. PICK x : x = Edited(Here, k)
  OBVIOUS
<1>3. ed' = x.e /\ scr' = x.s /\ odd' = x.odd
  BY <1>2 DEF FeedEdit
<1>4. Keeps(Here, x)
  <2>1. Fine(Here) /\ Here.e = ed /\ Here.s = scr /\ ed \in Edits
    BY Fields
  <2>2. PICK h : h = Here
    OBVIOUS
  <2>3. ed.pos \in Nat /\ Len(ed.buf) \in Nat
    BY <2>1, EditFields
  <2>4. k \in Chars => ed.pos <= Len(ed.buf) \/ ~(Len(ed.buf) < room(ed, scr))
    BY <1>1, <2>3 DEF EditPanics
  <2>5. k = "bs" => ed.pos <= Len(ed.buf)
    BY <1>1, <2>3 DEF EditPanics
  <2>6. k \in Keys \ {"enter", "intr", "eof", "tab"}
    BY <1>1
  <2>7. /\ k \in Chars => h.e.pos <= Len(h.e.buf) \/ ~(Len(h.e.buf) < room(h.e, h.s))
        /\ k = "bs" => h.e.pos <= Len(h.e.buf)
    BY <2>1, <2>2, <2>4, <2>5, Zenon
  <2> QED BY <1>2, <2>1, <2>2, <2>6, <2>7, EditedKeeps
<1>5. Fine(x) /\ SamePast(ed, ed')
  BY <1>3, <1>4, Fields DEF Keeps
<1>6. Actors'
  BY <1>1, RingPop DEF PromptInv, Actors
<1>7. LineFine'
  BY <1>1, <1>3, <1>5, LineNext
<1>8. PastKept'
  BY <1>1, <1>5, PastStays DEF PromptInv, PastKept
<1> QED BY <1>6, <1>7, <1>8 DEF PromptInv

LEMMA FeedTabStep ==
    ASSUME PromptInv, FeedTab
    PROVE  PromptInv'
<1>1. /\ UNCHANGED <<sink, sh, kid, intr, jobd, report, recent, ghost>>
      /\ sh.at = "prompt" /\ Pop("tab")
  BY DEF FeedTab, Pop
<1>2. PICK comp \in Completions(ed) : LET y == tab_complete(Here, comp)
                                      IN  ed' = y.e /\ scr' = y.s /\ odd' = y.odd
  BY DEF FeedTab
<1>3. PICK x : x = tab_complete(Here, comp)
  OBVIOUS
<1>4. ed' = x.e /\ scr' = x.s /\ odd' = x.odd
  BY <1>2, <1>3
<1>5. Keeps(Here, x)
  BY <1>3, Fields, TabKeeps
<1>6. Fine(x) /\ SamePast(ed, ed')
  BY <1>4, <1>5, Fields DEF Keeps
<1>7. Actors'
  BY <1>1, RingPop DEF PromptInv, Actors
<1>8. LineFine'
  BY <1>1, <1>4, <1>6, LineNext
<1>9. PastKept'
  BY <1>1, <1>6, PastStays DEF PromptInv, PastKept
<1> QED BY <1>7, <1>8, <1>9 DEF PromptInv

\* A new prompt with an empty line.
LEMMA FreshLine ==
    ASSUME sink' = sink, NEW s \in Rows, ed' \in Edits, Len(ed'.buf) = 0, ed'.pos = 0,
           ed'.shown = 0, ed'.nav <= ed'.n, scr' = NewPrompt(s), odd' = Settled(s)
    PROVE  LineFine'
<1>1. PICK e \in Edits : e = ed'
  OBVIOUS
<1>2. /\ NewPrompt(s) \in Rows /\ Settled(s) \in SUBSET Causes
      /\ Settled(s) = {} => Sharp(e, NewPrompt(s))
  BY <1>1, PromptIs
<1>3. PICK x : x = [e |-> e, s |-> NewPrompt(s), odd |-> Settled(s)]
  OBVIOUS
<1>4. x \in Screens /\ x.e = e /\ x.s = NewPrompt(s) /\ x.odd = Settled(s)
  BY <1>2, <1>3 DEF Screens
<1>5. Fine(x)
  BY <1>1, <1>2, <1>4 DEF Fine
<1> QED BY <1>1, <1>4, <1>5, LineNext

\* A line that is known to be odd.
LEMMA OddLine ==
    ASSUME sink' = sink, ed' \in Edits, ed'.nav <= ed'.n, ed'.shown = Len(ed'.buf),
           Len(ed'.buf) = 0 => ed'.pos = 0, scr' \in Rows, odd' \in SUBSET Causes, odd' # {},
           sh'.at # "prompt" => Len(ed'.buf) = 0
    PROVE  LineFine'
<1>1. PICK x : x = [e |-> ed', s |-> scr', odd |-> odd']
  OBVIOUS
<1>2. x \in Screens /\ x.e = ed' /\ x.s = scr' /\ x.odd = odd'
  BY <1>1 DEF Screens
<1>3. Fine(x)
  BY <1>2 DEF Fine
<1> QED BY <1>2, <1>3, LineNext

LEMMA FeedEnterStep ==
    ASSUME PromptInv, NEW run \in BOOLEAN, FeedEnter(run)
    PROVE  PromptInv'
<1>1. /\ UNCHANGED <<sink, intr, jobd, report, recent>>
      /\ sh.at = "prompt" /\ Pop("enter")
      /\ run => ed.buf # <<>> /\ sh.cmd < MaxCmds
      /\ sh' = IF run THEN [at |-> "spawned", cmd |-> sh.cmd + 1] ELSE sh
      /\ kid' = IF run THEN "running" ELSE kid
  BY DEF FeedEnter, Pop
<1>2. PICK x : x = Finish(Here)
  OBVIOUS
<1>3. /\ ed' = Cut(remember(x.e, ed.buf)) /\ scr' = NewPrompt(x.s) /\ odd' = Settled(x.s)
  BY <1>2 DEF FeedEnter
<1>4. x \in Screens /\ SamePast(ed, x.e)
  BY <1>2, Fields, FinishIs
<1>5. x.e \in Edits /\ x.s \in Rows
  BY <1>4 DEF Screens
<1>6. PICK line \in Lines : line = ed.buf
  BY Fields, EditFields
<1>7. PICK past \in Seq(Lines) : past = ghost.lines
  BY DEF PromptInv, PastKept, Ghosts
<1>8. PICK later : later = IF line = <<>> \/ (past # <<>> /\ Last(past) = line) THEN past
                           ELSE Pushed(past, line)
  OBVIOUS
<1>9. ghost' = [ghost EXCEPT !.lines = later]
  BY <1>6, <1>7, <1>8 DEF FeedEnter, Pushed
<1>10. Len(past) <= HIST_MAX /\ InPast(x.e, past)
  <2>1. Len(past) <= HIST_MAX /\ InPast(ed, past)
    BY <1>7 DEF PromptInv, PastKept
  <2> QED BY <1>4, <2>1, SameInPast
<1>11. PICK f : f = remember(x.e, line)
  OBVIOUS
<1>12. f \in Edits /\ InPast(f, later) /\ later \in Seq(Lines) /\ Len(later) <= HIST_MAX
  BY <1>5, <1>8, <1>10, <1>11, RememberIs
<1>13. ed' = Cut(f)
  BY <1>3, <1>6, <1>11
<1>14. /\ ed' \in Edits /\ SamePast(f, ed') /\ Len(ed'.buf) = 0 /\ ed'.pos = 0 /\ ed'.shown = 0
       /\ ed'.nav = 0 /\ ed'.nav <= ed'.n
  <2>1. /\ ed' \in Edits /\ SamePast(f, ed') /\ Len(ed'.buf) = 0 /\ ed'.pos = 0 /\ ed'.shown = 0
        /\ ed'.nav = 0
    BY <1>12, <1>13, CutIs
  <2>2. ed'.n \in Nat
    BY <2>1, EditFields
  <2> QED BY <2>1, <2>2
<1>15. LineFine'
  BY <1>1, <1>3, <1>5, <1>14, FreshLine
<1>16. PastKept'
  <2>1. ghost' \in Ghosts /\ ghost'.lines = later
    BY <1>9, <1>12 DEF Ghosts, PromptInv, PastKept
  <2>2. InPast(ed', later)
    BY <1>12, <1>14, SameInPast
  <2> QED BY <1>12, <2>1, <2>2 DEF PastKept, InPast, hist_slot, Ghosts
<1>17. Actors'
  <2>1. /\ sh' \in [at : {"prompt", "spawned", "waiting", "reaped", "closed"}, cmd : 0..MaxCmds]
        /\ sh'.at \in {"spawned", "waiting", "reaped"} => sh'.cmd # 0
    <3>1. CASE run
      <4>1. sh.cmd + 1 \in 0..MaxCmds /\ sh.cmd + 1 # 0
        BY <1>1, <3>1, PromptAssumption DEF PromptInv, Actors
      <4> QED BY <1>1, <3>1, <4>1
    <3>2. CASE ~run
      BY <1>1, <3>2 DEF PromptInv, Actors
    <3> QED BY <3>1, <3>2
  <2>2. kid' \in {"none", "running", "caught", "dead"}
    BY <1>1 DEF PromptInv, Actors
  <2> QED BY <1>1, <2>1, <2>2, RingPop DEF PromptInv, Actors
<1> QED BY <1>15, <1>16, <1>17 DEF PromptInv

LEMMA FeedIntrStep ==
    ASSUME PromptInv, FeedIntr
    PROVE  PromptInv'
<1>1. /\ UNCHANGED <<sink, sh, kid, intr, jobd, report, recent>>
      /\ sh.at = "prompt" /\ Pop("intr") /\ ed' = Cut(ed)
  BY DEF FeedIntr, Pop
<1>2. /\ ed' \in Edits /\ SamePast(ed, ed') /\ Len(ed'.buf) = 0 /\ ed'.pos = 0 /\ ed'.shown = 0
      /\ ed'.nav <= ed'.n
  <2>1. /\ ed' \in Edits /\ SamePast(ed, ed') /\ Len(ed'.buf) = 0 /\ ed'.pos = 0 /\ ed'.shown = 0
        /\ ed'.nav = 0
    BY <1>1, Fields, CutIs
  <2>2. ed'.n \in Nat
    BY <2>1, EditFields
  <2> QED BY <2>1, <2>2
<1>3. ghost \in Ghosts
  BY DEF PromptInv, PastKept
<1>4. Actors'
  BY <1>1, RingPop DEF PromptInv, Actors
<1>5. CASE recent
  <2>1. scr' = scr /\ ghost' = ghost
        /\ odd' = IF ed.buf = <<>> /\ odd = {} THEN odd ELSE odd \cup {"swallow"}
    BY <1>5 DEF FeedIntr
  <2>2. CASE ed.buf = <<>> /\ odd = {}
    <3>1. /\ Sharp(ed, scr) /\ ed.pos = 0 /\ Len(ed.buf) = 0 /\ scr \in Rows
      BY <2>2, Fields
    <3>2. Sharp(ed', scr)
      <4>1. Holds(scr, 0) /\ scr.off = Len(scr.cells) - 1 - 0
        BY <3>1, Zenon DEF Sharp
      <4>2. ed'.pos <= Len(ed'.buf) /\ \A i \in 1..Len(ed'.buf) : scr.cells[i + 1] = ed'.buf[i]
        BY <1>2
      <4> QED BY <1>2, <4>1, <4>2, Zenon DEF Sharp
    <3>3. PICK x : x = [e |-> ed', s |-> scr, odd |-> {}]
      OBVIOUS
    <3>4. x \in Screens /\ x.e = ed' /\ x.s = scr /\ x.odd = {}
      BY <1>2, <3>1, <3>3 DEF Screens
    <3>5. Fine(x)
      BY <1>2, <3>2, <3>4 DEF Fine
    <3>6. ed' = x.e /\ scr' = x.s /\ odd' = x.odd /\ Len(x.e.buf) = 0
      BY <1>2, <2>1, <2>2, <3>4
    <3>7. LineFine'
      BY <1>1, <3>5, <3>6, LineNext
    <3> QED BY <1>2, <1>3, <1>4, <2>1, <3>7, PastStays DEF PromptInv
  <2>3. CASE ~(ed.buf = <<>> /\ odd = {})
    <3>1. odd' \in SUBSET Causes /\ odd' # {}
      BY <2>1, <2>3, Fields DEF Causes
    <3>2. scr' \in Rows
      BY <2>1, Fields
    <3>3. LineFine'
      BY <1>1, <1>2, <3>1, <3>2, OddLine
    <3> QED BY <1>2, <1>3, <1>4, <2>1, <3>3, PastStays DEF PromptInv
  <2> QED BY <2>2, <2>3
<1>6. CASE ~recent
  <2>1. PICK x : x = Finish(Here)
    OBVIOUS
  <2>2. scr' = NewPrompt(x.s) /\ odd' = Settled(x.s) /\ ghost' = [ghost EXCEPT !.echoes = @ + 1]
    BY <1>6, <2>1 DEF FeedIntr
  <2>3. x.s \in Rows
    BY <2>1, Fields, FinishIs DEF Screens
  <2>4. LineFine'
    BY <1>1, <1>2, <2>2, <2>3, FreshLine
  <2>5. ghost' \in Ghosts /\ ghost'.lines = ghost.lines
    BY <1>3, <2>2 DEF Ghosts
  <2> QED BY <1>2, <1>4, <2>4, <2>5, PastStays DEF PromptInv
<1> QED BY <1>5, <1>6

LEMMA FeedEofStep ==
    ASSUME PromptInv, FeedEof
    PROVE  PromptInv'
<1>1. /\ UNCHANGED <<sink, ed, kid, intr, jobd, report, recent, ghost>>
      /\ sh.at = "prompt" /\ Pop("eof")
  BY DEF FeedEof, Pop
<1>2. PastKept'
  BY <1>1, PastStays DEF PromptInv, PastKept, SamePast
<1>3. CASE ed.buf # <<>>
  <2>1. UNCHANGED <<scr, sh, odd>>
    BY <1>3 DEF FeedEof
  <2>2. Actors'
    BY <1>1, <2>1, RingPop DEF PromptInv, Actors
  <2>3. LineFine'
    BY <1>1, <2>1, LineStays
  <2> QED BY <1>2, <2>2, <2>3 DEF PromptInv
<1>4. CASE ed.buf = <<>>
  <2>1. /\ scr' = NewPrompt(scr) /\ odd' = Settled(scr)
        /\ sh' = IF Windowed THEN [sh EXCEPT !.at = "closed"] ELSE sh
    BY <1>4 DEF FeedEof
  <2>2. /\ sh' \in [at : {"prompt", "spawned", "waiting", "reaped", "closed"}, cmd : 0..MaxCmds]
        /\ sh'.at \in {"spawned", "waiting", "reaped"} => sh'.cmd # 0
    BY <1>1, <2>1 DEF PromptInv, Actors
  <2>3. Actors'
    BY <1>1, <2>2, RingPop DEF PromptInv, Actors
  <2>4. /\ ed \in Edits /\ scr \in Rows /\ ed.nav <= ed.n
        /\ Len(ed.buf) = 0 /\ ed.pos = 0 /\ ed.shown = 0
    BY <1>4, Fields
  <2>5. LineFine'
    BY <1>1, <2>1, <2>4, FreshLine
  <2> QED BY <1>2, <2>3, <2>5 DEF PromptInv
<1> QED BY <1>3, <1>4

\* The wait for the child, and what the others do around it.
LEMMA WaitStep ==
    ASSUME PromptInv, fg_wait_all
    PROVE  PromptInv'
<1>1. CASE fg_begin
  <2>1. /\ UNCHANGED <<sink, ring, inp, ed, scr, kid, intr, jobd, report, recent, odd, ghost>>
        /\ sh.at = "spawned" /\ sh' = [sh EXCEPT !.at = "waiting"]
    BY <1>1 DEF fg_begin
  <2>2. Actors'
    BY <2>1 DEF PromptInv, Actors
  <2>3. LineFine'
    BY <2>1, LineStays
  <2>4. PastKept'
    BY <2>1, PastStays DEF PromptInv, PastKept, SamePast
  <2> QED BY <2>2, <2>3, <2>4 DEF PromptInv
<1>2. CASE Reaped
  <2>1. /\ UNCHANGED <<sink, ring, inp, ed, scr, intr, jobd, recent, odd, ghost>>
        /\ sh.at = "waiting" /\ sh' = [sh EXCEPT !.at = "reaped"] /\ kid' = "none"
        /\ report' = IF report = "queued" THEN "none" ELSE report
    BY <1>2 DEF Reaped
  <2>2. Actors'
    BY <2>1 DEF PromptInv, Actors
  <2>3. LineFine'
    BY <2>1, LineStays
  <2>4. PastKept'
    BY <2>1, PastStays DEF PromptInv, PastKept, SamePast
  <2> QED BY <2>2, <2>3, <2>4 DEF PromptInv
<1>3. CASE fg_end
  <2>1. /\ UNCHANGED <<sink, ring, inp, ed, kid, intr, jobd, report, recent>>
        /\ sh.at = "reaped" /\ sh' = [sh EXCEPT !.at = "prompt"]
        /\ scr' = NewPrompt(scr) /\ odd' = Settled(scr)
        /\ ghost' = [ghost EXCEPT !.late = @ \/ report = "held"]
    BY <1>3 DEF fg_end
  <2>2. Actors'
    BY <2>1 DEF PromptInv, Actors
  <2>3. Len(ed.buf) = 0
    BY <2>1 DEF PromptInv, LineFine
  <2>4. /\ ed \in Edits /\ scr \in Rows /\ ed.nav <= ed.n /\ ed.pos = 0 /\ ed.shown = 0
    BY <2>3, Fields
  <2>5. LineFine'
    BY <2>1, <2>3, <2>4, FreshLine
  <2>6. ghost' \in Ghosts /\ ghost'.lines = ghost.lines
    <3>1. ghost \in Ghosts
      BY DEF PromptInv, PastKept
    <3>2. PICK late \in BOOLEAN : late = (ghost.late \/ report = "held")
      OBVIOUS
    <3>3. ghost' = [ghost EXCEPT !.late = late]
      BY <2>1, <3>2
    <3> QED BY <3>1, <3>3 DEF Ghosts
  <2>7. PastKept'
    BY <2>1, <2>6, PastStays DEF SamePast
  <2> QED BY <2>2, <2>5, <2>7 DEF PromptInv
<1> QED BY <1>1, <1>2, <1>3 DEF fg_wait_all

LEMMA KidStep ==
    ASSUME PromptInv, KidEnds \/ KidReads \/ Expire
    PROVE  PromptInv'
<1>1. /\ UNCHANGED <<sink, inp, ed, scr, sh, intr, jobd, report, odd, ghost>>
      /\ kid' \in {kid, "dead"}
      /\ ring' = ring \/ (ring # <<>> /\ ring' = Tail(ring))
  BY DEF KidEnds, KidReads, Expire
<1>2. Actors'
  <2>1. ring \in Seq(Keys) /\ Len(ring) < RING_SIZE /\ Len(ring) \in Nat /\ RING_SIZE \in Nat
    BY PromptAssumption DEF PromptInv, Actors
  <2>2. ring' \in Seq(Keys) /\ Len(ring') < RING_SIZE
    BY <1>1, <2>1, Popped
  <2> QED BY <1>1, <2>2 DEF PromptInv, Actors
<1>3. LineFine'
  BY <1>1, LineStays
<1>4. PastKept'
  BY <1>1, PastStays DEF PromptInv, PastKept, SamePast
<1> QED BY <1>2, <1>3, <1>4 DEF PromptInv

LEMMA JobdStep ==
    ASSUME PromptInv, Jobd
    PROVE  PromptInv'
<1>1. CASE TickDrain
  <2>1. /\ UNCHANGED <<sink, ring, inp, ed, scr, sh, kid, intr, recent, odd, ghost>>
        /\ jobd' = [jobd EXCEPT !.at = "print"] /\ report' = "held"
    BY <1>1 DEF TickDrain
  <2>2. Actors'
    BY <2>1 DEF PromptInv, Actors
  <2>3. LineFine'
    BY <2>1, LineStays
  <2>4. PastKept'
    BY <2>1, PastStays DEF PromptInv, PastKept, SamePast
  <2> QED BY <2>2, <2>3, <2>4 DEF PromptInv
<1>2. CASE TickPrint
  <2>1. /\ UNCHANGED <<sink, ring, inp, ed, sh, kid, intr, recent, ghost>>
        /\ jobd' = [jobd EXCEPT !.at = IF intr.set THEN "look" ELSE "sleep"] /\ report' = "none"
    BY <1>2 DEF TickPrint
  <2>2. Actors'
    BY <2>1 DEF PromptInv, Actors
  <2>3. LineFine'
    <3>1. CASE sh.at = "prompt"
      <4>1. scr' = Newline(scr) /\ odd' = odd \cup {"async"}
        BY <1>2, <3>1 DEF TickPrint
      <4>2. scr' \in Rows
        BY <4>1, Fields, CutIs, PromptIs
      <4>3. odd' \in SUBSET Causes /\ odd' # {}
        BY <4>1, Fields DEF Causes
      <4> QED BY <2>1, <3>1, <4>2, <4>3, Fields, OddLine
    <3>2. CASE sh.at # "prompt"
      BY <1>2, <2>1, <3>2, LineStays DEF TickPrint
    <3> QED BY <3>1, <3>2
  <2>4. PastKept'
    BY <2>1, PastStays DEF PromptInv, PastKept, SamePast
  <2> QED BY <2>2, <2>3, <2>4 DEF PromptInv
<1>3. CASE TickSwap
  <2>1. /\ UNCHANGED <<sink, ring, inp, ed, scr, sh, kid, report, recent, odd, ghost>>
        /\ intr' = [intr EXCEPT !.set = FALSE] /\ jobd' = [at |-> "table", to |-> {}]
    BY <1>3 DEF TickSwap
  <2>2. Actors'
    BY <2>1 DEF PromptInv, Actors
  <2>3. LineFine'
    BY <2>1, LineStays
  <2>4. PastKept'
    BY <2>1, PastStays DEF PromptInv, PastKept, SamePast
  <2> QED BY <2>2, <2>3, <2>4 DEF PromptInv
<1>5. CASE TickTable
  <2>1. /\ UNCHANGED <<sink, ring, inp, ed, scr, sh, kid, intr, report, recent, odd, ghost>>
        /\ jobd' = [at |-> "send", to |-> Registered]
    BY <1>5 DEF TickTable
  <2>2. Registered \in SUBSET (1..MaxCmds)
    BY PromptAssumption DEF Registered, PromptInv, Actors
  <2>3. Actors'
    BY <2>1, <2>2 DEF PromptInv, Actors
  <2>4. LineFine'
    BY <2>1, LineStays
  <2>5. PastKept'
    BY <2>1, PastStays DEF PromptInv, PastKept, SamePast
  <2> QED BY <2>3, <2>4, <2>5 DEF PromptInv
<1>4. ASSUME NEW dies \in BOOLEAN, TickSend(dies) PROVE PromptInv'
  <2>1. PICK hit \in BOOLEAN : hit = (sh.cmd \in jobd.to /\ Alive)
    OBVIOUS
  <2>2. /\ UNCHANGED <<sink, ring, inp, ed, scr, sh, intr, odd>>
        /\ jobd' = [at |-> "sleep", to |-> {}]
        /\ kid' = IF hit THEN IF dies THEN "dead" ELSE "caught" ELSE kid
        /\ report' = IF hit /\ dies THEN "queued" ELSE report
        /\ ghost' = IF ~hit THEN ghost
                    ELSE [ghost EXCEPT !.hit = @ \cup {sh.cmd}, !.sent = @ + 1,
                             !.echoes = IF Windowed THEN @ ELSE @ + 1,
                             !.stray = @ \/ intr.aim # sh.cmd]
    BY <1>4, <2>1 DEF TickSend, Deliver
  <2>3. Actors'
    BY <2>2 DEF PromptInv, Actors
  <2>4. LineFine'
    BY <2>2, LineStays
  <2>5. ghost' \in Ghosts /\ ghost'.lines = ghost.lines
    <3>1. ghost \in Ghosts /\ sh.cmd \in 0..MaxCmds
      BY DEF PromptInv, PastKept, Actors
    <3>2. PICK h \in SUBSET (0..MaxCmds) : h = ghost.hit \cup {sh.cmd}
      BY <3>1 DEF Ghosts
    <3>3. PICK n \in Nat : n = IF Windowed THEN ghost.echoes ELSE ghost.echoes + 1
      BY <3>1 DEF Ghosts
    <3>4. PICK stray \in BOOLEAN : stray = (ghost.stray \/ intr.aim # sh.cmd)
      OBVIOUS
    <3>5. PICK m \in Nat : m = ghost.sent + 1
      BY <3>1 DEF Ghosts
    <3>6. ghost' = IF ~hit THEN ghost
                   ELSE [ghost EXCEPT !.hit = h, !.sent = m, !.echoes = n, !.stray = stray]
      BY <2>2, <3>2, <3>3, <3>4, <3>5
    <3> QED BY <3>1, <3>6 DEF Ghosts
  <2>6. PastKept'
    BY <2>2, <2>5, PastStays DEF SamePast
  <2> QED BY <2>3, <2>4, <2>6 DEF PromptInv
<1> QED BY <1>1, <1>2, <1>3, <1>4, <1>5 DEF Jobd

LEMMA BackgroundStep ==
    ASSUME PromptInv, BackgroundPrints
    PROVE  PromptInv'
<1>1. /\ UNCHANGED <<sink, ring, inp, ed, sh, kid, intr, jobd, report, recent, ghost>>
      /\ sh.at = "prompt" /\ scr' = print_ch(scr, "*") /\ odd' = odd \cup {"async"}
  BY DEF BackgroundPrints
<1>2. Actors'
  BY <1>1 DEF PromptInv, Actors
<1>3. scr' \in Rows
  <2>1. "*" \in Cell /\ <<"*">> \in Seq(Cell) /\ scr \in Rows
    BY Fields DEF Cell
  <2>2. CASE Windowed
    <3>1. PICK k : k = IF Len(scr.cells) + 1 >= COLS THEN <<>> ELSE Append(scr.cells, "*")
      OBVIOUS
    <3>2. k \in Seq(Cell)
      BY <2>1, <3>1 DEF Rows
    <3>3. scr' = [scr EXCEPT !.cells = k]
      BY <1>1, <2>2, <3>1 DEF print_ch, push_cell
    <3> QED BY <2>1, <3>2, <3>3 DEF Rows
  <2>3. CASE ~Windowed
    <3>1. scr' = Over(scr, <<"*">>)
      BY <1>1, <2>3 DEF print_ch
    <3>2. Printed(scr', scr, <<"*">>)
      BY <2>1, <3>1, OverPrints
    <3> QED BY <3>2 DEF Printed
  <2> QED BY <2>2, <2>3
<1>4. odd' \in SUBSET Causes /\ odd' # {}
  BY <1>1, Fields DEF Causes
<1>5. LineFine'
  BY <1>1, <1>3, <1>4, Fields, OddLine
<1>6. PastKept'
  BY <1>1, PastStays DEF PromptInv, PastKept, SamePast
<1> QED BY <1>2, <1>5, <1>6 DEF PromptInv

-----------------------------------------------------------------------------
(* The theorems.                                                            *)

LEMMA PromptInit == Init => PromptInv
<1> SUFFICES ASSUME Init PROVE PromptInv
  OBVIOUS
<1>1. /\ sink \in Consoles /\ ring = <<>> /\ inp = <<>> /\ ed = Blank /\ scr = [cells |-> PROMPT, off |-> 0]
      /\ sh = [at |-> "prompt", cmd |-> 0] /\ kid = "none"
      /\ intr = [set |-> FALSE, aim |-> 0] /\ odd = {}
      /\ jobd = [at |-> "sleep", to |-> {}] /\ report = "none"
      /\ ghost = [lines |-> <<>>, presses |-> 0, flags |-> 0, sent |-> 0, echoes |-> 0,
                  keys |-> 0, hit |-> {}, stray |-> FALSE, late |-> FALSE]
  BY DEF Init
<1>2. Actors
  <2>1. /\ 0 \in 0..MaxCmds /\ RING_SIZE \in Nat /\ RING_SIZE > 0
        /\ TERM_IN_CAP \in Nat /\ TERM_IN_CAP > 0
    BY PromptAssumption
  <2>2. /\ ring \in Seq(Keys) /\ Len(ring) < RING_SIZE
        /\ inp \in Seq(Keys) /\ Len(inp) <= TERM_IN_CAP
    BY <1>1, <2>1
  <2> QED BY <1>1, <2>1, <2>2 DEF Actors
<1>3. /\ ed \in Edits /\ Len(ed.buf) = 0 /\ ed.pos = 0 /\ ed.shown = 0 /\ ed.nav = 0 /\ ed.n = 0
  <2>1. <<>> \in Lines
    <3>1. <<>> \in Seq(Char) /\ Len(<<>>) = 0 /\ 0 <= LINE_MAX
      BY PromptAssumption
    <3> QED BY <3>1, LineIs, Zenon
  <2>2. 0 \in 0..LINE_MAX /\ 0 \in 0..HIST_MAX /\ 0 \in 0..HIST_MAX - 1
    BY PromptAssumption
  <2> QED BY <1>1, <2>1, <2>2 DEF Blank, Edits
<1>4. Sharp(ed, scr) /\ scr \in Rows
  <2>1. PROMPT \in Seq(Cell) /\ Len(PROMPT) = 1 /\ PROMPT[1] = ">"
    BY DEF PROMPT, Cell
  <2>2. /\ scr \in Rows /\ Len(scr.cells) = 1 /\ scr.cells[1] = ">" /\ scr.off = 0
    BY <1>1, <2>1 DEF Rows
  <2>3. Holds(scr, 0)
    BY <2>2 DEF Holds
  <2>4. /\ ed.pos <= Len(ed.buf) /\ scr.off = Len(scr.cells) - 1 - ed.pos
        /\ \A i \in 1..Len(ed.buf) : scr.cells[i + 1] = ed.buf[i]
    BY <1>3, <2>2
  <2> QED BY <1>3, <2>2, <2>3, <2>4, Zenon DEF Sharp
<1>5. LineFine
  <2>1. PICK x : x = Here
    OBVIOUS
  <2>2. x \in Screens /\ x.e = ed /\ x.s = scr /\ x.odd = {}
    BY <1>1, <1>3, <1>4, <2>1 DEF Here, Screens
  <2>3. Fine(x)
    BY <1>3, <1>4, <2>2 DEF Fine
  <2> QED BY <1>1, <2>1, <2>3 DEF LineFine
<1>6. PastKept
  <2>1. ghost \in Ghosts /\ ghost.lines = <<>>
    BY <1>1 DEF Ghosts
  <2>2. Len(ghost.lines) = 0 /\ 0 <= HIST_MAX
    BY <2>1, PromptAssumption
  <2>3. \A back \in 0..ed.n - 1 : ed.hist[hist_slot(ed, back)] = ghost.lines[Len(ghost.lines) - back]
    BY <1>3
  <2> QED BY <1>3, <2>1, <2>2, <2>3 DEF PastKept, InPast
<1> QED BY <1>2, <1>5, <1>6 DEF PromptInv

LEMMA PromptNext == PromptInv /\ [Next]_vars => PromptInv'
<1> SUFFICES ASSUME PromptInv, [Next]_vars PROVE PromptInv'
  OBVIOUS
<1>1. ASSUME NEW k \in Keys, Press(k) PROVE PromptInv'
  BY <1>1, PressStep
<1>2. CASE Shell
  <2>1. ASSUME NEW k \in Keys, FeedEdit(k) PROVE PromptInv'
    BY <2>1, FeedEditStep
  <2>2. ASSUME NEW run \in BOOLEAN, FeedEnter(run) PROVE PromptInv'
    BY <2>2, FeedEnterStep
  <2> QED BY <1>2, <2>1, <2>2, FeedTabStep, FeedIntrStep, FeedEofStep, WaitStep DEF Shell
<1>3. CASE UNCHANGED vars
  <2>1. UNCHANGED <<sink, ring, inp, ed, scr, sh, kid, intr, jobd, report, odd, ghost>>
    BY <1>3 DEF vars
  <2>2. Actors'
    BY <2>1 DEF PromptInv, Actors
  <2>3. LineFine'
    BY <2>1, LineStays
  <2>4. PastKept'
    BY <2>1, PastStays DEF PromptInv, PastKept, SamePast
  <2> QED BY <2>2, <2>3, <2>4 DEF PromptInv
<1> QED BY <1>1, <1>2, <1>3, RouteStep, JobdStep, KidStep, BackgroundStep DEF Next

LEMMA PromptInvariant == Spec => []PromptInv
<1> QED BY PromptInit, PromptNext, PTL DEF Spec

\* Types and limits, whatever the sizes: the line and the caret are within the line
\* buffer, a recall within the history (lineedit.rs, keyboard.rs, jobs.rs).
THEOREM PromptTypeCorrect == Spec => []TypeOK
<1>1. PromptInv => TypeOK
  <2> SUFFICES ASSUME PromptInv PROVE TypeOK
    OBVIOUS
  <2>1. ed \in Edits /\ ed.nav <= ed.n
    BY Fields
  <2>2. ed.nav \in 0..ed.n
    BY <2>1, EditFields
  <2> QED BY <2>1, <2>2 DEF TypeOK, PromptInv, Actors, Edits
<1> QED BY <1>1, PromptInvariant, PTL

\* The history is the last HIST_MAX submitted lines in their order, empty lines
\* and repetitions of the latest aside, for every size of it, however often the
\* ring has wrapped (lineedit.rs remember).
THEOREM HistoryTrue == Spec => []HistoryIsPast
<1>1. PromptInv => HistoryIsPast
  <2> SUFFICES ASSUME PromptInv PROVE HistoryIsPast
    OBVIOUS
  <2>1. Len(ghost.lines) <= HIST_MAX /\ InPast(ed, ghost.lines) /\ Len(ghost.lines) \in Nat
    BY DEF PromptInv, PastKept, Ghosts
  <2>2. (IF Len(ghost.lines) < HIST_MAX THEN Len(ghost.lines) ELSE HIST_MAX) = Len(ghost.lines)
    BY <2>1, PromptAssumption
  <2> QED BY <2>1, <2>2, Zenon DEF HistoryIsPast, InPast
<1> QED BY <1>1, PromptInvariant, PTL

\* The line on the screen is the line Enter would submit, with the caret where
\* the next character goes, unless a named cause has spoilt it: for lines, rows
\* and alphabets of every size (lineedit.rs redraw, move_to, insert_printable,
\* backspace; gui.rs term_redraw_input).
THEOREM LineIsHonest == Spec => []LineHonest
<1>1. PromptInv => LineHonest
  <2> SUFFICES ASSUME PromptInv, odd = {} PROVE Honest
    BY DEF LineHonest
  <2>1. /\ ed \in Edits /\ scr \in Rows /\ Sharp(ed, scr)
    BY Fields
  <2>2. /\ Caret(scr) = ed.pos + 1 /\ ed.pos \in Nat /\ Len(ed.buf) \in Nat
    BY <2>1, SharpCaret, EditFields
  <2>3. Len(PROMPT) = 1 /\ PROMPT[1] = ">"
    BY DEF PROMPT
  <2>4. /\ Len(scr.cells) >= Len(ed.buf) + 1 /\ scr.cells[1] = ">"
        /\ \A i \in Len(ed.buf) + 2..Len(scr.cells) : scr.cells[i] = BLANK
        /\ \A i \in 1..Len(ed.buf) : scr.cells[i + 1] = ed.buf[i]
    BY <2>1 DEF Sharp, Holds
  <2>5. ASSUME NEW i \in 1..Len(scr.cells)
        PROVE  scr.cells[i] = CASE i <= Len(PROMPT) -> PROMPT[i]
                                [] i > Len(PROMPT) /\ i <= Len(PROMPT) + Len(ed.buf) ->
                                       ed.buf[i - Len(PROMPT)]
                                [] OTHER -> BLANK
    <3>1. CASE i <= 1
      <4>1. i = 1
        BY <3>1
      <4> QED BY <2>3, <2>4, <4>1
    <3>2. CASE i > 1 /\ i <= 1 + Len(ed.buf)
      <4>1. i - 1 \in 1..Len(ed.buf) /\ i - 1 + 1 = i /\ ~(i <= 1)
        BY <2>2, <3>2
      <4>2. scr.cells[i] = ed.buf[i - 1]
        BY <2>4, <4>1
      <4> QED BY <2>3, <3>2, <4>1, <4>2
    <3>3. CASE i > 1 /\ ~(i <= 1 + Len(ed.buf))
      <4>1. i \in Len(ed.buf) + 2..Len(scr.cells) /\ ~(i <= 1)
        BY <2>2, <3>3
      <4>2. scr.cells[i] = BLANK
        BY <2>4, <4>1
      <4> QED BY <2>3, <3>3, <4>1, <4>2
    <3> QED BY <3>1, <3>2, <3>3
  <2>6. Caret(scr) = Len(PROMPT) + ed.pos /\ Len(scr.cells) >= Len(PROMPT) + Len(ed.buf)
    BY <2>2, <2>3, <2>4
  <2> QED BY <2>5, <2>6 DEF Honest
<1> QED BY <1>1, PromptInvariant, PTL

\* What is still owed for a flag that was set: it is up, or the tick holds it.
Owed ==
    ghost.sent + (IF intr.set THEN 1 ELSE 0)
               + (IF jobd.at \in {"table", "send"} THEN 1 ELSE 0) <= ghost.flags

LEMMA OwedNext == PromptInv /\ Owed /\ [Next]_vars => Owed'
<1> SUFFICES ASSUME PromptInv, Owed, [Next]_vars PROVE Owed'
  OBVIOUS
<1>1. ghost.sent \in Nat /\ ghost.flags \in Nat /\ intr.set \in BOOLEAN /\ ghost \in Ghosts
  BY DEF PromptInv, PastKept, Ghosts, Actors
<1>2. ASSUME UNCHANGED <<intr, jobd>>, ghost'.sent = ghost.sent, ghost'.flags = ghost.flags
      PROVE  Owed'
  BY <1>2 DEF Owed
<1>4. ASSUME NEW k \in Keys, Press(k) PROVE Owed'
  <2>1. /\ UNCHANGED jobd /\ ghost'.sent = ghost.sent
        /\ ghost'.flags = IF k = "intr" /\ ~Windowed THEN ghost.flags + 1 ELSE ghost.flags
        /\ intr' = IF k = "intr" /\ ~Windowed THEN Flagged ELSE intr
    BY <1>1, <1>4 DEF Press, Ghosts
  <2> QED BY <1>1, <2>1 DEF Owed, Flagged
<1>5. CASE Route
  <2>1. /\ UNCHANGED jobd /\ ghost'.sent = ghost.sent
        /\ \/ ghost'.flags = ghost.flags + 1 /\ intr' = Flagged
           \/ ghost'.flags = ghost.flags /\ intr' = intr
    BY <1>1, <1>5 DEF Route, Ghosts
  <2> QED BY <1>1, <2>1 DEF Owed, Flagged
<1>6. CASE Shell
  <2>1. UNCHANGED <<intr, jobd>>
    BY <1>6 DEF Shell, FeedEdit, FeedTab, FeedIntr, FeedEof, FeedEnter, fg_wait_all, fg_begin,
                Reaped, fg_end
  <2>2. ghost'.sent = ghost.sent /\ ghost'.flags = ghost.flags
    <3>1. ASSUME NEW run \in BOOLEAN, FeedEnter(run)
          PROVE  ghost'.sent = ghost.sent /\ ghost'.flags = ghost.flags
      <4>1. PICK l : ghost' = [ghost EXCEPT !.lines = l]
        BY <3>1 DEF FeedEnter
      <4> QED BY <1>1, <4>1 DEF Ghosts
    <3>2. CASE FeedIntr
      <4>1. ghost' = ghost \/ ghost' = [ghost EXCEPT !.echoes = @ + 1]
        BY <3>2 DEF FeedIntr
      <4> QED BY <1>1, <4>1 DEF Ghosts
    <3>3. CASE fg_end
      <4>1. PICK l : ghost' = [ghost EXCEPT !.late = l]
        BY <3>3 DEF fg_end
      <4> QED BY <1>1, <4>1 DEF Ghosts
    <3>4. ASSUME NEW k \in Keys, FeedEdit(k)
          PROVE  ghost' = ghost
      BY <3>4 DEF FeedEdit
    <3>5. (FeedTab \/ FeedEof \/ fg_begin \/ Reaped) => ghost' = ghost
      BY DEF FeedTab, FeedEof, fg_begin, Reaped
    <3> QED BY <1>6, <3>1, <3>2, <3>3, <3>4, <3>5 DEF Shell, fg_wait_all
  <2> QED BY <1>2, <2>1, <2>2
<1>7. CASE Jobd
  <2>1. CASE TickDrain \/ TickPrint
    <3>1. UNCHANGED <<intr, ghost>> /\ jobd.at \in {"sleep", "print"}
          /\ jobd'.at \in {"print", "look", "sleep"}
      BY <2>1 DEF TickDrain, TickPrint, PromptInv, Actors
    <3> QED BY <1>1, <3>1 DEF Owed
  <2>2. CASE TickSwap
    <3>1. /\ intr.set /\ intr'.set = FALSE /\ ghost' = ghost
          /\ jobd.at \in {"look", "sleep"} /\ jobd'.at = "table"
      BY <2>2 DEF TickSwap, PromptInv, Actors
    <3> QED BY <1>1, <3>1 DEF Owed
  <2>3. CASE TickTable
    <3>1. UNCHANGED <<intr, ghost>> /\ jobd.at = "table" /\ jobd'.at = "send"
      BY <2>3 DEF TickTable
    <3> QED BY <1>1, <3>1 DEF Owed
  <2>4. ASSUME NEW dies \in BOOLEAN, TickSend(dies) PROVE Owed'
    <3>1. intr' = intr /\ jobd.at = "send" /\ jobd'.at = "sleep"
      BY <2>4 DEF TickSend, Deliver
    <3>2. ghost'.flags = ghost.flags /\ ghost'.sent \in {ghost.sent, ghost.sent + 1}
      BY <1>1, <2>4 DEF TickSend, Deliver, Ghosts
    <3> QED BY <1>1, <3>1, <3>2 DEF Owed
  <2> QED BY <1>7, <2>1, <2>2, <2>3, <2>4 DEF Jobd
<1>8. CASE KidEnds \/ KidReads \/ Expire \/ BackgroundPrints \/ UNCHANGED vars
  BY <1>2, <1>8 DEF KidEnds, KidReads, Expire, BackgroundPrints, vars
<1> QED BY <1>4, <1>5, <1>6, <1>7, <1>8 DEF Next

\* SIGINT is sent for a Ctrl+C that was typed, once: for any number of commands,
\* keys and ticks, however the interrupt, the compositor, the shell and jobd
\* interleave, there are never more deliveries than Ctrl+C keys taken (jobs.rs
\* tick, note_console_intr, note_term_intr).
THEOREM SignalsAreOwed == Spec => []OneSignalPerKey
<1>1. Init => Owed
  BY DEF Init, Owed
<1>2. PromptInv /\ Owed => OneSignalPerKey
  <2> SUFFICES ASSUME PromptInv, Owed PROVE OneSignalPerKey
    OBVIOUS
  <2>1. ghost.sent \in Nat /\ ghost.flags \in Nat
    BY DEF PromptInv, PastKept, Ghosts
  <2> QED BY <2>1 DEF Owed, OneSignalPerKey
<1> QED BY <1>1, <1>2, OwedNext, PromptInvariant, PTL DEF Spec
=============================================================================
