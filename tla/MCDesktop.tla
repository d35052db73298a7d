----------------------------- MODULE MCDesktop -----------------------------
(* Small instances of the window system. *)
EXTENDS Desktop

\* Requests of programs: a narrow window at the left, and a wider one.
Narrow == {<<0, 2>>}
NarrowOrWide == {<<0, 2>>, <<1, 3>>}
Auto == {<<-1, 2>>}

\* Programs are alike.
Alike == Permutations(Apps)
=============================================================================
