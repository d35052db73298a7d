------------------------------- MODULE MCPipe -------------------------------
(***************************************************************************)
(* Instances of Pipe: the messages programs write and how much they read.  *)
(***************************************************************************)
EXTENDS Pipe

\* One byte, read one at a time: for the runs about ends, not content.
OneByte == {<<1>>}
\* One and three bytes: less and more than a ring of two holds.
ShortAndLong == {<<1>>, <<1, 2, 1>>}

\* Four bytes: two chunks of two, of which a ring of three takes one and a half.
Four == {<<1, 2, 1, 2>>}

NoAbilities == {}
=============================================================================
