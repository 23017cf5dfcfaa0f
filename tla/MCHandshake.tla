---------------------------- MODULE MCHandshake ----------------------------
\* An instance of Handshake for TLC.
EXTENDS Handshake

Text(n, u) == [num |-> n, unit |-> u, pad |-> FALSE]

\* Nothing, "0", "00", "0KB", a size with and without a unit, one whose product does
\* not fit, and a number that does not fit.
MCSizes == {NoSize, Zero, [Zero EXCEPT !.pad = TRUE], Text(0, "KB"), Text(3, ""), Text(3, "KB"),
            Text(9, "MB"), Text(Word, "")}

\* No options, "--max_db_size=3KB", the same after a text that is not a size, and
\* "-c max_db_size=3KB".
Setting(f, t) == [form |-> f, size |-> t]
MCOptions ==
  {<<>>, <<Setting("--", Text(3, "KB"))>>,
   <<Setting("--", Text(Word, "")), Setting("--", Text(3, "KB"))>>,
   <<Setting("-c", Text(3, "KB"))>>}
=============================================================================
