----------------------------- MODULE MCScanner -----------------------------
\* Instances of Scanner for TLC.
EXTENDS Scanner

CONSTANT Payloads   \* lengths of the payloads of messages other than ReadyForQuery

\* ReadyForQuery with both kinds of status, and messages whose payload looks
\* like the start of a ReadyForQuery.
MCMessages ==
  {[type |-> Z, payload |-> <<s>>] : s \in {I, T}}
    \cup {[type |-> 68, payload |-> SubSeq(<<Z, 0, 0, 0, 5, I, 0>>, 1, n)] : n \in Payloads}
=============================================================================
