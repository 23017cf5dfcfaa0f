------------------------------- MODULE MCPool -------------------------------
\* Instances of Pool for TLC.
EXTENDS Pool, TLC

\* Client slots, sockets and keys are interchangeable where no liveness is asked.
Sym == Permutations(Clients) \cup Permutations(Conns) \cup Permutations(Keys)
=============================================================================
