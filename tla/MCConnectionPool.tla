--------------------------- MODULE MCConnectionPool ---------------------------
(* Small instances of ConnectionPool. *)
EXTENDS ConnectionPool, TLC

\* Threads and sessions are interchangeable (in runs without liveness, and
\* with every or no thread asynchronous).
Symmetry == Permutations(Threads) \cup Permutations(Sessions)
===============================================================================
