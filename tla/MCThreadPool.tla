---------------------------- MODULE MCThreadPool ----------------------------
(* TLC instances of ThreadPool. *)
EXTENDS ThreadPool, TLC

\* Workers are interchangeable, and so are the clients that did not create
\* the pool.  Only used by runs without liveness properties.
Symmetry == Permutations(Workers) \cup Permutations(Clients \ {Owner})
=============================================================================
