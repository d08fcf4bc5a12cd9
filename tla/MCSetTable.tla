----------------------------- MODULE MCSetTable -----------------------------
(* TLC instances of SetTable. *)
EXTENDS SetTable

\* Elements that all collide, that spread, that collide once the table is
\* small, and that wrap round at its end.
MCValues == 1 .. 6
MCHashes == { [v \in MCValues |-> 15],
              [v \in MCValues |-> 5 * v],
              [v \in MCValues |-> 4 * v],
              [v \in MCValues |-> 14 + (v % 3)] }
=============================================================================
