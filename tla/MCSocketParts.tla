--------------------------- MODULE MCSocketParts ---------------------------
(* TLC instance of SocketParts. *)
EXTENDS SocketParts

\* Deadlines gone by, about a millisecond away, about a second, about the largest timeout.
MCDelays == -1 .. 5 \cup 10 .. 14 \cup 22 .. 26
=============================================================================
