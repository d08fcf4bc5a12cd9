------------------------ MODULE ThreadPoolRefinement ------------------------
(***************************************************************************)
(* ThreadPool implements TaskPool: the ring between head and tail is the   *)
(* pending sequence, the destroyer's window the dropped one, and the       *)
(* workers' locals the running set.                                        *)
(***************************************************************************)
EXTENDS ThreadPool

Window(from, length) == [k \in 1 .. length |-> queue[Wrap(from + k - 1)]]

Abstract == INSTANCE TaskPool WITH
    Parallelism <- Cardinality(Workers),
    pending  <- Window(queue_head, queue_length),
    running  <- Running,
    finished <- done,
    dropped  <- Window(discard_head, discard_count),
    total    <- submitted,
    closed   <- shutdown,
    gone     <- destroyed \/ freed

\* The pool's locks, condition variables, wrap-arounds and shutdown protocol
\* show a caller nothing but a bounded FIFO of tasks that are all settled in
\* the end.
ImplementsTaskPool == Abstract!FairSpec
=============================================================================
