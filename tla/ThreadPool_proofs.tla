-------------------------- MODULE ThreadPool_proofs --------------------------
(***************************************************************************)
(* Proofs about ThreadPool, for every set of workers and clients, every    *)
(* queue capacity and every value of the bounds, in three parts.           *)
(*                                                                         *)
(* The pool.  IndInv is inductive.  Its conjuncts lean on each other: the  *)
(* counts must be right for the wake-ups that are conditional on them to   *)
(* happen, and the wait sets must be right for a count of zero to mean     *)
(* that nobody is parked.  So the proof goes group of variables by group   *)
(* of variables, each with one step per action.                            *)
(*                                                                         *)
(* The tasks, from that invariant: where every accepted task is, what the  *)
(* statistics say, when threadpool_wait returns, when memory is given      *)
(* back, and that the pool is a bounded queue of tasks, as TaskPool        *)
(* describes it.                                                           *)
(*                                                                         *)
(* The wake-ups, from it too.  The pool signals no more often than it      *)
(* must.  That it does so often enough: no worker sleeps beside a task     *)
(* that is left to a busy one, and no submitter beside space it could use. *)
(***************************************************************************)
EXTENDS ThreadPoolRefinement, FiniteSetTheorems, SequenceTheorems, TLAPS

-----------------------------------------------------------------------------
(* Cardinalities of the sets of threads in a state *)

\* Adding an element to a finite set counts one more, unless it was there;
\* removing it one less, unless it was not.
LEMMA CardinalityMoves ==
    ASSUME NEW S, IsFiniteSet(S), NEW x
    PROVE  /\ Cardinality(S) \in Nat
           /\ Cardinality(S \cup {x}) = IF x \in S THEN Cardinality(S)
                                        ELSE Cardinality(S) + 1
           /\ Cardinality(S \ {x}) = IF x \in S THEN Cardinality(S) - 1
                                     ELSE Cardinality(S)
           /\ x \in S => Cardinality(S) >= 1
           /\ S # {} => Cardinality(S) >= 1
           /\ S = {} => Cardinality(S) = 0
<1>1. Cardinality(S) \in Nat
  BY FS_CardinalityType
<1>2. Cardinality(S \cup {x}) = IF x \in S THEN Cardinality(S) ELSE Cardinality(S) + 1
  BY FS_AddElement
<1>3. Cardinality(S \ {x}) = IF x \in S THEN Cardinality(S) - 1 ELSE Cardinality(S)
  BY FS_RemoveElement
<1>4. Cardinality(S) = 0 <=> S = {}
  BY FS_EmptySet
<1> QED  BY <1>1, <1>2, <1>3, <1>4

\* The sets of threads in a state are finite.
LEMMA StatesFinite ==
    /\ \A state : IsFiniteSet(WorkersAt(state)) /\ IsFiniteSet(ClientsAt(state))
    /\ IsFiniteSet(Inside) /\ IsFiniteSet(Batches)
BY FS_Subset, ThreadAssumption DEF WorkersAt, ClientsAt, Inside, Batches

\* A thread's move, and no move at all.
WorkerGoes(w, to) == /\ wpc \in [Workers -> WorkerStates]
                     /\ wpc' = [wpc EXCEPT ![w] = to]
ClientGoes(c, to) == /\ cpc \in [Clients -> ClientStates]
                     /\ cpc' = [cpc EXCEPT ![c] = to]
WorkersStill == wpc' = wpc
ClientsStill == cpc' = cpc /\ count' = count

\* A worker that goes to another state changes the counts of two states by one.
LEMMA WorkerMoves ==
    ASSUME NEW w \in Workers, NEW to, WorkerGoes(w, to)
    PROVE  \A s : /\ Cardinality(WorkersAt(s)) \in Nat
                  /\ wpc[w] = s => Cardinality(WorkersAt(s)) >= 1
                  /\ WorkersAt(s)' = IF s = to THEN WorkersAt(s) \cup {w}
                                     ELSE WorkersAt(s) \ {w}
                  /\ Cardinality(WorkersAt(s)') =
                       Cardinality(WorkersAt(s))
                         + (IF s = to /\ wpc[w] # s THEN 1 ELSE 0)
                         - (IF s # to /\ wpc[w] = s THEN 1 ELSE 0)
<1> TAKE s
<1>1. WorkersAt(s)' = IF s = to THEN WorkersAt(s) \cup {w} ELSE WorkersAt(s) \ {w}
  BY DEF WorkersAt, WorkerGoes
<1>2. w \in WorkersAt(s) <=> wpc[w] = s
  BY DEF WorkersAt
<1>3. IsFiniteSet(WorkersAt(s))
  BY StatesFinite
<1>4. /\ Cardinality(WorkersAt(s)) \in Nat
      /\ Cardinality(WorkersAt(s) \cup {w}) = IF w \in WorkersAt(s) THEN Cardinality(WorkersAt(s))
                                   ELSE Cardinality(WorkersAt(s)) + 1
      /\ Cardinality(WorkersAt(s) \ {w}) = IF w \in WorkersAt(s) THEN Cardinality(WorkersAt(s)) - 1
                                   ELSE Cardinality(WorkersAt(s))
      /\ w \in WorkersAt(s) => Cardinality(WorkersAt(s)) >= 1
  BY <1>3, CardinalityMoves
<1> QED  BY <1>1, <1>2, <1>4

\* The same for a client.
LEMMA ClientMoves ==
    ASSUME NEW c \in Clients, NEW to, ClientGoes(c, to)
    PROVE  \A s : /\ Cardinality(ClientsAt(s)) \in Nat
                  /\ cpc[c] = s => Cardinality(ClientsAt(s)) >= 1
                  /\ ClientsAt(s)' = IF s = to THEN ClientsAt(s) \cup {c}
                                     ELSE ClientsAt(s) \ {c}
                  /\ Cardinality(ClientsAt(s)') =
                       Cardinality(ClientsAt(s))
                         + (IF s = to /\ cpc[c] # s THEN 1 ELSE 0)
                         - (IF s # to /\ cpc[c] = s THEN 1 ELSE 0)
<1> TAKE s
<1>1. ClientsAt(s)' = IF s = to THEN ClientsAt(s) \cup {c} ELSE ClientsAt(s) \ {c}
  BY DEF ClientsAt, ClientGoes
<1>2. c \in ClientsAt(s) <=> cpc[c] = s
  BY DEF ClientsAt
<1>3. IsFiniteSet(ClientsAt(s))
  BY StatesFinite
<1>4. /\ Cardinality(ClientsAt(s)) \in Nat
      /\ Cardinality(ClientsAt(s) \cup {c}) = IF c \in ClientsAt(s) THEN Cardinality(ClientsAt(s))
                                   ELSE Cardinality(ClientsAt(s)) + 1
      /\ Cardinality(ClientsAt(s) \ {c}) = IF c \in ClientsAt(s) THEN Cardinality(ClientsAt(s)) - 1
                                   ELSE Cardinality(ClientsAt(s))
      /\ c \in ClientsAt(s) => Cardinality(ClientsAt(s)) >= 1
  BY <1>3, CardinalityMoves
<1> QED  BY <1>1, <1>2, <1>4

\* Clients inside the pool: those that submit and those that wait.
LEMMA InsideMoves ==
    ASSUME NEW c \in Clients, NEW to, ClientGoes(c, to)
    PROVE  /\ Cardinality(Inside) \in Nat
           /\ cpc[c] \in {"submit", "wait"} => Cardinality(Inside) >= 1
           /\ Cardinality(Inside') =
                Cardinality(Inside)
                  + (IF to \in {"submit", "wait"} /\ cpc[c] \notin {"submit", "wait"}
                     THEN 1 ELSE 0)
                  - (IF to \notin {"submit", "wait"} /\ cpc[c] \in {"submit", "wait"}
                     THEN 1 ELSE 0)
<1>1. Inside' = IF to \in {"submit", "wait"} THEN Inside \cup {c} ELSE Inside \ {c}
  BY DEF Inside, ClientGoes
<1>2. c \in Inside <=> cpc[c] \in {"submit", "wait"}
  BY DEF Inside
<1>3. IsFiniteSet(Inside)
  BY StatesFinite
<1>4. /\ Cardinality(Inside) \in Nat
      /\ Cardinality(Inside \cup {c}) = IF c \in Inside THEN Cardinality(Inside)
                                   ELSE Cardinality(Inside) + 1
      /\ Cardinality(Inside \ {c}) = IF c \in Inside THEN Cardinality(Inside) - 1
                                   ELSE Cardinality(Inside)
      /\ c \in Inside => Cardinality(Inside) >= 1
  BY <1>3, CardinalityMoves
<1> QED  BY <1>1, <1>2, <1>4

\* What the moves do to the sets the code keeps counts of.
LEMMA WorkerCounts ==
    ASSUME NEW w \in Workers, NEW to, WorkerGoes(w, to)
    PROVE  /\ Cardinality(WorkersAt("run")') = Cardinality(WorkersAt("run"))
                + (IF to = "run" THEN 1 ELSE 0) - (IF wpc[w] = "run" THEN 1 ELSE 0)
           /\ Cardinality(WorkersAt("idle")') = Cardinality(WorkersAt("idle"))
                + (IF to = "idle" THEN 1 ELSE 0) - (IF wpc[w] = "idle" THEN 1 ELSE 0)
           /\ Cardinality(WorkersAt("run")) \in Nat
           /\ Cardinality(WorkersAt("idle")) \in Nat
<1>1. \A s : /\ Cardinality(WorkersAt(s)) \in Nat
             /\ Cardinality(WorkersAt(s)') =
                  Cardinality(WorkersAt(s)) + (IF s = to /\ wpc[w] # s THEN 1 ELSE 0)
                                            - (IF s # to /\ wpc[w] = s THEN 1 ELSE 0)
  BY WorkerMoves
<1> QED  BY <1>1

\* A client that moves leaves the workers' counts alone.
LEMMA ClientCounts ==
    ASSUME NEW c \in Clients, NEW to, ClientGoes(c, to)
    PROVE  /\ Cardinality(ClientsAt("submit")') = Cardinality(ClientsAt("submit"))
                + (IF to = "submit" THEN 1 ELSE 0) - (IF cpc[c] = "submit" THEN 1 ELSE 0)
           /\ Cardinality(ClientsAt("wait")') = Cardinality(ClientsAt("wait"))
                + (IF to = "wait" THEN 1 ELSE 0) - (IF cpc[c] = "wait" THEN 1 ELSE 0)
           /\ Cardinality(Inside') = Cardinality(Inside)
                + (IF to \in {"submit", "wait"} THEN 1 ELSE 0)
                - (IF cpc[c] \in {"submit", "wait"} THEN 1 ELSE 0)
           /\ Cardinality(ClientsAt("submit")) \in Nat
           /\ Cardinality(ClientsAt("wait")) \in Nat
           /\ Cardinality(Inside) \in Nat
<1>1. \A s : /\ Cardinality(ClientsAt(s)) \in Nat
             /\ Cardinality(ClientsAt(s)') =
                  Cardinality(ClientsAt(s)) + (IF s = to /\ cpc[c] # s THEN 1 ELSE 0)
                                            - (IF s # to /\ cpc[c] = s THEN 1 ELSE 0)
  BY ClientMoves
<1>2. /\ Cardinality(Inside) \in Nat
      /\ Cardinality(Inside') = Cardinality(Inside)
           + (IF to \in {"submit", "wait"} /\ cpc[c] \notin {"submit", "wait"} THEN 1 ELSE 0)
           - (IF to \notin {"submit", "wait"} /\ cpc[c] \in {"submit", "wait"} THEN 1 ELSE 0)
  BY InsideMoves
<1> QED  BY <1>1, <1>2

\* Threads that do not move leave the counts alone.
LEMMA WorkersStay ==
    ASSUME WorkersStill
    PROVE  \A s : WorkersAt(s)' = WorkersAt(s)
BY DEF WorkersAt, WorkersStill

\* ... and clients that do not move leave the clients' counts alone.
LEMMA ClientsStay ==
    ASSUME ClientsStill
    PROVE  /\ \A s : ClientsAt(s)' = ClientsAt(s)
           /\ Inside' = Inside /\ Batches' = Batches
BY DEF ClientsAt, Inside, Batches, ClientsStill

\* A client that neither starts nor stops submitting leaves the batches alone.
LEMMA BatchesStay ==
    ASSUME NEW c \in Clients, NEW to, ClientGoes(c, to), count' = count,
           cpc[c] # "submit", to # "submit"
    PROVE  Batches' = Batches
BY DEF Batches, ClientGoes

\* A submitter that parks is one batch more if it submits several tasks ...
LEMMA BatchEnters ==
    ASSUME NEW c \in Clients, NEW n \in 1 .. Capacity,
           ClientGoes(c, "submit"), cpc[c] # "submit",
           count \in [Clients -> 0 .. Capacity],
           count' = [count EXCEPT ![c] = n]
    PROVE  /\ Cardinality(Batches) \in Nat
           /\ Cardinality(Batches') = Cardinality(Batches) + (IF n > 1 THEN 1 ELSE 0)
<1>1. Batches' = IF n > 1 THEN Batches \cup {c} ELSE Batches
  BY BoundAssumption DEF Batches, ClientGoes
<1>2. c \notin Batches
  BY DEF Batches
<1>3. IsFiniteSet(Batches)
  BY StatesFinite
<1>4. /\ Cardinality(Batches) \in Nat
      /\ Cardinality(Batches \cup {c}) = IF c \in Batches THEN Cardinality(Batches)
                                         ELSE Cardinality(Batches) + 1
  BY <1>3, CardinalityMoves
<1> QED  BY <1>1, <1>2, <1>4

\* ... and one less when it leaves.
LEMMA BatchLeaves ==
    ASSUME NEW c \in Clients,
           ClientGoes(c, "out"), cpc[c] = "submit",
           count \in [Clients -> 0 .. Capacity],
           count' = [count EXCEPT ![c] = 0]
    PROVE  /\ Cardinality(Batches) \in Nat
           /\ count[c] > 1 => Cardinality(Batches) >= 1
           /\ Cardinality(Batches') = Cardinality(Batches) - (IF count[c] > 1 THEN 1 ELSE 0)
<1>1. Batches' = Batches \ {c}
  BY DEF Batches, ClientGoes
<1>2. c \in Batches <=> count[c] > 1
  BY DEF Batches
<1>3. IsFiniteSet(Batches)
  BY StatesFinite
<1>4. /\ Cardinality(Batches) \in Nat
      /\ Cardinality(Batches \ {c}) = IF c \in Batches THEN Cardinality(Batches) - 1
                                      ELSE Cardinality(Batches)
      /\ c \in Batches => Cardinality(Batches) >= 1
  BY <1>3, CardinalityMoves
<1> QED  BY <1>1, <1>2, <1>4

-----------------------------------------------------------------------------
(* The counts *)

\* No step forgets or repeats a count.
LEMMA CountersStep ==
    ASSUME IndInv, [Next]_vars
    PROVE  CountersMatchThreads'
<1> USE DEF ring, stats, waiting, users, life, conds, worker, client, discard, history
<1>t. /\ wpc \in [Workers -> WorkerStates] /\ cpc \in [Clients -> ClientStates]
      /\ count \in [Clients -> 0 .. Capacity] /\ api_users \in Nat
      /\ references \in Nat /\ holders \subseteq Clients /\ freed \in BOOLEAN
  BY DEF IndInv, TypeOK
<1>c. CountersMatchThreads
  BY DEF IndInv
<1>h. Handles
  BY DEF IndInv
<1>1. ASSUME NEW w \in Workers, CreateThread(w)  PROVE CountersMatchThreads'
  <2>1. WorkerGoes(w, "start") /\ wpc[w] = "none"
    BY <1>1, <1>t DEF WorkerGoes, CreateThread
  <2>2. /\ Cardinality(WorkersAt("run")') = Cardinality(WorkersAt("run"))
        /\ Cardinality(WorkersAt("idle")') = Cardinality(WorkersAt("idle"))
        /\ Cardinality(WorkersAt("run")) \in Nat /\ Cardinality(WorkersAt("idle")) \in Nat
    BY <2>1, WorkerCounts
  <2>3. \A s : ClientsAt(s)' = ClientsAt(s)
    BY <1>1, ClientsStay DEF ClientsStill, CreateThread
  <2>4. Inside' = Inside /\ Batches' = Batches
    BY <1>1, ClientsStay DEF ClientsStill, CreateThread
  <2> QED  BY <1>1, <1>c, <2>1, <2>2, <2>3, <2>4 DEF CreateThread, CountersMatchThreads
<1>2. ASSUME NEW w \in Workers, WorkerParks(w)  PROVE CountersMatchThreads'
  <2>1. WorkerGoes(w, "idle") /\ wpc[w] \in {"start", "loop", "idle"}
    BY <1>2, <1>t DEF WorkerGoes, WorkerParks, AtLoopHead
  <2>2. /\ Cardinality(WorkersAt("run")') = Cardinality(WorkersAt("run"))
        /\ Cardinality(WorkersAt("idle")') = Cardinality(WorkersAt("idle"))
                + (IF wpc[w] = "idle" THEN 0 ELSE 1)
        /\ Cardinality(WorkersAt("run")) \in Nat /\ Cardinality(WorkersAt("idle")) \in Nat
    BY <2>1, WorkerCounts
  <2>3. \A s : ClientsAt(s)' = ClientsAt(s)
    BY <1>2, ClientsStay DEF ClientsStill, WorkerParks
  <2>4. Inside' = Inside /\ Batches' = Batches
    BY <1>2, ClientsStay DEF ClientsStill, WorkerParks
  <2> QED  BY <1>2, <1>c, <2>1, <2>2, <2>3, <2>4 DEF WorkerParks, CountersMatchThreads, WaitingWithout
<1>3. ASSUME NEW w \in Workers, WorkerExits(w)  PROVE CountersMatchThreads'
  <2>1. WorkerGoes(w, "exited") /\ wpc[w] \in {"start", "loop", "idle"}
    BY <1>3, <1>t DEF WorkerGoes, WorkerExits, AtLoopHead
  <2>2. /\ Cardinality(WorkersAt("run")') = Cardinality(WorkersAt("run"))
        /\ Cardinality(WorkersAt("idle")') = Cardinality(WorkersAt("idle"))
                - (IF wpc[w] = "idle" THEN 1 ELSE 0)
        /\ Cardinality(WorkersAt("run")) \in Nat /\ Cardinality(WorkersAt("idle")) \in Nat
    BY <2>1, WorkerCounts
  <2>3. \A s : ClientsAt(s)' = ClientsAt(s)
    BY <1>3, ClientsStay DEF ClientsStill, WorkerExits
  <2>4. Inside' = Inside /\ Batches' = Batches
    BY <1>3, ClientsStay DEF ClientsStill, WorkerExits
  <2> QED  BY <1>3, <1>c, <2>1, <2>2, <2>3, <2>4 DEF WorkerExits, CountersMatchThreads, WaitingWithout
<1>4. ASSUME NEW w \in Workers, WorkerDequeues(w)  PROVE CountersMatchThreads'
  <2>1. WorkerGoes(w, "run") /\ wpc[w] \in {"start", "loop", "idle"}
    BY <1>4, <1>t DEF WorkerGoes, WorkerDequeues, AtLoopHead
  <2>2. /\ Cardinality(WorkersAt("run")') = Cardinality(WorkersAt("run")) + 1
        /\ Cardinality(WorkersAt("idle")') = Cardinality(WorkersAt("idle"))
                - (IF wpc[w] = "idle" THEN 1 ELSE 0)
        /\ Cardinality(WorkersAt("run")) \in Nat /\ Cardinality(WorkersAt("idle")) \in Nat
    BY <2>1, WorkerCounts
  <2>3. \A s : ClientsAt(s)' = ClientsAt(s)
    BY <1>4, ClientsStay DEF ClientsStill, WorkerDequeues
  <2>4. Inside' = Inside /\ Batches' = Batches
    BY <1>4, ClientsStay DEF ClientsStill, WorkerDequeues
  <2> QED  BY <1>4, <1>c, <2>1, <2>2, <2>3, <2>4 DEF WorkerDequeues, CountersMatchThreads, WaitingWithout
<1>5. ASSUME NEW w \in Workers, WorkerFinishes(w)  PROVE CountersMatchThreads'
  <2>1. WorkerGoes(w, "loop") /\ wpc[w] = "run"
    BY <1>5, <1>t DEF WorkerGoes, WorkerFinishes
  <2>2. /\ Cardinality(WorkersAt("run")') = Cardinality(WorkersAt("run")) - 1
        /\ Cardinality(WorkersAt("idle")') = Cardinality(WorkersAt("idle"))
        /\ Cardinality(WorkersAt("run")) \in Nat /\ Cardinality(WorkersAt("idle")) \in Nat
    BY <2>1, WorkerCounts
  <2>3. \A s : ClientsAt(s)' = ClientsAt(s)
    BY <1>5, ClientsStay DEF ClientsStill, WorkerFinishes
  <2>4. Inside' = Inside /\ Batches' = Batches
    BY <1>5, ClientsStay DEF ClientsStill, WorkerFinishes
  <2> QED  BY <1>5, <1>c, <2>1, <2>2, <2>3, <2>4 DEF WorkerFinishes, CountersMatchThreads
<1>6. CASE CreateReturns
  <2>1. ClientGoes(Owner, "out") /\ cpc[Owner] = "create"
    BY <1>6, <1>t, ThreadAssumption DEF ClientGoes, CreateReturns
  <2>2. /\ Cardinality(ClientsAt("submit")') = Cardinality(ClientsAt("submit"))
        /\ Cardinality(ClientsAt("wait")') = Cardinality(ClientsAt("wait"))
        /\ Cardinality(Inside') = Cardinality(Inside)
    BY <2>1, ThreadAssumption, ClientCounts
  <2>3. Batches' = Batches
    BY <1>6, <2>1, ThreadAssumption, BatchesStay DEF CreateReturns
  <2>4. \A s : WorkersAt(s)' = WorkersAt(s)
    BY <1>6, WorkersStay DEF WorkersStill, CreateReturns
  <2> QED  BY <1>6, <1>c, <2>1, <2>2, <2>3, <2>4 DEF CreateReturns, CountersMatchThreads
<1>7. CASE CreateFails
  <2>1. ClientGoes(Owner, "unwind") /\ cpc[Owner] = "create"
    BY <1>7, <1>t, ThreadAssumption DEF ClientGoes, CreateFails
  <2>2. /\ Cardinality(ClientsAt("submit")') = Cardinality(ClientsAt("submit"))
        /\ Cardinality(ClientsAt("wait")') = Cardinality(ClientsAt("wait"))
        /\ Cardinality(Inside') = Cardinality(Inside)
    BY <2>1, ThreadAssumption, ClientCounts
  <2>3. Batches' = Batches
    BY <1>7, <2>1, ThreadAssumption, BatchesStay DEF CreateFails
  <2>4. \A s : WorkersAt(s)' = WorkersAt(s)
    BY <1>7, WorkersStay DEF WorkersStill, CreateFails
  <2> QED  BY <1>7, <1>c, <2>1, <2>2, <2>3, <2>4 DEF CreateFails, CountersMatchThreads
<1>8. CASE CreateUnwinds
  <2>1. ClientGoes(Owner, "out") /\ cpc[Owner] = "unwind"
    BY <1>8, <1>t, ThreadAssumption DEF ClientGoes, CreateUnwinds
  <2>2. /\ Cardinality(ClientsAt("submit")') = Cardinality(ClientsAt("submit"))
        /\ Cardinality(ClientsAt("wait")') = Cardinality(ClientsAt("wait"))
        /\ Cardinality(Inside') = Cardinality(Inside)
    BY <2>1, ThreadAssumption, ClientCounts
  <2>3. Batches' = Batches
    BY <1>8, <2>1, ThreadAssumption, BatchesStay DEF CreateUnwinds
  <2>4. \A s : WorkersAt(s)' = WorkersAt(s)
    BY <1>8, WorkersStay DEF WorkersStill, CreateUnwinds
  <2> QED  BY <1>8, <1>c, <2>1, <2>2, <2>3, <2>4 DEF CreateUnwinds, CountersMatchThreads
<1>9. ASSUME NEW n \in 1 .. Capacity, SubmitAccepted(n)  PROVE CountersMatchThreads'
  <2>1. WorkersStill /\ ClientsStill
    BY <1>9 DEF WorkersStill, ClientsStill, SubmitAccepted
  <2>2. /\ \A s : WorkersAt(s)' = WorkersAt(s) /\ ClientsAt(s)' = ClientsAt(s)
        /\ Inside' = Inside /\ Batches' = Batches
    BY <2>1, WorkersStay, ClientsStay
  <2> QED  BY <1>9, <1>c, <2>2 DEF SubmitAccepted, CountersMatchThreads
<1>10. ASSUME NEW c \in Clients, NEW n \in 1 .. Capacity, SubmitBlocks(c, n)  PROVE CountersMatchThreads'
  <2>1. ClientGoes(c, "submit") /\ cpc[c] = "out"
    BY <1>10, <1>t DEF ClientGoes, SubmitBlocks, CanCall
  <2>2. /\ Cardinality(ClientsAt("submit")') = Cardinality(ClientsAt("submit")) + 1
        /\ Cardinality(ClientsAt("wait")') = Cardinality(ClientsAt("wait"))
        /\ Cardinality(Inside') = Cardinality(Inside) + 1
    BY <2>1, ClientCounts
  <2>3. /\ Cardinality(Batches) \in Nat
        /\ Cardinality(Batches') = Cardinality(Batches) + (IF n > 1 THEN 1 ELSE 0)
    BY <1>10, <1>t, <2>1, BatchEnters DEF SubmitBlocks
  <2>4. \A s : WorkersAt(s)' = WorkersAt(s)
    BY <1>10, WorkersStay DEF WorkersStill, SubmitBlocks
  <2> QED  BY <1>10, <1>c, <2>1, <2>2, <2>3, <2>4 DEF SubmitBlocks, CountersMatchThreads
<1>11. ASSUME NEW c \in Clients, SubmitParksAgain(c)  PROVE CountersMatchThreads'
  <2>1. WorkersStill /\ ClientsStill
    BY <1>11 DEF WorkersStill, ClientsStill, SubmitParksAgain
  <2>2. /\ \A s : WorkersAt(s)' = WorkersAt(s) /\ ClientsAt(s)' = ClientsAt(s)
        /\ Inside' = Inside /\ Batches' = Batches
    BY <2>1, WorkersStay, ClientsStay
  <2> QED  BY <1>11, <1>c, <2>2 DEF SubmitParksAgain, CountersMatchThreads
<1>12. ASSUME NEW c \in Clients, SubmitFindsShutdown(c)  PROVE CountersMatchThreads'
  <2>1. ClientGoes(c, "out") /\ cpc[c] = "submit"
    BY <1>12, <1>t DEF ClientGoes, SubmitFindsShutdown, SubmitterAwake
  <2>2. /\ Cardinality(ClientsAt("submit")') = Cardinality(ClientsAt("submit")) - 1
        /\ Cardinality(ClientsAt("wait")') = Cardinality(ClientsAt("wait"))
        /\ Cardinality(Inside') = Cardinality(Inside) - 1
    BY <2>1, ClientCounts
  <2>3. Cardinality(Batches') = Cardinality(Batches) - (IF count[c] > 1 THEN 1 ELSE 0)
    BY <1>12, <1>t, <2>1, BatchLeaves DEF SubmitFindsShutdown
  <2>4. \A s : WorkersAt(s)' = WorkersAt(s)
    BY <1>12, WorkersStay DEF WorkersStill, SubmitFindsShutdown
  <2> QED  BY <1>12, <1>c, <2>1, <2>2, <2>3, <2>4 DEF SubmitFindsShutdown, SubmitterStopsWaiting, SubmitLeave, Leave, CountersMatchThreads
<1>13. ASSUME NEW c \in Clients, SubmitFindsSpace(c)  PROVE CountersMatchThreads'
  <2>1. ClientGoes(c, "out") /\ cpc[c] = "submit"
    BY <1>13, <1>t DEF ClientGoes, SubmitFindsSpace, SubmitterAwake
  <2>2. /\ Cardinality(ClientsAt("submit")') = Cardinality(ClientsAt("submit")) - 1
        /\ Cardinality(ClientsAt("wait")') = Cardinality(ClientsAt("wait"))
        /\ Cardinality(Inside') = Cardinality(Inside) - 1
    BY <2>1, ClientCounts
  <2>3. Cardinality(Batches') = Cardinality(Batches) - (IF count[c] > 1 THEN 1 ELSE 0)
    BY <1>13, <1>t, <2>1, BatchLeaves DEF SubmitFindsSpace
  <2>4. \A s : WorkersAt(s)' = WorkersAt(s)
    BY <1>13, WorkersStay DEF WorkersStill, SubmitFindsSpace
  <2> QED  BY <1>13, <1>c, <2>1, <2>2, <2>3, <2>4 DEF SubmitFindsSpace, SubmitterStopsWaiting, SubmitLeave, Leave, CountersMatchThreads
<1>14. ASSUME NEW c \in Clients, WaitBlocks(c)  PROVE CountersMatchThreads'
  <2>1. ClientGoes(c, "wait") /\ cpc[c] = "out"
    BY <1>14, <1>t DEF ClientGoes, WaitBlocks, CanCall
  <2>2. /\ Cardinality(ClientsAt("submit")') = Cardinality(ClientsAt("submit"))
        /\ Cardinality(ClientsAt("wait")') = Cardinality(ClientsAt("wait")) + 1
        /\ Cardinality(Inside') = Cardinality(Inside) + 1
    BY <2>1, ClientCounts
  <2>3. Batches' = Batches
    BY <1>14, <2>1, BatchesStay DEF WaitBlocks
  <2>4. \A s : WorkersAt(s)' = WorkersAt(s)
    BY <1>14, WorkersStay DEF WorkersStill, WaitBlocks
  <2> QED  BY <1>14, <1>c, <2>1, <2>2, <2>3, <2>4 DEF WaitBlocks, CountersMatchThreads
<1>15. ASSUME NEW c \in Clients, WaitParksAgain(c)  PROVE CountersMatchThreads'
  <2>1. WorkersStill /\ ClientsStill
    BY <1>15 DEF WorkersStill, ClientsStill, WaitParksAgain
  <2>2. /\ \A s : WorkersAt(s)' = WorkersAt(s) /\ ClientsAt(s)' = ClientsAt(s)
        /\ Inside' = Inside /\ Batches' = Batches
    BY <2>1, WorkersStay, ClientsStay
  <2> QED  BY <1>15, <1>c, <2>2 DEF WaitParksAgain, CountersMatchThreads
<1>16. ASSUME NEW c \in Clients, WaitReturns(c)  PROVE CountersMatchThreads'
  <2>1. ClientGoes(c, "out") /\ cpc[c] = "wait"
    BY <1>16, <1>t DEF ClientGoes, WaitReturns, WaiterAwake
  <2>2. /\ Cardinality(ClientsAt("submit")') = Cardinality(ClientsAt("submit"))
        /\ Cardinality(ClientsAt("wait")') = Cardinality(ClientsAt("wait")) - 1
        /\ Cardinality(Inside') = Cardinality(Inside) - 1
    BY <2>1, ClientCounts
  <2>3. Batches' = Batches
    BY <1>16, <2>1, BatchesStay DEF WaitReturns
  <2>4. \A s : WorkersAt(s)' = WorkersAt(s)
    BY <1>16, WorkersStay DEF WorkersStill, WaitReturns
  <2> QED  BY <1>16, <1>c, <2>1, <2>2, <2>3, <2>4 DEF WaitReturns, Leave, CountersMatchThreads
<1>17. ASSUME NEW c \in Clients, NEW safe_exit \in BOOLEAN, Shutdown(c, safe_exit)  PROVE CountersMatchThreads'
  <2>1. ClientGoes(c, "discard") /\ cpc[c] = "out"
    BY <1>17, <1>t DEF ClientGoes, Shutdown, CanCall
  <2>2. /\ Cardinality(ClientsAt("submit")') = Cardinality(ClientsAt("submit"))
        /\ Cardinality(ClientsAt("wait")') = Cardinality(ClientsAt("wait"))
        /\ Cardinality(Inside') = Cardinality(Inside)
    BY <2>1, ClientCounts
  <2>3. Batches' = Batches
    BY <1>17, <2>1, BatchesStay DEF Shutdown
  <2>4. \A s : WorkersAt(s)' = WorkersAt(s)
    BY <1>17, WorkersStay DEF WorkersStill, Shutdown
  <2> QED  BY <1>17, <1>c, <2>1, <2>2, <2>3, <2>4 DEF Shutdown, CountersMatchThreads
<1>18. ASSUME NEW c \in Clients, DiscardOne(c)  PROVE CountersMatchThreads'
  <2>1. WorkersStill /\ ClientsStill
    BY <1>18 DEF WorkersStill, ClientsStill, DiscardOne
  <2>2. /\ \A s : WorkersAt(s)' = WorkersAt(s) /\ ClientsAt(s)' = ClientsAt(s)
        /\ Inside' = Inside /\ Batches' = Batches
    BY <2>1, WorkersStay, ClientsStay
  <2> QED  BY <1>18, <1>c, <2>2 DEF DiscardOne, CountersMatchThreads
<1>19. ASSUME NEW c \in Clients, DestroyParks(c)  PROVE CountersMatchThreads'
  <2>1. ClientGoes(c, "drain") /\ cpc[c] \in {"discard", "drain"}
    BY <1>19, <1>t DEF ClientGoes, DestroyParks, DestroyerAtDrain
  <2>2. /\ Cardinality(ClientsAt("submit")') = Cardinality(ClientsAt("submit"))
        /\ Cardinality(ClientsAt("wait")') = Cardinality(ClientsAt("wait"))
        /\ Cardinality(Inside') = Cardinality(Inside)
    BY <2>1, ClientCounts
  <2>3. Batches' = Batches
    BY <1>19, <2>1, BatchesStay DEF DestroyParks
  <2>4. \A s : WorkersAt(s)' = WorkersAt(s)
    BY <1>19, WorkersStay DEF WorkersStill, DestroyParks
  <2> QED  BY <1>19, <1>c, <2>1, <2>2, <2>3, <2>4 DEF DestroyParks, CountersMatchThreads
<1>20. ASSUME NEW c \in Clients, DestroyDrained(c)  PROVE CountersMatchThreads'
  <2>1. ClientGoes(c, "join") /\ cpc[c] \in {"discard", "drain"}
    BY <1>20, <1>t DEF ClientGoes, DestroyDrained, DestroyerAtDrain
  <2>2. /\ Cardinality(ClientsAt("submit")') = Cardinality(ClientsAt("submit"))
        /\ Cardinality(ClientsAt("wait")') = Cardinality(ClientsAt("wait"))
        /\ Cardinality(Inside') = Cardinality(Inside)
    BY <2>1, ClientCounts
  <2>3. Batches' = Batches
    BY <1>20, <2>1, BatchesStay DEF DestroyDrained
  <2>4. \A s : WorkersAt(s)' = WorkersAt(s)
    BY <1>20, WorkersStay DEF WorkersStill, DestroyDrained
  <2> QED  BY <1>20, <1>c, <2>1, <2>2, <2>3, <2>4 DEF DestroyDrained, CountersMatchThreads
<1>21. ASSUME NEW c \in Clients, DestroyJoins(c)  PROVE CountersMatchThreads'
  <2>1. ClientGoes(c, "release") /\ cpc[c] = "join"
    BY <1>21, <1>t DEF ClientGoes, DestroyJoins
  <2>2. /\ Cardinality(ClientsAt("submit")') = Cardinality(ClientsAt("submit"))
        /\ Cardinality(ClientsAt("wait")') = Cardinality(ClientsAt("wait"))
        /\ Cardinality(Inside') = Cardinality(Inside)
    BY <2>1, ClientCounts
  <2>3. Batches' = Batches
    BY <1>21, <2>1, BatchesStay DEF DestroyJoins
  <2>4. \A s : WorkersAt(s)' = WorkersAt(s)
    BY <1>21, WorkersStay DEF WorkersStill, DestroyJoins
  <2> QED  BY <1>21, <1>c, <2>1, <2>2, <2>3, <2>4 DEF DestroyJoins, CountersMatchThreads
<1>22. ASSUME NEW c \in Clients, c \in holders, cpc[c] \in {"out", "release"}, DropReference(c)  PROVE CountersMatchThreads'
  <2>1. ClientGoes(c, "out") /\ cpc[c] \in {"out", "release"}
    BY <1>22, <1>t DEF ClientGoes, DropReference
  <2>2. /\ Cardinality(ClientsAt("submit")') = Cardinality(ClientsAt("submit"))
        /\ Cardinality(ClientsAt("wait")') = Cardinality(ClientsAt("wait"))
        /\ Cardinality(Inside') = Cardinality(Inside)
    BY <2>1, ClientCounts
  <2>3. Batches' = Batches
    BY <1>22, <2>1, BatchesStay DEF DropReference
  <2>4. \A s : WorkersAt(s)' = WorkersAt(s)
    BY <1>22, WorkersStay DEF WorkersStill, DropReference
  <2>5. IsFiniteSet(holders)
    BY <1>t, ThreadAssumption, FS_Subset
  <2>6. ~freed /\ Cardinality(holders) \in Nat
          /\ Cardinality(holders \ {c}) = Cardinality(holders) - 1
    BY <1>22, <1>h, <2>5, CardinalityMoves DEF Handles
  <2>7. ~freed' => references' = Cardinality(holders')
    BY <1>22, <1>c, <2>6 DEF DropReference, CountersMatchThreads
  <2> QED  BY <1>22, <1>c, <2>1, <2>2, <2>3, <2>4, <2>7 DEF DropReference, CountersMatchThreads
<1>23. ASSUME NEW c \in Clients, Retain(c)  PROVE CountersMatchThreads'
  <2>1. WorkersStill /\ ClientsStill
    BY <1>23 DEF WorkersStill, ClientsStill, Retain
  <2>2. /\ \A s : WorkersAt(s)' = WorkersAt(s) /\ ClientsAt(s)' = ClientsAt(s)
        /\ Inside' = Inside /\ Batches' = Batches
    BY <2>1, WorkersStay, ClientsStay
  <2>3. IsFiniteSet(holders)
    BY <1>t, ThreadAssumption, FS_Subset
  <2>4. Cardinality(holders \cup {c}) = Cardinality(holders) + 1
    BY <1>23, <2>3, CardinalityMoves DEF Retain
  <2> QED  BY <1>23, <1>c, <2>2, <2>4 DEF Retain, CountersMatchThreads
<1>24. CASE SpuriousWakeup
  <2>1. WorkersStill /\ ClientsStill
    BY <1>24 DEF WorkersStill, ClientsStill, SpuriousWakeup
  <2>2. /\ \A s : WorkersAt(s)' = WorkersAt(s) /\ ClientsAt(s)' = ClientsAt(s)
        /\ Inside' = Inside /\ Batches' = Batches
    BY <2>1, WorkersStay, ClientsStay
  <2> QED  BY <1>24, <1>c, <2>2 DEF SpuriousWakeup, CountersMatchThreads
<1>25. CASE UNCHANGED vars
  <2>1. WorkersStill /\ ClientsStill
    BY <1>25 DEF WorkersStill, ClientsStill, vars
  <2>2. /\ \A s : WorkersAt(s)' = WorkersAt(s) /\ ClientsAt(s)' = ClientsAt(s)
        /\ Inside' = Inside /\ Batches' = Batches
    BY <2>1, WorkersStay, ClientsStay
  <2> QED  BY <1>25, <1>c, <2>2 DEF vars, CountersMatchThreads
<1>26. \A c \in Clients : DestroyReleases(c) \/ Release(c) => CountersMatchThreads'
  BY <1>22, <1>h DEF DestroyReleases, Release, CanCall, Handles, Destroying
<1> QED
  BY <1>1, <1>2, <1>3, <1>4, <1>5, <1>6, <1>7, <1>8, <1>9, <1>10, <1>11, <1>12, <1>13, <1>14, <1>15, <1>16, <1>17, <1>18, <1>19, <1>20, <1>21, <1>23, <1>24, <1>25, <1>26
     DEF Next, Create, WorkerStep, TaskSubmits, ClientStep, ClientCall, Finished

-----------------------------------------------------------------------------
(* Types *)

\* An index less than two laps from the start comes back into the ring.
LEMMA WrapInSlots ==
    ASSUME NEW i \in 0 .. 2 * Capacity - 1
    PROVE  Wrap(i) \in Slots
BY BoundAssumption DEF Wrap, Slots

\* A saturating counter stays within its range.
LEMMA CountInRange ==
    ASSUME NEW counter \in 0 .. CounterMax, NEW n \in Nat
    PROVE  Count(counter, n) \in 0 .. CounterMax
BY BoundAssumption DEF Count

\* A signal only takes threads out of a wait set.
LEMMA SignalledSubset ==
    ASSUME NEW parked, NEW k, NEW rest \in Signalled(parked, k)
    PROVE  rest \subseteq parked
BY DEF Signalled

\* The code's wake-ups only take threads out of a wait set.
LEMMA WakeUpsOnlyWake ==
    /\ \A n : NotifyWorkers(n) => notify' \subseteq notify
    /\ NotifySubmitters => not_full' \subseteq not_full
    /\ \A l, w, p : SignalIdle(l, w, p) => all_idle' \subseteq all_idle
    /\ Leave => api_idle' \subseteq api_idle
BY SignalledSubset DEF NotifyWorkers, NotifySubmitters, SignalIdle, Leave

\* A batch that fits leaves the ring and its statistics well-formed.
LEMMA EnqueueType ==
    ASSUME TypeOK, NEW n \in 1 .. Capacity, n <= Space, Enqueue(n)
    PROVE  /\ queue' \in [Slots -> Nat]
           /\ queue_head' \in Slots /\ queue_tail' \in Slots
           /\ queue_length' \in 0 .. Capacity
           /\ queue_peak' \in queue_length' .. Capacity
           /\ accepted' \in 0 .. CounterMax /\ completed' \in 0 .. CounterMax
           /\ discarded' \in 0 .. CounterMax /\ submitted' \in Nat
<1>1. queue' \in [Slots -> Nat]
  BY BoundAssumption DEF Enqueue, TypeOK, Slots, Offset
<1>2. queue_tail' \in Slots
  <2>1. queue_tail \in Slots /\ queue_tail' = Wrap(queue_tail + n)
    BY DEF TypeOK, Enqueue
  <2>2. queue_tail + n \in 0 .. 2 * Capacity - 1
    BY <2>1, BoundAssumption DEF Slots
  <2> QED  BY <2>1, <2>2, WrapInSlots
<1>3. accepted' \in 0 .. CounterMax
  BY BoundAssumption, CountInRange DEF Enqueue, TypeOK
<1> QED  BY <1>1, <1>2, <1>3, BoundAssumption DEF Enqueue, TypeOK, Space

\* Every step keeps the types; that no count goes below zero is CountersStep.
LEMMA TypeStep ==
    ASSUME IndInv, [Next]_vars
    PROVE  TypeOK'
<1> USE DEF ring, stats, waiting, users, life, conds, worker, client, discard, history
<1>t. TypeOK
  BY DEF IndInv
<1>h. Handles
  BY DEF IndInv
<1>c. CountersMatchThreads
  BY DEF IndInv
<1>n. /\ n_working' \in Nat /\ waiting_workers' \in Nat
      /\ waiting_submitters' \in Nat /\ waiting_batches' \in Nat
      /\ waiting_clients' \in Nat /\ pending_submissions' \in Nat
      /\ api_users' \in Nat
  <2>1. CountersMatchThreads'
    BY CountersStep
  <2>2. /\ IsFiniteSet(WorkersAt("run")') /\ IsFiniteSet(WorkersAt("idle")')
        /\ IsFiniteSet(ClientsAt("submit")') /\ IsFiniteSet(ClientsAt("wait")')
        /\ IsFiniteSet(Inside') /\ IsFiniteSet(Batches')
    BY FS_Subset, ThreadAssumption DEF WorkersAt, ClientsAt, Inside, Batches
  <2> QED  BY <2>1, <2>2, FS_CardinalityType DEF CountersMatchThreads
<1>1. ASSUME NEW w \in Workers, CreateThread(w)  PROVE TypeOK'
  BY <1>1, <1>t, <1>n, BoundAssumption, ThreadAssumption DEF CreateThread, TypeOK, WorkerStates, ClientStates
<1>2. ASSUME NEW w \in Workers, WorkerParks(w)  PROVE TypeOK'
  BY <1>2, <1>t, <1>n, BoundAssumption, ThreadAssumption DEF WorkerParks, TypeOK, WorkerStates, ClientStates
<1>3. ASSUME NEW w \in Workers, WorkerExits(w)  PROVE TypeOK'
  BY <1>3, <1>t, <1>n, BoundAssumption, ThreadAssumption DEF WorkerExits, TypeOK, WorkerStates, ClientStates
<1>4. ASSUME NEW w \in Workers, WorkerDequeues(w)  PROVE TypeOK'
  <2>1. queue_head' \in Slots
    <3>1. queue_head + 1 \in 0 .. 2 * Capacity - 1
      BY <1>t, BoundAssumption DEF TypeOK, Slots
    <3> QED  BY <1>4, <3>1, WrapInSlots DEF WorkerDequeues
  <2>2. not_full' \subseteq Clients
    BY <1>4, <1>t, WakeUpsOnlyWake DEF WorkerDequeues, TypeOK
  <2>3. task' \in [Workers -> Nat]
    BY <1>4, <1>t DEF WorkerDequeues, TypeOK
  <2>4. queue_length' \in 0 .. Capacity /\ queue_peak' \in queue_length' .. Capacity
    BY <1>4, <1>t, BoundAssumption DEF WorkerDequeues, TypeOK
  <2> QED  BY <1>4, <1>t, <1>n, <2>1, <2>2, <2>3, <2>4, ThreadAssumption
           DEF WorkerDequeues, TypeOK, WorkerStates
<1>5. ASSUME NEW w \in Workers, WorkerFinishes(w)  PROVE TypeOK'
  <2>1. completed' \in 0 .. CounterMax
    BY <1>5, <1>t, CountInRange DEF WorkerFinishes, TypeOK
  <2>2. all_idle' \subseteq Clients
    BY <1>5, <1>t, WakeUpsOnlyWake DEF WorkerFinishes, TypeOK
  <2>3. done' \subseteq Nat
    BY <1>5, <1>t DEF WorkerFinishes, TypeOK
  <2> QED  BY <1>5, <1>t, <1>n, <2>1, <2>2, <2>3 DEF WorkerFinishes, TypeOK, WorkerStates
<1>6. CASE CreateReturns
  BY <1>6, <1>t, <1>n, BoundAssumption, ThreadAssumption DEF CreateReturns, TypeOK, WorkerStates, ClientStates
<1>7. CASE CreateFails
  BY <1>7, <1>t, <1>n, BoundAssumption, ThreadAssumption DEF CreateFails, TypeOK, WorkerStates, ClientStates
<1>8. CASE CreateUnwinds
  BY <1>8, <1>t, <1>n, BoundAssumption, ThreadAssumption DEF CreateUnwinds, TypeOK, WorkerStates, ClientStates
<1>9. ASSUME NEW n \in 1 .. Capacity, SubmitAccepted(n)  PROVE TypeOK'
  <2>1. /\ queue' \in [Slots -> Nat]
        /\ queue_head' \in Slots /\ queue_tail' \in Slots
        /\ queue_length' \in 0 .. Capacity
        /\ queue_peak' \in queue_length' .. Capacity
        /\ accepted' \in 0 .. CounterMax /\ completed' \in 0 .. CounterMax
        /\ discarded' \in 0 .. CounterMax /\ submitted' \in Nat
    BY <1>9, <1>t, EnqueueType DEF SubmitAccepted
  <2>2. notify' \subseteq Workers /\ all_idle' \subseteq Clients
    BY <1>9, <1>t, WakeUpsOnlyWake DEF SubmitAccepted, TypeOK
  <2>3. issued' \in 0 .. TaskLimit
    BY <1>9, <1>t, BoundAssumption DEF SubmitAccepted, Admissible, TypeOK
  <2> QED  BY <1>9, <1>t, <2>1, <2>2, <2>3 DEF SubmitAccepted, TypeOK
<1>10. ASSUME NEW c \in Clients, NEW n \in 1 .. Capacity, SubmitBlocks(c, n)  PROVE TypeOK'
  BY <1>10, <1>t, <1>n, BoundAssumption, ThreadAssumption DEF SubmitBlocks, Admissible, TypeOK, WorkerStates, ClientStates
<1>11. ASSUME NEW c \in Clients, SubmitParksAgain(c)  PROVE TypeOK'
  BY <1>11, <1>t, <1>n, BoundAssumption, ThreadAssumption DEF SubmitParksAgain, TypeOK, WorkerStates, ClientStates
<1>12. ASSUME NEW c \in Clients, SubmitFindsShutdown(c)  PROVE TypeOK'
  <2>1. all_idle' \subseteq Clients /\ api_idle' \subseteq Clients
    BY <1>12, <1>t, WakeUpsOnlyWake DEF SubmitFindsShutdown, SubmitLeave, TypeOK
  <2>2. api_users' \in 0 .. UIntMax
    BY <1>12, <1>t, <1>n, BoundAssumption DEF SubmitFindsShutdown, SubmitLeave, Leave, TypeOK
  <2>3. cpc' \in [Clients -> ClientStates] /\ count' \in [Clients -> 0 .. Capacity]
    BY <1>12, <1>t, BoundAssumption DEF SubmitFindsShutdown, TypeOK, ClientStates
  <2> QED  BY <1>12, <1>t, <1>n, <2>1, <2>2, <2>3
           DEF SubmitFindsShutdown, SubmitterStopsWaiting, TypeOK
<1>13. ASSUME NEW c \in Clients, SubmitFindsSpace(c)  PROVE TypeOK'
  <2>1. /\ queue' \in [Slots -> Nat]
        /\ queue_head' \in Slots /\ queue_tail' \in Slots
        /\ queue_length' \in 0 .. Capacity
        /\ queue_peak' \in queue_length' .. Capacity
        /\ accepted' \in 0 .. CounterMax /\ completed' \in 0 .. CounterMax
        /\ discarded' \in 0 .. CounterMax /\ submitted' \in Nat
    <3>1. count[c] \in 1 .. Capacity
      BY <1>13, <1>h DEF SubmitFindsSpace, SubmitterAwake, Handles
    <3> QED  BY <1>13, <1>t, <3>1, EnqueueType DEF SubmitFindsSpace
  <2>2. /\ notify' \subseteq Workers
        /\ all_idle' \subseteq Clients /\ api_idle' \subseteq Clients
    BY <1>13, <1>t, WakeUpsOnlyWake DEF SubmitFindsSpace, SubmitLeave, TypeOK
  <2>3. api_users' \in 0 .. UIntMax
    BY <1>13, <1>t, <1>n, BoundAssumption DEF SubmitFindsSpace, SubmitLeave, Leave, TypeOK
  <2>4. cpc' \in [Clients -> ClientStates] /\ count' \in [Clients -> 0 .. Capacity]
    BY <1>13, <1>t, BoundAssumption DEF SubmitFindsSpace, TypeOK, ClientStates
  <2> QED  BY <1>13, <1>t, <1>n, <2>1, <2>2, <2>3, <2>4
           DEF SubmitFindsSpace, SubmitterStopsWaiting, TypeOK
<1>14. ASSUME NEW c \in Clients, WaitBlocks(c)  PROVE TypeOK'
  BY <1>14, <1>t, <1>n, BoundAssumption, ThreadAssumption DEF WaitBlocks, TypeOK, WorkerStates, ClientStates
<1>15. ASSUME NEW c \in Clients, WaitParksAgain(c)  PROVE TypeOK'
  BY <1>15, <1>t, <1>n, BoundAssumption, ThreadAssumption DEF WaitParksAgain, TypeOK, WorkerStates, ClientStates
<1>16. ASSUME NEW c \in Clients, WaitReturns(c)  PROVE TypeOK'
  <2>1. api_idle' \subseteq Clients
    BY <1>16, <1>t, WakeUpsOnlyWake DEF WaitReturns, TypeOK
  <2>2. api_users' \in 0 .. UIntMax
    BY <1>16, <1>t, <1>n, BoundAssumption DEF WaitReturns, Leave, TypeOK
  <2> QED  BY <1>16, <1>t, <1>n, <2>1, <2>2 DEF WaitReturns, TypeOK, ClientStates
<1>17. ASSUME NEW c \in Clients, NEW safe_exit \in BOOLEAN, Shutdown(c, safe_exit)  PROVE TypeOK'
  <2>1. /\ discard_head' \in Slots /\ discard_count' \in 0 .. Capacity
        /\ queue_length' \in 0 .. Capacity /\ queue_peak' \in queue_length' .. Capacity
        /\ discarded' \in 0 .. CounterMax
    <3>1. CASE safe_exit
      BY <1>17, <1>t, <3>1 DEF Shutdown, TypeOK
    <3>2. CASE ~safe_exit
      <4>1. Count(discarded, queue_length) \in 0 .. CounterMax
        <5>1. discarded \in 0 .. CounterMax /\ queue_length \in Nat
          BY <1>t, BoundAssumption DEF TypeOK
        <5> QED  BY <5>1, CountInRange
      <4>2. TakeQueue /\ queue_peak' = queue_peak
        BY <1>17, <3>2 DEF Shutdown
      <4> QED  BY <1>t, <4>1, <4>2, BoundAssumption DEF TakeQueue, TypeOK
    <3> QED  BY <3>1, <3>2
  <2> QED  BY <1>17, <1>t, <2>1 DEF Shutdown, TypeOK, ClientStates
<1>18. ASSUME NEW c \in Clients, DiscardOne(c)  PROVE TypeOK'
  <2>1. discard_head' \in Slots
    <3>1. discard_head + 1 \in 0 .. 2 * Capacity - 1
      BY <1>t, BoundAssumption DEF TypeOK, Slots
    <3> QED  BY <1>18, <3>1, WrapInSlots DEF DiscardOne
  <2>2. cleaned' \subseteq Nat /\ discard_count' \in 0 .. Capacity
    <3>1. queue[discard_head] \in Nat
      BY <1>t DEF TypeOK
    <3>2. discard_count' \in 0 .. Capacity
      BY <1>18, <1>t, BoundAssumption DEF DiscardOne, TypeOK
    <3> QED  BY <1>18, <1>t, <3>1, <3>2 DEF DiscardOne, TypeOK
  <2> QED  BY <1>18, <1>t, <2>1, <2>2 DEF DiscardOne, TypeOK
<1>19. ASSUME NEW c \in Clients, DestroyParks(c)  PROVE TypeOK'
  BY <1>19, <1>t, <1>n, BoundAssumption, ThreadAssumption DEF DestroyParks, TypeOK, WorkerStates, ClientStates
<1>20. ASSUME NEW c \in Clients, DestroyDrained(c)  PROVE TypeOK'
  BY <1>20, <1>t, <1>n, BoundAssumption, ThreadAssumption DEF DestroyDrained, TypeOK, WorkerStates, ClientStates
<1>21. ASSUME NEW c \in Clients, DestroyJoins(c)  PROVE TypeOK'
  BY <1>21, <1>t, <1>n, BoundAssumption, ThreadAssumption DEF DestroyJoins, TypeOK, WorkerStates, ClientStates
<1>22. ASSUME NEW c \in Clients, c \in holders, DropReference(c)  PROVE TypeOK'
  <2>1. references \in 1 .. UIntMax
    <3>1. IsFiniteSet(holders) /\ ~freed
      BY <1>22, <1>t, <1>h, ThreadAssumption, FS_Subset DEF TypeOK, Handles
    <3>2. Cardinality(holders) >= 1 /\ references = Cardinality(holders)
      BY <1>22, <1>c, <3>1, CardinalityMoves DEF CountersMatchThreads
    <3> QED  BY <1>t, <3>2, BoundAssumption DEF TypeOK
  <2>2. references' \in 0 .. UIntMax /\ freed' \in BOOLEAN /\ holders' \subseteq Clients
    BY <1>22, <1>t, <2>1, BoundAssumption DEF DropReference, TypeOK
  <2> QED  BY <1>22, <1>t, <2>2 DEF DropReference, TypeOK, ClientStates
<1>23. ASSUME NEW c \in Clients, Retain(c)  PROVE TypeOK'
  BY <1>23, <1>t, <1>n, BoundAssumption, ThreadAssumption DEF Retain, TypeOK, WorkerStates, ClientStates
<1>24. CASE SpuriousWakeup
  BY <1>24, <1>t, <1>n, BoundAssumption, ThreadAssumption DEF SpuriousWakeup, TypeOK, WorkerStates, ClientStates
<1>25. CASE UNCHANGED vars
  BY <1>25, <1>t, <1>n, BoundAssumption, ThreadAssumption DEF vars, TypeOK, WorkerStates, ClientStates
<1>26. \A c \in Clients : DestroyReleases(c) \/ Release(c) => TypeOK'
  BY <1>22, <1>h DEF DestroyReleases, Release, Handles, Destroying
<1> QED
  BY <1>1, <1>2, <1>3, <1>4, <1>5, <1>6, <1>7, <1>8, <1>9, <1>10, <1>11, <1>12, <1>13, <1>14, <1>15, <1>16, <1>17, <1>18, <1>19, <1>20, <1>21, <1>23, <1>24, <1>25, <1>26
     DEF Next, Create, WorkerStep, TaskSubmits, ClientStep, ClientCall, Finished

-----------------------------------------------------------------------------
(* Handles, wait sets *)

\* A step that moves no handle keeps the facts about handles.
LEMMA HandlesStay ==
    ASSUME Handles, UNCHANGED <<life, client>>
    PROVE  Handles'
BY DEF Handles, Published, life, client

\* One destroyer at most, and it owns a reference.
LEMMA HandlesStep ==
    ASSUME IndInv, [Next]_vars
    PROVE  Handles'
<1> USE DEF ring, stats, waiting, users, life, conds, worker, client, discard, history
<1>t. TypeOK
  BY DEF IndInv
<1>h. Handles
  BY DEF IndInv
<1>1. ASSUME NEW w \in Workers, CreateThread(w)  PROVE Handles'
  <2>1. UNCHANGED <<life, client>>
    BY <1>1 DEF CreateThread
  <2> QED  BY <2>1, <1>h, HandlesStay
<1>2. ASSUME NEW w \in Workers, WorkerParks(w)  PROVE Handles'
  <2>1. UNCHANGED <<life, client>>
    BY <1>2 DEF WorkerParks
  <2> QED  BY <2>1, <1>h, HandlesStay
<1>3. ASSUME NEW w \in Workers, WorkerExits(w)  PROVE Handles'
  <2>1. UNCHANGED <<life, client>>
    BY <1>3 DEF WorkerExits
  <2> QED  BY <2>1, <1>h, HandlesStay
<1>4. ASSUME NEW w \in Workers, WorkerDequeues(w)  PROVE Handles'
  <2>1. UNCHANGED <<life, client>>
    BY <1>4 DEF WorkerDequeues
  <2> QED  BY <2>1, <1>h, HandlesStay
<1>5. ASSUME NEW w \in Workers, WorkerFinishes(w)  PROVE Handles'
  <2>1. UNCHANGED <<life, client>>
    BY <1>5 DEF WorkerFinishes
  <2> QED  BY <2>1, <1>h, HandlesStay
<1>6. CASE CreateReturns
  BY <1>6, <1>t, <1>h, ThreadAssumption, BoundAssumption
     DEF CreateReturns, Handles, Published, Destroying, TypeOK, ClientStates
<1>7. CASE CreateFails
  BY <1>7, <1>t, <1>h, ThreadAssumption, BoundAssumption
     DEF CreateFails, Handles, Published, Destroying, TypeOK, ClientStates
<1>8. CASE CreateUnwinds
  BY <1>8, <1>t, <1>h, ThreadAssumption, BoundAssumption
     DEF CreateUnwinds, Handles, Published, Destroying, TypeOK, ClientStates
<1>9. ASSUME NEW n \in 1 .. Capacity, SubmitAccepted(n)  PROVE Handles'
  <2>1. UNCHANGED <<life, client>>
    BY <1>9 DEF SubmitAccepted
  <2> QED  BY <2>1, <1>h, HandlesStay
<1>10. ASSUME NEW c \in Clients, NEW n \in 1 .. Capacity, SubmitBlocks(c, n)  PROVE Handles'
  BY <1>10, <1>t, <1>h, ThreadAssumption, BoundAssumption
     DEF SubmitBlocks, CanCall, Admissible, Handles, Published, Destroying, TypeOK, ClientStates
<1>11. ASSUME NEW c \in Clients, SubmitParksAgain(c)  PROVE Handles'
  <2>1. UNCHANGED <<life, client>>
    BY <1>11 DEF SubmitParksAgain
  <2> QED  BY <2>1, <1>h, HandlesStay
<1>12. ASSUME NEW c \in Clients, SubmitFindsShutdown(c)  PROVE Handles'
  BY <1>12, <1>t, <1>h, ThreadAssumption, BoundAssumption
     DEF SubmitFindsShutdown, SubmitterAwake, SubmitLeave, Handles, Published, Destroying, TypeOK, ClientStates
<1>13. ASSUME NEW c \in Clients, SubmitFindsSpace(c)  PROVE Handles'
  BY <1>13, <1>t, <1>h, ThreadAssumption, BoundAssumption
     DEF SubmitFindsSpace, SubmitterAwake, SubmitLeave, Handles, Published, Destroying, TypeOK, ClientStates
<1>14. ASSUME NEW c \in Clients, WaitBlocks(c)  PROVE Handles'
  BY <1>14, <1>t, <1>h, ThreadAssumption, BoundAssumption
     DEF WaitBlocks, CanCall, Handles, Published, Destroying, TypeOK, ClientStates
<1>15. ASSUME NEW c \in Clients, WaitParksAgain(c)  PROVE Handles'
  <2>1. UNCHANGED <<life, client>>
    BY <1>15 DEF WaitParksAgain
  <2> QED  BY <2>1, <1>h, HandlesStay
<1>16. ASSUME NEW c \in Clients, WaitReturns(c)  PROVE Handles'
  BY <1>16, <1>t, <1>h, ThreadAssumption, BoundAssumption
     DEF WaitReturns, WaiterAwake, Handles, Published, Destroying, TypeOK, ClientStates
<1>17. ASSUME NEW c \in Clients, NEW safe_exit \in BOOLEAN, Shutdown(c, safe_exit)  PROVE Handles'
  BY <1>17, <1>t, <1>h, ThreadAssumption, BoundAssumption
     DEF Shutdown, CanCall, Handles, Published, Destroying, TypeOK, ClientStates
<1>18. ASSUME NEW c \in Clients, DiscardOne(c)  PROVE Handles'
  <2>1. UNCHANGED <<life, client>>
    BY <1>18 DEF DiscardOne
  <2> QED  BY <2>1, <1>h, HandlesStay
<1>19. ASSUME NEW c \in Clients, DestroyParks(c)  PROVE Handles'
  BY <1>19, <1>t, <1>h, ThreadAssumption, BoundAssumption
     DEF DestroyParks, DestroyerAtDrain, Handles, Published, Destroying, TypeOK, ClientStates
<1>20. ASSUME NEW c \in Clients, DestroyDrained(c)  PROVE Handles'
  BY <1>20, <1>t, <1>h, ThreadAssumption, BoundAssumption
     DEF DestroyDrained, DestroyerAtDrain, Handles, Published, Destroying, TypeOK, ClientStates
<1>21. ASSUME NEW c \in Clients, DestroyJoins(c)  PROVE Handles'
  BY <1>21, <1>t, <1>h, ThreadAssumption, BoundAssumption
     DEF DestroyJoins, Handles, Published, Destroying, TypeOK, ClientStates
<1>22. ASSUME NEW c \in Clients, c \in holders, cpc[c] \in {"out", "release"}, DropReference(c)  PROVE Handles'
  <2>1. ~freed /\ IsFiniteSet(holders)
    BY <1>22, <1>t, <1>h, ThreadAssumption, FS_Subset DEF Handles, TypeOK
  <2>2. references = Cardinality(holders) /\ Cardinality(holders \ {c}) = Cardinality(holders) - 1
    BY <1>22, <2>1, CardinalityMoves DEF IndInv, CountersMatchThreads
  <2>3. references = 1 => holders \ {c} = {}
    <3>1. IsFiniteSet(holders \ {c})
      BY <2>1, FS_Subset
    <3>2. Cardinality(holders \ {c}) = 0 <=> holders \ {c} = {}
      BY <3>1, FS_EmptySet
    <3> QED  BY <2>2, <3>2
  <2>4. freed' => holders' = {} /\ shutdown'
    BY <1>22, <1>h, <2>3 DEF DropReference, Handles
  <2>5. /\ cpc' = [cpc EXCEPT ![c] = "out"] /\ holders' = holders \ {c}
        /\ UNCHANGED <<shutdown, destroyed, count>>
    BY <1>22 DEF DropReference
  <2> QED  BY <1>22, <1>t, <1>h, <2>4, <2>5, ThreadAssumption
           DEF Handles, Published, Destroying, TypeOK, ClientStates
<1>23. ASSUME NEW c \in Clients, Retain(c)  PROVE Handles'
  BY <1>23, <1>t, <1>h, ThreadAssumption, BoundAssumption
     DEF Retain, Handles, Published, Destroying, TypeOK, ClientStates
<1>24. CASE SpuriousWakeup
  <2>1. UNCHANGED <<life, client>>
    BY <1>24 DEF SpuriousWakeup
  <2> QED  BY <2>1, <1>h, HandlesStay
<1>25. CASE UNCHANGED vars
  <2>1. UNCHANGED <<life, client>>
    BY <1>25 DEF vars
  <2> QED  BY <2>1, <1>h, HandlesStay
<1>26. \A c \in Clients : DestroyReleases(c) \/ Release(c) => Handles'
  BY <1>22, <1>h DEF DestroyReleases, Release, CanCall, Handles, Destroying
<1> QED
  BY <1>1, <1>2, <1>3, <1>4, <1>5, <1>6, <1>7, <1>8, <1>9, <1>10, <1>11, <1>12, <1>13, <1>14, <1>15, <1>16, <1>17, <1>18, <1>19, <1>20, <1>21, <1>23, <1>24, <1>25, <1>26
     DEF Next, Create, WorkerStep, TaskSubmits, ClientStep, ClientCall, Finished

\* Only threads in a wait are parked, and none is after shutdown.
LEMMA ParkedStep ==
    ASSUME IndInv, [Next]_vars
    PROVE  Parked'
<1> USE DEF ring, stats, waiting, users, life, conds, worker, client, discard, history
<1>t. TypeOK
  BY DEF IndInv
<1>h. Handles
  BY DEF IndInv
<1>p. Parked
  BY DEF IndInv
<1>1. ASSUME NEW w \in Workers, CreateThread(w)  PROVE Parked'
  BY <1>1, <1>t, <1>h, <1>p, ThreadAssumption, WakeUpsOnlyWake
     DEF CreateThread, Parked, TypeOK, WorkersAt, ClientsAt
<1>2. ASSUME NEW w \in Workers, WorkerParks(w)  PROVE Parked'
  BY <1>2, <1>t, <1>h, <1>p, ThreadAssumption, WakeUpsOnlyWake
     DEF WorkerParks, AtLoopHead, Parked, TypeOK, WorkersAt, ClientsAt
<1>3. ASSUME NEW w \in Workers, WorkerExits(w)  PROVE Parked'
  BY <1>3, <1>t, <1>h, <1>p, ThreadAssumption, WakeUpsOnlyWake
     DEF WorkerExits, AtLoopHead, Parked, TypeOK, WorkersAt, ClientsAt
<1>4. ASSUME NEW w \in Workers, WorkerDequeues(w)  PROVE Parked'
  BY <1>4, <1>t, <1>h, <1>p, ThreadAssumption, WakeUpsOnlyWake
     DEF WorkerDequeues, AtLoopHead, Parked, TypeOK, WorkersAt, ClientsAt
<1>5. ASSUME NEW w \in Workers, WorkerFinishes(w)  PROVE Parked'
  BY <1>5, <1>t, <1>h, <1>p, ThreadAssumption, WakeUpsOnlyWake
     DEF WorkerFinishes, Parked, TypeOK, WorkersAt, ClientsAt
<1>6. CASE CreateReturns
  BY <1>6, <1>t, <1>h, <1>p, ThreadAssumption, WakeUpsOnlyWake
     DEF CreateReturns, Parked, TypeOK, WorkersAt, ClientsAt
<1>7. CASE CreateFails
  <2>1. not_full = {} /\ all_idle = {}
    BY <1>7, <1>h, <1>p DEF CreateFails, Handles, Published, Parked, ClientsAt
  <2> QED  BY <1>7, <1>p, <2>1 DEF CreateFails, Parked, WorkersAt, ClientsAt
<1>8. CASE CreateUnwinds
  BY <1>8, <1>t, <1>h, <1>p, ThreadAssumption, WakeUpsOnlyWake
     DEF CreateUnwinds, Parked, TypeOK, WorkersAt, ClientsAt
<1>9. ASSUME NEW n \in 1 .. Capacity, SubmitAccepted(n)  PROVE Parked'
  BY <1>9, <1>t, <1>h, <1>p, ThreadAssumption, WakeUpsOnlyWake
     DEF SubmitAccepted, Parked, TypeOK, WorkersAt, ClientsAt
<1>10. ASSUME NEW c \in Clients, NEW n \in 1 .. Capacity, SubmitBlocks(c, n)  PROVE Parked'
  BY <1>10, <1>t, <1>h, <1>p, ThreadAssumption, WakeUpsOnlyWake
     DEF SubmitBlocks, CanCall, Admissible, Parked, TypeOK, WorkersAt, ClientsAt
<1>11. ASSUME NEW c \in Clients, SubmitParksAgain(c)  PROVE Parked'
  BY <1>11, <1>t, <1>h, <1>p, ThreadAssumption, WakeUpsOnlyWake
     DEF SubmitParksAgain, SubmitterAwake, Parked, TypeOK, WorkersAt, ClientsAt
<1>12. ASSUME NEW c \in Clients, SubmitFindsShutdown(c)  PROVE Parked'
  BY <1>12, <1>t, <1>h, <1>p, ThreadAssumption, WakeUpsOnlyWake
     DEF SubmitFindsShutdown, SubmitterAwake, SubmitLeave, Parked, TypeOK, WorkersAt, ClientsAt
<1>13. ASSUME NEW c \in Clients, SubmitFindsSpace(c)  PROVE Parked'
  BY <1>13, <1>t, <1>h, <1>p, ThreadAssumption, WakeUpsOnlyWake
     DEF SubmitFindsSpace, SubmitterAwake, SubmitLeave, Parked, TypeOK, WorkersAt, ClientsAt
<1>14. ASSUME NEW c \in Clients, WaitBlocks(c)  PROVE Parked'
  BY <1>14, <1>t, <1>h, <1>p, ThreadAssumption, WakeUpsOnlyWake
     DEF WaitBlocks, CanCall, Parked, TypeOK, WorkersAt, ClientsAt
<1>15. ASSUME NEW c \in Clients, WaitParksAgain(c)  PROVE Parked'
  BY <1>15, <1>t, <1>h, <1>p, ThreadAssumption, WakeUpsOnlyWake
     DEF WaitParksAgain, WaiterAwake, KeepsWaiting, Parked, TypeOK, WorkersAt, ClientsAt
<1>16. ASSUME NEW c \in Clients, WaitReturns(c)  PROVE Parked'
  BY <1>16, <1>t, <1>h, <1>p, ThreadAssumption, WakeUpsOnlyWake
     DEF WaitReturns, WaiterAwake, Parked, TypeOK, WorkersAt, ClientsAt
<1>17. ASSUME NEW c \in Clients, NEW safe_exit \in BOOLEAN, Shutdown(c, safe_exit)  PROVE Parked'
  BY <1>17, <1>t, <1>h, <1>p, ThreadAssumption, WakeUpsOnlyWake
     DEF Shutdown, CanCall, Parked, TypeOK, WorkersAt, ClientsAt
<1>18. ASSUME NEW c \in Clients, DiscardOne(c)  PROVE Parked'
  BY <1>18, <1>t, <1>h, <1>p, ThreadAssumption, WakeUpsOnlyWake
     DEF DiscardOne, Parked, TypeOK, WorkersAt, ClientsAt
<1>19. ASSUME NEW c \in Clients, DestroyParks(c)  PROVE Parked'
  BY <1>19, <1>t, <1>h, <1>p, ThreadAssumption, WakeUpsOnlyWake
     DEF DestroyParks, DestroyerAtDrain, Parked, TypeOK, WorkersAt, ClientsAt
<1>20. ASSUME NEW c \in Clients, DestroyDrained(c)  PROVE Parked'
  BY <1>20, <1>t, <1>h, <1>p, ThreadAssumption, WakeUpsOnlyWake
     DEF DestroyDrained, DestroyerAtDrain, Parked, TypeOK, WorkersAt, ClientsAt
<1>21. ASSUME NEW c \in Clients, DestroyJoins(c)  PROVE Parked'
  BY <1>21, <1>t, <1>h, <1>p, ThreadAssumption, WakeUpsOnlyWake
     DEF DestroyJoins, Parked, TypeOK, WorkersAt, ClientsAt
<1>22. ASSUME NEW c \in Clients, c \in holders, cpc[c] \in {"out", "release"}, DropReference(c)  PROVE Parked'
  BY <1>22, <1>t, <1>h, <1>p, ThreadAssumption, WakeUpsOnlyWake
     DEF DropReference, Parked, TypeOK, WorkersAt, ClientsAt
<1>23. ASSUME NEW c \in Clients, Retain(c)  PROVE Parked'
  BY <1>23, <1>t, <1>h, <1>p, ThreadAssumption, WakeUpsOnlyWake
     DEF Retain, Parked, TypeOK, WorkersAt, ClientsAt
<1>24. CASE SpuriousWakeup
  BY <1>24, <1>t, <1>h, <1>p, ThreadAssumption, WakeUpsOnlyWake
     DEF SpuriousWakeup, Parked, TypeOK, WorkersAt, ClientsAt
<1>25. CASE UNCHANGED vars
  BY <1>25, <1>t, <1>h, <1>p, ThreadAssumption, WakeUpsOnlyWake
     DEF vars, Parked, TypeOK, WorkersAt, ClientsAt
<1>26. \A c \in Clients : DestroyReleases(c) \/ Release(c) => Parked'
  BY <1>22, <1>h DEF DestroyReleases, Release, CanCall, Handles, Destroying
<1> QED
  BY <1>1, <1>2, <1>3, <1>4, <1>5, <1>6, <1>7, <1>8, <1>9, <1>10, <1>11, <1>12, <1>13, <1>14, <1>15, <1>16, <1>17, <1>18, <1>19, <1>20, <1>21, <1>23, <1>24, <1>25, <1>26
     DEF Next, Create, WorkerStep, TaskSubmits, ClientStep, ClientCall, Finished

-----------------------------------------------------------------------------
(* The ring *)

\* k slots after h lie k - l slots after the slot that is l slots after h.
LEMMA OffsetFromTail ==
    ASSUME NEW h \in Slots, NEW l \in 0 .. Capacity, NEW k \in 0 .. Capacity - 1
    PROVE  Offset(Wrap(h + k), Wrap(h + l)) = IF k >= l THEN k - l ELSE k - l + Capacity
BY BoundAssumption DEF Slots, Wrap, Offset

\* The ring behind its second slot is the ring one further.
LEMMA WrapStep ==
    ASSUME NEW h \in Slots, NEW k \in 0 .. Capacity - 1
    PROVE  Wrap(Wrap(h + 1) + k) = Wrap(h + (k + 1))
BY BoundAssumption DEF Slots, Wrap

\* Wrapping twice comes to wrapping once.
LEMMA WrapAdd ==
    ASSUME NEW h \in Slots, NEW l \in 0 .. Capacity, NEW n \in 0 .. Capacity,
           l + n <= Capacity
    PROVE  Wrap(Wrap(h + l) + n) = Wrap(h + (l + n))
BY BoundAssumption DEF Slots, Wrap

\* A batch that fits goes behind what is queued and overwrites none of it.
LEMMA EnqueueInOrder ==
    ASSUME TypeOK, RingClosed, QueueInOrder, ~shutdown,
           NEW n \in 1 .. Capacity, n <= Space, Enqueue(n)
    PROVE  queue_tail' = Wrap(queue_head' + queue_length') /\ QueueInOrder'
<1>1. /\ queue_head \in Slots /\ queue_length \in 0 .. Capacity /\ submitted \in Nat
      /\ queue_tail = Wrap(queue_head + queue_length) /\ queue_length + n <= Capacity
  BY BoundAssumption DEF TypeOK, RingClosed, Space
<1>2. /\ queue_head' = queue_head /\ queue_length' = queue_length + n
      /\ submitted' = submitted + n /\ queue_tail' = Wrap(queue_tail + n)
      /\ queue' = [i \in Slots |-> IF Offset(i, queue_tail) < n
                                   THEN submitted + 1 + Offset(i, queue_tail)
                                   ELSE queue[i]]
  BY DEF Enqueue
<1>3. queue_tail' = Wrap(queue_head' + queue_length')
  <2>1. n \in 0 .. Capacity
    BY BoundAssumption
  <2> QED  BY <1>1, <1>2, <2>1, WrapAdd
<1>4. ASSUME NEW k \in 0 .. queue_length + n - 1
      PROVE  queue'[Wrap(queue_head + k)] = submitted - queue_length + 1 + k
  <2> DEFINE i == Wrap(queue_head + k)
             d == Offset(i, queue_tail)
  <2>1. k \in 0 .. Capacity - 1
    BY <1>1, BoundAssumption
  <2>2. i \in Slots
    <3>1. queue_head + k \in 0 .. 2 * Capacity - 1
      BY <1>1, <2>1, BoundAssumption DEF Slots
    <3> QED  BY <3>1, WrapInSlots
  <2>3. d = IF k >= queue_length THEN k - queue_length
            ELSE k - queue_length + Capacity
    BY <1>1, <2>1, OffsetFromTail
  <2>4. queue'[i] = IF d < n THEN submitted + 1 + d ELSE queue[i]
    BY <1>2, <2>2
  <2> HIDE DEF i, d
  <2>5. CASE k >= queue_length
    BY <1>1, <2>1, <2>3, <2>4, <2>5, BoundAssumption DEF i
  <2>6. CASE k < queue_length
    <3>1. d >= n
      BY <1>1, <2>1, <2>3, <2>6, BoundAssumption
    <3>2. queue'[i] = queue[i]
      BY <1>1, <2>1, <2>3, <2>4, <3>1, BoundAssumption
    <3>3. queue[Wrap(queue_head + k)] = submitted - queue_length + 1 + k
      BY <1>1, <2>1, <2>6, BoundAssumption DEF QueueInOrder
    <3> QED  BY <3>2, <3>3 DEF i
  <2> QED  BY <1>1, <2>1, <2>5, <2>6, BoundAssumption
<1>5. QueueInOrder'
  BY <1>1, <1>2, <1>4, BoundAssumption DEF QueueInOrder
<1> QED  BY <1>3, <1>5

\* Taking the oldest task leaves the others in order.
LEMMA DequeueInOrder ==
    ASSUME TypeOK, RingClosed, QueueInOrder, queue_length > 0,
           queue_head' = Wrap(queue_head + 1), queue_length' = queue_length - 1,
           UNCHANGED <<queue, queue_tail, submitted, shutdown>>
    PROVE  RingClosed' /\ QueueInOrder'
<1>1. /\ queue_head \in Slots /\ queue_length \in 1 .. Capacity /\ submitted \in Nat
  BY BoundAssumption DEF TypeOK
<1>2. \A k \in 0 .. queue_length - 1 :
        Wrap(queue_head' + k) = Wrap(queue_head + (k + 1))
  BY <1>1, WrapStep, BoundAssumption
<1>3. RingClosed'
  <2>1. Wrap(queue_head' + (queue_length - 1)) = Wrap(queue_head + queue_length)
    BY <1>1, <1>2, BoundAssumption
  <2> QED  BY <2>1 DEF RingClosed
<1>4. QueueInOrder'
  <2> SUFFICES ASSUME NEW k \in 0 .. queue_length - 2
               PROVE  queue[Wrap(queue_head' + k)] = submitted - (queue_length - 1) + 1 + k
    BY <1>1, BoundAssumption DEF QueueInOrder
  <2>1. Wrap(queue_head' + k) = Wrap(queue_head + (k + 1)) /\ k + 1 \in 0 .. queue_length - 1
    BY <1>1, <1>2, BoundAssumption
  <2>2. queue[Wrap(queue_head + (k + 1))] = submitted - queue_length + 1 + (k + 1)
    BY <2>1 DEF QueueInOrder
  <2> QED  BY <1>1, <2>1, <2>2, BoundAssumption
<1> QED  BY <1>3, <1>4

\* A step that leaves the ring alone keeps its order.
LEMMA RingStays ==
    ASSUME RingClosed, QueueInOrder, UNCHANGED <<ring, submitted>>,
           shutdown => shutdown'
    PROVE  RingClosed' /\ QueueInOrder'
BY DEF RingClosed, QueueInOrder, ring

\* The ring holds the newest accepted tasks, oldest first.
LEMMA RingStep ==
    ASSUME IndInv, [Next]_vars
    PROVE  RingClosed' /\ QueueInOrder'
<1> USE DEF ring, stats, waiting, users, life, conds, worker, client, discard, history
<1>t. TypeOK
  BY DEF IndInv
<1>h. Handles
  BY DEF IndInv
<1>r. RingClosed /\ QueueInOrder
  BY DEF IndInv
<1>1. ASSUME NEW w \in Workers, CreateThread(w)  PROVE RingClosed' /\ QueueInOrder'
  <2>1. UNCHANGED <<ring, submitted>> /\ (shutdown => shutdown')
    BY <1>1 DEF CreateThread
  <2> QED  BY <2>1, <1>r, RingStays
<1>2. ASSUME NEW w \in Workers, WorkerParks(w)  PROVE RingClosed' /\ QueueInOrder'
  <2>1. UNCHANGED <<ring, submitted>> /\ (shutdown => shutdown')
    BY <1>2 DEF WorkerParks
  <2> QED  BY <2>1, <1>r, RingStays
<1>3. ASSUME NEW w \in Workers, WorkerExits(w)  PROVE RingClosed' /\ QueueInOrder'
  <2>1. UNCHANGED <<ring, submitted>> /\ (shutdown => shutdown')
    BY <1>3 DEF WorkerExits
  <2> QED  BY <2>1, <1>r, RingStays
<1>4. ASSUME NEW w \in Workers, WorkerDequeues(w)  PROVE RingClosed' /\ QueueInOrder'
  BY <1>4, <1>t, <1>r, DequeueInOrder DEF WorkerDequeues
<1>5. ASSUME NEW w \in Workers, WorkerFinishes(w)  PROVE RingClosed' /\ QueueInOrder'
  <2>1. UNCHANGED <<ring, submitted>> /\ (shutdown => shutdown')
    BY <1>5 DEF WorkerFinishes
  <2> QED  BY <2>1, <1>r, RingStays
<1>6. CASE CreateReturns
  <2>1. UNCHANGED <<ring, submitted>> /\ (shutdown => shutdown')
    BY <1>6 DEF CreateReturns
  <2> QED  BY <2>1, <1>r, RingStays
<1>7. CASE CreateFails
  <2>1. UNCHANGED <<ring, submitted>> /\ (shutdown => shutdown')
    BY <1>7 DEF CreateFails
  <2> QED  BY <2>1, <1>r, RingStays
<1>8. CASE CreateUnwinds
  <2>1. UNCHANGED <<ring, submitted>> /\ (shutdown => shutdown')
    BY <1>8 DEF CreateUnwinds
  <2> QED  BY <2>1, <1>r, RingStays
<1>9. ASSUME NEW n \in 1 .. Capacity, SubmitAccepted(n)  PROVE RingClosed' /\ QueueInOrder'
  BY <1>9, <1>t, <1>r, EnqueueInOrder DEF SubmitAccepted, Admissible, RingClosed
<1>10. ASSUME NEW c \in Clients, NEW n \in 1 .. Capacity, SubmitBlocks(c, n)  PROVE RingClosed' /\ QueueInOrder'
  <2>1. UNCHANGED <<ring, submitted>> /\ (shutdown => shutdown')
    BY <1>10 DEF SubmitBlocks
  <2> QED  BY <2>1, <1>r, RingStays
<1>11. ASSUME NEW c \in Clients, SubmitParksAgain(c)  PROVE RingClosed' /\ QueueInOrder'
  <2>1. UNCHANGED <<ring, submitted>> /\ (shutdown => shutdown')
    BY <1>11 DEF SubmitParksAgain
  <2> QED  BY <2>1, <1>r, RingStays
<1>12. ASSUME NEW c \in Clients, SubmitFindsShutdown(c)  PROVE RingClosed' /\ QueueInOrder'
  <2>1. UNCHANGED <<ring, submitted>> /\ (shutdown => shutdown')
    BY <1>12 DEF SubmitFindsShutdown
  <2> QED  BY <2>1, <1>r, RingStays
<1>13. ASSUME NEW c \in Clients, SubmitFindsSpace(c)  PROVE RingClosed' /\ QueueInOrder'
  <2>1. count[c] \in 1 .. Capacity
    BY <1>13, <1>h DEF SubmitFindsSpace, SubmitterAwake, Handles
  <2> QED  BY <1>13, <1>t, <1>r, <2>1, EnqueueInOrder DEF SubmitFindsSpace, RingClosed
<1>14. ASSUME NEW c \in Clients, WaitBlocks(c)  PROVE RingClosed' /\ QueueInOrder'
  <2>1. UNCHANGED <<ring, submitted>> /\ (shutdown => shutdown')
    BY <1>14 DEF WaitBlocks
  <2> QED  BY <2>1, <1>r, RingStays
<1>15. ASSUME NEW c \in Clients, WaitParksAgain(c)  PROVE RingClosed' /\ QueueInOrder'
  <2>1. UNCHANGED <<ring, submitted>> /\ (shutdown => shutdown')
    BY <1>15 DEF WaitParksAgain
  <2> QED  BY <2>1, <1>r, RingStays
<1>16. ASSUME NEW c \in Clients, WaitReturns(c)  PROVE RingClosed' /\ QueueInOrder'
  <2>1. UNCHANGED <<ring, submitted>> /\ (shutdown => shutdown')
    BY <1>16 DEF WaitReturns
  <2> QED  BY <2>1, <1>r, RingStays
<1>17. ASSUME NEW c \in Clients, NEW safe_exit \in BOOLEAN, Shutdown(c, safe_exit)  PROVE RingClosed' /\ QueueInOrder'
  <2>1. CASE safe_exit
    BY <1>17, <1>r, <2>1, RingStays DEF Shutdown
  <2>2. CASE ~safe_exit
    <3>1. queue_length' = 0 /\ shutdown'
      BY <1>17, <2>2 DEF Shutdown, TakeQueue
    <3> QED  BY <3>1 DEF RingClosed, QueueInOrder
  <2> QED  BY <2>1, <2>2
<1>18. ASSUME NEW c \in Clients, DiscardOne(c)  PROVE RingClosed' /\ QueueInOrder'
  <2>1. UNCHANGED <<ring, submitted>> /\ (shutdown => shutdown')
    BY <1>18 DEF DiscardOne
  <2> QED  BY <2>1, <1>r, RingStays
<1>19. ASSUME NEW c \in Clients, DestroyParks(c)  PROVE RingClosed' /\ QueueInOrder'
  <2>1. UNCHANGED <<ring, submitted>> /\ (shutdown => shutdown')
    BY <1>19 DEF DestroyParks
  <2> QED  BY <2>1, <1>r, RingStays
<1>20. ASSUME NEW c \in Clients, DestroyDrained(c)  PROVE RingClosed' /\ QueueInOrder'
  <2>1. UNCHANGED <<ring, submitted>> /\ (shutdown => shutdown')
    BY <1>20 DEF DestroyDrained
  <2> QED  BY <2>1, <1>r, RingStays
<1>21. ASSUME NEW c \in Clients, DestroyJoins(c)  PROVE RingClosed' /\ QueueInOrder'
  <2>1. UNCHANGED <<ring, submitted>> /\ (shutdown => shutdown')
    BY <1>21 DEF DestroyJoins
  <2> QED  BY <2>1, <1>r, RingStays
<1>22. ASSUME NEW c \in Clients, c \in holders, cpc[c] \in {"out", "release"}, DropReference(c)  PROVE RingClosed' /\ QueueInOrder'
  <2>1. UNCHANGED <<ring, submitted>> /\ (shutdown => shutdown')
    BY <1>22 DEF DropReference
  <2> QED  BY <2>1, <1>r, RingStays
<1>23. ASSUME NEW c \in Clients, Retain(c)  PROVE RingClosed' /\ QueueInOrder'
  <2>1. UNCHANGED <<ring, submitted>> /\ (shutdown => shutdown')
    BY <1>23 DEF Retain
  <2> QED  BY <2>1, <1>r, RingStays
<1>24. CASE SpuriousWakeup
  <2>1. UNCHANGED <<ring, submitted>> /\ (shutdown => shutdown')
    BY <1>24 DEF SpuriousWakeup
  <2> QED  BY <2>1, <1>r, RingStays
<1>25. CASE UNCHANGED vars
  BY <1>25, <1>r, RingStays DEF vars
<1>26. \A c \in Clients : DestroyReleases(c) \/ Release(c) => RingClosed' /\ QueueInOrder'
  BY <1>22, <1>h DEF DestroyReleases, Release, CanCall, Handles, Destroying
<1> QED
  BY <1>1, <1>2, <1>3, <1>4, <1>5, <1>6, <1>7, <1>8, <1>9, <1>10, <1>11, <1>12, <1>13, <1>14, <1>15, <1>16, <1>17, <1>18, <1>19, <1>20, <1>21, <1>23, <1>24, <1>25, <1>26
     DEF Next, Create, WorkerStep, TaskSubmits, ClientStep, ClientCall, Finished

-----------------------------------------------------------------------------
(* The wake-ups *)

\* Whoever is parked in threadpool_wait is counted in waiting_clients, so
\* __threadpool_signal_idle__ does look.
LEMMA WaitersCounted ==
    ASSUME IndInv, all_idle # {}
    PROVE  waiting_clients > 0 /\ ~shutdown
<1>1. ClientsAt("wait") # {} /\ ~shutdown
  BY DEF IndInv, Parked
<1>2. IsFiniteSet(ClientsAt("wait"))
  BY StatesFinite
<1>3. Cardinality(ClientsAt("wait")) >= 1 /\ Cardinality(ClientsAt("wait")) \in Nat
  BY <1>1, <1>2, CardinalityMoves
<1> QED  BY <1>1, <1>3 DEF IndInv, CountersMatchThreads

\* One signal is enough for api_idle: there is at most one destroyer on it.
LEMMA DestroyerSignalled ==
    ASSUME IndInv, NEW rest \in Signalled(api_idle, 1)
    PROVE  rest = {}
<1>1. CASE api_idle = {}
  BY <1>1, SignalledSubset
<1>2. ASSUME NEW d \in api_idle  PROVE rest = {}
  <2>1. d \in Clients /\ \A e \in api_idle : e = d
    BY <1>2 DEF IndInv, Parked, Handles, ClientsAt, Destroying
  <2>2. api_idle = {d}
    BY <1>2, <2>1
  <2>3. Cardinality(api_idle) = 1
    BY <2>2, FS_Singleton
  <2>4. rest \subseteq api_idle /\ Cardinality(rest) = 0
    BY <2>3 DEF Signalled
  <2>5. IsFiniteSet(rest)
    BY <2>2, <2>4, FS_Singleton, FS_Subset
  <2> QED  BY <2>4, <2>5, FS_EmptySet
<1> QED  BY <1>1, <1>2

\* So a caller that leaves does not leave the destroyer asleep for nothing.
LEMMA LeaveTellsDestroyer ==
    ASSUME IndInv, Leave, api_users > 0
    PROVE  DestroyerNotForgotten'
<1>1. CASE api_idle = {}
  <2>1. api_idle' = {}
    BY <1>1, WakeUpsOnlyWake
  <2> QED  BY <2>1 DEF DestroyerNotForgotten
<1>2. CASE api_idle # {} /\ api_users = 1
  <2>1. shutdown
    BY <1>2 DEF IndInv, Parked, Handles, ClientsAt, Destroying
  <2>2. api_idle' = {}
    BY <1>2, <2>1, DestroyerSignalled DEF Leave
  <2> QED  BY <2>2 DEF DestroyerNotForgotten
<1>3. CASE api_users # 1
  <2>1. api_users' > 0
    BY <1>3, BoundAssumption DEF Leave, IndInv, TypeOK
  <2> QED  BY <2>1 DEF DestroyerNotForgotten
<1> QED  BY <1>1, <1>2, <1>3

\* A client is woken from threadpool_wait by whatever step makes the pool
\* quiescent or closes it.
LEMMA WaiterStep ==
    ASSUME IndInv, [Next]_vars
    PROVE  NoWaiterOversleeps'
<1> USE DEF ring, stats, waiting, users, life, conds, worker, client, discard, history
<1>t. TypeOK
  BY DEF IndInv
<1>h. Handles
  BY DEF IndInv
<1>w. NoWaiterOversleeps
  BY DEF IndInv
<1>p. Parked'
  BY ParkedStep
<1>n. /\ queue_length \in Nat /\ n_working \in Nat /\ pending_submissions \in Nat
  BY BoundAssumption DEF IndInv, TypeOK
<1>1. ASSUME NEW w \in Workers, CreateThread(w)  PROVE NoWaiterOversleeps'
  <2>1. /\ all_idle' \subseteq all_idle
        /\ UNCHANGED <<queue_length, n_working, pending_submissions, shutdown>>
    BY <1>1 DEF CreateThread
  <2> QED  BY <2>1, <1>w DEF NoWaiterOversleeps, KeepsWaiting, Quiescent
<1>2. ASSUME NEW w \in Workers, WorkerParks(w)  PROVE NoWaiterOversleeps'
  <2>1. /\ all_idle' \subseteq all_idle
        /\ UNCHANGED <<queue_length, n_working, pending_submissions, shutdown>>
    BY <1>2 DEF WorkerParks
  <2> QED  BY <2>1, <1>w DEF NoWaiterOversleeps, KeepsWaiting, Quiescent
<1>3. ASSUME NEW w \in Workers, WorkerExits(w)  PROVE NoWaiterOversleeps'
  <2>1. /\ all_idle' \subseteq all_idle
        /\ UNCHANGED <<queue_length, n_working, pending_submissions, shutdown>>
    BY <1>3 DEF WorkerExits
  <2> QED  BY <2>1, <1>w DEF NoWaiterOversleeps, KeepsWaiting, Quiescent
<1>4. ASSUME NEW w \in Workers, WorkerDequeues(w)  PROVE NoWaiterOversleeps'
  <2>1. n_working' > 0 /\ UNCHANGED <<all_idle, shutdown>>
    BY <1>4, <1>n DEF WorkerDequeues
  <2> QED  BY <1>w, <2>1 DEF NoWaiterOversleeps, KeepsWaiting, Quiescent
<1>5. ASSUME NEW w \in Workers, WorkerFinishes(w)  PROVE NoWaiterOversleeps'
  <2>1. all_idle' # {} => all_idle # {} /\ waiting_clients > 0 /\ ~shutdown
    BY <1>5, WakeUpsOnlyWake, WaitersCounted DEF WorkerFinishes
  <2> QED  BY <1>5, <2>1 DEF WorkerFinishes, SignalIdle, NoWaiterOversleeps, KeepsWaiting, Quiescent
<1>6. CASE CreateReturns
  <2>1. /\ all_idle' \subseteq all_idle
        /\ UNCHANGED <<queue_length, n_working, pending_submissions, shutdown>>
    BY <1>6 DEF CreateReturns
  <2> QED  BY <2>1, <1>w DEF NoWaiterOversleeps, KeepsWaiting, Quiescent
<1>7. CASE CreateFails
  <2>1. shutdown'
    BY <1>7 DEF CreateFails
  <2> QED  BY <1>p, <2>1 DEF Parked, NoWaiterOversleeps
<1>8. CASE CreateUnwinds
  <2>1. /\ all_idle' \subseteq all_idle
        /\ UNCHANGED <<queue_length, n_working, pending_submissions, shutdown>>
    BY <1>8 DEF CreateUnwinds
  <2> QED  BY <2>1, <1>w DEF NoWaiterOversleeps, KeepsWaiting, Quiescent
<1>9. ASSUME NEW n \in 1 .. Capacity, SubmitAccepted(n)  PROVE NoWaiterOversleeps'
  <2>1. queue_length' > 0 /\ ~shutdown'
    BY <1>9, <1>n, BoundAssumption DEF SubmitAccepted, Admissible, Enqueue
  <2> QED  BY <2>1 DEF NoWaiterOversleeps, KeepsWaiting, Quiescent
<1>10. ASSUME NEW c \in Clients, NEW n \in 1 .. Capacity, SubmitBlocks(c, n)  PROVE NoWaiterOversleeps'
  <2>1. pending_submissions' > 0 /\ ~shutdown'
    BY <1>10, <1>n DEF SubmitBlocks, Admissible
  <2> QED  BY <2>1 DEF NoWaiterOversleeps, KeepsWaiting, Quiescent
<1>11. ASSUME NEW c \in Clients, SubmitParksAgain(c)  PROVE NoWaiterOversleeps'
  <2>1. /\ all_idle' \subseteq all_idle
        /\ UNCHANGED <<queue_length, n_working, pending_submissions, shutdown>>
    BY <1>11 DEF SubmitParksAgain
  <2> QED  BY <2>1, <1>w DEF NoWaiterOversleeps, KeepsWaiting, Quiescent
<1>12. ASSUME NEW c \in Clients, SubmitFindsShutdown(c)  PROVE NoWaiterOversleeps'
  <2>1. shutdown'
    BY <1>12 DEF SubmitFindsShutdown
  <2> QED  BY <1>p, <2>1 DEF Parked, NoWaiterOversleeps
<1>13. ASSUME NEW c \in Clients, SubmitFindsSpace(c)  PROVE NoWaiterOversleeps'
  <2>1. count[c] \in 1 .. Capacity
    BY <1>13, <1>h DEF SubmitFindsSpace, SubmitterAwake, Handles
  <2>2. queue_length' > 0 /\ ~shutdown'
    BY <1>13, <1>n, <2>1, BoundAssumption DEF SubmitFindsSpace, Enqueue
  <2> QED  BY <2>2 DEF NoWaiterOversleeps, KeepsWaiting, Quiescent
<1>14. ASSUME NEW c \in Clients, WaitBlocks(c)  PROVE NoWaiterOversleeps'
  BY <1>14 DEF WaitBlocks, NoWaiterOversleeps, KeepsWaiting
<1>15. ASSUME NEW c \in Clients, WaitParksAgain(c)  PROVE NoWaiterOversleeps'
  BY <1>15 DEF WaitParksAgain, NoWaiterOversleeps, KeepsWaiting
<1>16. ASSUME NEW c \in Clients, WaitReturns(c)  PROVE NoWaiterOversleeps'
  <2>1. /\ all_idle' \subseteq all_idle
        /\ UNCHANGED <<queue_length, n_working, pending_submissions, shutdown>>
    BY <1>16 DEF WaitReturns
  <2> QED  BY <2>1, <1>w DEF NoWaiterOversleeps, KeepsWaiting, Quiescent
<1>17. ASSUME NEW c \in Clients, NEW safe_exit \in BOOLEAN, Shutdown(c, safe_exit)  PROVE NoWaiterOversleeps'
  BY <1>17 DEF Shutdown, NoWaiterOversleeps
<1>18. ASSUME NEW c \in Clients, DiscardOne(c)  PROVE NoWaiterOversleeps'
  <2>1. /\ all_idle' \subseteq all_idle
        /\ UNCHANGED <<queue_length, n_working, pending_submissions, shutdown>>
    BY <1>18 DEF DiscardOne
  <2> QED  BY <2>1, <1>w DEF NoWaiterOversleeps, KeepsWaiting, Quiescent
<1>19. ASSUME NEW c \in Clients, DestroyParks(c)  PROVE NoWaiterOversleeps'
  <2>1. /\ all_idle' \subseteq all_idle
        /\ UNCHANGED <<queue_length, n_working, pending_submissions, shutdown>>
    BY <1>19 DEF DestroyParks
  <2> QED  BY <2>1, <1>w DEF NoWaiterOversleeps, KeepsWaiting, Quiescent
<1>20. ASSUME NEW c \in Clients, DestroyDrained(c)  PROVE NoWaiterOversleeps'
  <2>1. /\ all_idle' \subseteq all_idle
        /\ UNCHANGED <<queue_length, n_working, pending_submissions, shutdown>>
    BY <1>20 DEF DestroyDrained
  <2> QED  BY <2>1, <1>w DEF NoWaiterOversleeps, KeepsWaiting, Quiescent
<1>21. ASSUME NEW c \in Clients, DestroyJoins(c)  PROVE NoWaiterOversleeps'
  <2>1. /\ all_idle' \subseteq all_idle
        /\ UNCHANGED <<queue_length, n_working, pending_submissions, shutdown>>
    BY <1>21 DEF DestroyJoins
  <2> QED  BY <2>1, <1>w DEF NoWaiterOversleeps, KeepsWaiting, Quiescent
<1>22. ASSUME NEW c \in Clients, c \in holders, cpc[c] \in {"out", "release"}, DropReference(c)  PROVE NoWaiterOversleeps'
  <2>1. /\ all_idle' \subseteq all_idle
        /\ UNCHANGED <<queue_length, n_working, pending_submissions, shutdown>>
    BY <1>22 DEF DropReference
  <2> QED  BY <2>1, <1>w DEF NoWaiterOversleeps, KeepsWaiting, Quiescent
<1>23. ASSUME NEW c \in Clients, Retain(c)  PROVE NoWaiterOversleeps'
  <2>1. /\ all_idle' \subseteq all_idle
        /\ UNCHANGED <<queue_length, n_working, pending_submissions, shutdown>>
    BY <1>23 DEF Retain
  <2> QED  BY <2>1, <1>w DEF NoWaiterOversleeps, KeepsWaiting, Quiescent
<1>24. CASE SpuriousWakeup
  <2>1. /\ all_idle' \subseteq all_idle
        /\ UNCHANGED <<queue_length, n_working, pending_submissions, shutdown>>
    BY <1>24 DEF SpuriousWakeup
  <2> QED  BY <2>1, <1>w DEF NoWaiterOversleeps, KeepsWaiting, Quiescent
<1>25. CASE UNCHANGED vars
  BY <1>25, <1>w DEF vars, NoWaiterOversleeps, KeepsWaiting, Quiescent
<1>26. \A c \in Clients : DestroyReleases(c) \/ Release(c) => NoWaiterOversleeps'
  BY <1>22, <1>h DEF DestroyReleases, Release, CanCall, Handles, Destroying
<1> QED
  BY <1>1, <1>2, <1>3, <1>4, <1>5, <1>6, <1>7, <1>8, <1>9, <1>10, <1>11, <1>12, <1>13, <1>14, <1>15, <1>16, <1>17, <1>18, <1>19, <1>20, <1>21, <1>23, <1>24, <1>25, <1>26
     DEF Next, Create, WorkerStep, TaskSubmits, ClientStep, ClientCall, Finished

\* The destroyer is woken by the last call that leaves.
LEMMA DestroyerStep ==
    ASSUME IndInv, [Next]_vars
    PROVE  DestroyerNotForgotten'
<1> USE DEF ring, stats, waiting, users, life, conds, worker, client, discard, history
<1>t. TypeOK
  BY DEF IndInv
<1>h. Handles
  BY DEF IndInv
<1>d. DestroyerNotForgotten /\ api_users \in Nat
  BY BoundAssumption DEF IndInv, TypeOK
<1>i. \A c \in Clients : cpc[c] \in {"submit", "wait"} => api_users > 0
  <2> SUFFICES ASSUME NEW c \in Clients, cpc[c] \in {"submit", "wait"}
               PROVE  api_users > 0
    OBVIOUS
  <2>1. c \in Inside /\ IsFiniteSet(Inside)
    BY StatesFinite DEF Inside
  <2>2. Cardinality(Inside) >= 1 /\ Cardinality(Inside) \in Nat
    BY <2>1, CardinalityMoves
  <2> QED  BY <2>2 DEF IndInv, CountersMatchThreads
<1>1. ASSUME NEW w \in Workers, CreateThread(w)  PROVE DestroyerNotForgotten'
  <2>1. api_idle' \subseteq api_idle /\ api_users' = api_users
    BY <1>1 DEF CreateThread
  <2> QED  BY <2>1, <1>d DEF DestroyerNotForgotten
<1>2. ASSUME NEW w \in Workers, WorkerParks(w)  PROVE DestroyerNotForgotten'
  <2>1. api_idle' \subseteq api_idle /\ api_users' = api_users
    BY <1>2 DEF WorkerParks
  <2> QED  BY <2>1, <1>d DEF DestroyerNotForgotten
<1>3. ASSUME NEW w \in Workers, WorkerExits(w)  PROVE DestroyerNotForgotten'
  <2>1. api_idle' \subseteq api_idle /\ api_users' = api_users
    BY <1>3 DEF WorkerExits
  <2> QED  BY <2>1, <1>d DEF DestroyerNotForgotten
<1>4. ASSUME NEW w \in Workers, WorkerDequeues(w)  PROVE DestroyerNotForgotten'
  <2>1. api_idle' \subseteq api_idle /\ api_users' = api_users
    BY <1>4 DEF WorkerDequeues
  <2> QED  BY <2>1, <1>d DEF DestroyerNotForgotten
<1>5. ASSUME NEW w \in Workers, WorkerFinishes(w)  PROVE DestroyerNotForgotten'
  <2>1. api_idle' \subseteq api_idle /\ api_users' = api_users
    BY <1>5 DEF WorkerFinishes
  <2> QED  BY <2>1, <1>d DEF DestroyerNotForgotten
<1>6. CASE CreateReturns
  <2>1. api_idle' \subseteq api_idle /\ api_users' = api_users
    BY <1>6 DEF CreateReturns
  <2> QED  BY <2>1, <1>d DEF DestroyerNotForgotten
<1>7. CASE CreateFails
  <2>1. api_idle' \subseteq api_idle /\ api_users' = api_users
    BY <1>7 DEF CreateFails
  <2> QED  BY <2>1, <1>d DEF DestroyerNotForgotten
<1>8. CASE CreateUnwinds
  <2>1. api_idle' \subseteq api_idle /\ api_users' = api_users
    BY <1>8 DEF CreateUnwinds
  <2> QED  BY <2>1, <1>d DEF DestroyerNotForgotten
<1>9. ASSUME NEW n \in 1 .. Capacity, SubmitAccepted(n)  PROVE DestroyerNotForgotten'
  <2>1. api_idle' \subseteq api_idle /\ api_users' = api_users
    BY <1>9 DEF SubmitAccepted
  <2> QED  BY <2>1, <1>d DEF DestroyerNotForgotten
<1>10. ASSUME NEW c \in Clients, NEW n \in 1 .. Capacity, SubmitBlocks(c, n)  PROVE DestroyerNotForgotten'
  BY <1>10, <1>d DEF SubmitBlocks, DestroyerNotForgotten
<1>11. ASSUME NEW c \in Clients, SubmitParksAgain(c)  PROVE DestroyerNotForgotten'
  <2>1. api_idle' \subseteq api_idle /\ api_users' = api_users
    BY <1>11 DEF SubmitParksAgain
  <2> QED  BY <2>1, <1>d DEF DestroyerNotForgotten
<1>12. ASSUME NEW c \in Clients, SubmitFindsShutdown(c)  PROVE DestroyerNotForgotten'
  <2>1. Leave /\ api_users > 0
    BY <1>12, <1>i DEF SubmitFindsShutdown, SubmitterAwake, SubmitLeave
  <2> QED  BY <2>1, LeaveTellsDestroyer
<1>13. ASSUME NEW c \in Clients, SubmitFindsSpace(c)  PROVE DestroyerNotForgotten'
  <2>1. Leave /\ api_users > 0
    BY <1>13, <1>i DEF SubmitFindsSpace, SubmitterAwake, SubmitLeave
  <2> QED  BY <2>1, LeaveTellsDestroyer
<1>14. ASSUME NEW c \in Clients, WaitBlocks(c)  PROVE DestroyerNotForgotten'
  BY <1>14, <1>d DEF WaitBlocks, DestroyerNotForgotten
<1>15. ASSUME NEW c \in Clients, WaitParksAgain(c)  PROVE DestroyerNotForgotten'
  <2>1. api_idle' \subseteq api_idle /\ api_users' = api_users
    BY <1>15 DEF WaitParksAgain
  <2> QED  BY <2>1, <1>d DEF DestroyerNotForgotten
<1>16. ASSUME NEW c \in Clients, WaitReturns(c)  PROVE DestroyerNotForgotten'
  <2>1. Leave /\ api_users > 0
    BY <1>16, <1>i DEF WaitReturns, WaiterAwake
  <2> QED  BY <2>1, LeaveTellsDestroyer
<1>17. ASSUME NEW c \in Clients, NEW safe_exit \in BOOLEAN, Shutdown(c, safe_exit)  PROVE DestroyerNotForgotten'
  <2>1. api_idle' \subseteq api_idle /\ api_users' = api_users
    BY <1>17 DEF Shutdown
  <2> QED  BY <2>1, <1>d DEF DestroyerNotForgotten
<1>18. ASSUME NEW c \in Clients, DiscardOne(c)  PROVE DestroyerNotForgotten'
  <2>1. api_idle' \subseteq api_idle /\ api_users' = api_users
    BY <1>18 DEF DiscardOne
  <2> QED  BY <2>1, <1>d DEF DestroyerNotForgotten
<1>19. ASSUME NEW c \in Clients, DestroyParks(c)  PROVE DestroyerNotForgotten'
  BY <1>19, <1>d DEF DestroyParks, NobodyInside, DestroyerNotForgotten
<1>20. ASSUME NEW c \in Clients, DestroyDrained(c)  PROVE DestroyerNotForgotten'
  <2>1. api_idle' \subseteq api_idle /\ api_users' = api_users
    BY <1>20 DEF DestroyDrained
  <2> QED  BY <2>1, <1>d DEF DestroyerNotForgotten
<1>21. ASSUME NEW c \in Clients, DestroyJoins(c)  PROVE DestroyerNotForgotten'
  <2>1. api_idle' \subseteq api_idle /\ api_users' = api_users
    BY <1>21 DEF DestroyJoins
  <2> QED  BY <2>1, <1>d DEF DestroyerNotForgotten
<1>22. ASSUME NEW c \in Clients, c \in holders, cpc[c] \in {"out", "release"}, DropReference(c)  PROVE DestroyerNotForgotten'
  <2>1. api_idle' \subseteq api_idle /\ api_users' = api_users
    BY <1>22 DEF DropReference
  <2> QED  BY <2>1, <1>d DEF DestroyerNotForgotten
<1>23. ASSUME NEW c \in Clients, Retain(c)  PROVE DestroyerNotForgotten'
  <2>1. api_idle' \subseteq api_idle /\ api_users' = api_users
    BY <1>23 DEF Retain
  <2> QED  BY <2>1, <1>d DEF DestroyerNotForgotten
<1>24. CASE SpuriousWakeup
  <2>1. api_idle' \subseteq api_idle /\ api_users' = api_users
    BY <1>24 DEF SpuriousWakeup
  <2> QED  BY <2>1, <1>d DEF DestroyerNotForgotten
<1>25. CASE UNCHANGED vars
  BY <1>25, <1>d DEF vars, DestroyerNotForgotten
<1>26. \A c \in Clients : DestroyReleases(c) \/ Release(c) => DestroyerNotForgotten'
  BY <1>22, <1>h DEF DestroyReleases, Release, CanCall, Handles, Destroying
<1> QED
  BY <1>1, <1>2, <1>3, <1>4, <1>5, <1>6, <1>7, <1>8, <1>9, <1>10, <1>11, <1>12, <1>13, <1>14, <1>15, <1>16, <1>17, <1>18, <1>19, <1>20, <1>21, <1>23, <1>24, <1>25, <1>26
     DEF Next, Create, WorkerStep, TaskSubmits, ClientStep, ClientCall, Finished

-----------------------------------------------------------------------------
(* Theorems *)

\* The inductive invariant holds when the pool is created ...
LEMMA InitIndInv == Init => IndInv
<1> SUFFICES ASSUME Init PROVE IndInv
  OBVIOUS
<1>1. /\ \A state \in {"run", "idle"} : WorkersAt(state) = {}
      /\ \A state \in {"submit", "wait", "drain"} : ClientsAt(state) = {}
      /\ Inside = {} /\ Batches = {}
  BY DEF Init, WorkersAt, ClientsAt, Inside, Batches
<1>2. TypeOK
  <2>1. 0 \in Slots /\ 0 \in 0 .. Capacity /\ 0 \in 0 .. CounterMax /\ 0 \in 0 .. TaskLimit
        /\ 0 \in 0 .. UIntMax /\ 1 \in 0 .. UIntMax
    BY BoundAssumption DEF Slots
  <2>2. /\ wpc \in [Workers -> WorkerStates] /\ task \in [Workers -> Nat]
        /\ queue \in [Slots -> Nat]
    BY DEF Init, WorkerStates
  <2>3. cpc \in [Clients -> ClientStates] /\ count \in [Clients -> 0 .. Capacity]
    BY <2>1 DEF Init, ClientStates
  <2> QED  BY <2>1, <2>2, <2>3, ThreadAssumption DEF Init, TypeOK
<1>3. CountersMatchThreads
  BY <1>1, FS_EmptySet, FS_Singleton DEF Init, CountersMatchThreads
<1>4. Handles
  BY ThreadAssumption DEF Init, Handles, Published, Destroying
<1>5. Parked
  BY <1>1, ThreadAssumption DEF Init, Parked
<1>6. RingClosed /\ QueueInOrder /\ NoWaiterOversleeps /\ DestroyerNotForgotten
  BY BoundAssumption
     DEF Init, RingClosed, QueueInOrder, NoWaiterOversleeps, DestroyerNotForgotten, Wrap
<1> QED  BY <1>2, <1>3, <1>4, <1>5, <1>6 DEF IndInv

\* ... and every step keeps it.
LEMMA NextIndInv == IndInv /\ [Next]_vars => IndInv'
BY CountersStep, TypeStep, HandlesStep, ParkedStep, RingStep, WaiterStep,
   DestroyerStep DEF IndInv

\* The inductive invariant holds in every reachable state.
THEOREM Invariance == Spec => []IndInv
BY InitIndInv, NextIndInv, PTL DEF Spec

\* Every field and every local keeps its type: the ring's indices stay inside
\* the ring, its length within queue_capacity, and no count goes below zero or,
\* for the two that are checked against UINT_MAX, above it.
THEOREM TypeCorrect == Spec => []TypeOK
<1>1. IndInv => TypeOK
  BY DEF IndInv
<1> QED  BY <1>1, Invariance, PTL

\* The counts the code keeps by hand are the numbers of threads they stand for.
THEOREM CountersCorrect == Spec => []CountersMatchThreads
<1>1. IndInv => CountersMatchThreads
  BY DEF IndInv
<1> QED  BY <1>1, Invariance, PTL

\* The ring holds the newest accepted tasks in order of acceptance, whatever
\* batches, wrap-arounds and wake-ups came before.
THEOREM FirstInFirstOut == Spec => []QueueInOrder
<1>1. IndInv => QueueInOrder
  BY DEF IndInv
<1> QED  BY <1>1, Invariance, PTL

\* No lost wake-up in threadpool_wait: a parked client has work to wait for.
THEOREM WaitersWoken == Spec => []NoWaiterOversleeps
<1>1. IndInv => NoWaiterOversleeps
  BY DEF IndInv
<1> QED  BY <1>1, Invariance, PTL

\* No lost wake-up in threadpool_destroy: one signal of api_idle suffices.
THEOREM DestroyerWoken == Spec => []DestroyerNotForgotten
<1>1. IndInv => DestroyerNotForgotten
  BY DEF IndInv
<1> QED  BY <1>1, Invariance, PTL

-----------------------------------------------------------------------------
(* The tasks of the pool *)

-----------------------------------------------------------------------------
(* What a step does to the tasks *)

Runs == WorkersAt("run")
Gone == destroyed \/ freed

\* Tasks, and what is counted of them, that a step leaves where they are.
InRing   == <<queue, queue_head, queue_length>>
Counted  == <<accepted, completed, discarded>>
InWorker == <<task, n_working, Runs>>
Over     == <<done, cleaned>>
TasksStill == UNCHANGED <<InRing, Counted, InWorker, Over, discard, submitted>>

Accepts(n) ==
    /\ ~shutdown /\ n <= Space /\ Enqueue(n)
    /\ UNCHANGED <<InWorker, Over, discard, shutdown, Gone>>

Starts(w) ==
    /\ w \notin Runs /\ Runs' = Runs \cup {w}
    /\ queue_length > 0 /\ queue_length' = queue_length - 1
    /\ queue_head' = Wrap(queue_head + 1)
    /\ task' = [task EXCEPT ![w] = queue[queue_head]]
    /\ n_working' = n_working + 1
    /\ UNCHANGED <<queue, Counted, Over, discard, submitted, shutdown, Gone>>

Ends(w) ==
    /\ w \in Runs /\ Runs' = Runs \ {w}
    /\ task' = [task EXCEPT ![w] = 0]
    /\ n_working' = n_working - 1
    /\ done' = done \cup {task[w]}
    /\ completed' = Count(completed, 1)
    /\ UNCHANGED <<InRing, accepted, discarded, cleaned, discard, submitted, shutdown, Gone>>

Drops ==
    /\ ~shutdown /\ shutdown' /\ TakeQueue
    /\ UNCHANGED <<queue, queue_head, accepted, completed, InWorker, Over, submitted, Gone>>

Cleans ==
    /\ discard_count > 0 /\ discard_count' = discard_count - 1
    /\ discard_head' = Wrap(discard_head + 1)
    /\ cleaned' = cleaned \cup {queue[discard_head]}
    /\ UNCHANGED <<InRing, Counted, InWorker, done, submitted, shutdown, Gone>>

Closes == TasksStill /\ ~shutdown /\ shutdown' /\ UNCHANGED Gone

\* The end of threadpool_create that failed, or of threadpool_destroy.
Ending == CreateUnwinds \/ \E c \in Clients : DestroyJoins(c)

Idles == TasksStill /\ UNCHANGED shutdown /\ (Ending \/ UNCHANGED Gone)

\* One of the ways in which a step concerns the tasks.
TaskMove ==
    \/ \E n \in 1 .. Capacity : Accepts(n)
    \/ \E w \in Workers : Starts(w)
    \/ \E w \in Workers : Ends(w)
    \/ Drops \/ Cleans \/ Closes \/ Idles

\* A worker that stays off the tasks before and after its move.
LEMMA RunsStay ==
    ASSUME NEW w \in Workers, NEW to, WorkerGoes(w, to), wpc[w] # "run", to # "run"
    PROVE  Runs' = Runs
BY DEF Runs, WorkersAt, WorkerGoes

\* Every step moves the tasks in one of these ways.
LEMMA TaskMoves ==
    ASSUME IndInv, [Next]_vars
    PROVE  TaskMove
<1> USE DEF ring, stats, waiting, users, life, conds, worker, client, discard, history
<1> USE DEF InRing, Counted, InWorker, Over
<1>t. /\ wpc \in [Workers -> WorkerStates] /\ cpc \in [Clients -> ClientStates]
      /\ shutdown \in BOOLEAN
  BY DEF IndInv, TypeOK
<1>h. Handles
  BY DEF IndInv
<1>s. wpc' = wpc => Runs' = Runs
  BY DEF Runs, WorkersAt
<1>1. ASSUME NEW w \in Workers, CreateThread(w)  PROVE Idles
  <2>1. WorkerGoes(w, "start") /\ wpc[w] # "run"
    BY <1>1, <1>t DEF WorkerGoes, CreateThread
  <2>2. Runs' = Runs
    BY <2>1, RunsStay
  <2> QED  BY <1>1, <2>2 DEF Idles, TasksStill, Gone, CreateThread
<1>2. ASSUME NEW w \in Workers, WorkerParks(w)  PROVE Idles
  <2>1. WorkerGoes(w, "idle") /\ wpc[w] # "run"
    BY <1>2, <1>t DEF AtLoopHead, WorkerGoes, WorkerParks
  <2>2. Runs' = Runs
    BY <2>1, RunsStay
  <2> QED  BY <1>2, <2>2 DEF Idles, TasksStill, Gone, WorkerParks
<1>3. ASSUME NEW w \in Workers, WorkerExits(w)  PROVE Idles
  <2>1. WorkerGoes(w, "exited") /\ wpc[w] # "run"
    BY <1>3, <1>t DEF AtLoopHead, WorkerGoes, WorkerExits
  <2>2. Runs' = Runs
    BY <2>1, RunsStay
  <2> QED  BY <1>3, <2>2 DEF Idles, TasksStill, Gone, WorkerExits
<1>4. ASSUME NEW w \in Workers, WorkerDequeues(w)  PROVE Starts(w)
  <2>1. w \notin Runs /\ Runs' = Runs \cup {w}
    BY <1>4, <1>t DEF Runs, WorkersAt, WorkerDequeues, AtLoopHead
  <2> QED  BY <1>4, <2>1 DEF Starts, Gone, WorkerDequeues
<1>5. ASSUME NEW w \in Workers, WorkerFinishes(w)  PROVE Ends(w)
  <2>1. w \in Runs /\ Runs' = Runs \ {w}
    BY <1>5, <1>t DEF Runs, WorkersAt, WorkerFinishes
  <2> QED  BY <1>5, <2>1 DEF Ends, Gone, WorkerFinishes
<1>6. ASSUME CreateReturns  PROVE Idles
  BY <1>6, <1>s DEF Idles, TasksStill, Gone, CreateReturns
<1>7. ASSUME CreateFails  PROVE Closes \/ Idles
  BY <1>7, <1>s, <1>t DEF Closes, Idles, TasksStill, Gone, CreateFails
<1>8. ASSUME CreateUnwinds  PROVE Idles
  BY <1>8, <1>s DEF Idles, Ending, TasksStill, CreateUnwinds
<1>9. ASSUME NEW n \in 1 .. Capacity, SubmitAccepted(n)  PROVE Accepts(n)
  BY <1>9, <1>s DEF Accepts, Gone, SubmitAccepted, Admissible
<1>10. ASSUME NEW c \in Clients, NEW n \in 1 .. Capacity, SubmitBlocks(c, n)  PROVE Idles
  BY <1>10, <1>s DEF Idles, TasksStill, Gone, SubmitBlocks
<1>11. ASSUME NEW c \in Clients, SubmitParksAgain(c)  PROVE Idles
  BY <1>11, <1>s DEF Idles, TasksStill, Gone, SubmitParksAgain
<1>12. ASSUME NEW c \in Clients, SubmitFindsShutdown(c)  PROVE Idles
  BY <1>12, <1>s DEF Idles, TasksStill, Gone, SubmitFindsShutdown
<1>13. ASSUME NEW c \in Clients, SubmitFindsSpace(c)  PROVE \E n \in 1 .. Capacity : Accepts(n)
  <2>1. count[c] \in 1 .. Capacity
    BY <1>13, <1>h DEF SubmitFindsSpace, SubmitterAwake, Handles
  <2>2. Accepts(count[c])
    BY <1>13, <1>s DEF Accepts, Gone, SubmitFindsSpace
  <2> QED  BY <2>1, <2>2
<1>14. ASSUME NEW c \in Clients, WaitBlocks(c)  PROVE Idles
  BY <1>14, <1>s DEF Idles, TasksStill, Gone, WaitBlocks
<1>15. ASSUME NEW c \in Clients, WaitParksAgain(c)  PROVE Idles
  BY <1>15, <1>s DEF Idles, TasksStill, Gone, WaitParksAgain
<1>16. ASSUME NEW c \in Clients, WaitReturns(c)  PROVE Idles
  BY <1>16, <1>s DEF Idles, TasksStill, Gone, WaitReturns
<1>17. ASSUME NEW c \in Clients, NEW safe_exit \in BOOLEAN, Shutdown(c, safe_exit)
       PROVE  Drops \/ Closes
  <2>1. CASE safe_exit
    BY <1>17, <1>s, <2>1 DEF Closes, TasksStill, Gone, Shutdown
  <2>2. CASE ~safe_exit
    BY <1>17, <1>s, <2>2 DEF Drops, Gone, Shutdown
  <2> QED  BY <2>1, <2>2
<1>18. ASSUME NEW c \in Clients, DiscardOne(c)  PROVE Cleans
  BY <1>18, <1>s DEF Cleans, Gone, DiscardOne
<1>19. ASSUME NEW c \in Clients, DestroyParks(c)  PROVE Idles
  BY <1>19, <1>s DEF Idles, TasksStill, Gone, DestroyParks
<1>20. ASSUME NEW c \in Clients, DestroyDrained(c)  PROVE Idles
  BY <1>20, <1>s DEF Idles, TasksStill, Gone, DestroyDrained
<1>21. ASSUME NEW c \in Clients, DestroyJoins(c)  PROVE Idles
  BY <1>21, <1>s DEF Idles, Ending, TasksStill, DestroyJoins
<1>22. ASSUME NEW c \in Clients, c \in holders, DropReference(c)  PROVE Idles
  <2>1. UNCHANGED Gone
    BY <1>22, <1>h DEF Gone, DropReference, Handles
  <2> QED  BY <1>22, <1>s, <2>1 DEF Idles, TasksStill, DropReference
<1>23. ASSUME NEW c \in Clients, Retain(c)  PROVE Idles
  BY <1>23, <1>s DEF Idles, TasksStill, Gone, Retain
<1>24. ASSUME SpuriousWakeup  PROVE Idles
  BY <1>24, <1>s DEF Idles, TasksStill, Gone, SpuriousWakeup
<1>25. ASSUME UNCHANGED vars  PROVE Idles
  BY <1>25, <1>s DEF Idles, TasksStill, Gone, vars
<1>26. \A c \in Clients : DestroyReleases(c) \/ Release(c) => Idles
  BY <1>22, <1>h DEF DestroyReleases, Release, Handles, Destroying
<1> QED
  BY <1>1, <1>2, <1>3, <1>4, <1>5, <1>6, <1>7, <1>8, <1>9, <1>10, <1>11, <1>12, <1>13, <1>14,
     <1>15, <1>16, <1>17, <1>18, <1>19, <1>20, <1>21, <1>23, <1>24, <1>25, <1>26
     DEF TaskMove, Next, Create, WorkerStep, TaskSubmits, ClientStep, ClientCall, Finished
-----------------------------------------------------------------------------
(* What a step does to the threads *)

AtEnd == {"drain", "join", "release"}

\* A reference is given up, and it was the last.
DropsLast ==
    freed' /\ \E c \in holders : cpc[c] \in {"out", "release"} /\ DropReference(c)

LifeMove ==
    /\ destroyed' => destroyed \/ \E c \in Clients : DestroyJoins(c)
    /\ freed' => freed \/ CreateUnwinds \/ DropsLast

\* Threads only go forward through the end of the pool.
ThreadMove ==
    /\ shutdown => shutdown'
    /\ \A w \in Workers :
         /\ wpc'[w] = "exited" => wpc[w] = "exited" \/ (shutdown /\ queue_length = 0)
         /\ wpc[w] = "exited" => wpc'[w] = "exited"
         /\ wpc[w] = "none" => wpc'[w] = "none" \/ cpc[Owner] = "create"
    /\ \A c \in Clients :
         /\ cpc'[c] \in AtEnd => shutdown /\ (cpc[c] \in AtEnd \/ discard_count = 0)
         /\ cpc'[c] \in {"join", "release"} => cpc[c] \in {"join", "release"} \/ api_users = 0
         /\ shutdown /\ cpc[c] = "out" => cpc'[c] = "out"
         /\ cpc[c] = "release" => cpc'[c] \in {"out", "release"}
         /\ cpc[c] = "wait" /\ cpc'[c] = "out" => ~KeepsWaiting
    /\ shutdown => api_users' <= api_users
    /\ ~Published => submitted' = submitted
    /\ ~Published' => ~Published
    /\ LifeMove

\* Before threadpool_create returns there is no task a worker could run.
LEMMA NobodyRunsBefore ==
    ASSUME TaskIndInv, NEW w \in Workers, wpc[w] = "run"
    PROVE  Published
<1> SUFFICES ASSUME ~Published  PROVE FALSE
  OBVIOUS
<1>1. submitted = 0 /\ queue_length \in Nat /\ discard_count \in Nat
  BY BoundAssumption DEF TaskIndInv, IndInv, TypeOK, Phases
<1>2. task[w] \in Running
  BY DEF Running, WorkersAt
<1>3. task[w] \in 1 .. 0 - queue_length - discard_count
  BY <1>1, <1>2 DEF TaskIndInv, TakenTasks
<1> QED  BY <1>1, <1>3

\* Every step is one of these moves of the threads.
LEMMA ThreadMoves ==
    ASSUME TaskIndInv, [Next]_vars
    PROVE  ThreadMove
<1> USE DEF ring, stats, waiting, users, life, conds, worker, client, discard, history
<1> USE DEF ThreadMove, AtEnd
<1>t. /\ wpc \in [Workers -> WorkerStates] /\ cpc \in [Clients -> ClientStates]
      /\ shutdown \in BOOLEAN /\ api_users \in Nat /\ holders \subseteq Clients
  BY DEF TaskIndInv, IndInv, TypeOK
<1>h. Handles
  BY DEF TaskIndInv, IndInv
<1>d. \A c \in Clients : cpc[c] \in {"discard", "drain", "join", "release"} => shutdown
  BY <1>h DEF Handles, Destroying
<1>p. \A c \in Clients : cpc[c] \notin {"out", "create", "unwind"} => Published
  BY <1>h DEF Handles, Published
<1>1. ASSUME NEW w \in Workers, CreateThread(w)  PROVE ThreadMove
  BY <1>1, <1>t, <1>d, <1>p, ThreadAssumption DEF LifeMove, Published, CreateThread
<1>2. ASSUME NEW w \in Workers, WorkerParks(w)  PROVE ThreadMove
  BY <1>2, <1>t, <1>d, <1>p, ThreadAssumption DEF LifeMove, Published, AtLoopHead, WorkerParks
<1>3. ASSUME NEW w \in Workers, WorkerExits(w)  PROVE ThreadMove
  BY <1>3, <1>t, <1>d, <1>p, ThreadAssumption DEF LifeMove, Published, AtLoopHead, MayExit, WorkerExits
<1>4. ASSUME NEW w \in Workers, WorkerDequeues(w)  PROVE ThreadMove
  BY <1>4, <1>t, <1>d, <1>p, ThreadAssumption DEF LifeMove, Published, AtLoopHead, WorkerDequeues
<1>5. ASSUME NEW w \in Workers, WorkerFinishes(w)  PROVE ThreadMove
  BY <1>5, <1>t, <1>d, <1>p, ThreadAssumption DEF LifeMove, Published, WorkerFinishes
<1>6. ASSUME CreateReturns  PROVE ThreadMove
  BY <1>6, <1>t, <1>d, <1>p, ThreadAssumption DEF LifeMove, Published, CreateReturns
<1>7. ASSUME CreateFails  PROVE ThreadMove
  BY <1>7, <1>t, <1>d, <1>p, ThreadAssumption DEF LifeMove, Published, CreateFails
<1>8. ASSUME CreateUnwinds  PROVE ThreadMove
  <2>1. destroyed' = destroyed
    BY <1>8 DEF CreateUnwinds
  <2>2. LifeMove
    BY <1>8, <2>1 DEF LifeMove
  <2> QED  BY <1>8, <1>t, <1>d, <1>p, ThreadAssumption, <2>2 DEF Published, CreateUnwinds
<1>9. ASSUME NEW n \in 1 .. Capacity, SubmitAccepted(n), Published  PROVE ThreadMove
  BY <1>9, <1>t, <1>d, <1>p, ThreadAssumption DEF LifeMove, Published, Admissible, Enqueue, SubmitAccepted
<1>10. ASSUME NEW c \in Clients, NEW n \in 1 .. Capacity, SubmitBlocks(c, n)  PROVE ThreadMove
  BY <1>10, <1>t, <1>d, <1>p, ThreadAssumption DEF LifeMove, Published, CanCall, Admissible, SubmitBlocks
<1>11. ASSUME NEW c \in Clients, SubmitParksAgain(c)  PROVE ThreadMove
  BY <1>11, <1>t, <1>d, <1>p, ThreadAssumption DEF LifeMove, Published, SubmitParksAgain
<1>12. ASSUME NEW c \in Clients, SubmitFindsShutdown(c)  PROVE ThreadMove
  BY <1>12, <1>t, <1>d, <1>p, ThreadAssumption DEF LifeMove, Published, SubmitterAwake, SubmitLeave, Leave, SubmitFindsShutdown
<1>13. ASSUME NEW c \in Clients, SubmitFindsSpace(c)  PROVE ThreadMove
  BY <1>13, <1>t, <1>d, <1>p, ThreadAssumption DEF LifeMove, Published, SubmitterAwake, SubmitLeave, Leave, SubmitFindsSpace
<1>14. ASSUME NEW c \in Clients, WaitBlocks(c)  PROVE ThreadMove
  BY <1>14, <1>t, <1>d, <1>p, ThreadAssumption DEF LifeMove, Published, CanCall, WaitBlocks
<1>15. ASSUME NEW c \in Clients, WaitParksAgain(c)  PROVE ThreadMove
  BY <1>15, <1>t, <1>d, <1>p, ThreadAssumption DEF LifeMove, Published, WaiterAwake, WaitParksAgain
<1>16. ASSUME NEW c \in Clients, WaitReturns(c)  PROVE ThreadMove
  BY <1>16, <1>t, <1>d, <1>p, ThreadAssumption DEF LifeMove, Published, WaiterAwake, Leave, WaitReturns
<1>17. ASSUME NEW c \in Clients, NEW safe_exit \in BOOLEAN, Shutdown(c, safe_exit)  PROVE ThreadMove
  BY <1>17, <1>t, <1>d, <1>p, ThreadAssumption DEF LifeMove, Published, CanCall, Shutdown
<1>18. ASSUME NEW c \in Clients, DiscardOne(c)  PROVE ThreadMove
  BY <1>18, <1>t, <1>d, <1>p, ThreadAssumption DEF LifeMove, Published, DiscardOne
<1>19. ASSUME NEW c \in Clients, DestroyParks(c)  PROVE ThreadMove
  BY <1>19, <1>t, <1>d, <1>p, ThreadAssumption DEF LifeMove, Published, DestroyerAtDrain, NobodyInside, DestroyParks
<1>20. ASSUME NEW c \in Clients, DestroyDrained(c)  PROVE ThreadMove
  BY <1>20, <1>t, <1>d, <1>p, ThreadAssumption DEF LifeMove, Published, DestroyerAtDrain, NobodyInside, DestroyDrained
<1>21. ASSUME NEW c \in Clients, DestroyJoins(c)  PROVE ThreadMove
  <2>1. freed' = freed
    BY <1>21 DEF DestroyJoins
  <2>2. LifeMove
    BY <1>21, <2>1 DEF LifeMove
  <2> QED  BY <1>21, <1>t, <1>d, <1>p, ThreadAssumption, <2>2 DEF Published, DestroyJoins
<1>22. ASSUME NEW c \in Clients, c \in holders, cpc[c] \in {"out", "release"}, DropReference(c)  PROVE ThreadMove
  <2>1. destroyed' = destroyed
    BY <1>22 DEF DropReference
  <2>2. LifeMove
    BY <1>22, <2>1 DEF LifeMove, DropsLast
  <2> QED  BY <1>22, <1>t, <1>d, <1>p, ThreadAssumption, <2>2 DEF Published, DropReference
<1>23. ASSUME NEW c \in Clients, Retain(c)  PROVE ThreadMove
  BY <1>23, <1>t, <1>d, <1>p, ThreadAssumption DEF LifeMove, Published, Retain
<1>24. ASSUME SpuriousWakeup  PROVE ThreadMove
  BY <1>24, <1>t, <1>d, <1>p, ThreadAssumption DEF LifeMove, Published, SpuriousWakeup
<1>25. ASSUME UNCHANGED vars  PROVE ThreadMove
  BY <1>25, <1>t, <1>d, <1>p, ThreadAssumption DEF LifeMove, Published, vars
<1>26. \A c \in Clients : DestroyReleases(c) \/ Release(c) => ThreadMove
  BY <1>22, <1>h DEF DestroyReleases, Release, CanCall, Handles, Destroying
<1>27. \A w \in Workers, n \in 1 .. Capacity : TaskSubmits(w, n) => ThreadMove
  BY <1>9, NobodyRunsBefore DEF TaskSubmits
<1>28. \A c \in Clients, n \in 1 .. Capacity : CanCall(c) /\ SubmitAccepted(n) => ThreadMove
  BY <1>9 DEF CanCall
<1> QED
  BY <1>1, <1>2, <1>3, <1>4, <1>5, <1>6, <1>7, <1>8, <1>10, <1>11, <1>12, <1>13, <1>14, <1>15,
     <1>16, <1>17, <1>18, <1>19, <1>20, <1>21, <1>23, <1>24, <1>25, <1>26, <1>27, <1>28
     DEF Next, Create, WorkerStep, ClientStep, ClientCall, Finished
-----------------------------------------------------------------------------
(* The statistics *)

\* Adding to a saturated count is saturating the sum.
LEMMA CountAtMost ==
    ASSUME NEW m \in Nat, NEW n \in Nat
    PROVE  Count(AtMost(m), n) = AtMost(m + n)
BY BoundAssumption DEF Count, AtMost

\* How many tasks have left the ring, and that sets of them are finite.
LEMMA TakenIsNat ==
    ASSUME TypeOK, TakenTasks
    PROVE  /\ submitted - queue_length - discard_count \in Nat
           /\ IsFiniteSet(done) /\ IsFiniteSet(cleaned)
           /\ Cardinality(done) \in Nat /\ Cardinality(cleaned) \in Nat
<1> DEFINE taken == submitted - queue_length - discard_count
<1>1. taken \in Int /\ n_working \in Nat
  BY BoundAssumption DEF TypeOK
<1>2. done \subseteq 1 .. taken /\ cleaned \subseteq 1 .. taken
  BY DEF TakenTasks
<1>3. IsFiniteSet(1 .. taken)
  BY <1>1, FS_Interval
<1>4. IsFiniteSet(done) /\ IsFiniteSet(cleaned)
  BY <1>2, <1>3, FS_Subset
<1>5. Cardinality(done) \in Nat /\ Cardinality(cleaned) \in Nat
  BY <1>4, FS_CardinalityType
<1>6. n_working + Cardinality(done) + Cardinality(cleaned) = taken
  BY DEF TakenTasks
<1> QED  BY <1>1, <1>4, <1>5, <1>6

\* The first task of the ring, and of the destroyer's part of it, is the one that
\* follows all that have left.
LEMMA OldestTask ==
    ASSUME TypeOK, QueueInOrder, DiscardInOrder, Phases
    PROVE  /\ queue_length > 0 =>
                queue[queue_head] = submitted - queue_length - discard_count + 1
           /\ discard_count > 0 =>
                queue[discard_head] = submitted - queue_length - discard_count + 1
<1>1. /\ queue_length \in 0 .. Capacity /\ discard_count \in 0 .. Capacity /\ submitted \in Nat
      /\ queue_head \in Slots /\ discard_head \in Slots
  BY DEF TypeOK
<1>2. Wrap(queue_head + 0) = queue_head /\ Wrap(discard_head + 0) = discard_head
  BY <1>1, BoundAssumption DEF Wrap, Slots
<1>3. queue_length > 0 => queue[queue_head] = submitted - queue_length + 1 + 0
  BY <1>1, <1>2, BoundAssumption DEF QueueInOrder
<1>4. discard_count > 0 => queue[discard_head] = submitted - discard_count + 1 + 0
  BY <1>1, <1>2, BoundAssumption DEF DiscardInOrder
<1>5. queue_length = 0 \/ discard_count = 0
  BY <1>1, BoundAssumption DEF Phases
<1> QED  BY <1>1, <1>3, <1>4, <1>5, BoundAssumption

\* A finished task was not finished before, and a cleaned up one not cleaned up.
LEMMA OverGrows ==
    ASSUME TaskIndInv
    PROVE  /\ \A w \in Runs :
                 Cardinality(done \cup {task[w]}) = Cardinality(done) + 1
           /\ discard_count > 0 =>
                 Cardinality(cleaned \cup {queue[discard_head]}) = Cardinality(cleaned) + 1
<1>1. /\ submitted - queue_length - discard_count \in Nat
      /\ IsFiniteSet(done) /\ IsFiniteSet(cleaned)
  BY TakenIsNat DEF TaskIndInv, IndInv
<1>2. ASSUME NEW w \in Runs  PROVE Cardinality(done \cup {task[w]}) = Cardinality(done) + 1
  <2>1. task[w] \in Running
    BY DEF Runs, Running
  <2>2. task[w] \notin done
    BY <2>1 DEF TaskIndInv, TakenTasks
  <2> QED  BY <1>1, <2>2, CardinalityMoves
<1>3. ASSUME discard_count > 0
      PROVE  Cardinality(cleaned \cup {queue[discard_head]}) = Cardinality(cleaned) + 1
  <2>1. queue[discard_head] = submitted - queue_length - discard_count + 1
    BY <1>3, OldestTask DEF TaskIndInv, IndInv
  <2>2. cleaned \subseteq 1 .. submitted - queue_length - discard_count
    BY DEF TaskIndInv, TakenTasks
  <2>3. queue[discard_head] \notin cleaned
    BY <1>1, <2>1, <2>2
  <2> QED  BY <1>1, <2>3, CardinalityMoves
<1> QED  BY <1>2, <1>3

\* No step lets the statistics lag behind.
LEMMA StatisticsStep ==
    ASSUME TaskIndInv, TaskMove
    PROVE  StatsMatchHistory'
<1> USE DEF InRing, Counted, InWorker, Over, discard
<1>t. /\ submitted \in Nat /\ queue_length \in 0 .. Capacity /\ discard_count \in 0 .. Capacity
      /\ Cardinality(done) \in Nat /\ Cardinality(cleaned) \in Nat
  BY TakenIsNat DEF TaskIndInv, IndInv, TypeOK
<1>s. /\ accepted = AtMost(submitted) /\ completed = AtMost(Cardinality(done))
      /\ discarded = AtMost(Cardinality(cleaned) + discard_count)
  BY DEF TaskIndInv, StatsMatchHistory
<1>1. ASSUME NEW n \in 1 .. Capacity, Accepts(n)  PROVE StatsMatchHistory'
  <2>1. accepted' = AtMost(submitted + n)
    BY <1>1, <1>t, <1>s, CountAtMost, BoundAssumption DEF Accepts, Enqueue
  <2> QED  BY <1>1, <1>s, <2>1 DEF Accepts, Enqueue, StatsMatchHistory, AtMost
<1>2. ASSUME NEW w \in Workers, Starts(w)  PROVE StatsMatchHistory'
  BY <1>2, <1>s DEF Starts, StatsMatchHistory, AtMost
<1>3. ASSUME NEW w \in Workers, Ends(w)  PROVE StatsMatchHistory'
  <2>1. Cardinality(done') = Cardinality(done) + 1
    BY <1>3, OverGrows DEF Ends
  <2>2. completed' = AtMost(Cardinality(done) + 1)
    BY <1>3, <1>t, <1>s, CountAtMost DEF Ends
  <2> QED  BY <1>3, <1>s, <2>1, <2>2 DEF Ends, StatsMatchHistory, AtMost
<1>4. CASE Drops
  <2>1. cleaned = {} /\ discard_count = 0
    BY <1>4 DEF Drops, TaskIndInv, Phases
  <2>2. Cardinality(cleaned) = 0
    BY <2>1, FS_EmptySet
  <2>3. discarded' = AtMost(Cardinality(cleaned) + discard_count + queue_length)
    BY <1>4, <1>t, <1>s, CountAtMost, BoundAssumption DEF Drops, TakeQueue
  <2>4. discarded' = AtMost(Cardinality(cleaned) + queue_length)
    BY <1>t, <2>1, <2>3
  <2> QED  BY <1>4, <1>s, <2>4 DEF Drops, TakeQueue, StatsMatchHistory, AtMost
<1>5. CASE Cleans
  <2>1. Cardinality(cleaned') = Cardinality(cleaned) + 1
    BY <1>5, OverGrows DEF Cleans
  <2>2. Cardinality(cleaned') + discard_count' = Cardinality(cleaned) + discard_count
    BY <1>5, <1>t, <2>1, BoundAssumption DEF Cleans
  <2> QED  BY <1>5, <1>s, <2>2 DEF Cleans, StatsMatchHistory, AtMost
<1>6. CASE Closes \/ Idles
  BY <1>6, <1>s DEF Closes, Idles, TasksStill, StatsMatchHistory, AtMost
<1> QED  BY <1>1, <1>2, <1>3, <1>4, <1>5, <1>6 DEF TaskMove

-----------------------------------------------------------------------------
(* Where the tasks are *)

\* The destroyer's part of the ring stays in order.
LEMMA DiscardStep ==
    ASSUME TaskIndInv, TaskMove
    PROVE  DiscardInOrder'
<1> USE DEF InRing, Counted, InWorker, Over, discard
<1>t. /\ submitted \in Nat /\ discard_head \in Slots /\ discard_count \in 0 .. Capacity
  BY DEF TaskIndInv, IndInv, TypeOK
<1>d. DiscardInOrder
  BY DEF TaskIndInv
<1>1. ASSUME NEW n \in 1 .. Capacity, Accepts(n)  PROVE DiscardInOrder'
  <2>1. discard_count' = 0
    BY <1>1 DEF Accepts, TaskIndInv, Phases
  <2> QED  BY <2>1 DEF DiscardInOrder
<1>2. ASSUME NEW w \in Workers, Starts(w)  PROVE DiscardInOrder'
  BY <1>2, <1>d DEF Starts, DiscardInOrder
<1>3. ASSUME NEW w \in Workers, Ends(w)  PROVE DiscardInOrder'
  BY <1>3, <1>d DEF Ends, DiscardInOrder
<1>4. CASE Drops
  BY <1>4 DEF Drops, TakeQueue, DiscardInOrder, TaskIndInv, IndInv, QueueInOrder
<1>5. CASE Cleans
  <2> SUFFICES ASSUME NEW k \in 0 .. discard_count - 2
               PROVE  queue[Wrap(Wrap(discard_head + 1) + k)] = submitted - (discard_count - 1) + 1 + k
    BY <1>5, <1>t, BoundAssumption DEF Cleans, DiscardInOrder
  <2>1. Wrap(Wrap(discard_head + 1) + k) = Wrap(discard_head + (k + 1))
    BY <1>t, WrapStep, BoundAssumption
  <2>2. queue[Wrap(discard_head + (k + 1))] = submitted - discard_count + 1 + (k + 1)
    BY <1>t, <1>d, BoundAssumption DEF DiscardInOrder
  <2> QED  BY <1>t, <2>1, <2>2, BoundAssumption
<1>6. CASE Closes \/ Idles
  BY <1>6, <1>d DEF Closes, Idles, TasksStill, DiscardInOrder
<1> QED  BY <1>1, <1>2, <1>3, <1>4, <1>5, <1>6 DEF TaskMove

\* Tasks leave the ring in order, and go on to one place.
LEMMA TakenStep ==
    ASSUME TaskIndInv, TaskMove
    PROVE  TakenTasks'
<1> USE DEF InRing, Counted, InWorker, Over, discard
<1> DEFINE taken == submitted - queue_length - discard_count
<1>t. /\ submitted \in Nat /\ queue_length \in 0 .. Capacity /\ discard_count \in 0 .. Capacity
      /\ n_working \in Nat /\ task \in [Workers -> Nat] /\ taken \in Nat
      /\ Cardinality(done) \in Nat /\ Cardinality(cleaned) \in Nat
  BY TakenIsNat DEF TaskIndInv, IndInv, TypeOK
<1>k. /\ Running \cup done \cup cleaned = 1 .. taken
      /\ n_working + Cardinality(done) + Cardinality(cleaned) = taken
      /\ Running \cap done = {}
      /\ \A v, w \in Runs : task[v] = task[w] => v = w
  BY DEF TaskIndInv, TakenTasks, Runs
<1>r. Running = {task[w] : w \in Runs} /\ Running' = {task'[w] : w \in Runs'} /\ Runs \subseteq Workers
  BY DEF Running, Runs, WorkersAt
<1>g. /\ Running' \cup done' \cup cleaned' = 1 .. taken'
      /\ n_working' + Cardinality(done') + Cardinality(cleaned') = taken'
      /\ Running' \cap done' = {}
      /\ \A v, w \in Runs' : task'[v] = task'[w] => v = w
      => TakenTasks'
  BY DEF TakenTasks, Runs
<1>0. ASSUME UNCHANGED <<InWorker, Over, taken>>  PROVE TakenTasks'
  <2>1. Running' = Running
    BY <1>0, <1>r
  <2> QED  BY <1>0, <1>g, <1>k, <2>1
<1>1. ASSUME NEW n \in 1 .. Capacity, Accepts(n)  PROVE TakenTasks'
  <2>1. UNCHANGED <<InWorker, Over, taken>>
    BY <1>1, <1>t, BoundAssumption DEF Accepts, Enqueue
  <2> QED  BY <1>0, <2>1
<1>2. ASSUME NEW w \in Workers, Starts(w)  PROVE TakenTasks'
  <2>1. queue[queue_head] = taken + 1
    BY <1>2, OldestTask DEF Starts, TaskIndInv, IndInv
  <2>2. task'[w] = taken + 1 /\ \A v \in Runs : task'[v] = task[v]
    BY <1>2, <1>t, <1>r, <2>1 DEF Starts
  <2>3. Running' = Running \cup {taken + 1}
    BY <1>2, <1>r, <2>2 DEF Starts
  <2>4. taken' = taken + 1
    BY <1>2, <1>t, BoundAssumption DEF Starts
  <2>5. taken + 1 \notin Running /\ taken + 1 \notin done
    BY <1>t, <1>k
  <2>6. Running' \cup done' \cup cleaned' = 1 .. taken'
    <3>1. done' = done /\ cleaned' = cleaned /\ 1 .. taken + 1 = 1 .. taken \cup {taken + 1}
      BY <1>2, <1>t DEF Starts
    <3> QED  BY <1>k, <2>3, <2>4, <3>1
  <2>7. n_working' + Cardinality(done') + Cardinality(cleaned') = taken'
    BY <1>2, <1>t, <1>k, <2>4 DEF Starts
  <2>8. Running' \cap done' = {}
    BY <1>2, <1>k, <2>3, <2>5 DEF Starts
  <2>9. \A v, x \in Runs' : task'[v] = task'[x] => v = x
    <3>1. \A v \in Runs : task[v] \in Running
      BY <1>r
    <3> QED  BY <1>2, <1>k, <2>2, <2>5, <3>1 DEF Starts
  <2> QED  BY <1>g, <2>6, <2>7, <2>8, <2>9
<1>3. ASSUME NEW w \in Workers, Ends(w)  PROVE TakenTasks'
  <2>1. w \in Runs /\ task[w] \in Running
    BY <1>3, <1>r DEF Ends
  <2>2. \A v \in Runs' : v \in Runs /\ v # w /\ task'[v] = task[v]
    BY <1>3, <1>t, <1>r DEF Ends
  <2>3. Running' = Running \ {task[w]}
    BY <1>3, <1>k, <1>r, <2>1, <2>2 DEF Ends
  <2>4. taken' = taken /\ done' = done \cup {task[w]} /\ cleaned' = cleaned
    BY <1>3 DEF Ends
  <2>5. Running' \cup done' \cup cleaned' = 1 .. taken'
    BY <1>k, <2>1, <2>3, <2>4
  <2>6. n_working' + Cardinality(done') + Cardinality(cleaned') = taken'
    <3>1. Cardinality(done') = Cardinality(done) + 1
      BY <2>1, <2>4, OverGrows
    <3> QED  BY <1>3, <1>t, <1>k, <2>4, <3>1 DEF Ends
  <2>7. Running' \cap done' = {}
    BY <1>k, <2>3, <2>4
  <2>8. \A v, x \in Runs' : task'[v] = task'[x] => v = x
    BY <1>k, <2>2
  <2> QED  BY <1>g, <2>5, <2>6, <2>7, <2>8
<1>4. CASE Drops
  <2>1. discard_count = 0
    BY <1>4 DEF Drops, TaskIndInv, Phases
  <2>2. UNCHANGED <<InWorker, Over, taken>>
    BY <1>4, <1>t, <2>1, BoundAssumption DEF Drops, TakeQueue
  <2> QED  BY <1>0, <2>2
<1>5. CASE Cleans
  <2>1. queue[discard_head] = taken + 1
    BY <1>5, OldestTask DEF Cleans, TaskIndInv, IndInv
  <2>2. Running' = Running
    BY <1>5, <1>r DEF Cleans
  <2>3. taken' = taken + 1 /\ done' = done /\ cleaned' = cleaned \cup {taken + 1}
    BY <1>5, <1>t, <2>1, BoundAssumption DEF Cleans
  <2>4. Running' \cup done' \cup cleaned' = 1 .. taken'
    <3>1. 1 .. taken + 1 = 1 .. taken \cup {taken + 1}
      BY <1>t
    <3> QED  BY <1>k, <2>2, <2>3, <3>1
  <2>5. n_working' + Cardinality(done') + Cardinality(cleaned') = taken'
    <3>1. Cardinality(cleaned') = Cardinality(cleaned) + 1
      BY <1>5, OverGrows DEF Cleans
    <3> QED  BY <1>5, <1>t, <1>k, <2>3, <3>1 DEF Cleans
  <2>6. /\ Running' \cap done' = {}
        /\ \A v, x \in Runs' : task'[v] = task'[x] => v = x
    BY <1>5, <1>k, <2>2 DEF Cleans
  <2> QED  BY <1>g, <2>4, <2>5, <2>6
<1>6. CASE Closes \/ Idles
  <2>1. UNCHANGED <<InWorker, Over, taken>>
    BY <1>6 DEF Closes, Idles, TasksStill
  <2> QED  BY <1>0, <2>1
<1> QED  BY <1>1, <1>2, <1>3, <1>4, <1>5, <1>6 DEF TaskMove

-----------------------------------------------------------------------------
(* The end of the pool *)

\* After shutdown the ring and the destroyer's part of it only get shorter.
LEMMA EmptyForGood ==
    ASSUME TaskIndInv, TaskMove, shutdown
    PROVE  /\ queue_length = 0 => queue_length' = 0
           /\ discard_count = 0 => discard_count' = 0
<1> USE DEF InRing, Counted, InWorker, Over, discard
<1>t. queue_length \in 0 .. Capacity /\ discard_count \in 0 .. Capacity
  BY DEF TaskIndInv, IndInv, TypeOK
<1>1. ASSUME NEW w \in Workers, Starts(w)
      PROVE  queue_length # 0 /\ discard_count' = discard_count
  BY <1>1, <1>t, BoundAssumption DEF Starts
<1>2. ASSUME NEW w \in Workers, Ends(w)  PROVE UNCHANGED <<queue_length, discard_count>>
  BY <1>2 DEF Ends
<1>3. CASE Cleans
  BY <1>3, <1>t, BoundAssumption DEF Cleans
<1>4. CASE Closes \/ Idles
  BY <1>4 DEF Closes, Idles, TasksStill
<1>5. ~Drops /\ ~\E n \in 1 .. Capacity : Accepts(n)
  BY DEF Drops, Accepts
<1> QED  BY <1>1, <1>2, <1>3, <1>4, <1>5 DEF TaskMove

\* What the moves of the tasks leave true of an open pool, and of the two windows.
LEMMA WindowsStep ==
    ASSUME TaskIndInv, TaskMove
    PROVE  /\ ~shutdown' => discard_count' = 0 /\ cleaned' = {}
           /\ discard_count' > 0 => queue_length' = 0
<1> USE DEF InRing, Counted, InWorker, Over, discard
<1>t. /\ queue_length \in 0 .. Capacity /\ discard_count \in 0 .. Capacity
      /\ shutdown \in BOOLEAN
  BY DEF TaskIndInv, IndInv, TypeOK
<1>p. /\ ~shutdown => discard_count = 0 /\ cleaned = {}
      /\ discard_count > 0 => queue_length = 0
  BY DEF TaskIndInv, Phases
<1>1. ASSUME NEW n \in 1 .. Capacity, Accepts(n)
      PROVE  discard_count' = 0 /\ cleaned' = {}
  BY <1>1, <1>p DEF Accepts
<1>2. ASSUME NEW w \in Workers, Starts(w)
      PROVE  discard_count' = 0 /\ (~shutdown' => cleaned' = {})
  BY <1>2, <1>t, <1>p, BoundAssumption DEF Starts
<1>3. ASSUME NEW w \in Workers, Ends(w)
      PROVE  UNCHANGED <<queue_length, discard_count, cleaned, shutdown>>
  BY <1>3 DEF Ends
<1>4. CASE Drops
  BY <1>4 DEF Drops, TakeQueue
<1>5. CASE Cleans
  BY <1>5, <1>t, <1>p, BoundAssumption DEF Cleans
<1>6. CASE Closes \/ Idles
  BY <1>6, <1>p DEF Closes, Idles, TasksStill
<1> QED  BY <1>p, <1>1, <1>2, <1>3, <1>4, <1>5, <1>6, BoundAssumption DEF TaskMove

\* When destroy has joined the workers, its caller is the only client in a call.
LEMMA JoinedStep ==
    ASSUME TaskIndInv, NEW d \in Clients, DestroyJoins(d)
    PROVE  /\ discard_count' = 0
           /\ \A w \in Workers : wpc'[w] = "exited"
           /\ \A c \in Clients : cpc'[c] \in {"out", "release"}
<1> USE DEF worker, discard
<1>t. cpc \in [Clients -> ClientStates]
  BY DEF TaskIndInv, IndInv, TypeOK
<1>h. Handles
  BY DEF TaskIndInv, IndInv
<1>1. cpc[d] = "join" /\ cpc' = [cpc EXCEPT ![d] = "release"]
  BY DEF DestroyJoins
<1>2. \A w \in Workers : wpc'[w] = "exited"
  BY DEF DestroyJoins
<1>3. discard_count' = 0 /\ api_users = 0
  BY <1>1 DEF DestroyJoins, TaskIndInv, Phases
<1>4. Inside = {}
  <2>1. IsFiniteSet(Inside) /\ Cardinality(Inside) = 0
    BY <1>3, StatesFinite DEF TaskIndInv, IndInv, CountersMatchThreads
  <2> QED  BY <2>1, FS_EmptySet
<1>5. ASSUME NEW c \in Clients, c # d  PROVE cpc[c] = "out"
  <2>1. cpc[c] \notin {"submit", "wait"}
    BY <1>4 DEF Inside
  <2>2. cpc[c] \notin Destroying
    BY <1>1, <1>5, <1>h DEF Handles, Destroying
  <2>3. cpc[c] \notin {"create", "unwind"}
    BY <1>1, <1>5, <1>h DEF Handles, Published
  <2> QED  BY <1>t, <2>1, <2>2, <2>3 DEF ClientStates, Destroying
<1> QED  BY <1>t, <1>1, <1>2, <1>3, <1>5

\* When the pool is freed no thread is in it.
LEMMA FreedStep ==
    ASSUME TaskIndInv, CreateUnwinds \/ DropsLast
    PROVE  /\ \A w \in Workers : wpc'[w] \in {"none", "exited"}
           /\ \A c \in Clients : cpc'[c] = "out"
<1> USE DEF worker, discard
<1>t. /\ cpc \in [Clients -> ClientStates] /\ holders \subseteq Clients
      /\ freed \in BOOLEAN /\ destroyed \in BOOLEAN
  BY DEF TaskIndInv, IndInv, TypeOK
<1>h. Handles
  BY DEF TaskIndInv, IndInv
<1>1. CASE CreateUnwinds
  BY <1>1, <1>t, <1>h, ThreadAssumption DEF CreateUnwinds, Handles, Published
<1>2. ASSUME NEW d \in holders, DropReference(d), cpc[d] \in {"out", "release"}, freed'
      PROVE  /\ \A w \in Workers : wpc'[w] \in {"none", "exited"}
             /\ \A c \in Clients : cpc'[c] = "out"
  <2>1. references = 1 /\ destroyed /\ wpc' = wpc /\ cpc' = [cpc EXCEPT ![d] = "out"]
    BY <1>2, <1>t DEF DropReference
  <2>2. /\ \A w \in Workers : wpc[w] = "exited"
        /\ \A c \in Clients : cpc[c] \in {"out", "release"}
    BY <2>1 DEF TaskIndInv, Phases
  <2>3. ASSUME NEW c \in Clients, cpc[c] = "release"  PROVE c = d
    <3>1. c \in holders /\ ~freed
      BY <1>h, <2>3 DEF Handles, Destroying
    <3>2. Cardinality(holders) = 1 /\ IsFiniteSet(holders)
      BY <1>t, <2>1, <3>1, FS_Subset, ThreadAssumption
         DEF TaskIndInv, IndInv, CountersMatchThreads
    <3> QED  BY <1>2, <3>1, <3>2, FS_Singleton
  <2> QED  BY <1>t, <2>1, <2>2, <2>3
<1> QED  BY <1>1, <1>2 DEF DropsLast

\* The end of the pool goes through its phases.
LEMMA PhasesStep ==
    ASSUME TaskIndInv, TaskMove, ThreadMove, TypeOK'
    PROVE  Phases'
<1>t. /\ shutdown \in BOOLEAN /\ destroyed \in BOOLEAN /\ freed \in BOOLEAN
      /\ api_users \in Nat /\ api_users' \in Nat
      /\ cpc \in [Clients -> ClientStates] /\ cpc' \in [Clients -> ClientStates]
  BY BoundAssumption DEF TaskIndInv, IndInv, TypeOK
<1>h. Handles
  BY DEF TaskIndInv, IndInv
<1>p. Phases
  BY DEF TaskIndInv
<1>1. ~Published' => submitted' = 0
  BY <1>p DEF Phases, ThreadMove
<1>2. /\ ~shutdown' => discard_count' = 0 /\ cleaned' = {}
      /\ discard_count' > 0 => queue_length' = 0
  BY WindowsStep
<1>3. ASSUME NEW c \in Clients
      PROVE  /\ cpc'[c] \in AtEnd => discard_count' = 0
             /\ cpc'[c] \in {"join", "release"} => api_users' = 0
  <2>1. cpc'[c] \in AtEnd => shutdown /\ discard_count = 0
    BY <1>p DEF Phases, ThreadMove, AtEnd
  <2>2. cpc'[c] \in {"join", "release"} => shutdown /\ api_users = 0
    BY <1>p DEF Phases, ThreadMove, AtEnd
  <2>3. cpc'[c] \in AtEnd => discard_count' = 0
    BY <2>1, EmptyForGood
  <2>4. shutdown => api_users' <= api_users
    BY DEF ThreadMove
  <2> QED  BY <1>t, <2>2, <2>3, <2>4
<1>4. ASSUME NEW w \in Workers, wpc'[w] = "exited"
      PROVE  shutdown' /\ queue_length' = 0
  <2>1. shutdown /\ queue_length = 0
    BY <1>4, <1>p DEF Phases, ThreadMove
  <2> QED  BY <2>1, EmptyForGood DEF ThreadMove
<1>5. ASSUME destroyed'
      PROVE  /\ discard_count' = 0
             /\ \A w \in Workers : wpc'[w] = "exited"
             /\ \A c \in Clients : cpc'[c] \in {"out", "release"}
  <2>1. CASE destroyed
    <3>1. /\ shutdown /\ discard_count = 0 /\ \A w \in Workers : wpc[w] = "exited"
          /\ \A c \in Clients : cpc[c] \in {"out", "release"}
      BY <2>1, <1>h, <1>p DEF Handles, Phases
    <3>2. discard_count' = 0
      BY <3>1, EmptyForGood
    <3> QED  BY <3>1, <3>2 DEF ThreadMove
  <2>2. CASE \E d \in Clients : DestroyJoins(d)
    BY <2>2, JoinedStep
  <2> QED  BY <1>5, <2>1, <2>2 DEF ThreadMove, LifeMove
<1>6. ASSUME freed'
      PROVE  /\ \A w \in Workers : wpc'[w] \in {"none", "exited"}
             /\ \A c \in Clients : cpc'[c] = "out"
  <2>1. CASE freed
    <3>1. /\ shutdown /\ \A w \in Workers : wpc[w] \in {"none", "exited"}
          /\ \A c \in Clients : cpc[c] = "out"
      BY <2>1, <1>h, <1>p DEF Handles, Phases
    <3>2. cpc[Owner] = "out"
      BY <3>1, ThreadAssumption
    <3> QED  BY <3>1, <3>2 DEF ThreadMove
  <2>2. CASE CreateUnwinds \/ DropsLast
    BY <2>2, FreedStep
  <2> QED  BY <1>6, <2>1, <2>2 DEF ThreadMove, LifeMove
<1> QED  BY <1>1, <1>2, <1>3, <1>4, <1>5, <1>6 DEF Phases, AtEnd

-----------------------------------------------------------------------------
(* The invariant *)

LEMMA InitTaskIndInv == Init => TaskIndInv
<1> SUFFICES ASSUME Init  PROVE TaskIndInv
  OBVIOUS
<1>1. IndInv
  BY InitIndInv
<1>2. WorkersAt("run") = {} /\ Running = {}
  BY DEF Init, WorkersAt, Running
<1>3. Cardinality(done) = 0 /\ Cardinality(cleaned) = 0
  BY FS_EmptySet DEF Init
<1>4. DiscardInOrder
  BY DEF Init, DiscardInOrder
<1>5. TakenTasks
  BY <1>2, <1>3 DEF Init, TakenTasks
<1>6. Phases
  BY ThreadAssumption DEF Init, Phases, Published
<1>7. StatsMatchHistory
  BY <1>3, BoundAssumption DEF Init, StatsMatchHistory, AtMost
<1> QED  BY <1>1, <1>4, <1>5, <1>6, <1>7 DEF TaskIndInv

LEMMA NextTaskIndInv == TaskIndInv /\ [Next]_vars => TaskIndInv'
<1> SUFFICES ASSUME TaskIndInv, [Next]_vars  PROVE TaskIndInv'
  OBVIOUS
<1>1. IndInv /\ IndInv'
  BY NextIndInv DEF TaskIndInv
<1>2. TaskMove /\ ThreadMove
  BY <1>1, TaskMoves, ThreadMoves
<1>3. DiscardInOrder' /\ TakenTasks' /\ StatsMatchHistory'
  BY <1>2, DiscardStep, TakenStep, StatisticsStep
<1>4. Phases'
  <2>1. TypeOK'
    BY <1>1 DEF IndInv
  <2> QED  BY <1>2, <2>1, PhasesStep
<1> QED  BY <1>1, <1>3, <1>4 DEF TaskIndInv

\* The second inductive invariant holds in every reachable state.
THEOREM TaskInvariance == Spec => []TaskIndInv
BY InitTaskIndInv, NextTaskIndInv, PTL DEF Spec

-----------------------------------------------------------------------------
(* What follows *)

\* The ring and the destroyer's part of it hold the newest tasks.
LEMMA WindowsHoldNewest ==
    ASSUME TaskIndInv
    PROVE  /\ Queued = submitted - queue_length + 1 .. submitted
           /\ Discarding = submitted - discard_count + 1 .. submitted
           /\ submitted - queue_length - discard_count \in Nat
<1>t. /\ submitted \in Nat /\ queue_length \in Nat /\ discard_count \in Nat
  BY BoundAssumption DEF TaskIndInv, IndInv, TypeOK
<1>1. Queued = submitted - queue_length + 1 .. submitted
  <2>1. \A k \in 0 .. queue_length - 1 :
            queue[Wrap(queue_head + k)] = submitted - queue_length + 1 + k
    BY DEF TaskIndInv, IndInv, QueueInOrder
  <2>2. Queued = {submitted - queue_length + 1 + k : k \in 0 .. queue_length - 1}
    BY <2>1 DEF Queued
  <2>3. ASSUME NEW t \in submitted - queue_length + 1 .. submitted
        PROVE  \E k \in 0 .. queue_length - 1 : t = submitted - queue_length + 1 + k
    <3>1. t - (submitted - queue_length + 1) \in 0 .. queue_length - 1
      BY <1>t
    <3> QED  BY <1>t, <3>1
  <2>4. \A k \in 0 .. queue_length - 1 :
            submitted - queue_length + 1 + k \in submitted - queue_length + 1 .. submitted
    BY <1>t
  <2> QED  BY <2>2, <2>3, <2>4
<1>2. Discarding = submitted - discard_count + 1 .. submitted
  <2>1. \A k \in 0 .. discard_count - 1 :
            queue[Wrap(discard_head + k)] = submitted - discard_count + 1 + k
    BY DEF TaskIndInv, DiscardInOrder
  <2>2. Discarding = {submitted - discard_count + 1 + k : k \in 0 .. discard_count - 1}
    BY <2>1 DEF Discarding
  <2>3. ASSUME NEW t \in submitted - discard_count + 1 .. submitted
        PROVE  \E k \in 0 .. discard_count - 1 : t = submitted - discard_count + 1 + k
    <3>1. t - (submitted - discard_count + 1) \in 0 .. discard_count - 1
      BY <1>t
    <3> QED  BY <1>t, <3>1
  <2>4. \A k \in 0 .. discard_count - 1 :
            submitted - discard_count + 1 + k \in submitted - discard_count + 1 .. submitted
    BY <1>t
  <2> QED  BY <2>2, <2>3, <2>4
<1> QED  BY <1>1, <1>2, TakenIsNat DEF TaskIndInv, IndInv

\* No accepted task is lost, run twice, or both run and discarded: it is queued,
\* run by one worker, finished, about to be discarded, or cleaned up.
THEOREM TasksKept == Spec => []TasksAccountedFor
<1>1. TaskIndInv => TasksAccountedFor
  <2> SUFFICES ASSUME TaskIndInv  PROVE TasksAccountedFor
    OBVIOUS
  <2>1. /\ submitted \in Nat /\ queue_length \in Nat /\ discard_count \in Nat /\ n_working \in Nat
        /\ Cardinality(done) \in Nat /\ Cardinality(cleaned) \in Nat
    BY TakenIsNat, BoundAssumption DEF TaskIndInv, IndInv, TypeOK
  <2>2. /\ Queued = submitted - queue_length + 1 .. submitted
        /\ Discarding = submitted - discard_count + 1 .. submitted
        /\ submitted - queue_length - discard_count \in Nat
    BY WindowsHoldNewest
  <2>3. /\ Running \cup done \cup cleaned = 1 .. submitted - queue_length - discard_count
        /\ n_working + Cardinality(done) + Cardinality(cleaned)
             = submitted - queue_length - discard_count
    BY DEF TaskIndInv, TakenTasks
  <2>4. queue_length = 0 \/ discard_count = 0
    BY <2>1 DEF TaskIndInv, Phases
  <2>5. Queued \cup Discarding = submitted - queue_length - discard_count + 1 .. submitted
    BY <2>1, <2>2, <2>4
  <2>6. Queued \cup Discarding \cup (Running \cup done \cup cleaned) = 1 .. submitted
    BY <2>1, <2>2, <2>3, <2>5
  <2> QED  BY <2>1, <2>3, <2>6 DEF TasksAccountedFor
<1> QED  BY <1>1, TaskInvariance, PTL

\* What threadpool_stats copies is the history of the pool, cut off at UINT64_MAX.
THEOREM StatisticsExact == Spec => []StatsMatchHistory
<1>1. TaskIndInv => StatsMatchHistory
  BY DEF TaskIndInv
<1> QED  BY <1>1, TaskInvariance, PTL

\* Memory is given back when no thread can use it, and every task has had its end.
THEOREM ReclaimedSafely == Spec => []ReclaimedOnlyWhenUnused
<1>1. TaskIndInv => ReclaimedOnlyWhenUnused
  <2> SUFFICES ASSUME TaskIndInv  PROVE ReclaimedOnlyWhenUnused
    OBVIOUS
  <2>1. ASSUME destroyed
        PROVE  /\ \A w \in Workers : wpc[w] = "exited"
               /\ \A c \in Clients : cpc[c] \in {"out", "release"}
               /\ done \cup cleaned = 1 .. submitted
    <3>1. /\ \A w \in Workers : wpc[w] = "exited"
          /\ \A c \in Clients : cpc[c] \in {"out", "release"}
          /\ discard_count = 0
      BY <2>1 DEF TaskIndInv, Phases
    <3>2. queue_length = 0
      BY <3>1, ThreadAssumption DEF TaskIndInv, Phases
    <3>3. Running = {}
      BY <3>1 DEF Running, WorkersAt
    <3>4. submitted \in Nat /\ Running \cup done \cup cleaned = 1 .. submitted - 0 - 0
      BY <3>1, <3>2 DEF TaskIndInv, IndInv, TypeOK, TakenTasks
    <3> QED  BY <3>1, <3>3, <3>4
  <2>2. ASSUME freed
        PROVE  /\ \A w \in Workers : wpc[w] \in {"none", "exited"}
               /\ \A c \in Clients : cpc[c] = "out"
               /\ holders = {} /\ lock = NoThread
    <3>1. /\ \A w \in Workers : wpc[w] \in {"none", "exited"}
          /\ \A c \in Clients : cpc[c] = "out"
      BY <2>2 DEF TaskIndInv, Phases
    <3>2. holders = {}
      BY <2>2 DEF TaskIndInv, IndInv, Handles
    <3>3. lock = NoThread
      BY <3>1 DEF TaskIndInv, IndInv, TypeOK, Parked
    <3> QED  BY <3>1, <3>2, <3>3
  <2> QED  BY <2>1, <2>2 DEF ReclaimedOnlyWhenUnused
<1> QED  BY <1>1, TaskInvariance, PTL

\* A pool that has nothing queued, nothing running and no call of add in
\* progress has finished all it ever accepted, unless it was told to stop.
LEMMA QuiescentIsDone ==
    ASSUME TaskIndInv, ~shutdown, ~KeepsWaiting
    PROVE  done = 1 .. submitted /\ ClientsAt("submit") = {}
<1>1. queue_length = 0 /\ n_working = 0 /\ pending_submissions = 0
  BY DEF KeepsWaiting, Quiescent
<1>2. discard_count = 0 /\ cleaned = {}
  BY DEF TaskIndInv, Phases
<1>3. IsFiniteSet(WorkersAt("run")) /\ IsFiniteSet(ClientsAt("submit"))
  BY StatesFinite
<1>4. Cardinality(WorkersAt("run")) = 0 /\ Cardinality(ClientsAt("submit")) = 0
  BY <1>1 DEF TaskIndInv, IndInv, CountersMatchThreads
<1>5. WorkersAt("run") = {} /\ ClientsAt("submit") = {}
  BY <1>3, <1>4, FS_EmptySet
<1>6. Running = {}
  BY <1>5 DEF Running
<1>7. submitted \in Nat /\ Running \cup done \cup cleaned = 1 .. submitted - 0 - 0
  BY <1>1, <1>2 DEF TaskIndInv, IndInv, TypeOK, TakenTasks
<1> QED  BY <1>2, <1>5, <1>6, <1>7

\* threadpool_wait returns 0 when all is done that was accepted until then.
THEOREM WaitReturnsWhenDone == Spec => WaitSeesQuiescence
<1>1. TaskIndInv /\ [Next]_vars =>
        [\A c \in Clients : cpc[c] = "wait" /\ cpc'[c] = "out" /\ ~shutdown =>
             done = 1 .. submitted /\ ClientsAt("submit") = {}]_vars
  BY ThreadMoves, QuiescentIsDone DEF ThreadMove
<1> QED  BY <1>1, TaskInvariance, PTL DEF Spec, WaitSeesQuiescence

-----------------------------------------------------------------------------
(* ThreadPool implements TaskPool *)

\* The last n of m tasks, oldest first.
Newest(m, n) == [k \in 1 .. n |-> m - n + k]

LEMMA NewestIsSeq ==
    ASSUME NEW m \in Nat, NEW n \in Nat
    PROVE  /\ Newest(m, n) \in Seq(Int) /\ Len(Newest(m, n)) = n
           /\ \A k \in 1 .. n : Newest(m, n)[k] = m - n + k
BY DEF Newest

\* Newer tasks go to the end ...
LEMMA NewestGrows ==
    ASSUME NEW m \in Nat, NEW l \in Nat, NEW n \in Nat
    PROVE  Newest(m, l) \o [i \in 1 .. n |-> m + i] = Newest(m + n, l + n)
<1> DEFINE old == Newest(m, l)
<1> DEFINE new == [i \in 1 .. n |-> m + i]
<1> DEFINE all == Newest(m + n, l + n)
<1>1. /\ old \in Seq(Int) /\ Len(old) = l /\ \A k \in 1 .. l : old[k] = m - l + k
      /\ all \in Seq(Int) /\ Len(all) = l + n /\ \A k \in 1 .. l + n : all[k] = m - l + k
  <2>1. m + n \in Nat /\ l + n \in Nat /\ (m + n) - (l + n) = m - l
    OBVIOUS
  <2>2. /\ old \in Seq(Int) /\ Len(old) = l /\ \A k \in 1 .. l : old[k] = m - l + k
    BY NewestIsSeq
  <2>3. /\ all \in Seq(Int) /\ Len(all) = l + n
        /\ \A k \in 1 .. l + n : all[k] = (m + n) - (l + n) + k
    BY <2>1, NewestIsSeq
  <2> HIDE DEF all
  <2>4. \A k \in 1 .. l + n : (m + n) - (l + n) + k = m - l + k
    OBVIOUS
  <2> QED  BY <2>2, <2>3, <2>4
<1>2. new \in Seq(Int) /\ Len(new) = n /\ \A k \in 1 .. n : new[k] = m + k
  OBVIOUS
<1> HIDE DEF old, new, all
<1>3. /\ old \o new \in Seq(Int) /\ Len(old \o new) = l + n
      /\ \A k \in 1 .. l + n : (old \o new)[k] = IF k <= l THEN old[k] ELSE new[k - l]
  BY <1>1, <1>2, ConcatProperties
<1>4. \A k \in 1 .. l + n : (old \o new)[k] = all[k]
  <2> SUFFICES ASSUME NEW k \in 1 .. l + n  PROVE (old \o new)[k] = all[k]
    OBVIOUS
  <2>1. CASE k <= l
    BY <1>1, <1>3, <2>1
  <2>2. CASE k > l
    <3>1. PICK j \in 1 .. n : j = k - l
      BY <2>2
    <3>2. new[j] = m + j
      BY <1>2
    <3>3. (old \o new)[k] = (IF k <= l THEN old[k] ELSE new[k - l]) /\ ~(k <= l)
      BY <1>3, <2>2
    <3>4. (old \o new)[k] = new[j]
      BY <3>1, <3>3
    <3>5. all[k] = m - l + k
      BY <1>1
    <3>6. m + j = m - l + k
      BY <3>1
    <3> QED  BY <3>2, <3>4, <3>5, <3>6
  <2>3. k <= l \/ k > l
    OBVIOUS
  <2> QED  BY <2>1, <2>2, <2>3
<1>5. old \o new = all
  BY <1>1, <1>3, <1>4, SeqEqual
<1> QED  BY <1>5 DEF old, new, all

\* ... and the oldest one is at the head.
LEMMA NewestShrinks ==
    ASSUME NEW m \in Nat, NEW l \in Nat \ {0}
    PROVE  /\ Newest(m, l) # <<>> /\ Head(Newest(m, l)) = m - l + 1
           /\ Tail(Newest(m, l)) = Newest(m, l - 1)
<1> DEFINE all == Newest(m, l)
<1> DEFINE fewer == Newest(m, l - 1)
<1>1. /\ all \in Seq(Int) /\ Len(all) = l /\ \A k \in 1 .. l : all[k] = m - l + k
      /\ fewer \in Seq(Int) /\ Len(fewer) = l - 1 /\ \A k \in 1 .. l - 1 : fewer[k] = m - (l - 1) + k
  <2>1. l - 1 \in Nat
    OBVIOUS
  <2>2. /\ all \in Seq(Int) /\ Len(all) = l /\ \A k \in 1 .. l : all[k] = m - l + k
    BY NewestIsSeq
  <2>3. fewer \in Seq(Int) /\ Len(fewer) = l - 1 /\ \A k \in 1 .. l - 1 : fewer[k] = m - (l - 1) + k
    BY <2>1, NewestIsSeq
  <2> QED  BY <2>2, <2>3
<1> HIDE DEF all, fewer
<1>2. all # <<>> /\ Head(all) = m - l + 1
  BY <1>1, EmptySeq
<1>3. /\ Tail(all) \in Seq(Int) /\ Len(Tail(all)) = l - 1
      /\ \A k \in 1 .. l - 1 : Tail(all)[k] = all[k + 1]
  BY <1>1, <1>2, HeadTailProperties
<1>4. \A k \in 1 .. l - 1 : Tail(all)[k] = fewer[k]
  BY <1>1, <1>3
<1>5. Tail(all) = fewer
  BY <1>1, <1>3, <1>4, SeqEqual
<1> QED  BY <1>2, <1>5 DEF all, fewer

LEMMA NewestOfNone == \A m : Newest(m, 0) = <<>>
BY DEF Newest

\* What TaskPool sees of the two windows.
Pending == Window(queue_head, queue_length)
Dropped == Window(discard_head, discard_count)
Seen == Pending = Newest(submitted, queue_length) /\ Dropped = Newest(submitted, discard_count)

LEMMA WindowsSeen == TaskIndInv => Seen
<1> SUFFICES ASSUME TaskIndInv  PROVE Seen
  OBVIOUS
<1>t. queue_length \in Nat /\ discard_count \in Nat /\ submitted \in Nat
      /\ queue_head \in Slots /\ discard_head \in Slots
  BY BoundAssumption DEF TaskIndInv, IndInv, TypeOK
<1>1. ASSUME NEW k \in 1 .. queue_length
      PROVE  queue[Wrap(queue_head + k - 1)] = submitted - queue_length + k
  <2>1. k - 1 \in 0 .. queue_length - 1 /\ queue_head + k - 1 = queue_head + (k - 1)
    BY <1>t, BoundAssumption DEF Slots
  <2>2. queue[Wrap(queue_head + (k - 1))] = submitted - queue_length + 1 + (k - 1)
    BY <2>1 DEF TaskIndInv, IndInv, QueueInOrder
  <2> QED  BY <1>t, <2>1, <2>2
<1>2. ASSUME NEW k \in 1 .. discard_count
      PROVE  queue[Wrap(discard_head + k - 1)] = submitted - discard_count + k
  <2>1. k - 1 \in 0 .. discard_count - 1 /\ discard_head + k - 1 = discard_head + (k - 1)
    BY <1>t, BoundAssumption DEF Slots
  <2>2. queue[Wrap(discard_head + (k - 1))] = submitted - discard_count + 1 + (k - 1)
    BY <2>1 DEF TaskIndInv, DiscardInOrder
  <2> QED  BY <1>t, <2>1, <2>2
<1> QED  BY <1>1, <1>2 DEF Seen, Pending, Dropped, Window, Newest

\* A worker that is to start a task leaves less than all of them busy.
LEMMA RoomToRun ==
    ASSUME NEW w \in Workers, w \notin Runs
    PROVE  Cardinality(Running) < Cardinality(Workers)
<1>1. Runs \in SUBSET Workers /\ Runs # Workers /\ IsFiniteSet(Workers)
  BY ThreadAssumption DEF Runs, WorkersAt
<1>2. /\ IsFiniteSet(Runs) /\ Cardinality(Runs) <= Cardinality(Workers)
      /\ Cardinality(Runs) # Cardinality(Workers)
  BY <1>1, FS_Subset
<1>3. Running = {task[v] : v \in Runs}
  BY DEF Running, Runs
<1>4. Cardinality(Running) <= Cardinality(Runs)
  <2> DEFINE f == [v \in Runs |-> task[v]]
  <2>1. f \in Surjection(Runs, Running)
    BY <1>3 DEF Surjection
  <2> QED  BY <1>2, <2>1, FS_Surjection
<1>5. Cardinality(Running) \in Nat /\ Cardinality(Runs) \in Nat /\ Cardinality(Workers) \in Nat
  <2>1. IsFiniteSet(Running)
    <3> DEFINE f == [v \in Runs |-> task[v]]
    <3>1. f \in Surjection(Runs, Running)
      BY <1>3 DEF Surjection
    <3> QED  BY <1>2, <3>1, FS_Surjection
  <2> QED  BY <1>1, <1>2, <2>1, FS_CardinalityType
<1> QED  BY <1>2, <1>4, <1>5

\* The workers are gone, and the queue was empty when they left.
LEMMA EndingIsSettled ==
    ASSUME TaskIndInv, Ending
    PROVE  /\ shutdown /\ queue_length = 0 /\ discard_count = 0 /\ Running = {}
           /\ (destroyed \/ freed)'
<1>h. Handles
  BY DEF TaskIndInv, IndInv
<1>p. Phases
  BY DEF TaskIndInv
<1>1. ASSUME NEW d \in Clients, DestroyJoins(d)
      PROVE  /\ shutdown /\ queue_length = 0 /\ discard_count = 0 /\ Running = {}
             /\ (destroyed \/ freed)'
  <2>1. cpc[d] = "join" /\ (\A w \in Workers : wpc[w] = "exited") /\ destroyed'
    BY <1>1 DEF DestroyJoins
  <2>2. shutdown /\ discard_count = 0
    BY <2>1, <1>h, <1>p DEF Handles, Destroying, Phases
  <2>3. queue_length = 0
    BY <2>1, <1>p, ThreadAssumption DEF Phases
  <2>4. Running = {}
    BY <2>1 DEF Running, WorkersAt
  <2> QED  BY <2>1, <2>2, <2>3, <2>4
<1>2. ASSUME CreateUnwinds
      PROVE  /\ shutdown /\ queue_length = 0 /\ discard_count = 0 /\ Running = {}
             /\ (destroyed \/ freed)'
  <2>1. /\ cpc[Owner] = "unwind" /\ \A w \in Workers : wpc[w] \in {"none", "exited"}
        /\ freed'
    BY <1>2 DEF CreateUnwinds
  <2>2. shutdown /\ submitted = 0
    BY <2>1, <1>h, <1>p DEF Handles, Phases, Published
  <2>3. /\ submitted - queue_length - discard_count \in Nat
        /\ queue_length \in Nat /\ discard_count \in Nat
    BY TakenIsNat, BoundAssumption DEF TaskIndInv, IndInv, TypeOK
  <2>4. Running = {}
    BY <2>1 DEF Running, WorkersAt
  <2> QED  BY <2>1, <2>2, <2>3, <2>4
<1> QED  BY <1>1, <1>2 DEF Ending

\* A step of the pool is a step of TaskPool, or nothing TaskPool sees.
LEMMA StepImplements ==
    ASSUME TaskIndInv, TaskMove, Seen, Seen'
    PROVE  [Abstract!Next]_(Abstract!poolVars)
<1> USE DEF InRing, Counted, InWorker, Over, discard, Gone
<1> DEFINE goal == [Abstract!Next]_(Abstract!poolVars)
<1>t. /\ queue_length \in 0 .. Capacity /\ discard_count \in 0 .. Capacity /\ submitted \in Nat
      /\ task \in [Workers -> Nat] /\ shutdown \in BOOLEAN
      /\ destroyed \in BOOLEAN /\ freed \in BOOLEAN
  BY DEF TaskIndInv, IndInv, TypeOK
<1>s. /\ Pending = Newest(submitted, queue_length) /\ Dropped = Newest(submitted, discard_count)
      /\ Pending' = Newest(submitted', queue_length') /\ Dropped' = Newest(submitted', discard_count')
  BY DEF Seen
<1>n. Len(Pending) = queue_length
  BY <1>s, <1>t, NewestIsSeq, BoundAssumption
<1>r. /\ Running = {task[w] : w \in Runs} /\ Running' = {task'[w] : w \in Runs'}
      /\ Runs \subseteq Workers
  BY DEF Running, Runs, WorkersAt
<1>w. /\ UNCHANGED <<queue, queue_head, queue_length>> => Pending' = Pending
      /\ UNCHANGED <<queue, discard_head, discard_count>> => Dropped' = Dropped
  BY DEF Pending, Dropped, Window
<1>1. ASSUME NEW n \in 1 .. Capacity, Accepts(n)  PROVE Abstract!Accept(n)
  <2>1. /\ ~shutdown /\ queue_length + n <= Capacity
        /\ submitted' = submitted + n /\ queue_length' = queue_length + n
    BY <1>1, <1>t, BoundAssumption DEF Accepts, Enqueue, Space
  <2>2. Pending' = Pending \o [i \in 1 .. n |-> submitted + i]
    <3>1. n \in Nat /\ queue_length \in Nat
      BY <1>t, BoundAssumption
    <3>2. Newest(submitted, queue_length) \o [i \in 1 .. n |-> submitted + i]
            = Newest(submitted + n, queue_length + n)
      BY <1>t, <3>1, NewestGrows
    <3> QED  BY <1>s, <2>1, <3>2
  <2>3. Dropped' = Dropped
    <3>1. discard_count = 0 /\ discard_count' = 0
      BY <1>1 DEF Accepts, TaskIndInv, Phases
    <3> QED  BY <1>s, <3>1, NewestOfNone
  <2>4. Running' = Running
    BY <1>1, <1>r DEF Accepts
  <2>5. UNCHANGED <<done, cleaned, shutdown>> /\ (destroyed \/ freed)' = (destroyed \/ freed)
    BY <1>1 DEF Accepts
  <2> QED
    BY <1>n, <2>1, <2>2, <2>3, <2>4, <2>5 DEF Abstract!Accept, Pending, Dropped
<1>2. ASSUME NEW w \in Workers, Starts(w)  PROVE Abstract!Start
  <2>1. queue_length \in Nat \ {0} /\ queue_length' = queue_length - 1 /\ submitted' = submitted
    BY <1>2, <1>t, BoundAssumption DEF Starts
  <2>2. /\ Pending # <<>> /\ Pending' = Tail(Pending)
        /\ Head(Pending) = submitted - queue_length + 1
    BY <1>t, <1>s, <2>1, NewestShrinks
  <2>3. Cardinality(Running) < Cardinality(Workers)
    BY <1>2, RoomToRun DEF Starts
  <2>4. queue[queue_head] = submitted - queue_length + 1
    <3>1. discard_count = 0
      BY <1>t, <2>1, BoundAssumption DEF TaskIndInv, Phases
    <3>2. queue[queue_head] = submitted - queue_length - discard_count + 1
      BY <2>1, OldestTask DEF TaskIndInv, IndInv
    <3> QED  BY <1>t, <2>1, <3>1, <3>2
  <2>5. Running' = Running \cup {Head(Pending)}
    BY <1>2, <1>t, <1>r, <2>2, <2>4 DEF Starts
  <2>6. Dropped' = Dropped
    BY <1>2, <1>w DEF Starts
  <2>7. /\ UNCHANGED <<done, cleaned, submitted, shutdown>>
        /\ (destroyed \/ freed)' = (destroyed \/ freed)
    BY <1>2 DEF Starts
  <2>8. Abstract!Cardinality(Running) = Cardinality(Running)
    BY DEF Cardinality, Abstract!Cardinality
  <2> QED  BY <2>2, <2>3, <2>5, <2>6, <2>7, <2>8 DEF Abstract!Start, Pending, Dropped
<1>3. ASSUME NEW w \in Workers, Ends(w)
      PROVE  task[w] \in 1 .. submitted /\ Abstract!Finish(task[w])
  <2>1. w \in Runs /\ task[w] \in Running
    BY <1>3, <1>r DEF Ends
  <2>2. task[w] \in 1 .. submitted
    <3>1. task[w] \in 1 .. submitted - queue_length - discard_count
      BY <2>1 DEF TaskIndInv, TakenTasks
    <3> QED  BY <1>t, <3>1, BoundAssumption
  <2>3. Running' = Running \ {task[w]}
    <3>1. \A v \in Runs : task[v] = task[w] => v = w
      BY <2>1 DEF TaskIndInv, TakenTasks, Runs
    <3>2. \A v \in Runs' : v \in Runs /\ v # w /\ task'[v] = task[v]
      BY <1>3, <1>t, <1>r DEF Ends
    <3> QED  BY <1>3, <1>r, <2>1, <3>1, <3>2 DEF Ends
  <2>4. Pending' = Pending /\ Dropped' = Dropped
    BY <1>3, <1>w DEF Ends
  <2>5. /\ done' = done \cup {task[w]} /\ UNCHANGED <<cleaned, submitted, shutdown>>
        /\ (destroyed \/ freed)' = (destroyed \/ freed)
    BY <1>3 DEF Ends
  <2> QED  BY <2>1, <2>2, <2>3, <2>4, <2>5 DEF Abstract!Finish, Pending, Dropped
<1>4. ASSUME Drops  PROVE Abstract!Close(TRUE)
  <2>1. /\ queue_length' = 0 /\ discard_count' = queue_length /\ submitted' = submitted
        /\ ~shutdown /\ shutdown'
    BY <1>4 DEF Drops, TakeQueue
  <2>2. Pending' = <<>> /\ Dropped' = Pending
    BY <1>s, <2>1, NewestOfNone
  <2>3. Running' = Running
    BY <1>4, <1>r DEF Drops
  <2>4. UNCHANGED <<done, cleaned, submitted>> /\ (destroyed \/ freed)' = (destroyed \/ freed)
    BY <1>4 DEF Drops
  <2> QED  BY <2>1, <2>2, <2>3, <2>4 DEF Abstract!Close, Pending, Dropped
<1>5. ASSUME Cleans  PROVE Abstract!Clean
  <2>1. discard_count \in Nat \ {0} /\ discard_count' = discard_count - 1 /\ submitted' = submitted
    BY <1>5, <1>t, BoundAssumption DEF Cleans
  <2>2. /\ Dropped # <<>> /\ Dropped' = Tail(Dropped)
        /\ Head(Dropped) = submitted - discard_count + 1
    BY <1>t, <1>s, <2>1, NewestShrinks
  <2>3. queue[discard_head] = submitted - discard_count + 1
    <3>1. queue_length = 0
      BY <1>t, <2>1 DEF TaskIndInv, Phases
    <3>2. queue[discard_head] = submitted - queue_length - discard_count + 1
      BY <2>1, OldestTask DEF TaskIndInv, IndInv
    <3> QED  BY <1>t, <2>1, <3>1, <3>2
  <2>4. Pending' = Pending /\ Running' = Running
    BY <1>5, <1>w, <1>r DEF Cleans
  <2>5. /\ cleaned' = cleaned \cup {Head(Dropped)} /\ UNCHANGED <<done, submitted, shutdown>>
        /\ (destroyed \/ freed)' = (destroyed \/ freed)
    BY <1>5, <2>2, <2>3 DEF Cleans
  <2> QED  BY <2>2, <2>4, <2>5 DEF Abstract!Clean, Pending, Dropped
<1>6. TasksStill => UNCHANGED <<Pending, Dropped, Running, done, cleaned, submitted>>
  BY <1>w, <1>r DEF TasksStill
<1>7. ASSUME Closes  PROVE Abstract!Close(FALSE)
  BY <1>6, <1>7 DEF Closes, Abstract!Close, Pending, Dropped
<1>8. ASSUME Idles, UNCHANGED Gone  PROVE UNCHANGED Abstract!poolVars
  BY <1>6, <1>8 DEF Idles, Abstract!poolVars, Pending, Dropped
<1>9. ASSUME Idles, ~UNCHANGED Gone  PROVE Abstract!Vanish
  <2>1. Ending /\ UNCHANGED shutdown /\ TasksStill
    BY <1>9 DEF Idles
  <2>2. /\ shutdown /\ queue_length = 0 /\ discard_count = 0 /\ Running = {}
        /\ (destroyed \/ freed)'
    BY <2>1, EndingIsSettled
  <2>3. ~(destroyed \/ freed) /\ (destroyed \/ freed)' = TRUE
    BY <1>9, <2>2, <1>t
  <2>4. Pending = <<>> /\ Dropped = <<>>
    BY <1>s, <2>2, NewestOfNone
  <2> QED  BY <1>6, <2>1, <2>2, <2>3, <2>4
           DEF Abstract!Vanish, Abstract!Settled, Pending, Dropped
<1> QED
  BY <1>1, <1>2, <1>3, <1>4, <1>5, <1>7, <1>8, <1>9 DEF TaskMove, Abstract!Next

\* The pool is a bounded first-in first-out queue of tasks that go away settled:
\* the safety part of ImplementsTaskPool.
THEOREM Refinement == Spec => Abstract!Spec
<1>1. Init => Abstract!Init
  BY NewestOfNone DEF Init, Abstract!Init, Window, Newest, Running, WorkersAt
<1>2. TaskIndInv /\ TaskIndInv' /\ [Next]_vars => [Abstract!Next]_(Abstract!poolVars)
  <2> SUFFICES ASSUME TaskIndInv, TaskIndInv', [Next]_vars
               PROVE  [Abstract!Next]_(Abstract!poolVars)
    OBVIOUS
  <2>1. TaskMove
    BY TaskMoves DEF TaskIndInv
  <2>2. Seen /\ Seen'
    BY WindowsSeen, PTL
  <2> QED  BY <2>1, <2>2, StepImplements
<1> QED  BY <1>1, <1>2, TaskInvariance, PTL DEF Spec, Abstract!Spec

-----------------------------------------------------------------------------
(* The wake-ups *)

WakeIndInv == IndInv /\ NoWorkerOversleeps /\ NoSubmitterOversleeps

-----------------------------------------------------------------------------
(* Signals and counts *)

LEMMA SleepersFinite ==
    ASSUME IndInv
    PROVE  /\ IsFiniteSet(notify) /\ IsFiniteSet(not_full)
           /\ IsFiniteSet(Ready) /\ IsFiniteSet(AwakeSingles)
<1>1. notify \subseteq Workers /\ not_full \subseteq Clients
  BY DEF IndInv, TypeOK
<1>2. Ready \subseteq Workers /\ AwakeSingles \subseteq Clients
  BY DEF Ready, AwakeSingles, WorkersAt, ClientsAt
<1> QED  BY <1>1, <1>2, FS_Subset, ThreadAssumption

\* k signals that leave somebody asleep have woken k threads, and those count
\* among whoever was awake.
LEMMA SignalsCount ==
    ASSUME NEW parked, IsFiniteSet(parked), NEW k \in Nat, NEW rest \in Signalled(parked, k),
           rest # {}, NEW awake, IsFiniteSet(awake), awake \cap parked = {}
    PROVE  /\ parked # {}
           /\ Cardinality(awake) \in Nat
           /\ Cardinality(awake \cup (parked \ rest)) = Cardinality(awake) + k
<1>1. rest \in SUBSET parked /\ IsFiniteSet(rest)
  BY FS_Subset DEF Signalled
<1>2. Cardinality(rest) \in Nat \ {0} /\ Cardinality(parked) \in Nat /\ Cardinality(awake) \in Nat
  BY <1>1, FS_CardinalityType, FS_EmptySet
<1>3. Cardinality(rest) = Cardinality(parked) - k
  BY <1>2 DEF Signalled
<1>4. parked \cap rest = rest /\ awake \cap (parked \ rest) = {}
  BY <1>1
<1>5. IsFiniteSet(parked \ rest) /\ Cardinality(parked \ rest) = Cardinality(parked) - Cardinality(rest)
  BY <1>4, FS_Difference
<1>6. Cardinality(awake \cup (parked \ rest)) = Cardinality(awake) + Cardinality(parked \ rest) - 0
  BY <1>4, <1>5, FS_Union, FS_EmptySet
<1> QED  BY <1>1, <1>2, <1>3, <1>5, <1>6

-----------------------------------------------------------------------------
(* Workers *)

\* A step that leaves no worker asleep, or nothing to do, or nobody less awake ...
WorkersEasy ==
    \/ notify' = {}
    \/ queue_length' = 0
    \/ notify' \subseteq notify /\ Ready \subseteq Ready' /\ queue_length' <= queue_length

\* ... or takes a task ...
WorkerTakes(w) ==
    /\ w \in Ready /\ Ready' = Ready \ {w} /\ notify' \subseteq notify
    /\ queue_length' = queue_length - 1

\* ... or adds some, and signals for each.
WorkersCalled(n) ==
    /\ queue_length' = queue_length + n /\ notify' \in Signalled(notify, n)
    /\ Ready' = Ready \cup (notify \ notify')

WorkersMove ==
    \/ WorkersEasy
    \/ \E w \in Workers : WorkerTakes(w)
    \/ \E n \in 1 .. Capacity : WorkersCalled(n)

\* Every enqueued batch calls the workers.
LEMMA EnqueueCalls ==
    ASSUME IndInv, NEW n \in 1 .. Capacity, Enqueue(n), NotifyWorkers(n), wpc' = wpc
    PROVE  WorkersMove
<1>1. CASE waiting_workers = 0
  <2>1. Cardinality(WorkersAt("idle")) = 0 /\ IsFiniteSet(WorkersAt("idle"))
    BY <1>1, StatesFinite DEF IndInv, CountersMatchThreads
  <2>2. notify' = {}
    BY <1>1, <2>1, FS_EmptySet DEF NotifyWorkers, IndInv, Parked
  <2> QED  BY <2>2 DEF WorkersMove, WorkersEasy
<1>2. CASE waiting_workers # 0 /\ n >= waiting_workers /\ n > 1
  BY <1>2 DEF NotifyWorkers, WorkersMove, WorkersEasy
<1>3. CASE waiting_workers # 0 /\ ~(n >= waiting_workers /\ n > 1)
  <2>1. notify' \in Signalled(notify, n) /\ notify' \subseteq notify
    BY <1>3, WakeUpsOnlyWake DEF NotifyWorkers
  <2>2. notify \subseteq WorkersAt("idle")
    BY DEF IndInv, Parked
  <2>3. Ready' = Ready \cup (notify \ notify')
    BY <2>1, <2>2 DEF Ready, WorkersAt
  <2>4. WorkersCalled(n)
    BY <2>1, <2>3 DEF WorkersCalled, Enqueue
  <2> QED  BY <2>4 DEF WorkersMove
<1> QED  BY <1>1, <1>2, <1>3

LEMMA WorkersMoves ==
    ASSUME IndInv, [Next]_vars
    PROVE  WorkersMove
<1> USE DEF ring, stats, waiting, users, life, conds, worker, client, discard, history
<1>t. wpc \in [Workers -> WorkerStates] /\ queue_length \in Nat
  BY BoundAssumption DEF IndInv, TypeOK
<1>h. Handles
  BY DEF IndInv
<1>p. notify \subseteq WorkersAt("idle")
  BY DEF IndInv, Parked
<1>s. wpc' = wpc /\ notify' \subseteq notify /\ queue_length' = queue_length => WorkersEasy
  BY <1>t DEF WorkersEasy, Ready, WorkersAt
<1>1. ASSUME NEW w \in Workers, CreateThread(w)  PROVE WorkersEasy
  BY <1>1, <1>t DEF CreateThread, WorkersEasy, Ready, WorkersAt
<1>2. ASSUME NEW w \in Workers, WorkerParks(w)  PROVE WorkersEasy
  BY <1>2 DEF WorkerParks, WorkersEasy
<1>3. ASSUME NEW w \in Workers, WorkerExits(w)  PROVE WorkersEasy
  BY <1>3 DEF WorkerExits, MayExit, WorkersEasy
<1>4. ASSUME NEW w \in Workers, WorkerDequeues(w)  PROVE WorkerTakes(w)
  BY <1>4, <1>t, <1>p DEF WorkerDequeues, AtLoopHead, WorkerTakes, Ready, WorkersAt
<1>5. ASSUME NEW w \in Workers, WorkerFinishes(w)  PROVE WorkersEasy
  BY <1>5, <1>t DEF WorkerFinishes, WorkersEasy, Ready, WorkersAt
<1>6. ASSUME CreateReturns  PROVE WorkersEasy
  BY <1>6, <1>s DEF CreateReturns
<1>7. ASSUME CreateFails  PROVE WorkersEasy
  BY <1>7 DEF CreateFails, WorkersEasy
<1>8. ASSUME CreateUnwinds  PROVE WorkersEasy
  BY <1>8, <1>s DEF CreateUnwinds
<1>9. ASSUME NEW n \in 1 .. Capacity, SubmitAccepted(n)  PROVE WorkersMove
  BY <1>9, EnqueueCalls DEF SubmitAccepted
<1>10. ASSUME NEW c \in Clients, NEW n \in 1 .. Capacity, SubmitBlocks(c, n)  PROVE WorkersEasy
  BY <1>10, <1>s DEF SubmitBlocks
<1>11. ASSUME NEW c \in Clients, SubmitParksAgain(c)  PROVE WorkersEasy
  BY <1>11, <1>s DEF SubmitParksAgain
<1>12. ASSUME NEW c \in Clients, SubmitFindsShutdown(c)  PROVE WorkersEasy
  BY <1>12, <1>s DEF SubmitFindsShutdown
<1>13. ASSUME NEW c \in Clients, SubmitFindsSpace(c)  PROVE WorkersMove
  <2>1. count[c] \in 1 .. Capacity
    BY <1>13, <1>h DEF SubmitFindsSpace, SubmitterAwake, Handles
  <2> QED  BY <1>13, <2>1, EnqueueCalls DEF SubmitFindsSpace
<1>14. ASSUME NEW c \in Clients, WaitBlocks(c)  PROVE WorkersEasy
  BY <1>14, <1>s DEF WaitBlocks
<1>15. ASSUME NEW c \in Clients, WaitParksAgain(c)  PROVE WorkersEasy
  BY <1>15, <1>s DEF WaitParksAgain
<1>16. ASSUME NEW c \in Clients, WaitReturns(c)  PROVE WorkersEasy
  BY <1>16, <1>s DEF WaitReturns
<1>17. ASSUME NEW c \in Clients, NEW safe_exit \in BOOLEAN, Shutdown(c, safe_exit)  PROVE WorkersEasy
  BY <1>17 DEF Shutdown, WorkersEasy
<1>18. ASSUME NEW c \in Clients, DiscardOne(c)  PROVE WorkersEasy
  BY <1>18, <1>s DEF DiscardOne
<1>19. ASSUME NEW c \in Clients, DestroyParks(c)  PROVE WorkersEasy
  BY <1>19, <1>s DEF DestroyParks
<1>20. ASSUME NEW c \in Clients, DestroyDrained(c)  PROVE WorkersEasy
  BY <1>20, <1>s DEF DestroyDrained
<1>21. ASSUME NEW c \in Clients, DestroyJoins(c)  PROVE WorkersEasy
  BY <1>21, <1>s DEF DestroyJoins
<1>22. ASSUME NEW c \in Clients, DropReference(c)  PROVE WorkersEasy
  BY <1>22, <1>s DEF DropReference
<1>23. ASSUME NEW c \in Clients, Retain(c)  PROVE WorkersEasy
  BY <1>23, <1>s DEF Retain
<1>24. ASSUME SpuriousWakeup  PROVE WorkersEasy
  BY <1>24, <1>s DEF SpuriousWakeup
<1>25. ASSUME UNCHANGED vars  PROVE WorkersEasy
  BY <1>25, <1>s DEF vars
<1>26. \A c \in Clients : DestroyReleases(c) \/ Release(c) => WorkersEasy
  BY <1>22 DEF DestroyReleases, Release
<1> QED
  BY <1>1, <1>2, <1>3, <1>4, <1>5, <1>6, <1>7, <1>8, <1>9, <1>10, <1>11, <1>12, <1>13, <1>14,
     <1>15, <1>16, <1>17, <1>18, <1>19, <1>20, <1>21, <1>23, <1>24, <1>25, <1>26
     DEF WorkersMove, Next, Create, WorkerStep, TaskSubmits, ClientStep, ClientCall, Finished

\* No step lets a worker sleep beside a task.
LEMMA WorkersWoken ==
    ASSUME IndInv, IndInv', NoWorkerOversleeps, WorkersMove
    PROVE  NoWorkerOversleeps'
<1>t. queue_length \in Nat /\ IsFiniteSet(Ready) /\ IsFiniteSet(notify) /\ Cardinality(Ready) \in Nat
  <2>1. queue_length \in Nat
    BY BoundAssumption DEF IndInv, TypeOK
  <2>2. IsFiniteSet(Ready) /\ IsFiniteSet(notify)
    BY SleepersFinite
  <2> QED  BY <2>1, <2>2, FS_CardinalityType
<1>f. queue_length' \in Nat /\ IsFiniteSet(Ready') /\ Cardinality(Ready') \in Nat
  <2>1. Ready' \subseteq Workers
    BY DEF Ready, WorkersAt
  <2>2. queue_length' \in Nat
    BY BoundAssumption DEF IndInv, TypeOK
  <2> QED  BY <2>1, <2>2, FS_Subset, FS_CardinalityType, ThreadAssumption
<1>1. CASE WorkersEasy
  <2>1. CASE notify' = {}
    BY <2>1 DEF NoWorkerOversleeps
  <2>2. CASE queue_length' = 0
    BY <1>f, <2>2 DEF NoWorkerOversleeps
  <2>3. CASE notify' \subseteq notify /\ Ready \subseteq Ready' /\ queue_length' <= queue_length
    <3>1. Cardinality(Ready) <= Cardinality(Ready')
      BY <1>f, <2>3, FS_Subset
    <3> QED  BY <1>t, <1>f, <2>3, <3>1 DEF NoWorkerOversleeps
  <2> QED  BY <1>1, <2>1, <2>2, <2>3 DEF WorkersEasy
<1>2. ASSUME NEW w \in Workers, WorkerTakes(w)  PROVE NoWorkerOversleeps'
  <2>1. Cardinality(Ready') = Cardinality(Ready) - 1
    BY <1>2, <1>t, CardinalityMoves DEF WorkerTakes
  <2>2. notify' # {} => notify # {}
    BY <1>2 DEF WorkerTakes
  <2> QED  BY <1>2, <1>t, <1>f, <2>1, <2>2 DEF WorkerTakes, NoWorkerOversleeps
<1>3. ASSUME NEW n \in 1 .. Capacity, WorkersCalled(n)  PROVE NoWorkerOversleeps'
  <2> SUFFICES ASSUME notify' # {}  PROVE Cardinality(Ready') >= queue_length'
    BY DEF NoWorkerOversleeps
  <2>1. Ready \cap notify = {}
    BY DEF Ready, IndInv, Parked, WorkersAt
  <2>2. notify # {} /\ Cardinality(Ready') = Cardinality(Ready) + n
    <3>1. n \in Nat /\ notify' \in Signalled(notify, n) /\ Ready' = Ready \cup (notify \ notify')
      BY <1>3, BoundAssumption DEF WorkersCalled
    <3> QED  BY <1>t, <2>1, <3>1, SignalsCount
  <2>3. Cardinality(Ready) >= queue_length
    BY <2>2 DEF NoWorkerOversleeps
  <2> QED  BY <1>3, <1>t, <2>2, <2>3, BoundAssumption DEF WorkersCalled
<1> QED  BY <1>1, <1>2, <1>3 DEF WorkersMove

-----------------------------------------------------------------------------
(* Submitters *)

\* What the code compares with the space a parked client needs.
Enough(c) == IF count[c] > 1 THEN count[c] ELSE Cardinality(AwakeSingles) + 1

\* A step that leaves no submitter asleep, or no more space ...
SubmittersEasy ==
    \/ not_full' = {}
    \/ /\ not_full' \subseteq not_full /\ AwakeSingles \subseteq AwakeSingles'
       /\ Space' <= Space /\ \A c \in not_full' : count'[c] = count[c]

\* ... or parks one that finds too little ...
SubmitterSleeps(c) ==
    /\ not_full' = not_full \cup {c} /\ count'[c] > Space /\ count'[c] \in 1 .. Capacity
    /\ Space' = Space /\ \A d \in not_full \ {c} : count'[d] = count[d]
    /\ Space = 0 \/ AwakeSingles' = AwakeSingles

\* ... or lets one go on that finds enough ...
SubmitterFills(c) ==
    /\ not_full' = not_full /\ count[c] \in 1 .. Capacity /\ Space' = Space - count[c]
    /\ \A d \in not_full : count'[d] = count[d]
    /\ AwakeSingles' = (IF count[c] = 1 THEN AwakeSingles \ {c} ELSE AwakeSingles)
    /\ count[c] = 1 => c \in AwakeSingles

\* ... or makes space for one.
SlotFreed ==
    /\ Space' = Space + 1 /\ not_full' \in Signalled(not_full, 1)
    /\ AwakeSingles' = AwakeSingles \cup (not_full \ not_full')
    /\ \A c \in not_full : count[c] = 1 /\ count'[c] = 1

SubmittersMove ==
    \/ SubmittersEasy
    \/ \E c \in Clients : SubmitterSleeps(c)
    \/ \E c \in Clients : SubmitterFills(c)
    \/ SlotFreed

\* A dequeue wakes whoever can use the slot.
LEMMA DequeueFrees ==
    ASSUME IndInv, NEW w \in Workers, WorkerDequeues(w)
    PROVE  SubmittersMove
<1> USE DEF ring, stats, waiting, users, life, conds, worker, client, discard, history
<1>t. queue_length \in Nat /\ count \in [Clients -> 0 .. Capacity]
  BY BoundAssumption DEF IndInv, TypeOK
<1>1. CASE waiting_submitters = 0
  <2>1. Cardinality(ClientsAt("submit")) = 0 /\ IsFiniteSet(ClientsAt("submit"))
    BY <1>1, StatesFinite DEF IndInv, CountersMatchThreads
  <2>2. ClientsAt("submit") = {}
    BY <2>1, FS_EmptySet
  <2>3. not_full' = {}
    BY <1>1, <2>2 DEF WorkerDequeues, NotifySubmitters, IndInv, Parked
  <2> QED  BY <2>3 DEF SubmittersMove, SubmittersEasy
<1>2. CASE waiting_submitters # 0 /\ waiting_batches > 0
  BY <1>2 DEF WorkerDequeues, NotifySubmitters, SubmittersMove, SubmittersEasy
<1>3. CASE waiting_submitters # 0 /\ ~(waiting_batches > 0)
  <2>1. waiting_batches = Cardinality(Batches) /\ waiting_batches \in Nat /\ IsFiniteSet(Batches)
    BY StatesFinite DEF IndInv, CountersMatchThreads, TypeOK
  <2>2. Batches = {}
    BY <1>3, <2>1, FS_EmptySet
  <2>3. not_full \subseteq ClientsAt("submit")
    BY DEF IndInv, Parked
  <2>4. \A c \in ClientsAt("submit") : count[c] \in 1 .. Capacity /\ ~(count[c] > 1)
    BY <2>2 DEF IndInv, Handles, ClientsAt, Batches
  <2>5. \A c \in ClientsAt("submit") : count[c] = 1
    BY <2>4, BoundAssumption
  <2>6. /\ not_full' \in Signalled(not_full, 1) /\ UNCHANGED <<cpc, count>>
        /\ queue_length' = queue_length - 1
    BY <1>3 DEF WorkerDequeues, NotifySubmitters
  <2>7. not_full' \subseteq not_full
    BY <2>6, SignalledSubset
  <2>8. AwakeSingles' = AwakeSingles \cup (not_full \ not_full')
    BY <2>3, <2>5, <2>6, <2>7 DEF AwakeSingles, ClientsAt
  <2>9. Space' = Space + 1
    BY <1>t, <2>6, BoundAssumption DEF Space
  <2>10. \A c \in not_full : count[c] = 1 /\ count'[c] = 1
    BY <2>3, <2>5, <2>6
  <2> QED  BY <2>6, <2>8, <2>9, <2>10 DEF SubmittersMove, SlotFreed
<1> QED  BY <1>1, <1>2, <1>3

LEMMA SubmittersMoves ==
    ASSUME IndInv, [Next]_vars
    PROVE  SubmittersMove
<1> USE DEF ring, stats, waiting, users, life, conds, worker, client, discard, history
<1>t. /\ cpc \in [Clients -> ClientStates] /\ count \in [Clients -> 0 .. Capacity]
      /\ queue_length \in Nat /\ Capacity \in Nat
  BY BoundAssumption DEF IndInv, TypeOK
<1>h. Handles
  BY DEF IndInv
<1>p. /\ not_full \subseteq ClientsAt("submit") /\ (shutdown => not_full = {})
  BY DEF IndInv, Parked
<1>s. cpc' = cpc /\ count' = count /\ not_full' \subseteq not_full /\ queue_length' = queue_length
        => SubmittersEasy
  BY <1>t DEF SubmittersEasy, AwakeSingles, ClientsAt, Space
<1>c. ASSUME NEW c \in Clients, NEW to, ClientGoes(c, to), cpc[c] # "submit", to # "submit",
             count' = count, not_full' = not_full, queue_length' = queue_length
      PROVE  SubmittersEasy
  BY <1>c, <1>t DEF SubmittersEasy, AwakeSingles, ClientsAt, ClientGoes, Space
<1>1. ASSUME NEW w \in Workers, CreateThread(w)  PROVE SubmittersEasy
  BY <1>1, <1>s DEF CreateThread
<1>2. ASSUME NEW w \in Workers, WorkerParks(w)  PROVE SubmittersEasy
  BY <1>2, <1>s DEF WorkerParks
<1>3. ASSUME NEW w \in Workers, WorkerExits(w)  PROVE SubmittersEasy
  BY <1>3, <1>s DEF WorkerExits
<1>4. ASSUME NEW w \in Workers, WorkerDequeues(w)  PROVE SubmittersMove
  BY <1>4, DequeueFrees
<1>5. ASSUME NEW w \in Workers, WorkerFinishes(w)  PROVE SubmittersEasy
  BY <1>5, <1>s DEF WorkerFinishes
<1>6. ASSUME CreateReturns  PROVE SubmittersEasy
  <2>1. ClientGoes(Owner, "out") /\ cpc[Owner] # "submit"
    BY <1>6, <1>t DEF ClientGoes, CreateReturns
  <2> QED  BY <1>6, <1>c, <2>1, ThreadAssumption DEF CreateReturns
<1>7. ASSUME CreateFails  PROVE SubmittersEasy
  <2>1. ClientGoes(Owner, "unwind") /\ cpc[Owner] # "submit"
    BY <1>7, <1>t DEF ClientGoes, CreateFails
  <2> QED  BY <1>7, <1>c, <2>1, ThreadAssumption DEF CreateFails
<1>8. ASSUME CreateUnwinds  PROVE SubmittersEasy
  <2>1. ClientGoes(Owner, "out") /\ cpc[Owner] # "submit"
    BY <1>8, <1>t DEF ClientGoes, CreateUnwinds
  <2> QED  BY <1>8, <1>c, <2>1, ThreadAssumption DEF CreateUnwinds
<1>9. ASSUME NEW n \in 1 .. Capacity, SubmitAccepted(n)  PROVE SubmittersEasy
  BY <1>9, <1>t, BoundAssumption DEF SubmitAccepted, Enqueue, SubmittersEasy, AwakeSingles, ClientsAt, Space
<1>10. ASSUME NEW c \in Clients, NEW n \in 1 .. Capacity, SubmitBlocks(c, n)  PROVE SubmitterSleeps(c)
  <2>1. n > Space /\ cpc' = [cpc EXCEPT ![c] = "submit"] /\ count' = [count EXCEPT ![c] = n]
        /\ not_full' = not_full \cup {c} /\ queue_length' = queue_length /\ cpc[c] = "out"
    BY <1>10 DEF SubmitBlocks, CanCall
  <2>2. AwakeSingles' = AwakeSingles
    BY <1>t, <2>1 DEF AwakeSingles, ClientsAt
  <2> QED  BY <1>t, <2>1, <2>2 DEF SubmitterSleeps, Space
<1>11. ASSUME NEW c \in Clients, SubmitParksAgain(c)  PROVE SubmitterSleeps(c)
  <2>1. /\ cpc[c] = "submit" /\ c \notin not_full /\ count[c] > Space /\ UNCHANGED <<cpc, count, queue_length>>
        /\ not_full' = not_full \cup {c}
    BY <1>11 DEF SubmitParksAgain, SubmitterAwake
  <2>2. count[c] \in 1 .. Capacity /\ Space \in Nat
    <3>1. count[c] \in 1 .. Capacity
      BY <1>h, <2>1 DEF Handles
    <3>2. queue_length \in 0 .. Capacity
      BY DEF IndInv, TypeOK
    <3> QED  BY <3>1, <3>2, BoundAssumption DEF Space
  <2>3. AwakeSingles' = AwakeSingles \ {c}
    BY <2>1 DEF AwakeSingles, ClientsAt
  <2>4. count[c] # 1 => c \notin AwakeSingles
    BY DEF AwakeSingles
  <2>5. Space = 0 \/ AwakeSingles' = AwakeSingles
    BY <1>t, <2>1, <2>2, <2>3, <2>4
  <2> QED  BY <2>1, <2>2, <2>5 DEF SubmitterSleeps, Space
<1>12. ASSUME NEW c \in Clients, SubmitFindsShutdown(c)  PROVE SubmittersEasy
  BY <1>12, <1>p DEF SubmitFindsShutdown, SubmitterAwake, SubmittersEasy
<1>13. ASSUME NEW c \in Clients, SubmitFindsSpace(c)  PROVE SubmitterFills(c)
  <2>1. /\ cpc[c] = "submit" /\ c \notin not_full /\ not_full' = not_full
        /\ queue_length' = queue_length + count[c]
        /\ cpc' = [cpc EXCEPT ![c] = "out"] /\ count' = [count EXCEPT ![c] = 0]
    BY <1>13 DEF SubmitFindsSpace, SubmitterAwake, Enqueue
  <2>2. count[c] \in 1 .. Capacity
    BY <1>h, <2>1 DEF Handles
  <2>3. AwakeSingles' = AwakeSingles \ {c} /\ (c \in AwakeSingles <=> count[c] = 1)
    BY <1>t, <2>1 DEF AwakeSingles, ClientsAt
  <2>4. Space' = Space - count[c]
    BY <1>t, <2>1, <2>2 DEF Space
  <2>5. \A d \in not_full : count'[d] = count[d]
    BY <1>t, <1>p, <2>1 DEF ClientsAt
  <2> QED  BY <2>1, <2>2, <2>3, <2>4, <2>5 DEF SubmitterFills
<1>14. ASSUME NEW c \in Clients, WaitBlocks(c)  PROVE SubmittersEasy
  <2>1. ClientGoes(c, "wait") /\ cpc[c] # "submit"
    BY <1>14, <1>t DEF CanCall, ClientGoes, WaitBlocks
  <2> QED  BY <1>14, <1>c, <2>1 DEF WaitBlocks
<1>15. ASSUME NEW c \in Clients, WaitParksAgain(c)  PROVE SubmittersEasy
  BY <1>15, <1>s DEF WaitParksAgain
<1>16. ASSUME NEW c \in Clients, WaitReturns(c)  PROVE SubmittersEasy
  <2>1. ClientGoes(c, "out") /\ cpc[c] # "submit"
    BY <1>16, <1>t DEF WaiterAwake, ClientGoes, WaitReturns
  <2> QED  BY <1>16, <1>c, <2>1 DEF WaitReturns
<1>17. ASSUME NEW c \in Clients, NEW safe_exit \in BOOLEAN, Shutdown(c, safe_exit)  PROVE SubmittersEasy
  BY <1>17 DEF Shutdown, SubmittersEasy
<1>18. ASSUME NEW c \in Clients, DiscardOne(c)  PROVE SubmittersEasy
  BY <1>18, <1>s DEF DiscardOne
<1>19. ASSUME NEW c \in Clients, DestroyParks(c)  PROVE SubmittersEasy
  <2>1. ClientGoes(c, "drain") /\ cpc[c] # "submit"
    BY <1>19, <1>t DEF DestroyerAtDrain, ClientGoes, DestroyParks
  <2> QED  BY <1>19, <1>c, <2>1 DEF DestroyParks
<1>20. ASSUME NEW c \in Clients, DestroyDrained(c)  PROVE SubmittersEasy
  <2>1. ClientGoes(c, "join") /\ cpc[c] # "submit"
    BY <1>20, <1>t DEF DestroyerAtDrain, ClientGoes, DestroyDrained
  <2> QED  BY <1>20, <1>c, <2>1 DEF DestroyDrained
<1>21. ASSUME NEW c \in Clients, DestroyJoins(c)  PROVE SubmittersEasy
  <2>1. ClientGoes(c, "release") /\ cpc[c] # "submit"
    BY <1>21, <1>t DEF ClientGoes, DestroyJoins
  <2> QED  BY <1>21, <1>c, <2>1 DEF DestroyJoins
<1>22. ASSUME NEW c \in Clients, cpc[c] \in {"out", "release"}, DropReference(c)  PROVE SubmittersEasy
  <2>1. ClientGoes(c, "out") /\ cpc[c] # "submit"
    BY <1>22, <1>t DEF ClientGoes, DropReference
  <2> QED  BY <1>22, <1>c, <2>1 DEF DropReference
<1>23. ASSUME NEW c \in Clients, Retain(c)  PROVE SubmittersEasy
  BY <1>23, <1>s DEF Retain
<1>24. ASSUME SpuriousWakeup  PROVE SubmittersEasy
  BY <1>24, <1>s DEF SpuriousWakeup
<1>25. ASSUME UNCHANGED vars  PROVE SubmittersEasy
  BY <1>25, <1>s DEF vars
<1>26. \A c \in Clients : DestroyReleases(c) \/ Release(c) => SubmittersEasy
  BY <1>22 DEF DestroyReleases, Release, CanCall
<1> QED
  BY <1>1, <1>2, <1>3, <1>4, <1>5, <1>6, <1>7, <1>8, <1>9, <1>10, <1>11, <1>12, <1>13, <1>14,
     <1>15, <1>16, <1>17, <1>18, <1>19, <1>20, <1>21, <1>23, <1>24, <1>25, <1>26
     DEF SubmittersMove, Next, Create, WorkerStep, TaskSubmits, ClientStep, ClientCall, Finished


LEMMA SpaceLeft == \A length \in 0 .. Capacity : Capacity - length \in Nat
BY BoundAssumption

\* No step lets a submitter sleep beside space it could use.
LEMMA SubmittersWoken ==
    ASSUME IndInv, IndInv', NoSubmitterOversleeps, SubmittersMove
    PROVE  NoSubmitterOversleeps'
<1>t. Space \in Nat /\ IsFiniteSet(AwakeSingles) /\ IsFiniteSet(not_full) /\ Cardinality(AwakeSingles) \in Nat
  <2>1. Space \in Nat
    BY SpaceLeft DEF IndInv, TypeOK, Space
  <2>2. IsFiniteSet(AwakeSingles) /\ IsFiniteSet(not_full)
    BY SleepersFinite
  <2> QED  BY <2>1, <2>2, FS_CardinalityType
<1>f. Space' \in Nat /\ IsFiniteSet(AwakeSingles') /\ Cardinality(AwakeSingles') \in Nat
  <2>1. AwakeSingles' \subseteq Clients
    BY DEF AwakeSingles, ClientsAt
  <2>2. Space' \in Nat
    BY SpaceLeft, Zenon DEF IndInv, TypeOK, Space
  <2> QED  BY <2>1, <2>2, FS_Subset, FS_CardinalityType, ThreadAssumption
<1>c. \A c \in not_full : count[c] \in 1 .. Capacity /\ Space < Enough(c)
  <2>1. \A c \in not_full : c \in Clients /\ cpc[c] = "submit"
    BY DEF IndInv, Parked, ClientsAt
  <2>2. \A c \in not_full : count[c] \in 1 .. Capacity
    BY <2>1 DEF IndInv, Handles
  <2> QED  BY <2>2 DEF NoSubmitterOversleeps, Enough
<1> SUFFICES ASSUME NEW c \in not_full'
             PROVE  Space' < (IF count'[c] > 1 THEN count'[c] ELSE Cardinality(AwakeSingles') + 1)
  BY DEF NoSubmitterOversleeps
<1>1. CASE SubmittersEasy
  <2>1. c \in not_full /\ AwakeSingles \subseteq AwakeSingles' /\ Space' <= Space /\ count'[c] = count[c]
    BY <1>1 DEF SubmittersEasy
  <2>2. Cardinality(AwakeSingles) <= Cardinality(AwakeSingles')
    BY <1>f, <2>1, FS_Subset
  <2>3. Space < (IF count[c] > 1 THEN count[c] ELSE Cardinality(AwakeSingles) + 1)
    BY <1>c, <2>1 DEF Enough
  <2>4. count[c] \in Int
    BY <1>c, <2>1
  <2> QED  BY <1>t, <1>f, <2>1, <2>2, <2>3, <2>4
<1>2. ASSUME NEW d \in Clients, SubmitterSleeps(d)
      PROVE  Space' < (IF count'[c] > 1 THEN count'[c] ELSE Cardinality(AwakeSingles') + 1)
  <2>1. CASE c = d
    <3>1. count'[c] > Space /\ count'[c] \in Int /\ Space' = Space
      BY <1>2, <2>1 DEF SubmitterSleeps
    <3> QED  BY <1>t, <1>f, <3>1
  <2>2. CASE c # d
    <3>1. /\ c \in not_full /\ count'[c] = count[c] /\ Space' = Space
          /\ Space = 0 \/ AwakeSingles' = AwakeSingles
      BY <1>2, <2>2 DEF SubmitterSleeps
    <3>2. count[c] \in Int /\ Space < (IF count[c] > 1 THEN count[c] ELSE Cardinality(AwakeSingles) + 1)
      BY <1>c, <3>1 DEF Enough
    <3> QED  BY <1>t, <1>f, <3>1, <3>2
  <2> QED  BY <2>1, <2>2
<1>3. ASSUME NEW d \in Clients, SubmitterFills(d)
      PROVE  Space' < (IF count'[c] > 1 THEN count'[c] ELSE Cardinality(AwakeSingles') + 1)
  <2>1. c \in not_full /\ count'[c] = count[c] /\ Space' = Space - count[d] /\ count[d] \in 1 .. Capacity
    BY <1>3 DEF SubmitterFills
  <2>2. count[c] \in Int /\ Space < (IF count[c] > 1 THEN count[c] ELSE Cardinality(AwakeSingles) + 1)
    BY <1>c, <2>1 DEF Enough
  <2>3. Cardinality(AwakeSingles') >= Cardinality(AwakeSingles) - (IF count[d] = 1 THEN 1 ELSE 0)
    <3>1. CASE count[d] = 1
      <4>1. AwakeSingles' = AwakeSingles \ {d} /\ d \in AwakeSingles
        BY <1>3, <3>1 DEF SubmitterFills
      <4>2. Cardinality(AwakeSingles') = Cardinality(AwakeSingles) - 1
        BY <1>t, <4>1, CardinalityMoves
      <4> QED  BY <1>t, <3>1, <4>2
    <3>2. CASE count[d] # 1
      <4>1. AwakeSingles' = AwakeSingles
        BY <1>3, <3>2 DEF SubmitterFills
      <4> QED  BY <1>t, <3>2, <4>1
    <3> QED  BY <3>1, <3>2
  <2> QED  BY <1>t, <1>f, <2>1, <2>2, <2>3
<1>4. CASE SlotFreed
  <2>1. /\ Space' = Space + 1 /\ not_full' \in Signalled(not_full, 1)
        /\ AwakeSingles' = AwakeSingles \cup (not_full \ not_full')
    BY <1>4 DEF SlotFreed
  <2>2. c \in not_full
    BY <2>1, SignalledSubset
  <2>3. count[c] = 1 /\ count'[c] = 1
    BY <1>4, <2>2 DEF SlotFreed
  <2>4. AwakeSingles \cap not_full = {} /\ not_full' # {} /\ 1 \in Nat
    BY DEF AwakeSingles
  <2>5. Cardinality(AwakeSingles') = Cardinality(AwakeSingles) + 1
    BY <1>t, <2>1, <2>4, SignalsCount
  <2>6. Space < Cardinality(AwakeSingles) + 1
    BY <1>c, <2>2, <2>3 DEF Enough
  <2> QED  BY <1>t, <1>f, <2>1, <2>3, <2>5, <2>6
<1> QED  BY <1>1, <1>2, <1>3, <1>4 DEF SubmittersMove

-----------------------------------------------------------------------------
(* Theorems *)

LEMMA InitWakeIndInv == Init => WakeIndInv
<1>1. Init => NoWorkerOversleeps /\ NoSubmitterOversleeps
  BY DEF Init, NoWorkerOversleeps, NoSubmitterOversleeps
<1> QED  BY <1>1, InitIndInv DEF WakeIndInv

LEMMA NextWakeIndInv == WakeIndInv /\ [Next]_vars => WakeIndInv'
<1> SUFFICES ASSUME WakeIndInv, [Next]_vars PROVE WakeIndInv'
  OBVIOUS
<1>1. IndInv /\ IndInv'
  BY NextIndInv DEF WakeIndInv
<1>2. NoWorkerOversleeps'
  BY <1>1, WorkersMoves, WorkersWoken DEF WakeIndInv
<1>3. NoSubmitterOversleeps'
  BY <1>1, SubmittersMoves, SubmittersWoken DEF WakeIndInv
<1> QED  BY <1>1, <1>2, <1>3 DEF WakeIndInv

\* The wake-up properties and what they rest on hold in every reachable state.
THEOREM WakeInvariance == Spec => []WakeIndInv
BY InitWakeIndInv, NextWakeIndInv, PTL DEF Spec

\* No lost wake-up in the workers' loop: while one of them sleeps, those that
\* are awake are enough for the tasks in the queue, although an add signals
\* only once per task and only when somebody is counted as waiting.
THEOREM WorkersNeverOversleep == Spec => []NoWorkerOversleeps
<1>1. WakeIndInv => NoWorkerOversleeps
  BY DEF WakeIndInv
<1> QED  BY <1>1, WakeInvariance, PTL

\* No lost wake-up in threadpool_add: a parked batch does not fit, and every
\* free slot a parked single task could use has an awake submitter for it,
\* although a dequeue signals one submitter when no batch is waiting.
THEOREM SubmittersNeverOversleep == Spec => []NoSubmitterOversleeps
<1>1. WakeIndInv => NoSubmitterOversleeps
  BY DEF WakeIndInv
<1> QED  BY <1>1, WakeInvariance, PTL
=============================================================================
