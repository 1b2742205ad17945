---------------------------- MODULE MCProcessor ----------------------------
(***************************************************************************)
(* Instances of Processor for TLC: the constants of the runs.              *)
(***************************************************************************)
EXTENDS Processor, TLC

CONSTANTS j1, j2, p1, p2, w1, w2, q1, q2

OneQueue == [j \in Jobs |-> q1]

ListenToAll == [p \in Procs |-> Queues]

\* Every formula of the specification treats these alike; jobs too where all
\* of them share a queue.
Interchangeable ==
    Permutations(Procs) \cup Permutations(Slots) \cup Permutations(Jobs)

\* All but the history variable attempts, for a run whose properties do not
\* look at it.
WithoutHistory == <<storeVars, call, proc, loops, worker, inMemory, mover,
                    retrier, checker>>

=============================================================================
