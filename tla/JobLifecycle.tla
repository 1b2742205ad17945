---------------------------- MODULE JobLifecycle ----------------------------
(***************************************************************************)
(* What xwork promises of a job, whatever runs it: at any time the job is  *)
(* in one state, and it moves only along the arrows of the README's usage  *)
(* section and of process.go: enqueued now or scheduled for later, moved   *)
(* to its queue when due, run, and after each failed try retried, until it *)
(* succeeds or its retries are used up.                                    *)
(***************************************************************************)
EXTENDS Naturals

CONSTANTS
    Jobs,      \* job IDs
    MaxRetry   \* tries after the first one

VARIABLES
    state,     \* where each job is: "new", "refused", or in a table
    tries      \* how often it has been started

lifecycleVars == <<state, tries>>

LifecycleInit ==
    /\ state = [j \in Jobs |-> "new"]
    /\ tries = [j \in Jobs |-> 0]

Move(j, from, to) ==
    /\ state[j] = from
    /\ state' = [state EXCEPT ![j] = to]

\* Enqueue, EnqueueIn or EnqueueAt; an error to the caller is a refusal.
Accept(j) ==
    /\ \E to \in {"enqueued", "scheduled", "refused"} : Move(j, "new", to)
    /\ UNCHANGED tries

BecomeDue(j) == Move(j, "scheduled", "enqueued") /\ UNCHANGED tries

StartTry(j) ==
    /\ Move(j, "enqueued", "processing")
    /\ tries' = [tries EXCEPT ![j] = @ + 1]

Succeed(j) == Move(j, "processing", "processed") /\ UNCHANGED tries

FailTry(j) ==
    /\ tries[j] <= MaxRetry
    /\ Move(j, "processing", "failed")
    /\ UNCHANGED tries

\* Only the try after the last retry ends the job without success.
Discard(j) ==
    /\ tries[j] = MaxRetry + 1
    /\ Move(j, "processing", "discarded")
    /\ UNCHANGED tries

Requeue(j) == Move(j, "failed", "enqueued") /\ UNCHANGED tries

LifecycleNext ==
    \E j \in Jobs :
        \/ Accept(j)
        \/ BecomeDue(j)
        \/ StartTry(j)
        \/ Succeed(j)
        \/ FailTry(j)
        \/ Discard(j)
        \/ Requeue(j)

LifecycleSpec == LifecycleInit /\ [][LifecycleNext]_lifecycleVars

=============================================================================
