------------------------------ MODULE JobLease ------------------------------
(***************************************************************************)
(* Background jobs and the worker processes that claim them under a lease: *)
(* backend/app/worker.py over the table background_job (models.py).        *)
(*                                                                         *)
(* A worker polls (run_forever): it claims the oldest job whose lease is   *)
(* free or expired, runs its handler, which writes the outcome in another  *)
(* session, and polls again.  An error of the handler marks the job        *)
(* failed; an error elsewhere ends the process, which Docker restarts      *)
(* (restart: unless-stopped).  Time appears only as leases that expire:    *)
(* lease_expires_at is 60 s after the claim and is never renewed.          *)
(***************************************************************************)
EXTENDS Naturals, FiniteSets

CONSTANTS
    Workers,           \* worker processes
    Jobs,              \* job row ids, numbered in the order of created_at
    Handled,           \* those whose type has a registered handler
    Quick,             \* those a live worker is done with within a lease
    MaxCrashes         \* bound on the crashes of workers

ASSUME JobsAssumption ==
    /\ Jobs \subseteq Nat \ {0}
    /\ Handled \subseteq Jobs
    /\ Quick \subseteq Jobs
    /\ MaxCrashes \in Nat

Unfinished == {"queued", "running"}
Finished == {"completed", "failed"}
NoJob == 0

VARIABLES
    job,      \* job -> its row: status ("absent": no row) and lease
    worker,   \* worker -> where it is, the job it is at, the status it loaded
    crashes   \* crashes so far

vars == <<job, worker, crashes>>

\* The places of a worker: between jobs, with a locked job not yet claimed,
\* in the handler, with its outcome not yet written, in the except clause,
\* with the failure not yet written, and not running.
Working == {"handling", "writing", "failing", "marking"}
Places == {"idle", "claiming", "down"} \cup Working

AtJob(place, j) == [at |-> place, job |-> j, seen |-> "absent"]
IdleWorker == AtJob("idle", NoJob)

TypeOK ==
    /\ job \in [Jobs -> [status : Unfinished \cup Finished \cup {"absent"},
                         lease : {"none", "held", "expired"}]]
    /\ worker \in [Workers -> [at : Places, job : Jobs \cup {NoJob},
                               seen : Unfinished \cup Finished \cup {"absent"}]]
    /\ \A w \in Workers : worker[w].at \notin {"idle", "down"} => worker[w].job \in Jobs
    /\ crashes \in Nat

Init ==
    /\ job = [j \in Jobs |-> [status |-> "absent", lease |-> "none"]]
    /\ worker = [w \in Workers |-> IdleWorker]
    /\ crashes = 0

-----------------------------------------------------------------------------
(* The row lock of SELECT ... FOR UPDATE, until the claim commits.         *)

\* Mutant: the row is selected without FOR UPDATE.
NeverLocked(j) == FALSE

Locked(j) == \E w \in Workers : worker[w].at = "claiming" /\ worker[w].job = j
WorkingOn(w, j) == worker[w].at \in Working /\ worker[w].job = j

\* Mutant: jobs found running are left to the worker that claimed them.
QueuedOnly(j) == job[j].status = "queued" /\ job[j].lease # "held"

\* Mutant: a job is taken whenever its lease is free, whatever its status.
FreeLease(j) == job[j].status # "absent" /\ job[j].lease # "held"

Claimable(j) == job[j].status \in Unfinished /\ job[j].lease # "held"

At(w, place) == worker' = [worker EXCEPT ![w].at = place]

(* A job is inserted by whoever requests it; no code in the repository     *)
(* does so yet.                                                            *)
Enqueue(j) ==
    /\ job[j].status = "absent"
    /\ \A i \in Jobs : i < j => job[i].status # "absent"
    /\ job' = [job EXCEPT ![j].status = "queued"]
    /\ UNCHANGED <<worker, crashes>>

(* _claim_next_job: the oldest claimable job that nobody has locked.       *)
SelectJob(w) ==
    /\ worker[w].at = "idle"
    /\ \E j \in Jobs :
          /\ Claimable(j) /\ ~Locked(j)
          /\ \A i \in Jobs : i < j => ~Claimable(i) \/ Locked(i)
          /\ worker' = [worker EXCEPT ![w] = AtJob("claiming", j)]
    /\ UNCHANGED <<job, crashes>>

CommitClaim(w) ==
    /\ worker[w].at = "claiming"
    /\ job' = [job EXCEPT ![worker[w].job] = [status |-> "running", lease |-> "held"]]
    /\ At(w, "handling")
    /\ UNCHANGED crashes

(* _process and _noop: the handler completes the job; a job without one    *)
(* fails.  The row is loaded, and written without looking at its status.   *)
Outcome(j) == IF j \in Handled THEN "completed" ELSE "failed"

LoadOutcome(w) ==
    /\ worker[w].at = "handling"
    /\ worker' = [worker EXCEPT ![w].at = "writing",
                                ![w].seen = job[worker[w].job].status]
    /\ UNCHANGED <<job, crashes>>

WriteOutcome(w) ==
    /\ worker[w].at = "writing"
    /\ LET j == worker[w].job IN
       /\ ~Locked(j)
       /\ job' = [job EXCEPT ![j].status =
                    IF worker[w].seen = Outcome(j) THEN @ ELSE Outcome(j)]

CommitOutcome(w) ==
    /\ WriteOutcome(w)
    /\ worker' = [worker EXCEPT ![w] = IdleWorker]
    /\ UNCHANGED crashes

(* The commit took effect, but the connection broke before it was          *)
(* confirmed: the handler raises.                                          *)
CommitOutcomeUnconfirmed(w) ==
    /\ WriteOutcome(w)
    /\ At(w, "failing")
    /\ UNCHANGED crashes

Raise(w) ==
    /\ worker[w].at \in {"handling", "writing"}
    /\ At(w, "failing")
    /\ UNCHANGED <<job, crashes>>

(* The except clause of run_forever.                                       *)

\* Mutant: the failure is written whatever became of the job.
LoadFailureUnchecked(w) ==
    /\ worker[w].at = "failing"
    /\ At(w, "marking")
    /\ UNCHANGED <<job, crashes>>

LoadFailure(w) ==
    /\ worker[w].at = "failing"
    /\ \/ job[worker[w].job].status = "running" /\ At(w, "marking")
       \/ /\ job[worker[w].job].status # "running"
          /\ worker' = [worker EXCEPT ![w] = IdleWorker]
    /\ UNCHANGED <<job, crashes>>

CommitFailure(w) ==
    /\ worker[w].at = "marking"
    /\ ~Locked(worker[w].job)
    /\ job' = [job EXCEPT ![worker[w].job].status = "failed"]
    /\ worker' = [worker EXCEPT ![w] = IdleWorker]
    /\ UNCHANGED crashes

(* The process ends, at any point; what it had not committed is undone.    *)
Crash(w) ==
    /\ worker[w].at # "down"
    /\ crashes < MaxCrashes
    /\ worker' = [worker EXCEPT ![w] = AtJob("down", NoJob)]
    /\ crashes' = crashes + 1
    /\ UNCHANGED job

Restart(w) ==
    /\ worker[w].at = "down"
    /\ worker' = [worker EXCEPT ![w] = IdleWorker]
    /\ UNCHANGED <<job, crashes>>

\* Mutant: a lease that expires frees the job although its worker is alive.
ExpireAnyLease(j) ==
    /\ job[j].lease = "held"
    /\ job' = [job EXCEPT ![j].lease = "expired"]
    /\ UNCHANGED <<worker, crashes>>

ExpireLease(j) ==
    /\ job[j].lease = "held"
    /\ j \in Quick => \A w \in Workers : ~WorkingOn(w, j)
    /\ job' = [job EXCEPT ![j].lease = "expired"]
    /\ UNCHANGED <<worker, crashes>>

-----------------------------------------------------------------------------
\* What a live worker does next; run_forever never stops doing it.
Proceed(w) ==
    \/ SelectJob(w)
    \/ CommitClaim(w)
    \/ LoadOutcome(w)
    \/ CommitOutcome(w)
    \/ LoadFailure(w)
    \/ CommitFailure(w)

Next ==
    \/ \E j \in Jobs : Enqueue(j) \/ ExpireLease(j)
    \/ \E w \in Workers : \/ Proceed(w)
                          \/ CommitOutcomeUnconfirmed(w)
                          \/ Raise(w)
                          \/ Crash(w)
                          \/ Restart(w)

Spec == Init /\ [][Next]_vars

\* Workers poll and work on, Docker restarts them, and time passes.
Fairness ==
    /\ \A w \in Workers : WF_vars(Proceed(w)) /\ WF_vars(Restart(w))
    /\ \A j \in Jobs : WF_vars(ExpireLease(j))

FairSpec == Spec /\ Fairness

-----------------------------------------------------------------------------
(* What holds however long the handlers take                               *)

\* Claiming needs a job that is not finished, and the row lock keeps it so
\* until the claim is committed: a finished job is never taken up again, not
\* even when the worker that lost its lease finishes it during the claim.
FinishedNotReclaimed ==
    [][\A j \in Jobs : job[j].status \in Finished => job'[j].status \in Finished]_vars

\* At most one worker has the row of a job locked for a claim, and that job is
\* neither finished nor leased.
ClaimsLocked ==
    \A w \in Workers : worker[w].at = "claiming" =>
        /\ Claimable(worker[w].job)
        /\ \A v \in Workers \ {w} : worker[v].at = "claiming" =>
              worker[v].job # worker[w].job

\* Every job that is queued is finished in the end, whatever crashes
\* (a bounded number of times) while it has the job.
QueuedGetsFinished ==
    \A j \in Jobs : job[j].status = "queued" ~> job[j].status \in Finished

-----------------------------------------------------------------------------
(* What holds of a job that takes less than its lease, and not otherwise   *)

\* Leases keep two live workers from running the handler of one job at once.
OneWorkerPerJob ==
    \A j \in Quick : \A v, w \in Workers : WorkingOn(v, j) /\ WorkingOn(w, j) => v = w

\* The outcome of a job is final: neither a worker that was restarted, nor a
\* handler whose commit went through unnoticed, overwrites it.
OutcomeFinal ==
    [][\A j \in Quick : job[j].status \in Finished =>
          job'[j].status = job[j].status]_vars

\* What a worker at such a job may rely on.
HoldsItsJob ==
    \A j \in Quick : \A w \in Workers : WorkingOn(w, j) =>
        /\ job[j].lease = "held"
        /\ worker[w].at # "failing" => job[j].status = "running"
        /\ job[j].status \in {"running"} \cup Finished
        /\ worker[w].at = "writing" => worker[w].seen = "running"

\* The inductive invariant: of claims, whatever the leases do, and of the
\* jobs that are quicker than theirs.
LeaseInv ==
    /\ TypeOK
    /\ ClaimsLocked
    /\ OneWorkerPerJob
    /\ HoldsItsJob

=============================================================================
