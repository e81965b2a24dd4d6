-------------------------- MODULE JobLease_proofs --------------------------
(***************************************************************************)
(* Proofs about the claiming of background jobs.  Two arguments.  However  *)
(* long handlers take, the row lock of a claim keeps its job unfinished    *)
(* until the claim is committed.  If handlers are faster than their        *)
(* leases, a live worker holds the lease of its job, so no other worker    *)
(* can claim it, and nobody else writes its outcome.                       *)
(***************************************************************************)
EXTENDS JobLease, TLAPS

\* What the actions preserve whatever the leases do.
ClaimInv == TypeOK /\ ClaimsLocked

\* No worker has claimed anything before the first poll of run_forever.
LEMMA InitClaimInv == Init => ClaimInv /\ LeaseInv
BY JobsAssumption
   DEF Init, ClaimInv, TypeOK, ClaimsLocked, LeaseInv, OneWorkerPerJob, WorkingOn,
       HoldsItsJob, Working, Places, Unfinished, Finished, IdleWorker, AtJob, NoJob

\* A worker that moves on with its job, having looked at the row of it.
LEMMA WorkerMoves ==
    ASSUME TypeOK, NEW w \in Workers, worker[w].job \in Jobs,
           NEW place \in Places, NEW status \in Unfinished \cup Finished \cup {"absent"},
           \/ worker' = [worker EXCEPT ![w].at = place]
           \/ worker' = [worker EXCEPT ![w].at = place, ![w].seen = status]
    PROVE  /\ worker' \in [Workers -> [at : Places, job : Jobs \cup {NoJob},
                                       seen : Unfinished \cup Finished \cup {"absent"}]]
           /\ \A v \in Workers : worker'[v].at \notin {"idle", "down"} =>
                 worker'[v].job \in Jobs
<1> DEFINE Rowset == [at : Places, job : Jobs \cup {NoJob},
                      seen : Unfinished \cup Finished \cup {"absent"}]
           old == worker[w]
           moved == [old EXCEPT !.at = place]
           looked == [old EXCEPT !.at = place, !.seen = status]
<1>1. worker \in [Workers -> Rowset] /\ old \in Rowset
    BY DEF TypeOK
<1>2. moved \in Rowset /\ looked \in Rowset /\ moved.job \in Jobs /\ looked.job \in Jobs
    BY <1>1
<1>3. PICK row \in Rowset : row.job \in Jobs /\ worker' = [worker EXCEPT ![w] = row]
  <2>1. CASE worker' = [worker EXCEPT ![w].at = place]
    <3>1. worker' = [worker EXCEPT ![w] = moved]
        BY <2>1
    <3> QED BY <1>2, <3>1
  <2>2. CASE worker' = [worker EXCEPT ![w].at = place, ![w].seen = status]
    <3>1. worker' = [worker EXCEPT ![w] = looked]
        BY <2>2
    <3> QED BY <1>2, <3>1
  <2> QED BY <2>1, <2>2
<1> HIDE DEF Rowset
<1>4. worker' \in [Workers -> Rowset]
    BY <1>1, <1>3
<1>5. \A v \in Workers : worker'[v].at \notin {"idle", "down"} => worker'[v].job \in Jobs
    BY <1>1, <1>3 DEF TypeOK
<1> QED BY <1>4, <1>5 DEF Rowset

\* Types are preserved by every action of a worker and of its surroundings.
LEMMA StepTypeOK == TypeOK /\ [Next]_vars => TypeOK'
<1> SUFFICES ASSUME TypeOK, [Next]_vars PROVE TypeOK'
    OBVIOUS
<1> USE JobsAssumption
        DEF TypeOK, Places, Working, Unfinished, Finished, IdleWorker, AtJob
<1>1. ASSUME NEW j \in Jobs, Enqueue(j) \/ ExpireLease(j) PROVE TypeOK'
    BY <1>1 DEF Enqueue, ExpireLease
<1>2. ASSUME NEW w \in Workers, SelectJob(w) PROVE TypeOK'
  <2>1. PICK j \in Jobs : worker' = [worker EXCEPT ![w] = AtJob("claiming", j)]
      BY <1>2 DEF SelectJob
  <2> QED BY <1>2, <2>1 DEF SelectJob
<1>3. ASSUME NEW w \in Workers, CommitClaim(w) PROVE TypeOK'
  <2> DEFINE row == [status |-> "running", lease |-> "held"]
  <2>1. /\ worker[w].job \in Jobs
        /\ job' = [job EXCEPT ![worker[w].job] = row]
        /\ worker' = [worker EXCEPT ![w].at = "handling"]
        /\ crashes' = crashes
      BY <1>3 DEF CommitClaim, At
  <2>2. job' \in [Jobs -> [status : Unfinished \cup Finished \cup {"absent"},
                           lease : {"none", "held", "expired"}]]
      BY <2>1
  <2> QED BY <2>1, <2>2, WorkerMoves
<1>4. ASSUME NEW w \in Workers, LoadOutcome(w) PROVE TypeOK'
    BY <1>4, WorkerMoves DEF LoadOutcome
<1>5. ASSUME NEW w \in Workers, CommitOutcome(w) \/ CommitOutcomeUnconfirmed(w)
      PROVE  TypeOK'
  <2>1. PICK j \in Jobs, status \in Unfinished \cup Finished \cup {"absent"} :
          job' = [job EXCEPT ![j].status = status]
    <3>1. worker[w].job \in Jobs /\ worker[w].at = "writing"
        BY <1>5 DEF CommitOutcome, CommitOutcomeUnconfirmed, WriteOutcome
    <3>2. PICK status \in Unfinished \cup Finished \cup {"absent"} :
            status = IF worker[w].seen = Outcome(worker[w].job)
                     THEN job[worker[w].job].status ELSE Outcome(worker[w].job)
        BY <3>1 DEF Outcome
    <3>3. job' = [job EXCEPT ![worker[w].job].status = status]
        BY <1>5, <3>2 DEF CommitOutcome, CommitOutcomeUnconfirmed, WriteOutcome
    <3> QED BY <3>1, <3>3
  <2>2. \/ worker' = [worker EXCEPT ![w] = IdleWorker]
        \/ worker' = [worker EXCEPT ![w].at = "failing"] /\ worker[w].at = "writing"
      BY <1>5 DEF CommitOutcome, CommitOutcomeUnconfirmed, WriteOutcome, At
  <2>3. crashes' = crashes
      BY <1>5 DEF CommitOutcome, CommitOutcomeUnconfirmed
  <2>4. job' \in [Jobs -> [status : Unfinished \cup Finished \cup {"absent"},
                           lease : {"none", "held", "expired"}]]
      BY <2>1
  <2>5. CASE worker' = [worker EXCEPT ![w] = IdleWorker]
      BY <2>3, <2>4, <2>5
  <2>6. CASE /\ worker' = [worker EXCEPT ![w].at = "failing"]
             /\ worker[w].at = "writing"
      BY <2>3, <2>4, <2>6, WorkerMoves
  <2> QED BY <2>2, <2>5, <2>6
<1>6. ASSUME NEW w \in Workers, LoadFailure(w) \/ CommitFailure(w) PROVE TypeOK'
  <2>1. CASE LoadFailure(w)
    <3>1. \/ worker' = [worker EXCEPT ![w] = IdleWorker]
          \/ worker' = [worker EXCEPT ![w].at = "marking"] /\ worker[w].at = "failing"
        BY <2>1 DEF LoadFailure, At
    <3> QED BY <2>1, <3>1 DEF LoadFailure
  <2>2. CASE CommitFailure(w)
      BY <2>2 DEF CommitFailure
  <2> QED BY <1>6, <2>1, <2>2
<1>7. ASSUME NEW w \in Workers, Raise(w) \/ Crash(w) \/ Restart(w) PROVE TypeOK'
  <2>1. CASE Raise(w)
      BY <2>1, WorkerMoves DEF Raise, At
  <2>2. CASE Crash(w)
      BY <2>2 DEF Crash
  <2>3. CASE Restart(w)
      BY <2>3 DEF Restart
  <2> QED BY <1>7, <2>1, <2>2, <2>3
<1>8. CASE UNCHANGED vars
    BY <1>8 DEF vars
<1> QED BY <1>1, <1>2, <1>3, <1>4, <1>5, <1>6, <1>7, <1>8 DEF Next, Proceed

\* The lock of a claim: nobody else locks, finishes or leases its job.
LEMMA StepClaimsLocked == TypeOK /\ ClaimsLocked /\ [Next]_vars => ClaimsLocked'
<1> SUFFICES ASSUME TypeOK, ClaimsLocked, [Next]_vars PROVE ClaimsLocked'
    OBVIOUS
<1> USE DEF TypeOK, ClaimsLocked, Claimable, Places, Working
<1>1. ASSUME NEW j \in Jobs, Enqueue(j) \/ ExpireLease(j) PROVE ClaimsLocked'
    BY <1>1 DEF Enqueue, ExpireLease, Unfinished
<1>2. ASSUME NEW w \in Workers, SelectJob(w) PROVE ClaimsLocked'
    BY <1>2 DEF SelectJob, Locked, IdleWorker, AtJob
<1>3. ASSUME NEW w \in Workers, CommitClaim(w) PROVE ClaimsLocked'
    BY <1>3 DEF CommitClaim, At
<1>4. ASSUME NEW w \in Workers, LoadOutcome(w) PROVE ClaimsLocked'
    BY <1>4 DEF LoadOutcome
<1>5. ASSUME NEW w \in Workers, CommitOutcome(w) \/ CommitOutcomeUnconfirmed(w)
      PROVE  ClaimsLocked'
  <2>1. ~Locked(worker[w].job) /\ worker[w].at = "writing"
      BY <1>5 DEF CommitOutcome, CommitOutcomeUnconfirmed, WriteOutcome
  <2>2. \A j \in Jobs : j # worker[w].job => job'[j] = job[j]
      BY <1>5 DEF CommitOutcome, CommitOutcomeUnconfirmed, WriteOutcome
  <2>3. \A v \in Workers \ {w} : worker'[v] = worker[v]
      BY <1>5 DEF CommitOutcome, CommitOutcomeUnconfirmed, At
  <2>4. worker'[w].at # "claiming"
      BY <1>5 DEF CommitOutcome, CommitOutcomeUnconfirmed, At, IdleWorker, AtJob
  <2> QED BY <2>1, <2>2, <2>3, <2>4 DEF Locked
<1>6. ASSUME NEW w \in Workers, LoadFailure(w) \/ CommitFailure(w) PROVE ClaimsLocked'
    BY <1>6 DEF LoadFailure, CommitFailure, At, Locked, IdleWorker, AtJob
<1>7. ASSUME NEW w \in Workers, Raise(w) \/ Crash(w) \/ Restart(w) PROVE ClaimsLocked'
    BY <1>7 DEF Raise, Crash, Restart, At, IdleWorker, AtJob
<1>8. CASE UNCHANGED vars
    BY <1>8 DEF vars
<1> QED BY <1>1, <1>2, <1>3, <1>4, <1>5, <1>6, <1>7, <1>8 DEF Next, Proceed

\* Rows and workers stay well formed: only a worker between jobs has none.
THEOREM TypeCorrect == Spec => []TypeOK
<1>1. Init => TypeOK
    BY InitClaimInv DEF ClaimInv
<1> QED BY <1>1, StepTypeOK, PTL DEF Spec

\* FOR UPDATE SKIP LOCKED: two workers never claim the same job together, and
\* a job being claimed stays claimable until the claim commits.
THEOREM ClaimsAreLocked == Spec => []ClaimsLocked
<1>1. Init => ClaimsLocked
    BY InitClaimInv DEF ClaimInv
<1> QED BY <1>1, StepClaimsLocked, TypeCorrect, PTL DEF Spec

\* A finished job is never claimed again, however late its workers are.
THEOREM NeverReclaimed == Spec => FinishedNotReclaimed
<1>1. TypeOK /\ ClaimsLocked /\ [Next]_vars =>
        [\A j \in Jobs : job[j].status \in Finished => job'[j].status \in Finished]_vars
  <2> SUFFICES ASSUME TypeOK, ClaimsLocked, Next, NEW j \in Jobs,
                      job[j].status \in Finished
               PROVE  job'[j].status \in Finished
      BY DEF vars
  <2> USE DEF TypeOK, Finished
  <2>1. ASSUME NEW i \in Jobs, Enqueue(i) \/ ExpireLease(i)
        PROVE  job'[j].status \in Finished
      BY <2>1 DEF Enqueue, ExpireLease
  <2>2. ASSUME NEW w \in Workers, CommitClaim(w) PROVE job'[j].status \in Finished
    <3>1. worker[w].job # j
        BY <2>2 DEF CommitClaim, ClaimsLocked, Claimable, Unfinished
    <3> QED BY <2>2, <3>1 DEF CommitClaim
  <2>3. ASSUME NEW w \in Workers, WriteOutcome(w) PROVE job'[j].status \in Finished
      BY <2>3 DEF WriteOutcome, Outcome
  <2>4. ASSUME NEW w \in Workers, CommitFailure(w) PROVE job'[j].status \in Finished
      BY <2>4 DEF CommitFailure
  <2>5. CASE UNCHANGED job
      BY <2>5
  <2> QED BY <2>1, <2>2, <2>3, <2>4, <2>5
          DEF Next, Proceed, SelectJob, LoadOutcome, CommitOutcome,
              CommitOutcomeUnconfirmed, LoadFailure, Raise, Crash, Restart
<1> QED BY <1>1, TypeCorrect, ClaimsAreLocked, PTL DEF Spec, FinishedNotReclaimed

-----------------------------------------------------------------------------
\* What OneWorkerPerJob and HoldsItsJob say of one job.
InOneHand(j) ==
    /\ \A v, w \in Workers : WorkingOn(v, j) /\ WorkingOn(w, j) => v = w
    /\ \A w \in Workers : WorkingOn(w, j) =>
          /\ job[j].lease = "held"
          /\ worker[w].at # "failing" => job[j].status = "running"
          /\ job[j].status \in {"running"} \cup Finished
          /\ worker[w].at = "writing" => worker[w].seen = "running"

\* A step that leaves a job and whoever works on it alone, and puts nobody new
\* on it, keeps it in one hand.
LEMMA LeftAlone ==
    ASSUME NEW j \in Jobs, InOneHand(j), job'[j] = job[j],
           \A w \in Workers : WorkingOn(w, j)' => worker'[w] = worker[w]
    PROVE  InOneHand(j)'
BY DEF InOneHand, WorkingOn

\* The writes of a worker at work on a job: the job stays with it, or with
\* nobody.
LEMMA WrittenByItsWorker ==
    ASSUME TypeOK, NEW j \in Jobs, InOneHand(j),
           NEW w \in Workers, WorkingOn(w, j),
           NEW status \in {"running"} \cup Finished,
           job' = [job EXCEPT ![j].status = status],
           \/ worker' = [worker EXCEPT ![w] = IdleWorker]
           \/ worker' = [worker EXCEPT ![w].at = "failing"]
    PROVE  InOneHand(j)'
<1>1. \A v \in Workers \ {w} : worker'[v] = worker[v] /\ ~WorkingOn(v, j)
    BY DEF InOneHand, TypeOK
<1>2. job'[j].lease = "held" /\ job'[j].status = status
    BY DEF InOneHand, TypeOK
<1>3. \/ ~WorkingOn(w, j)'
      \/ worker'[w].at = "failing"
    BY DEF WorkingOn, Working, IdleWorker, AtJob, TypeOK
<1>4. \A v \in Workers : WorkingOn(v, j)' => v = w /\ worker'[v].at = "failing"
    BY <1>1, <1>3 DEF WorkingOn
<1> QED BY <1>2, <1>4 DEF InOneHand

\* Each step keeps a job that is quicker than its lease in one hand.
LEMMA StepInOneHand ==
    ASSUME LeaseInv, Next, NEW j \in Quick
    PROVE  InOneHand(j)'
<1>0. j \in Jobs /\ InOneHand(j) /\ TypeOK /\ ClaimsLocked
    BY JobsAssumption DEF LeaseInv, OneWorkerPerJob, HoldsItsJob, InOneHand
<1> USE DEF TypeOK
<1>1. ASSUME NEW i \in Jobs, Enqueue(i) PROVE InOneHand(j)'
    BY <1>0, <1>1 DEF Enqueue, InOneHand, WorkingOn, Finished
<1>2. ASSUME NEW i \in Jobs, ExpireLease(i) PROVE InOneHand(j)'
  <2>1. \/ i = j /\ \A w \in Workers : ~WorkingOn(w, j)
        \/ i # j /\ job'[j] = job[j]
      BY <1>0, <1>2 DEF ExpireLease
  <2> QED BY <1>0, <1>2, <2>1, LeftAlone DEF ExpireLease, InOneHand, WorkingOn
<1>3. ASSUME NEW w \in Workers, SelectJob(w) PROVE InOneHand(j)'
  <2>1. job' = job /\ \A v \in Workers : WorkingOn(v, j)' => worker'[v] = worker[v]
      BY <1>0, <1>3 DEF SelectJob, WorkingOn, Working, AtJob
  <2> QED BY <1>0, <2>1, LeftAlone
<1>4. ASSUME NEW w \in Workers, CommitClaim(w) PROVE InOneHand(j)'
  <2>1. worker[w].job \in Jobs
      BY <1>4, <1>0 DEF CommitClaim
  <2>2. CASE worker[w].job = j
    <3>1. \A v \in Workers : ~WorkingOn(v, j)
        BY <1>0, <1>4, <2>2 DEF CommitClaim, ClaimsLocked, Claimable, InOneHand
    <3>2. job'[j] = [status |-> "running", lease |-> "held"]
        BY <1>0, <1>4, <2>2 DEF CommitClaim
    <3>3. \A v \in Workers : WorkingOn(v, j)' => v = w /\ worker'[v].at = "handling"
        BY <1>4, <3>1 DEF CommitClaim, At, WorkingOn
    <3> QED BY <3>2, <3>3 DEF InOneHand
  <2>3. CASE worker[w].job # j
    <3>1. job'[j] = job[j] /\ \A v \in Workers : WorkingOn(v, j)' => worker'[v] = worker[v]
        BY <1>0, <1>4, <2>1, <2>3 DEF CommitClaim, At, WorkingOn
    <3> QED BY <1>0, <3>1, LeftAlone
  <2> QED BY <2>2, <2>3
<1>5. ASSUME NEW w \in Workers, LoadOutcome(w) PROVE InOneHand(j)'
  <2>1. CASE worker[w].job = j
      BY <1>0, <1>5, <2>1 DEF LoadOutcome, InOneHand, WorkingOn, Working
  <2>2. CASE worker[w].job # j
    <3>1. job' = job /\ \A v \in Workers : WorkingOn(v, j)' => worker'[v] = worker[v]
        BY <1>0, <1>5, <2>2 DEF LoadOutcome, WorkingOn
    <3> QED BY <1>0, <3>1, LeftAlone
  <2> QED BY <2>1, <2>2
<1>6. ASSUME NEW w \in Workers, CommitOutcome(w) \/ CommitOutcomeUnconfirmed(w)
      PROVE  InOneHand(j)'
  <2> DEFINE i == worker[w].job
  <2>1. worker[w].at = "writing" /\ i \in Jobs
      BY <1>0, <1>6 DEF CommitOutcome, CommitOutcomeUnconfirmed, WriteOutcome
  <2>2. job' = [job EXCEPT ![i].status =
                  IF worker[w].seen = Outcome(i) THEN job[i].status ELSE Outcome(i)]
      BY <1>6 DEF CommitOutcome, CommitOutcomeUnconfirmed, WriteOutcome
  <2>3. \/ worker' = [worker EXCEPT ![w] = IdleWorker]
        \/ worker' = [worker EXCEPT ![w].at = "failing"]
      BY <1>6 DEF CommitOutcome, CommitOutcomeUnconfirmed, At
  <2> HIDE DEF i
  <2>4. CASE i = j
    <3>1. WorkingOn(w, j) /\ worker[w].seen = "running"
        BY <1>0, <2>1, <2>4 DEF WorkingOn, Working, InOneHand, i
    <3>2. Outcome(j) \in Finished /\ Outcome(j) # "running"
        BY DEF Outcome, Finished
    <3>3. job' = [job EXCEPT ![j].status = Outcome(j)]
        BY <2>2, <2>4, <3>1, <3>2
    <3> QED BY <1>0, <2>3, <3>1, <3>2, <3>3, WrittenByItsWorker
  <2>5. CASE i # j
    <3>1. job'[j] = job[j]
        BY <1>0, <2>1, <2>2, <2>5
    <3>2. \A v \in Workers : WorkingOn(v, j)' => worker'[v] = worker[v]
        BY <1>0, <2>1, <2>3, <2>5 DEF WorkingOn, Working, IdleWorker, AtJob, i
    <3> QED BY <1>0, <3>1, <3>2, LeftAlone
  <2> QED BY <2>4, <2>5
<1>7. ASSUME NEW w \in Workers, LoadFailure(w) PROVE InOneHand(j)'
  <2>1. job' = job
      BY <1>7 DEF LoadFailure
  <2>2. CASE worker' = [worker EXCEPT ![w] = IdleWorker]
    <3>1. \A v \in Workers : WorkingOn(v, j)' => worker'[v] = worker[v]
        BY <1>0, <2>2 DEF WorkingOn, Working, IdleWorker, AtJob
    <3> QED BY <1>0, <2>1, <3>1, LeftAlone
  <2>3. CASE /\ worker[w].at = "failing" /\ job[worker[w].job].status = "running"
             /\ worker' = [worker EXCEPT ![w].at = "marking"]
      BY <1>0, <2>1, <2>3 DEF InOneHand, WorkingOn, Working
  <2> QED BY <1>7, <2>2, <2>3 DEF LoadFailure, At
<1>8. ASSUME NEW w \in Workers, CommitFailure(w) PROVE InOneHand(j)'
  <2>1. worker[w].job \in Jobs /\ worker[w].at = "marking"
      BY <1>0, <1>8 DEF CommitFailure
  <2>2. CASE worker[w].job = j
      BY <1>0, <1>8, <2>1, <2>2, WrittenByItsWorker
         DEF CommitFailure, WorkingOn, Working, Finished
  <2>3. CASE worker[w].job # j
    <3>1. job'[j] = job[j] /\ \A v \in Workers : WorkingOn(v, j)' => worker'[v] = worker[v]
        BY <1>0, <1>8, <2>1, <2>3 DEF CommitFailure, WorkingOn, Working, IdleWorker, AtJob
    <3> QED BY <1>0, <3>1, LeftAlone
  <2> QED BY <2>2, <2>3
<1>9. ASSUME NEW w \in Workers, Raise(w) PROVE InOneHand(j)'
    BY <1>0, <1>9 DEF Raise, At, InOneHand, WorkingOn, Working
<1>10. ASSUME NEW w \in Workers, Crash(w) \/ Restart(w) PROVE InOneHand(j)'
  <2>1. job' = job /\ \A v \in Workers : WorkingOn(v, j)' => worker'[v] = worker[v]
      BY <1>0, <1>10 DEF Crash, Restart, WorkingOn, Working, IdleWorker, AtJob
  <2> QED BY <1>0, <2>1, LeftAlone
<1> QED BY <1>1, <1>2, <1>3, <1>4, <1>5, <1>6, <1>7, <1>8, <1>9, <1>10
        DEF Next, Proceed

\* Each step preserves the inductive invariant.
LEMMA StepLeaseInv == LeaseInv /\ [Next]_vars => LeaseInv'
<1> SUFFICES ASSUME LeaseInv, [Next]_vars PROVE LeaseInv'
    OBVIOUS
<1>1. TypeOK' /\ ClaimsLocked'
    BY StepTypeOK, StepClaimsLocked DEF LeaseInv
<1>2. CASE Next
  <2>1. \A j \in Quick : InOneHand(j)'
      BY <1>2, StepInOneHand
  <2> QED BY <1>1, <2>1 DEF LeaseInv, InOneHand, OneWorkerPerJob, HoldsItsJob
<1>3. CASE UNCHANGED vars
  <2>1. worker' = worker /\ job' = job
      BY <1>3 DEF vars
  <2>2. OneWorkerPerJob' /\ HoldsItsJob'
      BY <2>1 DEF LeaseInv, OneWorkerPerJob, HoldsItsJob, WorkingOn
  <2> QED BY <1>1, <2>2 DEF LeaseInv
<1> QED BY <1>2, <1>3

\* Claims stay locked, and a job quicker than its lease stays with the one
\* worker that claimed it.
THEOREM Invariance == Spec => []LeaseInv
<1>1. Init => LeaseInv
    BY InitClaimInv
<1> QED BY <1>1, StepLeaseInv, PTL DEF Spec

\* No two workers run the handler of a job that is quicker than its lease,
\* through any crashes and restarts.
THEOREM OneWorker == Spec => []OneWorkerPerJob
<1>1. LeaseInv => OneWorkerPerJob
    BY DEF LeaseInv
<1> QED BY <1>1, Invariance, PTL

\* The outcome of a job that is quicker than its lease is final.
THEOREM OutcomeIsFinal == Spec => OutcomeFinal
<1>2. LeaseInv /\ [Next]_vars =>
        [\A j \in Quick : job[j].status \in Finished => job'[j].status = job[j].status]_vars
  <2> SUFFICES ASSUME LeaseInv, Next, NEW j \in Quick, job[j].status \in Finished
               PROVE  job'[j].status = job[j].status
      BY DEF vars
  <2> USE JobsAssumption
          DEF LeaseInv, TypeOK, HoldsItsJob, WorkingOn, Working, Finished
  <2>1. ASSUME NEW i \in Jobs, Enqueue(i) \/ ExpireLease(i)
        PROVE  job'[j].status = job[j].status
      BY <2>1 DEF Enqueue, ExpireLease
  <2>2. ASSUME NEW w \in Workers, CommitClaim(w) PROVE job'[j].status = job[j].status
    <3>1. worker[w].job # j
        BY <2>2 DEF CommitClaim, ClaimsLocked, Claimable, Unfinished
    <3> QED BY <2>2, <3>1 DEF CommitClaim
  <2>3. ASSUME NEW w \in Workers, WriteOutcome(w) PROVE job'[j].status = job[j].status
      BY <2>3 DEF WriteOutcome
  <2>4. ASSUME NEW w \in Workers, CommitFailure(w) PROVE job'[j].status = job[j].status
      BY <2>4 DEF CommitFailure
  <2>5. CASE UNCHANGED job
      BY <2>5
  <2> QED BY <2>1, <2>2, <2>3, <2>4, <2>5
          DEF Next, Proceed, SelectJob, LoadOutcome, CommitOutcome,
              CommitOutcomeUnconfirmed, LoadFailure, Raise, Crash, Restart
<1> QED BY <1>2, Invariance, PTL DEF Spec, OutcomeFinal

=============================================================================
