---------------------------- MODULE ReportExports ----------------------------
(***************************************************************************)
(* The queue of report exports: report_export_jobs (supabase/sql/027-029),  *)
(* the worker loop of src/src/worker.js and the clean-up it runs.           *)
(*                                                                          *)
(* A job is claimed by one worker, loaded, its file stored in the bucket    *)
(* and the row completed.  An attempt that times out is given up, not       *)
(* stopped: it may still store the file and complete the row, whatever the  *)
(* row says by then.  A worker that dies leaves its job in processing: no   *)
(* code takes it up again.                                                  *)
(***************************************************************************)
EXTENDS Naturals, FiniteSets

CONSTANTS
    Job, Worker,
    MaxRetries,     \* max_retries of a job
    MaxTimeouts,    \* bound: attempts that time out
    NoJob

\* What the module asks of its constants; MCLive assumes it of those it gives.
ReportExportsAssumption ==
    MaxRetries \in Nat /\ MaxTimeouts \in Nat /\ NoJob \notin Job

VARIABLES
    jobs,       \* report_export_jobs
    stored,     \* jobs with a file in the bucket
    workers,    \* the worker processes
    abandoned,  \* attempts that timed out and still run
    sweeps,     \* jobs whose file and row the worker's clean-up deletes
    timeouts,
    attempts,   \* history: times a job was claimed
    late,       \* history: jobs with an attempt that timed out
    orphaned    \* history: jobs whose worker died or could not write the outcome

vars == <<jobs, stored, workers, abandoned, sweeps, timeouts, attempts, late, orphaned>>
history == <<timeouts, attempts, late, orphaned>>

Ended == {"completed", "failed"}
Status == Ended \cup {"absent", "pending", "processing", "deleted"}

\* file: result_path is set; old: past the retention of its status.
Row == [status : Status, retries : Nat, file : BOOLEAN, old : BOOLEAN]
NoRow == [status |-> "absent", retries |-> 0, file |-> FALSE, old |-> FALSE]

\* retries: retry_count as claimed.
WorkerState == [ pc : {"idle", "start", "load", "complete", "retry", "reject"},
                 job : Job \cup {NoJob}, retries : Nat ]
Idle == [pc |-> "idle", job |-> NoJob, retries |-> 0]

Goto(w, pc) == workers' = [workers EXCEPT ![w].pc = pc]
Write(j, row) == jobs' = [jobs EXCEPT ![j] = row]

Init ==
    /\ jobs = [j \in Job |-> NoRow]
    /\ stored = {}
    /\ workers = [w \in Worker |-> Idle]
    /\ abandoned = {}
    /\ sweeps = [w \in Worker |-> {}]
    /\ timeouts = 0
    /\ attempts = [j \in Job |-> 0]
    /\ late = {} /\ orphaned = {}
----------------------------------------------------------------------------
QueueReportExportJob(j) ==
    /\ jobs[j].status = "absent"
    /\ Write(j, [NoRow EXCEPT !.status = "pending"])
    /\ UNCHANGED <<stored, workers, abandoned, sweeps, history>>

\* Mutant: the claim does not ask for the status.
ClaimableAny == {j \in Job : jobs[j].status \in {"pending", "processing"}}

Claimable == {j \in Job : jobs[j].status = "pending"}

\* claim_report_export_job locks a pending row; its delay is over at some time.
ClaimNextReportExportJob(w) ==
    /\ workers[w].pc = "idle" /\ sweeps[w] = {}
    /\ \E j \in Claimable :
          /\ Write(j, [jobs[j] EXCEPT !.status = "processing"])
          /\ workers' = [workers EXCEPT ![w] =
                 [pc |-> "start", job |-> j, retries |-> jobs[j].retries]]
          /\ attempts' = [attempts EXCEPT ![j] = @ + 1]
    /\ UNCHANGED <<stored, abandoned, sweeps, timeouts, late, orphaned>>

\* processClaimedReportExportJob: the creator may have lost access.
StartReportExportJob(w) ==
    LET j == workers[w].job IN
    /\ workers[w].pc = "start"
    /\ \/ Goto(w, "reject") /\ UNCHANGED jobs
       \/ Goto(w, "load") /\ Write(j, [jobs[j] EXCEPT !.status = "processing"])
    /\ UNCHANGED <<stored, abandoned, sweeps, history>>

UploadReportArtifact(w) ==
    /\ workers[w].pc = "load"
    /\ stored' = stored \cup {workers[w].job}
    /\ Goto(w, "complete")
    /\ UNCHANGED <<jobs, abandoned, sweeps, history>>

CompleteReportExportJob(w) ==
    LET j == workers[w].job IN
    /\ workers[w].pc = "complete"
    /\ Write(j, [jobs[j] EXCEPT !.status = "completed", !.file = TRUE])
    /\ workers' = [workers EXCEPT ![w] = Idle]
    /\ UNCHANGED <<stored, abandoned, sweeps, history>>

\* The report, the quota, the upload or the update fails.
FailAttempt(w) ==
    /\ workers[w].pc \in {"load", "complete"}
    /\ Goto(w, "retry")
    /\ UNCHANGED <<jobs, stored, abandoned, sweeps, history>>

\* withTimeout gives the attempt up and lets it run.
TimeOutAttempt(w) ==
    LET j == workers[w].job IN
    /\ workers[w].pc \in {"load", "complete"} /\ timeouts < MaxTimeouts
    /\ timeouts' = timeouts + 1
    /\ abandoned' = abandoned \cup {[job |-> j, pc |-> workers[w].pc]}
    /\ late' = late \cup {j}
    /\ Goto(w, "retry")
    /\ UNCHANGED <<jobs, stored, sweeps, attempts, orphaned>>

\* Mutant: nothing is written when no retry is left.
AfterFailureSilent(w) ==
    IF workers[w].pc = "retry" /\ workers[w].retries < MaxRetries THEN "pending" ELSE "processing"

AfterFailure(w) ==
    IF workers[w].pc = "retry" /\ workers[w].retries < MaxRetries THEN "pending" ELSE "failed"

HandleJobProcessingFailure(w) ==
    LET j == workers[w].job IN
    /\ workers[w].pc \in {"retry", "reject"}
    /\ Write(j, [jobs[j] EXCEPT !.retries = workers[w].retries + 1, !.status = AfterFailure(w)])
    /\ workers' = [workers EXCEPT ![w] = Idle]
    /\ UNCHANGED <<stored, abandoned, sweeps, history>>

\* What is left of an attempt that was given up.
AbandonedAttempt(a) ==
    /\ abandoned' = abandoned \ {a}
    /\ UNCHANGED <<jobs, stored>>

AbandonedUpload(a) ==
    /\ a.pc = "load"
    /\ stored' = stored \cup {a.job}
    /\ abandoned' = (abandoned \ {a}) \cup {[a EXCEPT !.pc = "complete"]}
    /\ UNCHANGED jobs

AbandonedComplete(a) ==
    /\ a.pc = "complete"
    /\ abandoned' = abandoned \ {a}
    /\ Write(a.job, [jobs[a.job] EXCEPT !.status = "completed", !.file = TRUE])
    /\ UNCHANGED stored

\* The process stops, or the write of the failure fails and is only logged.
Die(w) ==
    /\ workers[w].pc # "idle"
    /\ orphaned' = orphaned \cup {workers[w].job}
    /\ workers' = [workers EXCEPT ![w] = Idle]
    /\ UNCHANGED <<jobs, stored, abandoned, sweeps, timeouts, attempts, late>>
----------------------------------------------------------------------------
(* runReportExportCleanupOnce, between two jobs of a worker.                *)

\* Days pass: no attempt at the job is running any more.
Age(j) ==
    /\ jobs[j].status \in Ended /\ ~jobs[j].old
    /\ \A w \in Worker : workers[w].job # j
    /\ \A a \in abandoned : a.job # j
    /\ Write(j, [jobs[j] EXCEPT !.old = TRUE])
    /\ UNCHANGED <<stored, workers, abandoned, sweeps, history>>

\* The bucket may refuse: the rows go all the same.
SweepArtifacts(w) ==
    LET old == {j \in Job : jobs[j].old /\ jobs[j].status \in Ended} IN
    /\ workers[w].pc = "idle" /\ sweeps[w] = {} /\ old # {}
    /\ sweeps' = [sweeps EXCEPT ![w] = old]
    /\ stored' \in {stored, stored \ {j \in old : jobs[j].file}}
    /\ UNCHANGED <<jobs, workers, abandoned, history>>

\* A delete that fails leaves the rows to the next clean-up.
DeleteReportExportJobs(w) ==
    /\ sweeps[w] # {}
    /\ jobs' \in {jobs, [j \in Job |->
                            IF j \in sweeps[w] THEN [jobs[j] EXCEPT !.status = "deleted"]
                            ELSE jobs[j]]}
    /\ sweeps' = [sweeps EXCEPT ![w] = {}]
    /\ UNCHANGED <<stored, workers, abandoned, history>>

Work(w) ==
    \/ ClaimNextReportExportJob(w) \/ StartReportExportJob(w) \/ UploadReportArtifact(w)
    \/ CompleteReportExportJob(w) \/ FailAttempt(w) \/ TimeOutAttempt(w)
    \/ HandleJobProcessingFailure(w) \/ DeleteReportExportJobs(w)

Next ==
    \/ \E j \in Job : QueueReportExportJob(j) \/ Age(j)
    \/ \E w \in Worker : Work(w) \/ Die(w) \/ SweepArtifacts(w)
    \/ \E a \in abandoned :
          /\ AbandonedAttempt(a) \/ AbandonedUpload(a) \/ AbandonedComplete(a)
          /\ UNCHANGED <<workers, sweeps, history>>

\* A worker asks for a job in every iteration, whatever clean-ups lie between.
Fairness == \A w \in Worker : WF_vars(Work(w)) /\ SF_vars(ClaimNextReportExportJob(w))

Spec == Init /\ [][Next]_vars /\ Fairness
----------------------------------------------------------------------------
(* Properties.                                                              *)

TypeOK ==
    /\ jobs \in [Job -> Row]
    /\ workers \in [Worker -> WorkerState]
    /\ stored \subseteq Job
    /\ abandoned \subseteq [job : Job, pc : {"load", "complete"}]

\* However attempts time out, a job is one worker's at a time, and it is tried once
\* more than it may be retried at most.
OneOwner ==
    \A j \in Job :
        /\ Cardinality({w \in Worker : workers[w].job = j}) <= 1
        /\ attempts[j] <= MaxRetries + 1

\* A completed job can be downloaded until the clean-up takes it.
CompletedIsStored ==
    \A j \in Job : jobs[j].status = "completed" /\ ~jobs[j].old => j \in stored

\* Unless an attempt timed out or a worker died, a job that ended was tried until it
\* succeeded or had no retries left, and only a completed one has a result.
SerialExport ==
    \A j \in Job \ (late \cup orphaned) : jobs[j].status \in Ended =>
        /\ jobs[j].file = (jobs[j].status = "completed")
        /\ attempts[j] = jobs[j].retries + (IF jobs[j].file THEN 1 ELSE 0)

\* A queued job ends, unless its worker died: nothing requeues a job in processing.
EveryExportEnds ==
    \A j \in Job : jobs[j].status = "pending" ~> jobs[j].status \in Ended \/ j \in orphaned
=============================================================================
