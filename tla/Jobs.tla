-------------------------------- MODULE Jobs --------------------------------
(***************************************************************************)
(* The maintenance passes and the row in which each job reports on itself  *)
(* (operations/maintenance.rs).  A pass may be started by a timer, by an   *)
(* operator or by a second machine while another one is still running: the *)
(* leader's advisory lock makes the second one stop or give up, and the    *)
(* row, written by both, has to end up describing the newest pass.  What a *)
(* batch does is the business of Conversation, Photos, Erasure and Otp;    *)
(* here a batch is the number of rows each of its operations processed.    *)
(***************************************************************************)
EXTENDS Naturals

CONSTANTS
  Procs,        \* maintenance processes
  MaxTime,      \* bound on the clock
  MaxRuns,      \* bound on the passes
  MaxBatches,   \* batches one pass may run
  JobBatchSize, \* rows one operation of a batch may process
  MaxLost       \* bound on the status writes that fail

ASSUME RunsAssumption == MaxRuns \in Nat

VARIABLES
  job,          \* "privacy", "matches", "photos" or "billing"
  clock,
  leader,       \* holder of the job's advisory lock, or Nobody
  proc,         \* what each process is doing
  job_row,      \* the row of maintenance_job_status
  runs,         \* ghost: what every pass was and did
  lost

jobVars == <<job, clock, leader, proc, job_row, runs, lost>>

Nobody == "nobody"
JobNames == {"matches", "photos", "privacy", "billing"}
NoRow == [run |-> 0, status |-> "none", started |-> 0, succeeded |-> 0,
          remaining |-> FALSE]
Off == [at |-> "off", run |-> 0, batches |-> 0, status |-> "running",
        remaining |-> FALSE]

Ended(p, status, remaining) ==
  proc' = [proc EXCEPT ![p].at = "finish", ![p].status = status,
                       ![p].remaining = remaining]

----------------------------------------------------------------------------
(* MaintenanceTracker.track: the pass takes its time of start, then writes *)
(* it; the write may be delayed past another pass's, or fail, which is     *)
(* only logged.                                                            *)
track(p) ==
  /\ proc[p].at = "off"
  /\ \E r \in 1..MaxRuns :
       /\ DOMAIN runs = 1..(r - 1)
       /\ proc' = [proc EXCEPT ![p] = [Off EXCEPT !.at = "start", !.run = r]]
       /\ runs' = [s \in 1..r |-> IF s < r THEN runs[s] ELSE
                    [started |-> clock, begun |-> FALSE, told |-> "no"]]
  /\ UNCHANGED <<job, clock, leader, job_row, lost>>

(* Mutant: a delayed start takes the row back from a newer pass.           *)
start_AnyTime(p, r) ==
  job_row' = [job_row EXCEPT !.run = r, !.status = "running",
                             !.started = runs[r].started, !.remaining = FALSE]

(* INSERT ... ON CONFLICT DO UPDATE ... WHERE started_at <= the new one.   *)
start(p, r) ==
  IF job_row.started <= runs[r].started
  THEN job_row' = [job_row EXCEPT !.run = r, !.status = "running",
                                  !.started = runs[r].started, !.remaining = FALSE]
  ELSE UNCHANGED job_row

record_start(p) ==
  /\ proc[p].at = "start"
  /\ start(p, proc[p].run)
  /\ proc' = [proc EXCEPT ![p].at = "work"]
  /\ runs' = [runs EXCEPT ![proc[p].run].begun = TRUE]
  /\ UNCHANGED <<job, clock, leader, lost>>

(* UPDATE ... WHERE job_name AND run_id: the row may be another pass's.    *)
finish(p, r) ==
  IF job_row.run = r
  THEN job_row' = [job_row EXCEPT !.status = proc[p].status,
                 !.remaining = proc[p].remaining,
                 !.succeeded = IF proc[p].status = "succeeded" THEN clock ELSE @]
  ELSE UNCHANGED job_row

record_finish(p) ==
  /\ proc[p].at = "finish"
  /\ finish(p, proc[p].run)
  /\ runs' = [runs EXCEPT ![proc[p].run].told = proc[p].status]
  /\ proc' = [proc EXCEPT ![p] = Off]
  /\ UNCHANGED <<job, clock, leader, lost>>

record_fails(p) ==
  /\ lost < MaxLost
  /\ proc[p].at \in {"start", "finish"}
  /\ lost' = lost + 1
  /\ proc' = [proc EXCEPT ![p] = IF proc[p].at = "finish" THEN Off
                                 ELSE [@ EXCEPT !.at = "work"]]
  /\ UNCHANGED <<job, clock, leader, job_row, runs>>

----------------------------------------------------------------------------
(* The work of each job.                                                   *)

(* Two of a batch's independent operations stand for all of them.          *)
Counts == [{1, 2} -> 0..JobBatchSize]

(* A batch is full when one of its operations reached the limit, whatever  *)
(* the others did.                                                         *)
is_full(counts) == \E o \in DOMAIN counts : counts[o] >= JobBatchSize

maximum(counts) == IF counts[1] > counts[2] THEN counts[1] ELSE counts[2]

More(p, full) == full /\ proc[p].batches + 1 < MaxBatches

(* matches: one session lock around all the batches; no lock, no pass.     *)
matches_lock(p) ==
  /\ job = "matches" /\ proc[p].at = "work"
  /\ \/ /\ leader = Nobody /\ leader' = p
        /\ proc' = [proc EXCEPT ![p].at = "batch"]
     \/ /\ leader # Nobody /\ Ended(p, "skipped", FALSE)
        /\ UNCHANGED leader
  /\ UNCHANGED <<job, clock, job_row, runs, lost>>

matches_batch(p, counts) ==
  LET full == is_full(counts)
  IN
  /\ job = "matches" /\ proc[p].at = "batch"
  /\ \/ /\ More(p, full)
        /\ proc' = [proc EXCEPT ![p].batches = @ + 1]
        /\ UNCHANGED leader
     \/ /\ ~More(p, full)
        /\ leader' = Nobody
        /\ Ended(p, "succeeded", full)
  /\ UNCHANGED <<job, clock, job_row, runs, lost>>

(* privacy: the lock is taken again for every batch, so a pass may find    *)
(* that another one leads; it has been skipped only if it did nothing.     *)
privacy_lock(p) ==
  /\ job = "privacy" /\ proc[p].at = "work"
  /\ \/ /\ leader = Nobody /\ leader' = p
        /\ proc' = [proc EXCEPT ![p].at = "batch"]
     \/ /\ leader # Nobody
        /\ IF proc[p].batches = 0 THEN Ended(p, "skipped", FALSE)
           ELSE Ended(p, "succeeded", TRUE)
        /\ UNCHANGED leader
  /\ UNCHANGED <<job, clock, job_row, runs, lost>>

privacy_batch(p, counts) ==
  LET full == maximum(counts) >= JobBatchSize
  IN
  /\ job = "privacy" /\ proc[p].at = "batch"
  /\ leader' = Nobody
  /\ \/ /\ More(p, full)
        /\ proc' = [proc EXCEPT ![p].at = "work", ![p].batches = @ + 1]
     \/ ~More(p, full) /\ Ended(p, "succeeded", full)
  /\ UNCHANGED <<job, clock, job_row, runs, lost>>

(* photos: batches without a leader, each claiming its own rows.           *)
photos_batch(p, counts) ==
  LET full == maximum(counts) >= JobBatchSize
  IN
  /\ job = "photos" /\ proc[p].at = "work"
  /\ \/ More(p, full) /\ proc' = [proc EXCEPT ![p].batches = @ + 1]
     \/ ~More(p, full) /\ Ended(p, "succeeded", full)
  /\ UNCHANGED <<job, clock, leader, job_row, runs, lost>>

(* billing: one statement schedules the reconciliations that are due.      *)
billing_schedule(p, counts) ==
  LET full == counts[1] = JobBatchSize
  IN
  /\ job = "billing" /\ proc[p].at = "work"
  /\ Ended(p, "succeeded", full)
  /\ UNCHANGED <<job, clock, leader, job_row, runs, lost>>

(* A statement fails: the lock is given up and the pass reports a failure. *)
work_fails(p) ==
  /\ proc[p].at \in {"work", "batch"}
  /\ Ended(p, "failed", TRUE)
  /\ leader' = IF leader = p THEN Nobody ELSE leader
  /\ UNCHANGED <<job, clock, job_row, runs, lost>>

(* The process dies: PostgreSQL frees its lock, the row stays as it is.    *)
process_dies(p) ==
  /\ proc[p].at # "off"
  /\ proc' = [proc EXCEPT ![p] = Off]
  /\ leader' = IF leader = p THEN Nobody ELSE leader
  /\ UNCHANGED <<job, clock, job_row, runs, lost>>

tick ==
  /\ clock < MaxTime
  /\ clock' = clock + 1
  /\ UNCHANGED <<job, leader, proc, job_row, runs, lost>>

----------------------------------------------------------------------------
JobInit ==
  /\ job \in JobNames
  /\ clock = 1
  /\ leader = Nobody
  /\ proc = [p \in Procs |-> Off]
  /\ job_row = NoRow
  /\ runs = [r \in {} |-> 0]
  /\ lost = 0

JobNext ==
  \/ \E p \in Procs :
       \/ track(p) \/ record_start(p) \/ record_finish(p) \/ record_fails(p)
       \/ matches_lock(p) \/ privacy_lock(p) \/ work_fails(p) \/ process_dies(p)
       \/ \E counts \in Counts : \/ matches_batch(p, counts)
                                 \/ privacy_batch(p, counts)
                                 \/ photos_batch(p, counts)
                                 \/ billing_schedule(p, counts)
  \/ tick

JobSpec == JobInit /\ [][JobNext]_jobVars
----------------------------------------------------------------------------
(* When no pass is running, the row describes a pass that no recorded pass *)
(* started after, and says of it what it reported, or that it is running   *)
(* if its end was never recorded: neither a delayed start nor the late end *)
(* of an older pass shows through.                                         *)
Recorded == {r \in DOMAIN runs : runs[r].begun}

NewestRunShown ==
  (Recorded # {} /\ \A p \in Procs : proc[p].at = "off") =>
    /\ job_row.run \in Recorded
    /\ \A r \in Recorded : runs[r].started <= runs[job_row.run].started
    /\ job_row.status = IF runs[job_row.run].told = "no" THEN "running"
                        ELSE runs[job_row.run].told
============================================================================
