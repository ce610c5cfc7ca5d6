----------------------------- MODULE ExportJobs -----------------------------
(***************************************************************************)
(* The study export jobs of app/main.py and the files app/exporter.py      *)
(* builds for them.                                                        *)
(*                                                                         *)
(* A prepare request freezes its inputs on a worker thread and only then   *)
(* registers a job; the job is a task that builds the bundle on another    *)
(* thread.  Status, cancel, download and expiry act on the job meanwhile,  *)
(* each of them without an await; a download holds a lease until its       *)
(* response is over.  A job is named by the number of its request; its     *)
(* files are a snapshot, which the build consumes, and a bundle, which it  *)
(* creates first.  Jobs are in memory only: a restart of the process, and  *)
(* the files it leaves, are not modelled.                                  *)
(***************************************************************************)
EXTENDS Integers, FiniteSets

CONSTANTS
    Jobs,        \* numbers of the requests that start a job: 1 .. N
    TTL,         \* EXPORT_JOB_TTL_S
    MaxTime,     \* bound: the wall clock
    MaxServing,  \* bound: downloads of a job under way
    MaxRefused,  \* bound: ranges refused per job
    MaxFaults    \* bound: preparations and builds that fail

ASSUME ConstantsOK ==
    /\ {TTL, MaxTime, MaxServing, MaxRefused, MaxFaults} \subseteq Nat
    /\ TTL > 0 /\ Jobs \subseteq Nat \ {0}

VARIABLES
    now,       \* time.time()
    asked,     \* scope of every request made, "none" before it
    jobs,      \* _export_jobs
    worker,    \* _build_export_job of each job
    files,     \* DATA_DIR/exports
    serving,   \* responses under way per job
    refused,   \* history: ranges refused after the lease was taken
    unopened,  \* history: jobs whose bundle could not be created
    faults

vars == <<now, asked, jobs, worker, files, serving, refused, unopened, faults>>

Scopes    == {"audit", "full", "archive"}
Underway  == {"queued", "preparing"}
Over      == {"cancelled", "expired", "error"}
NoJob     == [status |-> "none"]

Job == [scope : Scopes, status : Underway \cup Over \cup {"ready"},
        cancel : BOOLEAN, path : BOOLEAN, leases : Nat, anchor : Nat]

Snapshot(j) == <<"snapshot", j>>
Bundle(j)   == <<"bundle", j>>

Registered == {j \in Jobs : jobs[j] # NoJob}

Init ==
    /\ now = 0
    /\ asked = [j \in Jobs |-> "none"]
    /\ jobs = [j \in Jobs |-> NoJob]
    /\ worker = [j \in Jobs |-> "none"]
    /\ files = {}
    /\ serving = [j \in Jobs |-> 0]
    /\ refused = [j \in Jobs |-> 0]
    /\ unopened = {}
    /\ faults = 0

-----------------------------------------------------------------------------
(***************************************************************************)
(* Expiry                                                                  *)
(***************************************************************************)

\* A job past its time to live that is not being built; anchor is the time it
\* became ready, or was created.
Due(job) == job # NoJob /\ job.status \notin Underway /\ now - job.anchor >= TTL

\* Its file goes too, unless a response still reads it.
Sweepable(job) == Due(job) /\ job.leases = 0

\* _expire_export_jobs.
Swept ==
    [j \in Jobs |->
        IF Sweepable(jobs[j]) THEN [jobs[j] EXCEPT !.status = "expired", !.path = FALSE]
        ELSE IF Due(jobs[j]) THEN [jobs[j] EXCEPT !.status = "expired"]
        ELSE jobs[j]]

SweptFiles == {Bundle(j) : j \in {j \in Jobs : Sweepable(jobs[j]) /\ jobs[j].path}}

-----------------------------------------------------------------------------
(***************************************************************************)
(* Preparation                                                             *)
(***************************************************************************)

\* _active_full_job.
ActiveFull == {j \in Registered : jobs[j].scope = "full" /\ jobs[j].status \in Underway}

\* prepare_study_export up to its thread.  A full export that is under way is
\* answered with, and no job is started.
Prepare(j, scope) ==
    /\ asked[j] = "none" /\ \A i \in Jobs : i < j => asked[i] # "none"
    /\ jobs' = Swept /\ files' = files \ SweptFiles
    /\ IF scope = "full" /\ ActiveFull # {} THEN UNCHANGED asked
       ELSE asked' = [asked EXCEPT ![j] = scope]
    /\ UNCHANGED <<now, worker, serving, refused, unopened, faults>>

\* The inputs are frozen (_prepare_inputs), the job is registered and its task
\* created.
Register(j) ==
    /\ asked[j] \in Scopes /\ jobs[j] = NoJob
    /\ jobs' = [jobs EXCEPT ![j] = [scope |-> asked[j], status |-> "queued",
                   cancel |-> FALSE, path |-> FALSE, leases |-> 0, anchor |-> now]]
    /\ worker' = [worker EXCEPT ![j] = "queued"]
    /\ files' = files \cup {Snapshot(j)}
    /\ UNCHANGED <<now, asked, serving, refused, unopened, faults>>

\* The inputs cannot be frozen; what there is of the snapshot is removed.
PrepareFails(j) ==
    /\ asked[j] \in Scopes /\ jobs[j] = NoJob
    /\ faults < MaxFaults /\ faults' = faults + 1
    /\ asked' = [asked EXCEPT ![j] = "failed"]
    /\ UNCHANGED <<now, jobs, worker, files, serving, refused, unopened>>

-----------------------------------------------------------------------------
(***************************************************************************)
(* The build                                                               *)
(***************************************************************************)

\* The task starts: whatever became of the job since, it is "preparing" now.
BuildStarts(j) ==
    /\ worker[j] = "queued"
    /\ jobs' = [jobs EXCEPT ![j].status = "preparing"]
    /\ worker' = [worker EXCEPT ![j] = "opening"]
    /\ UNCHANGED <<now, asked, files, serving, refused, unopened, faults>>

\* build_study_bundle creates the file of the bundle (mkdir, mkstemp).
BundleCreated(j) ==
    /\ worker[j] = "opening"
    /\ worker' = [worker EXCEPT ![j] = "building"]
    /\ files' = files \cup {Bundle(j)}
    /\ UNCHANGED <<now, asked, jobs, serving, refused, unopened, faults>>

\* The file cannot be created.  This is before the try whose cleanup removes
\* the snapshot, and the task does not remove it either: it stays on the disk.
BundleRefused(j) ==
    /\ worker[j] = "opening"
    /\ faults < MaxFaults /\ faults' = faults + 1
    /\ worker' = [worker EXCEPT ![j] = "failed"]
    /\ unopened' = unopened \cup {j}
    /\ UNCHANGED <<now, asked, jobs, files, serving, refused>>

\* From there it returns, or raises and removes the bundle; the snapshot goes
\* in any case.
Built(j) ==
    /\ worker[j] = "building"
    /\ worker' = [worker EXCEPT ![j] = "built"]
    /\ files' = files \ {Snapshot(j)}
    /\ UNCHANGED <<now, asked, jobs, serving, refused, unopened, faults>>

Stopped(j) ==
    /\ worker[j] = "building" /\ jobs[j].cancel
    /\ worker' = [worker EXCEPT ![j] = "stopped"]
    /\ files' = files \ {Snapshot(j), Bundle(j)}
    /\ UNCHANGED <<now, asked, jobs, serving, refused, unopened, faults>>

BuildFails(j) ==
    /\ worker[j] = "building"
    /\ faults < MaxFaults /\ faults' = faults + 1
    /\ worker' = [worker EXCEPT ![j] = "failed"]
    /\ files' = files \ {Snapshot(j), Bundle(j)}
    /\ UNCHANGED <<now, asked, jobs, serving, refused, unopened>>

\* A bundle finished for a job that was cancelled after the build's last check.
Unwanted(j) == worker[j] = "built" /\ jobs[j].cancel

\* Mutant: a failed build is reported to the status panel only.
ConcludedUnlessFailed(j) ==
    CASE worker[j] = "failed" -> jobs[j]
      [] worker[j] = "stopped" \/ Unwanted(j) -> [jobs[j] EXCEPT !.status = "cancelled"]
      [] OTHER -> [jobs[j] EXCEPT !.status = "ready", !.path = TRUE, !.anchor = now]

\* Mutant: nobody looks for a cancellation that came after the last check.
ConcludedUnchecked(j) ==
    CASE worker[j] = "failed"  -> [jobs[j] EXCEPT !.status = "error"]
      [] worker[j] = "stopped" -> [jobs[j] EXCEPT !.status = "cancelled"]
      [] OTHER -> [jobs[j] EXCEPT !.status = "ready", !.path = TRUE, !.anchor = now]

\* What the task makes of its job when the build is over.
Concluded(j) ==
    CASE worker[j] = "failed" -> [jobs[j] EXCEPT !.status = "error"]
      [] worker[j] = "stopped" \/ Unwanted(j) -> [jobs[j] EXCEPT !.status = "cancelled"]
      [] OTHER -> [jobs[j] EXCEPT !.status = "ready", !.path = TRUE, !.anchor = now]

\* Mutant: the bundle of a job cancelled at the last moment is left behind.
LeftoversKept(j) == {}

\* A bundle that was built for a cancelled job is removed.
Leftovers(j) == IF Unwanted(j) THEN {Bundle(j)} ELSE {}

\* The task resumes and concludes.
BuildReturns(j) ==
    /\ worker[j] \in {"built", "stopped", "failed"}
    /\ jobs' = [jobs EXCEPT ![j] = Concluded(j)]
    /\ files' = files \ Leftovers(j)
    /\ worker' = [worker EXCEPT ![j] = "none"]
    /\ UNCHANGED <<now, asked, serving, refused, unopened, faults>>

-----------------------------------------------------------------------------
(***************************************************************************)
(* Requests about a job                                                    *)
(***************************************************************************)

\* study_export_status: expiry, and a ready job whose file is gone is an error.
StatusAsked(j) ==
    /\ j \in Registered
    /\ files' = files \ SweptFiles
    /\ jobs' = IF Swept[j].status = "ready" /\ Bundle(j) \notin files
               THEN [Swept EXCEPT ![j].status = "error"] ELSE Swept
    /\ UNCHANGED <<now, asked, worker, serving, refused, unopened, faults>>

\* cancel_study_export.
Cancel(j) ==
    /\ j \in Registered
    /\ IF jobs[j].status \in Underway
       THEN /\ jobs' = [jobs EXCEPT ![j] = [@ EXCEPT !.cancel = TRUE, !.status = "cancelled"]]
            /\ UNCHANGED files
       ELSE IF jobs[j].status = "ready" /\ jobs[j].leases = 0
       THEN /\ jobs' = [jobs EXCEPT ![j] = [@ EXCEPT !.cancel = TRUE,
                                    !.status = "cancelled", !.path = FALSE]]
            /\ files' = files \ {Bundle(j)}
       ELSE /\ jobs' = [jobs EXCEPT ![j].cancel = TRUE]
            /\ UNCHANGED files
    /\ UNCHANGED <<now, asked, worker, serving, refused, unopened, faults>>

\* download_study_export: the lease is taken before the range is looked at, and
\* a range that cannot be served raises past the task that would return it.
Download(j, satisfiable) ==
    /\ j \in Registered
    /\ Swept[j].status = "ready" /\ Bundle(j) \in files \ SweptFiles
    /\ jobs' = [Swept EXCEPT ![j].leases = @ + 1]
    /\ files' = files \ SweptFiles
    /\ IF satisfiable
       THEN /\ serving[j] < MaxServing
            /\ serving' = [serving EXCEPT ![j] = @ + 1]
            /\ UNCHANGED refused
       ELSE /\ refused[j] < MaxRefused
            /\ refused' = [refused EXCEPT ![j] = @ + 1]
            /\ UNCHANGED serving
    /\ UNCHANGED <<now, asked, worker, unopened, faults>>

\* Mutant: a response that ends while others are under way keeps its lease.
LeasesLeftShared(job) == IF job.leases > 1 THEN job.leases ELSE 0

LeasesLeft(job) == IF job.leases > 0 THEN job.leases - 1 ELSE 0

\* _release_export_lease: the response is over; the last one of a job that is
\* over removes the file.
Release(j) ==
    LET left == LeasesLeft(jobs[j])
        last == left = 0 /\ jobs[j].status \in Over IN
    /\ serving[j] > 0
    /\ serving' = [serving EXCEPT ![j] = @ - 1]
    /\ jobs' = [jobs EXCEPT ![j].leases = left, ![j].path = @ /\ ~last]
    /\ files' = IF last /\ jobs[j].path THEN files \ {Bundle(j)} ELSE files
    /\ UNCHANGED <<now, asked, worker, refused, unopened, faults>>

Tick ==
    /\ now < MaxTime
    /\ now' = now + 1
    /\ UNCHANGED <<asked, jobs, worker, files, serving, refused, unopened, faults>>

\* A step of the build's worker thread.
Build(j) == BundleCreated(j) \/ BundleRefused(j) \/ Built(j) \/ Stopped(j) \/ BuildFails(j)

Next ==
    \/ \E j \in Jobs, scope \in Scopes : Prepare(j, scope)
    \/ \E j \in Jobs :
          \/ Register(j) \/ PrepareFails(j)
          \/ BuildStarts(j) \/ BundleCreated(j) \/ BundleRefused(j)
          \/ Built(j) \/ Stopped(j) \/ BuildFails(j) \/ BuildReturns(j)
          \/ StatusAsked(j) \/ Cancel(j) \/ Release(j)
          \/ \E satisfiable \in BOOLEAN : Download(j, satisfiable)
    \/ Tick

\* The event loop runs every task and the worker threads come to an end.
Fairness == \A j \in Jobs : WF_vars(BuildStarts(j)) /\ WF_vars(Build(j)) /\ WF_vars(BuildReturns(j))

Spec == Init /\ [][Next]_vars /\ Fairness

-----------------------------------------------------------------------------
(***************************************************************************)
(* Properties                                                              *)
(***************************************************************************)

\* Types; the leases of a job are its responses under way and the refused
\* ranges, whose leases nobody returns.
TypeOK ==
    /\ now \in 0 .. MaxTime
    /\ asked \in [Jobs -> Scopes \cup {"none", "failed"}]
    /\ worker \in [Jobs -> {"none", "queued", "opening", "building", "built", "stopped", "failed"}]
    /\ files \subseteq {Snapshot(j) : j \in Jobs} \cup {Bundle(j) : j \in Jobs}
    /\ unopened \subseteq Jobs
    /\ \A j \in Registered :
          jobs[j] \in Job /\ jobs[j].leases = serving[j] + refused[j]
    /\ \A j \in Jobs \ Registered : worker[j] = "none" /\ serving[j] = 0

\* No file is deleted while a response reads it or a build needs it, and none is
\* left behind but the snapshot of a build that could not create its bundle,
\* whatever expires, is cancelled or ends meanwhile.  Any other snapshot belongs
\* to a build that will consume it, a bundle to one that is building it or to a
\* job that names it, and a job that names its bundle can still expire or be
\* cancelled.
FilesAreOwned ==
    \A j \in Jobs :
        /\ Snapshot(j) \in files <=>
               worker[j] \in {"queued", "opening", "building"} \/ j \in unopened
        /\ Bundle(j) \in files <=>
               \/ worker[j] \in {"building", "built"}
               \/ j \in Registered /\ jobs[j].path
        /\ j \in Registered /\ jobs[j].path =>
               jobs[j].status = "ready" \/ (jobs[j].status = "expired" /\ jobs[j].leases > 0)
        /\ serving[j] > 0 => Bundle(j) \in files

\* A job whose cancellation was requested before it was ready is never served:
\* the task cannot bring it back, however late in the build the request came.
CancelIsHonoured ==
    [][\A j \in Registered :
           jobs[j].cancel /\ jobs[j].status # "ready" => jobs'[j].status # "ready"]_vars

\* Every job comes to an end: none is left queued or preparing.
JobsFinish ==
    \A j \in Jobs : jobs[j].status \in Underway ~> jobs[j].status \notin Underway

\* One full job at a time: a second full prepare returns the active full job.
OneFullJob == Cardinality(ActiveFull) <= 1

\* Not kept: a snapshot outlives its build when the bundle's file cannot be
\* created (exporter.py:357-366; README, Known departures).
NoSnapshotIsLeft == \A j \in Jobs : Snapshot(j) \in files /\ j \in Registered => worker[j] # "none"
=============================================================================
