-------------------------- MODULE ExportJobsProofs --------------------------
(***************************************************************************)
(* Proofs about ExportJobs, for any number of requests, downloads, refused *)
(* ranges and failures.                                                    *)
(*                                                                         *)
(* No action relates two jobs but expiry, which treats each on its own, so *)
(* the inductive invariant is a condition on one job, its task, its leases *)
(* and its two files.  Beyond the properties it says that a job whose task *)
(* has not concluded is not ready, names no bundle and has no lease: that  *)
(* is why neither expiry nor a release can take a bundle from a build.     *)
(***************************************************************************)
EXTENDS ExportJobs, TLAPS

Workers == {"none", "queued", "opening", "building", "built", "stopped", "failed"}

\* A job, its task, its responses under way, its refused ranges, and whether
\* its snapshot and its bundle exist; u if its bundle could not be created,
\* which also says that the task is past the build.
Consistent(job, w, s, r, u, snap, bun) ==
    /\ job \in Job \cup {NoJob} /\ w \in Workers /\ s \in Nat /\ r \in Nat
    /\ job = NoJob => w = "none" /\ s = 0 /\ r = 0 /\ u = FALSE
    /\ u => w \in {"none", "failed"}
    /\ job # NoJob => job.leases = s + r
    /\ w # "none" => job.path = FALSE /\ job.leases = 0 /\ job.status # "ready"
    /\ snap <=> w \in {"queued", "opening", "building"} \/ u
    /\ bun <=> w \in {"building", "built"} \/ (job # NoJob /\ job.path)
    /\ job # NoJob /\ job.path =>
           job.status = "ready" \/ (job.status = "expired" /\ job.leases > 0)
    /\ s > 0 => bun

ConsistentAt(j) ==
    Consistent(jobs[j], worker[j], serving[j], refused[j], j \in unopened,
               Snapshot(j) \in files, Bundle(j) \in files)

Shape ==
    /\ now \in 0 .. MaxTime
    /\ asked \in [Jobs -> Scopes \cup {"none", "failed"}]
    /\ jobs \in [Jobs -> Job \cup {NoJob}] /\ worker \in [Jobs -> Workers]
    /\ serving \in [Jobs -> Nat] /\ refused \in [Jobs -> Nat]
    /\ files \subseteq {Snapshot(j) : j \in Jobs} \cup {Bundle(j) : j \in Jobs}
    /\ unopened \subseteq Jobs

IInv == Shape /\ \A j \in Jobs : ConsistentAt(j)

-----------------------------------------------------------------------------

\* Files are told apart by their job and their kind.
LEMMA FilesDiffer ==
    ASSUME NEW i \in Jobs, NEW j \in Jobs
    PROVE  /\ Snapshot(i) # Bundle(j)
           /\ Snapshot(i) = Snapshot(j) <=> i = j
           /\ Bundle(i) = Bundle(j) <=> i = j
  BY DEF Snapshot, Bundle

\* Expiry keeps every job as it is, marks it, or takes its bundle too.
LEMMA SweptJob ==
    ASSUME Shape, NEW j \in Jobs
    PROVE  /\ Swept[j] = IF Sweepable(jobs[j])
                         THEN [jobs[j] EXCEPT !.status = "expired", !.path = FALSE]
                         ELSE IF Due(jobs[j]) THEN [jobs[j] EXCEPT !.status = "expired"]
                         ELSE jobs[j]
           /\ Bundle(j) \in files \ SweptFiles <=>
                  Bundle(j) \in files /\ ~(Sweepable(jobs[j]) /\ jobs[j].path)
           /\ Snapshot(j) \in files \ SweptFiles <=> Snapshot(j) \in files
  BY FilesDiffer DEF Swept, SweptFiles

\* So a job and its files stay consistent through an expiry.
LEMMA SweepKeeps ==
    ASSUME IInv, NEW j \in Jobs
    PROVE  /\ Consistent(Swept[j], worker[j], serving[j], refused[j], j \in unopened,
                         Snapshot(j) \in files \ SweptFiles,
                         Bundle(j) \in files \ SweptFiles)
           /\ Swept[j] = NoJob <=> jobs[j] = NoJob
           /\ Swept[j].leases = jobs[j].leases
           /\ Swept[j].status = "ready" =>
                  /\ Swept[j] = jobs[j] /\ worker[j] = "none"
                  /\ Bundle(j) \in files \ SweptFiles <=> Bundle(j) \in files
  <1>1. ConsistentAt(j) /\ jobs[j] \in Job \cup {NoJob}
    BY DEF IInv, Shape
  <1>2. CASE jobs[j] = NoJob
    <2>1. ~Due(jobs[j]) /\ ~Sweepable(jobs[j])
      BY <1>2 DEF Due, Sweepable
    <2> QED BY <1>1, <1>2, <2>1, SweptJob DEF IInv, ConsistentAt, Consistent, NoJob
  <1>3. CASE jobs[j] \in Job /\ Due(jobs[j])
    <2>1. jobs[j].status # "ready" \/ jobs[j].leases > 0 \/ Sweepable(jobs[j])
      BY <1>3 DEF Sweepable, Job
    <2>2. worker[j] # "none" => ~jobs[j].path
      BY <1>1, <1>3 DEF ConsistentAt, Consistent, NoJob, Job
    <2>3. /\ Swept[j] \in Job /\ Swept[j].leases = jobs[j].leases
          /\ Swept[j].status = "expired"
          /\ Swept[j].path = (jobs[j].path /\ ~Sweepable(jobs[j]))
      BY <1>3, SweptJob DEF IInv, Job, Scopes, Underway, Over
    <2>4. Swept[j].path => Swept[j].leases > 0
      BY <1>3, <2>3 DEF Sweepable, Job
    <2>5. Swept[j] # NoJob /\ jobs[j] # NoJob
      BY <1>3, <2>3 DEF NoJob, Job, Over, Underway
    <2>6. /\ Bundle(j) \in files \ SweptFiles <=>
                  Bundle(j) \in files /\ ~(Sweepable(jobs[j]) /\ jobs[j].path)
          /\ Snapshot(j) \in files \ SweptFiles <=> Snapshot(j) \in files
      BY SweptJob DEF IInv
    <2>7. /\ Bundle(j) \in files <=> worker[j] \in {"building", "built"} \/ jobs[j].path
          /\ serving[j] > 0 => Bundle(j) \in files
          /\ jobs[j].leases = serving[j] + refused[j]
          /\ serving[j] \in Nat /\ refused[j] \in Nat
      BY <1>1, <2>5 DEF ConsistentAt, Consistent
    <2>8. Bundle(j) \in files \ SweptFiles <=>
              worker[j] \in {"building", "built"} \/ Swept[j].path
      BY <2>2, <2>3, <2>6, <2>7
    <2>9. serving[j] > 0 => ~Sweepable(jobs[j])
      BY <2>7 DEF Sweepable
    <2>10. serving[j] > 0 => Bundle(j) \in files \ SweptFiles
      BY <2>6, <2>7, <2>9
    <2>11. Consistent(Swept[j], worker[j], serving[j], refused[j], j \in unopened,
                     Snapshot(j) \in files \ SweptFiles,
                     Bundle(j) \in files \ SweptFiles)
      BY <1>1, <1>3, <2>2, <2>3, <2>4, <2>8, <2>10, <2>5, SweptJob
         DEF IInv, ConsistentAt, Consistent
    <2> QED BY <2>3, <2>5, <2>11
  <1>4. CASE jobs[j] \in Job /\ ~Due(jobs[j])
    <2>1. ~Sweepable(jobs[j])
      BY <1>4 DEF Sweepable
    <2> QED BY <1>1, <1>4, <2>1, SweptJob DEF IInv, ConsistentAt, Consistent, Job, NoJob
  <1> QED BY <1>1, <1>2, <1>3, <1>4

LEMMA SweptShape ==
    ASSUME IInv
    PROVE  /\ Swept \in [Jobs -> Job \cup {NoJob}]
           /\ files \ SweptFiles \subseteq
                  {Snapshot(j) : j \in Jobs} \cup {Bundle(j) : j \in Jobs}
  <1>1. \A j \in Jobs : Swept[j] \in Job \cup {NoJob}
    BY SweepKeeps DEF Consistent
  <1>2. DOMAIN Swept = Jobs /\ Swept = [j \in Jobs |-> Swept[j]]
    BY DEF Swept
  <1>3. files \subseteq {Snapshot(j) : j \in Jobs} \cup {Bundle(j) : j \in Jobs}
    BY DEF IInv, Shape
  <1> QED BY <1>1, <1>2, <1>3

-----------------------------------------------------------------------------

\* A job that no part of changes stays consistent.
LEMMA Untouched ==
    ASSUME NEW i \in Jobs, ConsistentAt(i),
           jobs'[i] = jobs[i], worker'[i] = worker[i],
           serving'[i] = serving[i], refused'[i] = refused[i],
           i \in unopened' <=> i \in unopened,
           Snapshot(i) \in files' <=> Snapshot(i) \in files,
           Bundle(i) \in files' <=> Bundle(i) \in files
    PROVE  ConsistentAt(i)'
  BY DEF ConsistentAt, Consistent, Snapshot, Bundle

LEMMA InitIInv == Init => IInv
  BY ConstantsOK DEF Init, IInv, Shape, ConsistentAt, Consistent, Workers, NoJob

LEMMA PrepareKeeps ==
    ASSUME IInv, NEW j \in Jobs, NEW scope \in Scopes, Prepare(j, scope)
    PROVE  IInv'
  <1>1. Shape'
    BY SweptShape DEF Prepare, IInv, Shape
  <1>2. ASSUME NEW i \in Jobs PROVE ConsistentAt(i)'
    BY SweepKeeps DEF Prepare, ConsistentAt, Snapshot, Bundle
  <1> QED BY <1>1, <1>2 DEF IInv

LEMMA RegisterKeeps ==
    ASSUME IInv, NEW j \in Jobs, Register(j)
    PROVE  IInv'
  <1>1. jobs'[j] \in Job
    BY ConstantsOK DEF Register, IInv, Shape, Job, Underway
  <1>2. Shape'
    BY <1>1 DEF Register, IInv, Shape, Workers
  <1>3. ConsistentAt(j)'
    <2>1. ConsistentAt(j) /\ jobs[j] = NoJob
      BY DEF Register, IInv
    <2>2. Bundle(j) \notin files' /\ Snapshot(j) \in files'
      BY <2>1, FilesDiffer DEF Register, ConsistentAt, Consistent
    <2>3. worker'[j] = "queued" /\ jobs'[j] # NoJob /\ jobs'[j].leases = 0
          /\ jobs'[j].path = FALSE /\ jobs'[j].status = "queued"
      BY DEF Register, IInv, Shape, NoJob
    <2> QED BY <1>1, <2>1, <2>2, <2>3
            DEF Register, ConsistentAt, Consistent, Workers, Snapshot, Bundle
  <1>4. ASSUME NEW i \in Jobs, i # j PROVE ConsistentAt(i)'
    BY <1>4, Untouched, FilesDiffer DEF Register, IInv, Shape
  <1> QED BY <1>2, <1>3, <1>4 DEF IInv

LEMMA PrepareFailsKeeps ==
    ASSUME IInv, NEW j \in Jobs, PrepareFails(j)
    PROVE  IInv'
  <1>1. Shape'
    BY DEF PrepareFails, IInv, Shape
  <1>2. ASSUME NEW i \in Jobs PROVE ConsistentAt(i)'
    BY Untouched DEF PrepareFails, IInv, Snapshot, Bundle
  <1> QED BY <1>1, <1>2 DEF IInv

LEMMA BuildStartsKeeps ==
    ASSUME IInv, NEW j \in Jobs, BuildStarts(j)
    PROVE  IInv'
  <1>1. ConsistentAt(j) /\ jobs[j] \in Job
    BY DEF BuildStarts, IInv, Shape, ConsistentAt, Consistent
  <1>2. /\ jobs'[j] \in Job /\ jobs'[j].status = "preparing"
        /\ jobs'[j].path = jobs[j].path /\ jobs'[j].leases = jobs[j].leases
        /\ worker'[j] = "opening"
    BY <1>1 DEF BuildStarts, IInv, Shape, Job, Underway
  <1>3. Shape'
    BY <1>2 DEF BuildStarts, IInv, Shape, Workers
  <1>4. ConsistentAt(j)'
    <2>1. jobs[j] # NoJob /\ jobs'[j] # NoJob
      BY <1>1, <1>2 DEF Job, NoJob, Underway, Over
    <2>2. Bundle(j) \notin files /\ Snapshot(j) \in files /\ files' = files
      BY <1>1, <2>1 DEF BuildStarts, ConsistentAt, Consistent
    <2> QED BY <1>1, <1>2, <2>1, <2>2
            DEF BuildStarts, ConsistentAt, Consistent, Workers, Snapshot, Bundle
  <1>5. ASSUME NEW i \in Jobs, i # j PROVE ConsistentAt(i)'
    BY <1>5, Untouched, FilesDiffer DEF BuildStarts, IInv, Shape
  <1> QED BY <1>3, <1>4, <1>5 DEF IInv

LEMMA BundleCreatedKeeps ==
    ASSUME IInv, NEW j \in Jobs, BundleCreated(j)
    PROVE  IInv'
  <1>1. ConsistentAt(j) /\ jobs[j] # NoJob
    BY DEF BundleCreated, IInv, ConsistentAt, Consistent
  <1>2. Shape'
    BY DEF BundleCreated, IInv, Shape, Workers
  <1>3. ConsistentAt(j)'
    <2>1. worker'[j] = "building" /\ Bundle(j) \in files' /\ Snapshot(j) \in files'
      BY <1>1 DEF BundleCreated, IInv, Shape, ConsistentAt, Consistent
    <2> QED BY <1>1, <2>1
            DEF BundleCreated, ConsistentAt, Consistent, Workers, Snapshot, Bundle
  <1>4. ASSUME NEW i \in Jobs, i # j PROVE ConsistentAt(i)'
    BY <1>4, Untouched, FilesDiffer DEF BundleCreated, IInv, Shape
  <1> QED BY <1>2, <1>3, <1>4 DEF IInv

\* The bundle cannot be created: the snapshot stays, and is disclosed.
LEMMA BundleRefusedKeeps ==
    ASSUME IInv, NEW j \in Jobs, BundleRefused(j)
    PROVE  IInv'
  <1>1. ConsistentAt(j) /\ jobs[j] # NoJob
    BY DEF BundleRefused, IInv, ConsistentAt, Consistent
  <1>2. Shape'
    BY DEF BundleRefused, IInv, Shape, Workers
  <1>3. ConsistentAt(j)'
    <2>1. worker'[j] = "failed" /\ j \in unopened' /\ Snapshot(j) \in files
      BY <1>1 DEF BundleRefused, IInv, Shape, ConsistentAt, Consistent
    <2> QED BY <1>1, <2>1
            DEF BundleRefused, ConsistentAt, Consistent, Workers, Snapshot, Bundle
  <1>4. ASSUME NEW i \in Jobs, i # j PROVE ConsistentAt(i)'
    BY <1>4, Untouched DEF BundleRefused, IInv, Shape, Snapshot, Bundle
  <1> QED BY <1>2, <1>3, <1>4 DEF IInv

\* The worker thread ends: the snapshot goes, the bundle stays if it is built.
LEMMA BuildKeeps ==
    ASSUME IInv, NEW j \in Jobs, Built(j) \/ Stopped(j) \/ BuildFails(j)
    PROVE  IInv'
  <1>1. /\ worker[j] = "building"
        /\ UNCHANGED <<now, asked, jobs, serving, refused, unopened>>
        /\ \/ /\ worker' = [worker EXCEPT ![j] = "built"]
              /\ files' = files \ {Snapshot(j)}
           \/ /\ \E w \in {"stopped", "failed"} : worker' = [worker EXCEPT ![j] = w]
              /\ files' = files \ {Snapshot(j), Bundle(j)}
    BY DEF Built, Stopped, BuildFails
  <1>2. Shape'
    BY <1>1 DEF IInv, Shape, Workers
  <1>3. ConsistentAt(j)'
    <2>1. ConsistentAt(j) /\ jobs[j] # NoJob
      BY <1>1 DEF IInv, ConsistentAt, Consistent
    <2>2. CASE worker'[j] = "built"
      <3>1. Snapshot(j) \notin files' /\ Bundle(j) \in files'
        BY <1>1, <2>1, <2>2, FilesDiffer DEF IInv, Shape, ConsistentAt, Consistent
      <3> QED BY <1>1, <2>1, <2>2, <3>1
              DEF ConsistentAt, Consistent, Workers, Snapshot, Bundle
    <2>3. CASE worker'[j] \in {"stopped", "failed"}
      <3>1. Snapshot(j) \notin files' /\ Bundle(j) \notin files'
        BY <1>1, <2>1, <2>3 DEF IInv, Shape
      <3>2. serving[j] = 0
        BY <1>1, <2>1 DEF ConsistentAt, Consistent
      <3> QED BY <1>1, <2>1, <2>3, <3>1, <3>2
              DEF ConsistentAt, Consistent, Workers, Snapshot, Bundle
    <2> QED BY <1>1, <2>2, <2>3 DEF IInv, Shape
  <1>4. ASSUME NEW i \in Jobs, i # j PROVE ConsistentAt(i)'
    BY <1>1, <1>4, Untouched, FilesDiffer DEF IInv, Shape
  <1> QED BY <1>2, <1>3, <1>4 DEF IInv

LEMMA BuildReturnsKeeps ==
    ASSUME IInv, NEW j \in Jobs, BuildReturns(j)
    PROVE  IInv'
  <1>1. ConsistentAt(j) /\ jobs[j] \in Job /\ now \in Nat
    BY DEF BuildReturns, IInv, Shape, ConsistentAt, Consistent
  <1>2. /\ jobs'[j] \in Job /\ jobs'[j].leases = jobs[j].leases
        /\ worker'[j] = "none"
        /\ jobs'[j].path => jobs'[j].status = "ready"
    BY <1>1 DEF BuildReturns, Concluded, Unwanted, IInv, Shape, Job, Over,
                ConsistentAt, Consistent
  <1>3. Shape'
    BY <1>2 DEF BuildReturns, IInv, Shape, Workers
  <1>4. ConsistentAt(j)'
    <2>1. jobs[j] # NoJob /\ jobs'[j] # NoJob
      BY <1>1, <1>2 DEF Job, NoJob, Underway, Over
    <2>2. jobs'[j].path = (worker[j] = "built" /\ ~jobs[j].cancel)
      BY <1>1, <2>1 DEF BuildReturns, Concluded, Unwanted, IInv, Shape, Job,
                        ConsistentAt, Consistent
    <2>3. Bundle(j) \in files' <=> jobs'[j].path
      BY <1>1, <2>1, <2>2 DEF BuildReturns, Leftovers, Unwanted, ConsistentAt, Consistent
    <2>4. Snapshot(j) \in files' <=> j \in unopened
      BY <1>1, FilesDiffer DEF BuildReturns, Leftovers, ConsistentAt, Consistent
    <2>5. serving[j] = 0
      BY <1>1, <2>1 DEF BuildReturns, ConsistentAt, Consistent
    <2> QED BY <1>1, <1>2, <2>1, <2>3, <2>4, <2>5
            DEF BuildReturns, ConsistentAt, Consistent, Workers, Snapshot, Bundle
  <1>5. ASSUME NEW i \in Jobs, i # j PROVE ConsistentAt(i)'
    <2>1. /\ Bundle(i) \in files' <=> Bundle(i) \in files
          /\ Snapshot(i) \in files' <=> Snapshot(i) \in files
      BY <1>5, FilesDiffer DEF BuildReturns, Leftovers
    <2> QED BY <1>5, <2>1, Untouched DEF BuildReturns, IInv, Shape
  <1> QED BY <1>3, <1>4, <1>5 DEF IInv

LEMMA StatusAskedKeeps ==
    ASSUME IInv, NEW j \in Jobs, StatusAsked(j)
    PROVE  IInv'
  <1>1. CASE jobs' = Swept
    <2>1. Shape'
      BY <1>1, SweptShape DEF StatusAsked, IInv, Shape
    <2>2. ASSUME NEW i \in Jobs PROVE ConsistentAt(i)'
      BY <1>1, SweepKeeps DEF StatusAsked, ConsistentAt, Snapshot, Bundle
    <2> QED BY <2>1, <2>2 DEF IInv
  <1>2. CASE Swept[j].status = "ready" /\ Bundle(j) \notin files
             /\ jobs' = [Swept EXCEPT ![j].status = "error"]
    <2>1. /\ Swept[j] = jobs[j] /\ worker[j] = "none" /\ ConsistentAt(j)
          /\ Bundle(j) \notin files \ SweptFiles
      BY <1>2, SweepKeeps DEF IInv
    <2>2. jobs[j] \in Job /\ jobs[j] # NoJob
      BY DEF StatusAsked, Registered, IInv, Shape
    <2>3. ~jobs[j].path
      BY <1>2, <2>1, <2>2 DEF ConsistentAt, Consistent
    <2>4. /\ jobs'[j] \in Job /\ jobs'[j].status = "error"
          /\ jobs'[j].path = jobs[j].path /\ jobs'[j].leases = jobs[j].leases
      BY <1>2, <2>1, <2>2, SweptShape DEF Job, Over
    <2>5. Shape'
      BY <1>2, <2>4, SweptShape DEF StatusAsked, IInv, Shape
    <2>6. ConsistentAt(j)'
      <3>1. jobs'[j] # NoJob
        BY <2>4 DEF NoJob
      <3>2. Bundle(j) \notin files' /\ (Snapshot(j) \in files' <=> j \in unopened)
        BY <2>1, <2>2, SweptJob DEF IInv, StatusAsked, ConsistentAt, Consistent
      <3>3. serving[j] = 0
        BY <1>2, <2>1, <2>2 DEF ConsistentAt, Consistent
      <3> QED BY <2>1, <2>2, <2>3, <2>4, <3>1, <3>2, <3>3
              DEF StatusAsked, ConsistentAt, Consistent, Snapshot, Bundle
    <2>7. ASSUME NEW i \in Jobs, i # j PROVE ConsistentAt(i)'
      <3>1. jobs'[i] = Swept[i]
        BY <1>2, <2>7, SweptShape
      <3> QED BY <3>1, SweepKeeps DEF StatusAsked, ConsistentAt, Snapshot, Bundle
    <2> QED BY <2>5, <2>6, <2>7 DEF IInv
  <1> QED BY <1>1, <1>2 DEF StatusAsked

\* What a cancellation makes of its job.
LEMMA CancelChanges ==
    ASSUME IInv, NEW j \in Jobs, Cancel(j)
    PROVE  \E job \in Job :
              /\ jobs' = [jobs EXCEPT ![j] = job]
              /\ job.leases = jobs[j].leases
              /\ \/ /\ jobs[j].status \in Underway
                    /\ job.status = "cancelled" /\ job.path = jobs[j].path
                    /\ files' = files
                 \/ /\ jobs[j].status = "ready" /\ jobs[j].leases = 0
                    /\ job.status = "cancelled" /\ job.path = FALSE
                    /\ files' = files \ {Bundle(j)}
                 \/ /\ job.status = jobs[j].status /\ job.path = jobs[j].path
                    /\ files' = files
  <1> DEFINE stopped   == [jobs[j] EXCEPT !.cancel = TRUE, !.status = "cancelled"]
             withdrawn == [jobs[j] EXCEPT !.cancel = TRUE, !.status = "cancelled",
                                          !.path = FALSE]
             flagged   == [jobs[j] EXCEPT !.cancel = TRUE]
  <1>1. jobs[j] \in Job
    BY DEF Cancel, Registered, IInv, Shape
  <1>2. CASE jobs[j].status \in Underway
    <2>1. jobs' = [jobs EXCEPT ![j] = stopped] /\ files' = files
      BY <1>2 DEF Cancel
    <2>2. /\ stopped \in Job /\ stopped.leases = jobs[j].leases
          /\ stopped.status = "cancelled" /\ stopped.path = jobs[j].path
      BY <1>1 DEF Job, Over
    <2> QED BY <1>2, <2>1, <2>2
  <1>3. CASE jobs[j].status = "ready" /\ jobs[j].leases = 0
    <2>1. jobs[j].status \notin Underway
      BY <1>3 DEF Underway
    <2>2. jobs' = [jobs EXCEPT ![j] = withdrawn] /\ files' = files \ {Bundle(j)}
      BY <1>3, <2>1 DEF Cancel
    <2>3. /\ withdrawn \in Job /\ withdrawn.leases = jobs[j].leases
          /\ withdrawn.status = "cancelled" /\ withdrawn.path = FALSE
      BY <1>1 DEF Job, Over
    <2> QED BY <1>3, <2>2, <2>3
  <1>4. CASE jobs[j].status \notin Underway
             /\ ~(jobs[j].status = "ready" /\ jobs[j].leases = 0)
    <2>1. jobs' = [jobs EXCEPT ![j] = flagged] /\ files' = files
      BY <1>4 DEF Cancel
    <2>2. /\ flagged \in Job /\ flagged.leases = jobs[j].leases
          /\ flagged.status = jobs[j].status /\ flagged.path = jobs[j].path
      BY <1>1 DEF Job
    <2> QED BY <2>1, <2>2
  <1> QED BY <1>2, <1>3, <1>4

LEMMA CancelKeeps ==
    ASSUME IInv, NEW j \in Jobs, Cancel(j)
    PROVE  IInv'
  <1>1. ConsistentAt(j) /\ jobs[j] # NoJob /\ jobs \in [Jobs -> Job \cup {NoJob}]
    BY DEF Cancel, Registered, IInv, Shape
  <1>2. PICK job \in Job :
              /\ jobs' = [jobs EXCEPT ![j] = job]
              /\ job.leases = jobs[j].leases
              /\ \/ /\ jobs[j].status \in Underway
                    /\ job.status = "cancelled" /\ job.path = jobs[j].path
                    /\ files' = files
                 \/ /\ jobs[j].status = "ready" /\ jobs[j].leases = 0
                    /\ job.status = "cancelled" /\ job.path = FALSE
                    /\ files' = files \ {Bundle(j)}
                 \/ /\ job.status = jobs[j].status /\ job.path = jobs[j].path
                    /\ files' = files
    BY CancelChanges
  <1>3. /\ jobs'[j] = job /\ \A i \in Jobs \ {j} : jobs'[i] = jobs[i]
        /\ jobs' \in [Jobs -> Job \cup {NoJob}]
        /\ job # NoJob
    BY <1>1, <1>2 DEF Job, NoJob, Over, Underway
  <1>4. Shape'
    BY <1>2, <1>3 DEF Cancel, IInv, Shape
  <1>5. Snapshot(j) \in files' <=> Snapshot(j) \in files
    BY <1>2, FilesDiffer
  <1>6. ConsistentAt(j)'
    <2>1. CASE /\ jobs[j].status \in Underway
               /\ job.status = "cancelled" /\ job.path = jobs[j].path
               /\ files' = files
      <3>1. ~jobs[j].path
        BY <1>1, <2>1 DEF ConsistentAt, Consistent, Underway
      <3> QED BY <1>1, <1>2, <1>3, <2>1, <3>1
              DEF Cancel, ConsistentAt, Consistent, Snapshot, Bundle
    <2>2. CASE /\ jobs[j].status = "ready" /\ jobs[j].leases = 0
               /\ job.status = "cancelled" /\ job.path = FALSE
               /\ files' = files \ {Bundle(j)}
      <3>1. worker[j] = "none" /\ serving[j] = 0
        BY <1>1, <2>2 DEF ConsistentAt, Consistent
      <3> QED BY <1>1, <1>2, <1>3, <1>5, <2>2, <3>1
              DEF Cancel, ConsistentAt, Consistent, Snapshot, Bundle
    <2>3. CASE /\ job.status = jobs[j].status /\ job.path = jobs[j].path
               /\ files' = files
      BY <1>1, <1>2, <1>3, <2>3
         DEF Cancel, ConsistentAt, Consistent, Snapshot, Bundle
    <2> QED BY <1>2, <2>1, <2>2, <2>3
  <1>7. ASSUME NEW i \in Jobs, i # j PROVE ConsistentAt(i)'
    BY <1>2, <1>3, <1>7, Untouched, FilesDiffer DEF Cancel, IInv, Shape
  <1> QED BY <1>4, <1>6, <1>7 DEF IInv

LEMMA DownloadKeeps ==
    ASSUME IInv, NEW j \in Jobs, NEW satisfiable \in BOOLEAN, Download(j, satisfiable)
    PROVE  IInv'
  <1>1. /\ ConsistentAt(j) /\ jobs[j] \in Job /\ jobs[j] # NoJob
        /\ Swept[j] = jobs[j] /\ worker[j] = "none" /\ jobs[j].status = "ready"
        /\ Bundle(j) \in files \ SweptFiles
    BY SweepKeeps DEF Download, Registered, IInv, Shape
  <1>2. /\ jobs'[j] \in Job /\ jobs'[j].leases = jobs[j].leases + 1
        /\ jobs'[j].status = "ready" /\ jobs'[j].path = jobs[j].path
        /\ \A i \in Jobs \ {j} : jobs'[i] = Swept[i]
        /\ jobs' \in [Jobs -> Job \cup {NoJob}]
    BY <1>1, SweptShape DEF Download, Job
  <1>3. Shape'
    BY <1>2, SweptShape DEF Download, IInv, Shape
  <1>4. ConsistentAt(j)'
    <2>1. jobs'[j] # NoJob
      BY <1>2 DEF NoJob, Job
    <2>2. /\ Bundle(j) \in files' /\ (Snapshot(j) \in files' <=> j \in unopened)
          /\ Bundle(j) \in files
      BY <1>1, SweptJob DEF IInv, Download, ConsistentAt, Consistent
    <2>3. /\ serving'[j] \in Nat /\ refused'[j] \in Nat
          /\ jobs'[j].leases = serving'[j] + refused'[j]
      BY <1>1, <1>2 DEF Download, IInv, Shape, ConsistentAt, Consistent
    <2> QED BY <1>1, <1>2, <2>1, <2>2, <2>3
            DEF Download, ConsistentAt, Consistent, Snapshot, Bundle
  <1>5. ASSUME NEW i \in Jobs, i # j PROVE ConsistentAt(i)'
    BY <1>2, <1>5, SweepKeeps
       DEF Download, IInv, Shape, ConsistentAt, Snapshot, Bundle
  <1> QED BY <1>3, <1>4, <1>5 DEF IInv

LEMMA ReleaseKeeps ==
    ASSUME IInv, NEW j \in Jobs, Release(j)
    PROVE  IInv'
  <1> DEFINE left == LeasesLeft(jobs[j])
             last == left = 0 /\ jobs[j].status \in Over
  <1>1. /\ ConsistentAt(j) /\ jobs[j] \in Job /\ jobs[j] # NoJob
        /\ worker[j] = "none" /\ jobs[j].leases > 0 /\ jobs[j].path
    <2>1. ConsistentAt(j) /\ serving[j] > 0 /\ serving[j] \in Nat /\ refused[j] \in Nat
      BY DEF Release, IInv, Shape
    <2>2. jobs[j] # NoJob /\ jobs[j] \in Job
      BY <2>1 DEF ConsistentAt, Consistent
    <2>3. jobs[j].leases > 0
      BY <2>1, <2>2 DEF ConsistentAt, Consistent
    <2> QED BY <2>1, <2>2, <2>3 DEF ConsistentAt, Consistent
  <1>2. left = jobs[j].leases - 1 /\ left \in Nat
    BY <1>1 DEF LeasesLeft, Job
  <1>3. /\ jobs'[j] \in Job /\ jobs'[j].leases = left
        /\ jobs'[j].status = jobs[j].status /\ jobs'[j].path = ~last
        /\ \A i \in Jobs \ {j} : jobs'[i] = jobs[i]
        /\ jobs' \in [Jobs -> Job \cup {NoJob}]
    BY <1>1, <1>2 DEF Release, IInv, Shape, Job
  <1>4. files' = IF last THEN files \ {Bundle(j)} ELSE files
    BY <1>1 DEF Release
  <1>5. Shape'
    BY <1>3, <1>4 DEF Release, IInv, Shape
  <1>6. ConsistentAt(j)'
    <2>1. jobs'[j] # NoJob
      BY <1>1, <1>3 DEF NoJob, Job
    <2>2. /\ Bundle(j) \in files' <=> ~last
          /\ (Snapshot(j) \in files' <=> j \in unopened)
      BY <1>1, <1>4, FilesDiffer DEF ConsistentAt, Consistent
    <2>3. /\ serving'[j] = serving[j] - 1 /\ serving'[j] \in Nat
          /\ left = serving'[j] + refused[j] /\ refused[j] \in Nat
      BY <1>1, <1>2 DEF Release, IInv, Shape, ConsistentAt, Consistent
    <2>4. last => serving'[j] = 0
      BY <2>3 DEF IInv, Shape
    <2>5. ~last => jobs[j].status = "ready" \/ (jobs[j].status = "expired" /\ left > 0)
      BY <1>1, <1>2 DEF ConsistentAt, Consistent, Over
    <2>6. /\ refused' = refused /\ worker' = worker /\ unopened' = unopened
          /\ Snapshot(j)' = Snapshot(j) /\ Bundle(j)' = Bundle(j)
      BY DEF Release, Snapshot, Bundle
    <2>7. Consistent(jobs'[j], worker[j], serving'[j], refused[j], j \in unopened,
                     Snapshot(j) \in files', Bundle(j) \in files')
      <3> HIDE DEF left, last
      <3>1. CASE last
        <4>1. /\ jobs'[j].path = FALSE /\ Bundle(j) \notin files' /\ (Snapshot(j) \in files' <=> j \in unopened)
              /\ jobs'[j].leases = serving'[j] + refused[j] /\ serving'[j] = 0
          BY <1>3, <2>2, <2>3, <2>4, <3>1
        <4> QED BY <1>1, <1>3, <2>1, <2>3, <4>1 DEF Consistent, Workers
      <3>2. CASE ~last
        <4>1. /\ jobs'[j].path /\ Bundle(j) \in files' /\ (Snapshot(j) \in files' <=> j \in unopened)
              /\ jobs'[j].leases = serving'[j] + refused[j]
              /\ jobs'[j].status = "ready" \/ (jobs'[j].status = "expired" /\ left > 0)
          BY <1>3, <2>2, <2>3, <2>5, <3>2
        <4> QED BY <1>1, <1>3, <2>1, <2>3, <4>1 DEF Consistent, Workers
      <3> QED BY <3>1, <3>2
    <2> QED BY <2>6, <2>7 DEF ConsistentAt
  <1>7. ASSUME NEW i \in Jobs, i # j PROVE ConsistentAt(i)'
    BY <1>3, <1>4, <1>7, Untouched, FilesDiffer DEF Release, IInv, Shape
  <1> QED BY <1>5, <1>6, <1>7 DEF IInv

LEMMA TickKeeps ==
    ASSUME IInv, Tick
    PROVE  IInv'
  <1>1. Shape'
    BY ConstantsOK DEF Tick, IInv, Shape
  <1>2. ASSUME NEW i \in Jobs PROVE ConsistentAt(i)'
    BY Untouched DEF Tick, IInv, Snapshot, Bundle
  <1> QED BY <1>1, <1>2 DEF IInv

LEMMA NextKeeps == IInv /\ [Next]_vars => IInv'
  <1> SUFFICES ASSUME IInv, [Next]_vars PROVE IInv'
    OBVIOUS
  <1>1. CASE UNCHANGED vars
    BY <1>1 DEF vars, IInv, Shape, ConsistentAt, Snapshot, Bundle
  <1>2. CASE \E j \in Jobs, scope \in Scopes : Prepare(j, scope)
    BY <1>2, PrepareKeeps
  <1>3. ASSUME NEW j \in Jobs,
               \/ Register(j) \/ PrepareFails(j) \/ BuildStarts(j)
               \/ BundleCreated(j) \/ BundleRefused(j)
               \/ Built(j) \/ Stopped(j) \/ BuildFails(j)
               \/ BuildReturns(j) \/ StatusAsked(j) \/ Cancel(j) \/ Release(j)
               \/ \E satisfiable \in BOOLEAN : Download(j, satisfiable)
        PROVE  IInv'
    BY <1>3, RegisterKeeps, PrepareFailsKeeps, BuildStartsKeeps, BundleCreatedKeeps,
       BundleRefusedKeeps, BuildKeeps,
       BuildReturnsKeeps, StatusAskedKeeps, CancelKeeps, ReleaseKeeps, DownloadKeeps
  <1>4. CASE Tick
    BY <1>4, TickKeeps
  <1> QED BY <1>1, <1>2, <1>3, <1>4 DEF Next

\* The invariant holds in every run: a job, its task, its leases and its files
\* agree whatever the requests, expiry and the build do to it in turn.
THEOREM Invariance == Spec => []IInv
  BY InitIInv, NextKeeps, PTL DEF Spec

\* Types, and the leases of a job are the responses under way and the ranges
\* refused (main.py:1194-1207, 1226-1237).
THEOREM TypeCorrect == Spec => []TypeOK
  <1>1. IInv => TypeOK
    <2> SUFFICES ASSUME IInv PROVE TypeOK
      OBVIOUS
    <2>1. ASSUME NEW j \in Registered
          PROVE  jobs[j] \in Job /\ jobs[j].leases = serving[j] + refused[j]
      BY <2>1 DEF Registered, IInv, Shape, ConsistentAt, Consistent
    <2>2. ASSUME NEW j \in Jobs \ Registered PROVE worker[j] = "none" /\ serving[j] = 0
      BY <2>2 DEF Registered, IInv, ConsistentAt, Consistent
    <2> QED BY <2>1, <2>2 DEF TypeOK, IInv, Shape, Workers
  <1> QED BY <1>1, Invariance, PTL

\* No bundle is left behind, no snapshot but that of a build that could not
\* create its bundle (exporter.py:357-366), and no file is deleted under a build
\* or a response (main.py:1024-1083, 1156-1215), for any number of jobs.
THEOREM FilesStayOwned == Spec => []FilesAreOwned
  <1>1. IInv => FilesAreOwned
    <2> SUFFICES ASSUME IInv, NEW j \in Jobs
                 PROVE  /\ Snapshot(j) \in files <=>
                               \/ worker[j] \in {"queued", "opening", "building"}
                               \/ j \in unopened
                        /\ Bundle(j) \in files <=>
                               \/ worker[j] \in {"building", "built"}
                               \/ j \in Registered /\ jobs[j].path
                        /\ j \in Registered /\ jobs[j].path =>
                               \/ jobs[j].status = "ready"
                               \/ jobs[j].status = "expired" /\ jobs[j].leases > 0
                        /\ serving[j] > 0 => Bundle(j) \in files
      BY DEF FilesAreOwned
    <2> QED BY DEF IInv, ConsistentAt, Consistent, Registered
  <1> QED BY <1>1, Invariance, PTL

\* No step brings a job whose cancellation was asked for before it was ready to
\* be served (main.py:1030-1062, 1156-1170).
THEOREM CancellationsAreHonoured == Spec => CancelIsHonoured
  <1> DEFINE Honoured == \A j \in Registered :
                 jobs[j].cancel /\ jobs[j].status # "ready" => jobs'[j].status # "ready"
  <1>1. IInv /\ [Next]_vars => [Honoured]_vars
    <2> SUFFICES ASSUME IInv, Next, NEW i \in Registered,
                        jobs[i].cancel, jobs[i].status # "ready"
                 PROVE  jobs'[i].status # "ready"
      BY DEF vars
    <2>1. i \in Jobs /\ jobs[i] # NoJob /\ jobs[i] \in Job
      BY DEF Registered, IInv, Shape
    <2>2. Swept[i].status # "ready"
      BY <2>1, SweepKeeps
    <2>3. ASSUME NEW j \in Jobs, NEW scope \in Scopes, Prepare(j, scope)
          PROVE  jobs'[i].status # "ready"
      BY <2>2, <2>3 DEF Prepare
    <2>4. ASSUME NEW j \in Jobs, Register(j) PROVE jobs'[i].status # "ready"
      <3>1. i # j
        BY <2>1, <2>4 DEF Register
      <3> QED BY <2>1, <2>4, <3>1 DEF Register, IInv, Shape
    <2>5. ASSUME NEW j \in Jobs, BuildStarts(j) PROVE jobs'[i].status # "ready"
      <3>1. CASE i = j
        BY <2>1, <2>5, <3>1 DEF BuildStarts, IInv, Shape, Job
      <3>2. CASE i # j
        BY <2>1, <2>5, <3>2 DEF BuildStarts, IInv, Shape
      <3> QED BY <3>1, <3>2
    <2>6. ASSUME NEW j \in Jobs, BuildReturns(j) PROVE jobs'[i].status # "ready"
      <3>1. CASE i = j
        <4>1. /\ jobs'[i] = Concluded(i)
              /\ worker[i] \in {"built", "stopped", "failed"} /\ jobs[i].cancel
          BY <2>1, <2>6, <3>1 DEF BuildReturns, IInv, Shape
        <4>2. \/ Concluded(i) = [jobs[i] EXCEPT !.status = "error"]
              \/ Concluded(i) = [jobs[i] EXCEPT !.status = "cancelled"]
          BY <4>1 DEF Concluded, Unwanted
        <4> QED BY <2>1, <4>1, <4>2 DEF Job
      <3>2. CASE i # j
        BY <2>1, <2>6, <3>2 DEF BuildReturns, IInv, Shape
      <3> QED BY <3>1, <3>2
    <2>7. ASSUME NEW j \in Jobs, StatusAsked(j) PROVE jobs'[i].status # "ready"
      <3>1. CASE jobs' = Swept
        BY <2>2, <3>1
      <3>2. CASE Swept[j].status = "ready" /\ jobs' = [Swept EXCEPT ![j].status = "error"]
        <4>1. i # j
          BY <2>2, <3>2
        <4> QED BY <2>1, <2>2, <3>2, <4>1, SweptShape
      <3> QED BY <2>7, <3>1, <3>2 DEF StatusAsked
    <2>8. ASSUME NEW j \in Jobs, Cancel(j) PROVE jobs'[i].status # "ready"
      <3>1. jobs'[i] = jobs[i] \/ jobs'[i].status \in {jobs[i].status, "cancelled"}
        BY <2>1, <2>8, CancelChanges DEF IInv, Shape
      <3> QED BY <3>1
    <2>9. ASSUME NEW j \in Jobs, Release(j) PROVE jobs'[i].status # "ready"
      <3>1. CASE i = j
        BY <2>1, <2>9, <3>1 DEF Release, IInv, Shape, Job
      <3>2. CASE i # j
        BY <2>1, <2>9, <3>2 DEF Release, IInv, Shape
      <3> QED BY <3>1, <3>2
    <2>10. ASSUME NEW j \in Jobs, NEW s \in BOOLEAN, Download(j, s)
           PROVE  jobs'[i].status # "ready"
      <3>1. i # j
        BY <2>2, <2>10 DEF Download
      <3> QED BY <2>1, <2>2, <2>10, <3>1, SweptShape DEF Download
    <2>11. CASE UNCHANGED jobs
      BY <2>11
    <2> QED BY <2>3, <2>4, <2>5, <2>6, <2>7, <2>8, <2>9, <2>10, <2>11
            DEF Next, PrepareFails, BundleCreated, BundleRefused, Built, Stopped,
                BuildFails, Tick
  <1> QED BY <1>1, Invariance, PTL DEF Spec, CancelIsHonoured
=============================================================================
