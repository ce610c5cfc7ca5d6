----------------------------- MODULE RawArchive -----------------------------
(***************************************************************************)
(* The raw feed on disk and in object storage: the recorder                *)
(* (app/recorder.py), the archive (RawArchive of app/archive.py) and its   *)
(* ledger (raw_segments of app/store.py).                                  *)
(*                                                                         *)
(* Three threads touch the segment files.  The event loop appends frames   *)
(* to the file of the current hour.  An export closes that file and        *)
(* renames it to a part (checkpoint_for_export).  The archive registers,   *)
(* uploads, verifies and deletes the files nobody should be writing.       *)
(* Every system call, request and transaction is a step of its own.        *)
(*                                                                         *)
(* Abstractions: the content of a file or of an object is the set of its   *)
(* frames; equal digests, and equal sizes, mean equal contents (files only *)
(* grow).  The volume may be short of space at any time, so a verified     *)
(* segment may always be pruned and the retention period does not show.    *)
(* The hourly file a write needs is computed and opened in one step.       *)
(* Backoff only delays, the archive is enabled, and the clock never goes   *)
(* back.  written counts frames, recorded is history.                      *)
(***************************************************************************)
EXTENDS Naturals

CONSTANTS
    None,
    MaxAttempts,  \* config.RAW_ARCHIVE_MAX_ATTEMPTS
    MaxHour,      \* bound: hours the clock passes
    MaxFrames,    \* bound: frames received
    MaxExports,   \* bound: exports started
    MaxFaults,    \* bound: system calls, requests, transactions that fail
    MaxCrashes    \* bound: process stops

Hours == 0..MaxHour

ASSUME ConstantsOK ==
    /\ MaxAttempts \in Nat \ {0} /\ MaxHour \in Nat
    /\ MaxFrames \in Nat /\ MaxExports \in Nat
    /\ MaxFaults \in Nat /\ MaxCrashes \in Nat
    /\ None \notin Hours

\* feed-<hour>.jsonl.gz is part 0, feed-<hour>-part-<n>.jsonl.gz another.
Names     == [hour: Hours, part: 0..MaxExports]
Hourly(h) == [hour |-> h, part |-> 0]

ASSUME NoneIsNoName == None \notin Names

VARIABLES
    clock,      \* the current UTC hour
    present,    \* the segment files on the volume
    files,      \* their frames
    openHour,   \* recorder._hour
    fh,         \* the file recorder._fh writes to, under its present name
    buffer,     \* frames written to fh and not yet to the volume
    writing,    \* the event loop is between _rotate and _fh.write
    exporting,  \* checkpoint_for_export: "no", "closing", "renaming", "sealing"
    exportHour, \* its active_hour
    sealed,     \* archive._sealed
    rows,       \* raw_segments
    objects,    \* the names the remote store holds
    remote,     \* their contents
    task,       \* what the archive thread is doing
    recorded,   \* history: frames flushed to an hourly file
    written, exports, faults, crashes

recorder == <<openHour, fh, buffer, writing>>
volume   == <<present, files>>
export   == <<exporting, exportHour>>
store    == <<objects, remote>>
bounds   == <<written, exports, faults, crashes>>
vars == <<clock, volume, recorder, export, sealed, rows, store, task, recorded,
          bounds>>

Frames == 1..MaxFrames
States == {"none", "local", "uploaded", "pruned"}
Row    == [state: States, bytes: SUBSET Frames, attempts: 0..MaxAttempts]
Idle   == [at |-> "idle", name |-> None, digest |-> {}]
Task   == {Idle} \cup [at: {"put", "mark", "head", "unlink"}, name: Names,
                       digest: SUBSET Frames]

Init ==
    /\ clock = 0
    /\ present = {} /\ files = [n \in Names |-> {}]
    /\ openHour = None /\ fh = None /\ buffer = {} /\ writing = FALSE
    /\ exporting = "no" /\ exportHour = None
    /\ sealed = {}
    /\ rows = [n \in Names |-> [state |-> "none", bytes |-> {}, attempts |-> 0]]
    /\ objects = {} /\ remote = [n \in Names |-> {}]
    /\ task = Idle
    /\ recorded = {}
    /\ written = 0 /\ exports = 0 /\ faults = 0 /\ crashes = 0

Fault == faults < MaxFaults /\ faults' = faults + 1

\* Mutant: only the wall clock tells which segment is active.
ActiveByClock == {Hourly(clock)}

\* active_names: segments that must never be uploaded, verified or pruned.
Active == {Hourly(clock)} \cup {Hourly(h) : h \in {openHour} \ {None}}

-----------------------------------------------------------------------------
(***************************************************************************)
(* The recorder, on the event loop                                         *)
(***************************************************************************)

\* The frames of fr reach the file the handle is on, if it still has a name.
Flushed(fr) ==
    IF fh \in present THEN [files EXCEPT ![fh] = @ \cup fr] ELSE files

Remember(fr) ==
    recorded' = IF fh \in {Hourly(h) : h \in Hours}
                  THEN recorded \cup fr ELSE recorded

ClockTicks ==
    /\ clock < MaxHour
    /\ clock' = clock + 1
    /\ UNCHANGED <<volume, recorder, export, sealed, rows, store, task, recorded,
                   bounds>>

\* _rotate: another hour, or no file.  The old file is closed and sealed.
Rotate ==
    /\ ~writing /\ written < MaxFrames
    /\ writing' = TRUE
    /\ IF openHour = clock
         THEN UNCHANGED <<openHour, fh, buffer, volume, sealed, recorded>>
         ELSE /\ openHour' = clock
              /\ fh' = Hourly(clock)
              /\ present' = present \cup {Hourly(clock)}
              /\ files' = Flushed(buffer) /\ Remember(buffer) /\ buffer' = {}
              /\ sealed' = sealed \cup {Hourly(h) : h \in {openHour} \ {None}}
    /\ UNCHANGED <<clock, export, rows, store, task, bounds>>

Append ==
    /\ writing /\ fh # None
    /\ writing' = FALSE
    /\ written' = written + 1
    /\ buffer' = buffer \cup {written + 1}
    /\ UNCHANGED <<clock, volume, openHour, fh, export, sealed, rows, store, task,
                   recorded, exports, faults, crashes>>

\* 200 frames, or a full compression buffer.
Flush ==
    /\ fh # None /\ buffer # {}
    /\ files' = Flushed(buffer) /\ Remember(buffer)
    /\ buffer' = {}
    /\ UNCHANGED <<clock, present, openHour, fh, writing, export, sealed, rows,
                   store, task, bounds>>

\* Opening or writing fails, or an export has closed the file since _rotate (then
\* the exception leaves _write_frame): the frame is lost, the handle is dropped,
\* and what it had buffered may be lost too.
WriteFails ==
    /\ writing \/ (openHour # clock /\ written < MaxFrames)
    /\ IF writing /\ fh = None THEN UNCHANGED faults ELSE Fault
    /\ \E kept \in {{}, buffer} : files' = Flushed(kept) /\ Remember(kept)
    /\ buffer' = {} /\ fh' = None /\ openHour' = None /\ writing' = FALSE
    /\ written' = written + 1
    /\ UNCHANGED <<clock, present, export, sealed, rows, store, task, exports,
                   crashes>>

-----------------------------------------------------------------------------
(***************************************************************************)
(* An export, on its worker thread (checkpoint_for_export)                 *)
(***************************************************************************)
\* Mutant: a name that SEGMENT_NAME does not match.
PartUnmatched == [hour |-> exportHour, part |-> exports + 1]

Part == [hour |-> exportHour, part |-> exports]

ExportBegins ==
    /\ exporting = "no" /\ exports < MaxExports
    /\ exports' = exports + 1
    /\ exporting' = "closing" /\ exportHour' = openHour
    /\ UNCHANGED <<clock, volume, recorder, sealed, rows, store, task, recorded,
                   written, faults, crashes>>

\* checkpoint
ExportCloses ==
    /\ exporting = "closing"
    /\ exporting' = IF exportHour = None THEN "no" ELSE "renaming"
    /\ files' = Flushed(buffer) /\ Remember(buffer)
    /\ buffer' = {} /\ fh' = None /\ openHour' = None
    /\ UNCHANGED <<clock, present, writing, exportHour, sealed, rows, store, task,
                   bounds>>

\* os.replace.  A handle that is open on the file follows it to its new name.
ExportRenames ==
    LET active == Hourly(exportHour)
    IN  /\ exporting = "renaming"
        /\ IF active \notin present
             THEN exporting' = "no" /\ UNCHANGED <<volume, fh>>
             ELSE /\ exporting' = "sealing"
                  /\ present' = (present \ {active}) \cup {Part}
                  /\ files' = [files EXCEPT ![Part] = files[active],
                                            ![active] = {}]
                  /\ fh' = IF fh = active THEN Part ELSE fh
        /\ UNCHANGED <<clock, openHour, buffer, writing, exportHour, sealed, rows,
                       store, task, recorded, bounds>>

ExportSeals ==
    /\ exporting = "sealing"
    /\ exporting' = "no"
    /\ sealed' = sealed \cup {Part}
    /\ UNCHANGED <<clock, volume, recorder, exportHour, rows, store, task,
                   recorded, bounds>>

-----------------------------------------------------------------------------
(***************************************************************************)
(* The archive, on its worker thread                                       *)
(***************************************************************************)
ArchiveIdle == task = Idle
Step(at)    == task.at = at
Verified(n) == rows[n].state \in {"uploaded", "pruned"}

\* Mutant: the directory is not scanned.
FoundByHook == sealed

\* What register_pending looks at: the hooked seals and the directory.  A name
\* that is not active never becomes active again (the clock only advances), so a
\* list made early in a tick is good until its end.
Found == sealed \cup present

\* Mutant: INSERT OR REPLACE.
UnregisteredAny == Found \ Active

Unregistered == {n \in Found \ Active : rows[n].state = "none"}

\* register_pending; the inserts of the names in failed fail, or the query that
\* precedes them does and none is made.
RegisterPending ==
    /\ ArchiveIdle
    /\ Unregistered \cup sealed # {}
    /\ \E failed \in SUBSET Unregistered :
          /\ IF failed = {} THEN UNCHANGED faults ELSE Fault
          /\ rows' = [n \in Names |->
                        IF n \in Unregistered \ failed
                          THEN [rows[n] EXCEPT !.state = "local"] ELSE rows[n]]
    /\ sealed' = {}
    /\ UNCHANGED <<clock, volume, recorder, export, store, task, recorded,
                   written, exports, crashes>>

\* record_raw_segment_error.  Past the cap the count makes no difference.
Attempted(n) ==
    rows' = [rows EXCEPT ![n].attempts = IF @ < MaxAttempts THEN @ + 1 ELSE @]

\* pending_uploads chooses n, and file_digests reads it.
UploadBegins(n) ==
    /\ ArchiveIdle
    /\ rows[n].state = "local" /\ rows[n].attempts < MaxAttempts
    /\ n \in present \ Active
    /\ task' = [at |-> "put", name |-> n, digest |-> files[n]]
    /\ UNCHANGED <<clock, volume, recorder, export, sealed, rows, store, recorded,
                   bounds>>

\* Mutant: neither the ETag nor the length is compared.
MatchesAlways(stored, digest) == TRUE

\* The ETag is the digest that was read, and HEAD reports its length.
Matches(stored, digest) == stored = digest

\* PUT reads the file again; the ETag and the HEAD tell what was stored.
UploadPut ==
    LET n == task.name
    IN  /\ Step("put")
        /\ n \in present
        /\ objects' = objects \cup {n}
        /\ remote' = [remote EXCEPT ![n] = files[n]]
        /\ IF Matches(remote'[n], task.digest)
             THEN task' = [task EXCEPT !.at = "mark"] /\ UNCHANGED rows
             ELSE task' = Idle /\ Attempted(n)
        /\ UNCHANGED <<clock, volume, recorder, export, sealed, recorded, bounds>>

\* The file is gone, or a request fails: nothing, a part or all of the file is
\* stored, and the row stays local.
UploadFails ==
    LET n == task.name
    IN  /\ Step("put")
        /\ \/ n \notin present /\ UNCHANGED <<store, faults>>
           \/ Fault /\ UNCHANGED store
           \/ /\ Fault
              /\ objects' = objects \cup {n}
              /\ \E stored \in {{}, files[n]} :
                    remote' = [remote EXCEPT ![n] = stored]
        /\ task' = Idle /\ Attempted(n)
        /\ UNCHANGED <<clock, volume, recorder, export, sealed, recorded, written,
                       exports, crashes>>

\* mark_raw_segment_uploaded, or its transaction fails and the tick ends.
UploadMark ==
    /\ Step("mark")
    /\ task' = Idle
    /\ \/ /\ rows' = [rows EXCEPT ![task.name].state = "uploaded",
                                  ![task.name].bytes = task.digest]
          /\ UNCHANGED faults
       \/ Fault /\ UNCHANGED rows
    /\ UNCHANGED <<clock, volume, recorder, export, sealed, store, recorded,
                   written, exports, crashes>>

\* _prune_one: the row, the active names and the local size.
PruneRefuses(n) ==
    /\ ArchiveIdle
    /\ Verified(n) /\ n \in present \ Active
    /\ files[n] # rows[n].bytes
    /\ Attempted(n)
    /\ UNCHANGED <<clock, volume, recorder, export, sealed, store, task, recorded,
                   bounds>>

PruneBegins(n) ==
    /\ ArchiveIdle
    /\ Verified(n) /\ n \in present \ Active
    /\ files[n] = rows[n].bytes
    /\ task' = [at |-> "head", name |-> n, digest |-> files[n]]
    /\ UNCHANGED <<clock, volume, recorder, export, sealed, rows, store, recorded,
                   bounds>>

\* HEAD finds the object, and the row is flipped (a leftover is pruned already).
\* Or HEAD does not find it, or fails; or the update raises and the tick ends.
PruneMark ==
    LET n     == task.name
        found == n \in objects /\ remote[n] = task.digest
    IN  /\ Step("head")
        /\ \/ /\ found
              /\ rows' = [rows EXCEPT ![n].state = "pruned"]
              /\ task' = [task EXCEPT !.at = "unlink"]
              /\ UNCHANGED faults
           \/ /\ IF found THEN Fault ELSE UNCHANGED faults
              /\ task' = Idle /\ Attempted(n)
           \/ found /\ Fault /\ task' = Idle /\ UNCHANGED rows
        /\ UNCHANGED <<clock, volume, recorder, export, sealed, store, recorded,
                       written, exports, crashes>>

\* os.unlink; a handle that is open on the file writes to a nameless one.
PruneUnlink ==
    LET n == task.name
    IN  /\ Step("unlink")
        /\ task' = Idle
        /\ \/ /\ n \in present
              /\ present' = present \ {n} /\ files' = [files EXCEPT ![n] = {}]
              /\ UNCHANGED <<rows, faults>>
           \/ /\ IF n \in present THEN Fault ELSE UNCHANGED faults
              /\ Attempted(n) /\ UNCHANGED volume
        /\ UNCHANGED <<clock, recorder, export, sealed, store, recorded, written,
                       exports, crashes>>

-----------------------------------------------------------------------------
\* The process stops and starts again: the volume, the ledger and the remote
\* store remain.
Crash ==
    /\ crashes < MaxCrashes
    /\ crashes' = crashes + 1
    /\ openHour' = None /\ fh' = None /\ buffer' = {} /\ writing' = FALSE
    /\ exporting' = "no" /\ exportHour' = None
    /\ sealed' = {} /\ task' = Idle
    /\ UNCHANGED <<clock, volume, rows, store, recorded, written, exports, faults>>

Upload == UploadPut \/ UploadFails \/ UploadMark
Prune  == PruneMark \/ PruneUnlink

Next ==
    \/ ClockTicks
    \/ Rotate \/ Append \/ Flush \/ WriteFails
    \/ ExportBegins \/ ExportCloses \/ ExportRenames \/ ExportSeals
    \/ RegisterPending
    \/ \E n \in Names : UploadBegins(n) \/ PruneRefuses(n) \/ PruneBegins(n)
    \/ Upload \/ Prune
    \/ Crash

Spec == Init /\ [][Next]_vars

\* The archive's task ticks for ever: each pass registers, uploads the oldest
\* segments first and completes what it began.
Fairness ==
    /\ WF_vars(RegisterPending) /\ WF_vars(Upload) /\ WF_vars(Prune)
    /\ \A n \in Names : SF_vars(UploadBegins(n))

FairSpec == Spec /\ Fairness

-----------------------------------------------------------------------------
(***************************************************************************)
(* Properties                                                              *)
(***************************************************************************)
VolumeType ==
    /\ present \subseteq Names /\ files \in [Names -> SUBSET Frames]
    /\ recorded \subseteq Frames
RecorderType ==
    /\ clock \in Hours /\ openHour \in Hours \cup {None}
    /\ fh \in Names \cup {None} /\ buffer \subseteq Frames
    /\ writing \in BOOLEAN /\ written \in 0..MaxFrames
ExportType ==
    /\ exporting \in {"no", "closing", "renaming", "sealing"}
    /\ exportHour \in Hours \cup {None} /\ exports \in 0..MaxExports
    /\ sealed \subseteq Names
ArchiveType ==
    /\ rows \in [Names -> Row]
    /\ objects \subseteq Names /\ remote \in [Names -> SUBSET Frames]
    /\ task \in Task
BoundType == faults \in 0..MaxFaults /\ crashes \in 0..MaxCrashes

TypeOK == VolumeType /\ RecorderType /\ ExportType /\ ArchiveType /\ BoundType

\* No recorded frame is ever lost: what was flushed to an hourly file is on the
\* volume or in the remote store, whatever request, transaction or unlink failed,
\* was repeated or was interrupted, and whatever was renamed.  (What is flushed
\* through a handle that a rename took along is OnlyActiveIsOpen's matter.)
FramesAreKept ==
    \A f \in recorded :
        (\E n \in present : f \in files[n]) \/ (\E n \in objects : f \in remote[n])

\* A row that authorises a deletion is true: the remote store holds exactly the
\* content that was verified.
VerifiedIsRemote ==
    \A n \in Names : Verified(n) => n \in objects /\ remote[n] = rows[n].bytes

\* A row only ever advances, local -> uploaded -> pruned: no repeated seal, scan,
\* late answer or restart takes a verified segment back or changes what was
\* verified.
RowsOnlyAdvance ==
    [][\A n \in Names :
          /\ Verified(n) => Verified(n)' /\ rows'[n].bytes = rows[n].bytes
          /\ rows[n].state = "pruned" => rows'[n].state = "pruned"
          /\ rows'[n].state = "none" => rows[n].state = "none"]_vars

\* Every file that nobody writes is verified in the remote store in the end,
\* unless it is renamed first or its attempts are used up.
SegmentsAreArchived ==
    \A n \in Names :
        (n \in present \ Active)
            ~> (Verified(n) \/ n \notin present \/ rows[n].attempts >= MaxAttempts)

\* Nothing ever appends to a segment that was finalised: the recorder writes to
\* active segments only (checkpoint_for_export).
OnlyActiveIsOpen == fh # None => fh \in Active
=============================================================================
