-------------------------- MODULE RawArchiveProofs --------------------------
(***************************************************************************)
(* What holds of RawArchive for any number of hours, frames, exports,      *)
(* failures and crashes.                                                   *)
(*                                                                         *)
(* That no recorded frame is lost is the last part of an inductive         *)
(* invariant.  A deletion is harmless because the content that was         *)
(* compared (TaskInv) is the one the remote store has (VerifiedIsRemote),  *)
(* because nobody writes to the file meanwhile but through a handle that a *)
(* rename took along (HandleInv), and because what such a handle flushes   *)
(* was in no file before (BufferInv).                                      *)
(***************************************************************************)
EXTENDS RawArchive, TLAPS

HourlyFiles == {Hourly(h) : h \in Hours}

\* The recorder's own handle is on the active file, and nothing is dated in the
\* future.
HandleInv ==
    /\ fh \in HourlyFiles =>
          openHour # None /\ fh = Hourly(openHour) /\ fh \in present
    /\ openHour # None => openHour <= clock
    /\ exporting \in {"renaming", "sealing"} => exportHour # None
    /\ exportHour # None => exportHour <= clock
    /\ \A n \in present : n.hour <= clock

\* A frame is in the buffer or in files, never in both.
BufferInv ==
    /\ writing => written < MaxFrames
    /\ \A f \in buffer : f <= written /\ f \notin recorded
    /\ \A n \in Names : files[n] \cap buffer = {}
    /\ \A f \in recorded : f <= written
    /\ \A n \in Names : \A f \in files[n] : f <= written

\* The part an export is about to make, and any later one.
Fresh(n) ==
    n.part > exports \/ (n.part = exports /\ exporting \in {"closing", "renaming"})

PartInv ==
    /\ exporting # "no" => exports > 0
    /\ \A n \in Names : Fresh(n) =>
          n \notin present /\ n \notin sealed /\ rows[n].state = "none"

\* What the archive's thread has established and still relies on.
TaskInv ==
    /\ task # Idle => task.name.hour <= clock /\ task.name \notin Active
    /\ task.at \in {"put", "mark"} => rows[task.name].state = "local"
    /\ task.at = "mark" =>
          task.name \in objects /\ remote[task.name] = task.digest
    /\ task.at \in {"head", "unlink"} =>
          /\ Verified(task.name)
          /\ files[task.name] \cap recorded \subseteq remote[task.name]

\* FramesAreKept, by copies that nobody may overwrite.
KeptInv ==
    \A f \in recorded :
        \/ \E n \in present : f \in files[n]
        \/ \E n \in Names : Verified(n) /\ f \in remote[n]

IInv == /\ TypeOK /\ HandleInv /\ BufferInv /\ PartInv /\ TaskInv
        /\ VerifiedIsRemote /\ KeptInv

USE DEF volume, recorder, export, store, bounds

Types == {"put", "mark", "head", "unlink"}

LEMMA TaskFacts ==
    ASSUME TypeOK, task.at # "idle"
    PROVE  /\ task \in [at: Types, name: Names, digest: SUBSET Frames]
           /\ task # Idle /\ task.name \in Names /\ task.digest \subseteq Frames
BY DEF TypeOK, ArchiveType, Task, Idle, Types

LEMMA TaskAt ==
    ASSUME TypeOK, task.at # "idle", NEW at \in Types, task' = [task EXCEPT !.at = at]
    PROVE  /\ task' \in Task /\ task' # Idle
           /\ task'.at = at /\ task'.name = task.name /\ task'.digest = task.digest
BY TaskFacts DEF Task, Idle, Types

LEMMA AttemptedFacts ==
    ASSUME TypeOK, NEW n \in Names, Attempted(n)
    PROVE  /\ rows' \in [Names -> Row]
           /\ \A m \in Names : /\ rows'[m].state = rows[m].state
                               /\ rows'[m].bytes = rows[m].bytes
<1>1. rows[n] \in Row /\ rows \in [Names -> Row]
  BY DEF TypeOK, ArchiveType
<1> DEFINE k == IF rows[n].attempts < MaxAttempts
                  THEN rows[n].attempts + 1 ELSE rows[n].attempts
<1>2. k \in 0..MaxAttempts
  BY <1>1, ConstantsOK DEF Row
<1>3. rows' = [rows EXCEPT ![n] = [rows[n] EXCEPT !.attempts = k]]
  BY DEF Attempted
<1> HIDE DEF k
<1> QED BY <1>1, <1>2, <1>3 DEF Row

\* A flush adds new frames to the file the handle is on, and to no other.
LEMMA FlushedFacts ==
    ASSUME TypeOK, NEW kept \in SUBSET buffer
    PROVE  /\ Flushed(kept) \in [Names -> SUBSET Frames]
           /\ \A n \in Names :
                 Flushed(kept)[n] =
                    IF n = fh /\ n \in present THEN files[n] \cup kept ELSE files[n]
BY NoneIsNoName DEF TypeOK, VolumeType, RecorderType, Flushed

LEMMA FlushStep ==
    ASSUME IInv, NEW kept \in SUBSET buffer,
           files' = Flushed(kept), Remember(kept), buffer' = {},
           present \subseteq present', written <= written', written' \in Nat,
           writing' => written' < MaxFrames, UNCHANGED <<rows, store>>
    PROVE  /\ files' \in [Names -> SUBSET Frames] /\ recorded' \subseteq Frames
           /\ BufferInv'
           /\ task.at \in {"head", "unlink"} =>
                 files'[task.name] \cap recorded' \subseteq remote'[task.name]
           /\ KeptInv'
<1> USE DEF IInv
<1>1. /\ files' \in [Names -> SUBSET Frames]
      /\ \A n \in Names :
            files'[n] = IF n = fh /\ n \in present THEN files[n] \cup kept ELSE files[n]
  BY FlushedFacts
<1>2. recorded' = IF fh \in HourlyFiles THEN recorded \cup kept ELSE recorded
  BY DEF Remember, HourlyFiles
<1>3. kept \subseteq Frames /\ recorded' \subseteq Frames
  BY <1>2 DEF TypeOK, VolumeType, RecorderType
<1>4. BufferInv'
  <2>1. \A f \in recorded' : f <= written'
    BY <1>2, <1>3 DEF BufferInv, TypeOK, VolumeType, RecorderType, Frames
  <2>2. \A n \in Names : \A f \in files'[n] : f <= written'
    BY <1>1, <1>3 DEF BufferInv, TypeOK, VolumeType, RecorderType, Frames
  <2> QED BY <2>1, <2>2 DEF BufferInv
<1>5. ASSUME task.at \in {"head", "unlink"}
      PROVE  files'[task.name] \cap recorded' \subseteq remote'[task.name]
  <2>1. task # Idle /\ task.name \in Names /\ task.name \notin Active
    BY <1>5, TaskFacts DEF TaskInv
  <2>2. fh \in HourlyFiles => fh # task.name
    BY <2>1 DEF HandleInv, Active
  <2>3. CASE fh = task.name
    BY <1>1, <1>2, <1>5, <2>1, <2>2, <2>3 DEF TaskInv, BufferInv
  <2>4. CASE fh # task.name
    BY <1>1, <1>2, <1>5, <2>1, <2>4 DEF TaskInv, BufferInv
  <2> QED BY <2>3, <2>4
<1>6. KeptInv'
  <2> SUFFICES ASSUME NEW f \in recorded'
               PROVE  \/ \E n \in present' : f \in files'[n]
                      \/ \E n \in Names : Verified(n)' /\ f \in remote'[n]
    BY DEF KeptInv
  <2>1. CASE f \in recorded
    BY <1>1, <2>1 DEF KeptInv, TypeOK, VolumeType, Verified
  <2>2. CASE f \notin recorded
    BY <1>1, <1>2, <2>2 DEF HandleInv, TypeOK, VolumeType
  <2> QED BY <2>1, <2>2
<1> QED BY <1>1, <1>3, <1>4, <1>5, <1>6

(***************************************************************************)
(* What keeps each part of the invariant                                   *)
(***************************************************************************)

\* A name that is not active does not become active again.
LEMMA StaysInactive ==
    ASSUME IInv, task # Idle, clock' = clock \/ clock' = clock + 1,
           openHour' \in {openHour, clock, None}
    PROVE  task.name.hour <= clock' /\ task.name \notin Active'
<1>1. /\ task.name \in Names /\ task.name.hour <= clock
      /\ task.name \notin Active /\ clock \in Nat
  BY DEF IInv, TypeOK, ArchiveType, RecorderType, Task, TaskInv, Hours
<1>2. task.name.hour \in Nat
  BY <1>1 DEF Names, Hours
<1>3. task.name # Hourly(clock')
  BY <1>1, <1>2 DEF Active, Hourly
<1>4. openHour' # None => task.name # Hourly(openHour')
  BY <1>1 DEF Active
<1> QED BY <1>1, <1>2, <1>3, <1>4 DEF Active

LEMMA TaskKept ==
    ASSUME IInv, UNCHANGED <<task, store>>,
           clock' = clock \/ clock' = clock + 1,
           openHour' \in {openHour, clock, None},
           \A n \in Names : rows'[n].state = rows[n].state,
           task.at \in {"head", "unlink"} =>
              files'[task.name] \cap recorded' \subseteq remote'[task.name]
    PROVE  TaskInv'
<1>1. task.at # "idle" => task.name \in Names
  BY TaskFacts DEF IInv
<1>2. task # Idle => task.name.hour <= clock' /\ task.name \notin Active'
  BY StaysInactive
<1> QED BY <1>1, <1>2 DEF IInv, TaskInv, Verified

LEMMA IdleKept ==
    ASSUME task' = Idle
    PROVE  TaskInv'
BY DEF TaskInv, Idle

LEMMA VerifiedKept ==
    ASSUME IInv, UNCHANGED store,
           \A n \in Names : /\ Verified(n)' => Verified(n)
                            /\ rows'[n].bytes = rows[n].bytes
    PROVE  VerifiedIsRemote'
BY DEF IInv, VerifiedIsRemote

LEMMA Kept ==
    ASSUME IInv, recorded' = recorded,
           \A n \in present : n \in present' /\ files[n] \subseteq files'[n],
           \A n \in Names : Verified(n) => Verified(n)' /\ remote[n] \subseteq remote'[n]
    PROVE  KeptInv'
BY DEF IInv, KeptInv

(***************************************************************************)
(* The actions, one by one                                                 *)
(***************************************************************************)

LEMMA ClockTicksKeeps ==
    ASSUME IInv, ClockTicks
    PROVE  IInv'
<1> USE ConstantsOK DEF IInv, ClockTicks
<1>1. TypeOK'
  BY DEF TypeOK, VolumeType, RecorderType, ExportType, ArchiveType, BoundType, Hours
<1>2. HandleInv'
  BY DEF HandleInv, TypeOK, VolumeType, RecorderType, ExportType, Hours, Names
<1>3. BufferInv' /\ PartInv'
  BY DEF BufferInv, PartInv, Fresh
<1>4. TaskInv'
  BY TaskKept DEF TaskInv
<1>5. VerifiedIsRemote' /\ KeptInv'
  BY DEF VerifiedIsRemote, Verified, KeptInv
<1> QED BY <1>1, <1>2, <1>3, <1>4, <1>5

LEMMA RotateKeeps ==
    ASSUME IInv, Rotate
    PROVE  IInv'
<1> USE DEF IInv, Rotate
<1>1. CASE openHour = clock
  <2> USE <1>1
  <2>1. UNCHANGED <<clock, volume, openHour, fh, buffer, export, sealed, rows,
                    store, task, recorded, bounds>>
    OBVIOUS
  <2>2. TypeOK'
    BY <2>1 DEF TypeOK, VolumeType, RecorderType, ExportType, ArchiveType, BoundType
  <2>3. HandleInv' /\ BufferInv' /\ PartInv'
    BY <2>1 DEF HandleInv, BufferInv, PartInv, Fresh
  <2>4. TaskInv'
    BY <2>1, TaskKept DEF TaskInv
  <2>5. VerifiedIsRemote' /\ KeptInv'
    BY <2>1 DEF VerifiedIsRemote, Verified, KeptInv
  <2> QED BY <2>2, <2>3, <2>4, <2>5
<1>2. CASE openHour # clock
  <2> USE <1>2
  <2>1. /\ openHour' = clock /\ fh' = Hourly(clock)
        /\ present' = present \cup {Hourly(clock)}
        /\ files' = Flushed(buffer) /\ Remember(buffer) /\ buffer' = {}
        /\ sealed' = sealed \cup {Hourly(h) : h \in {openHour} \ {None}}
        /\ writing' = TRUE /\ written < MaxFrames
        /\ UNCHANGED <<clock, export, rows, store, task, bounds>>
    OBVIOUS
  <2>2. /\ files' \in [Names -> SUBSET Frames] /\ recorded' \subseteq Frames
        /\ BufferInv' /\ KeptInv'
        /\ task.at \in {"head", "unlink"} =>
              files'[task.name] \cap recorded' \subseteq remote'[task.name]
    BY <2>1, FlushStep DEF TypeOK, RecorderType
  <2>3. /\ Hourly(clock) \in Names /\ Hourly(clock).hour = clock
        /\ \A h \in {openHour} \ {None} : Hourly(h) \in Names
    BY ConstantsOK DEF TypeOK, RecorderType, Hourly, Names
  <2>4. TypeOK'
    BY <2>1, <2>2, <2>3
    DEF TypeOK, VolumeType, RecorderType, ExportType, ArchiveType, BoundType
  <2>5. HandleInv'
    BY <2>1, <2>3, NoneIsNoName, ConstantsOK
    DEF HandleInv, TypeOK, RecorderType, Hours
  <2>6. PartInv'
    <3>1. \A h : ~Fresh(Hourly(h))
      BY DEF Fresh, Hourly, PartInv, TypeOK, ExportType
    <3> QED BY <2>1, <3>1 DEF PartInv, Fresh
  <2>7. TaskInv'
    BY <2>1, <2>2, TaskKept
  <2>8. VerifiedIsRemote'
    BY <2>1 DEF VerifiedIsRemote, Verified
  <2> QED BY <2>2, <2>4, <2>5, <2>6, <2>7, <2>8
<1> QED BY <1>1, <1>2

LEMMA AppendKeeps ==
    ASSUME IInv, Append
    PROVE  IInv'
<1> USE ConstantsOK DEF IInv, Append
<1>1. written + 1 \in Frames /\ written' \in 0..MaxFrames
  BY DEF BufferInv, TypeOK, RecorderType, Frames
<1>2. TypeOK'
  BY <1>1
  DEF TypeOK, VolumeType, RecorderType, ExportType, ArchiveType, BoundType
<1>3. HandleInv' /\ PartInv'
  BY DEF HandleInv, PartInv, Fresh
<1>4. BufferInv'
  BY <1>1 DEF BufferInv, TypeOK, VolumeType, RecorderType, Frames
<1>5. TaskInv'
  BY TaskKept DEF TaskInv
<1>6. VerifiedIsRemote' /\ KeptInv'
  BY DEF VerifiedIsRemote, Verified, KeptInv
<1> QED BY <1>2, <1>3, <1>4, <1>5, <1>6

LEMMA FlushKeeps ==
    ASSUME IInv, Flush
    PROVE  IInv'
<1> USE DEF IInv, Flush
<1>1. /\ files' \in [Names -> SUBSET Frames] /\ recorded' \subseteq Frames
      /\ BufferInv' /\ KeptInv'
      /\ task.at \in {"head", "unlink"} =>
            files'[task.name] \cap recorded' \subseteq remote'[task.name]
  BY FlushStep DEF TypeOK, RecorderType, BufferInv
<1>2. TypeOK'
  BY <1>1
  DEF TypeOK, VolumeType, RecorderType, ExportType, ArchiveType, BoundType
<1>3. HandleInv' /\ PartInv'
  BY DEF HandleInv, PartInv, Fresh
<1>4. TaskInv'
  BY <1>1, TaskKept
<1>5. VerifiedIsRemote'
  BY DEF VerifiedIsRemote, Verified
<1> QED BY <1>1, <1>2, <1>3, <1>4, <1>5

LEMMA WriteFailsKeeps ==
    ASSUME IInv, WriteFails
    PROVE  IInv'
<1> USE DEF IInv, WriteFails
<1>1. PICK kept \in {{}, buffer} : files' = Flushed(kept) /\ Remember(kept)
  OBVIOUS
<1>2. written < MaxFrames /\ written' = written + 1 /\ written' \in 0..MaxFrames
  BY ConstantsOK DEF BufferInv, TypeOK, RecorderType
<1>3. /\ files' \in [Names -> SUBSET Frames] /\ recorded' \subseteq Frames
      /\ BufferInv' /\ KeptInv'
      /\ task.at \in {"head", "unlink"} =>
            files'[task.name] \cap recorded' \subseteq remote'[task.name]
  BY <1>1, <1>2, FlushStep DEF TypeOK, RecorderType
<1>4. faults' \in 0..MaxFaults
  BY ConstantsOK DEF TypeOK, BoundType, Fault
<1>5. TypeOK'
  BY <1>2, <1>3, <1>4
  DEF TypeOK, VolumeType, RecorderType, ExportType, ArchiveType, BoundType
<1>6. HandleInv' /\ PartInv'
  BY NoneIsNoName, ConstantsOK DEF HandleInv, HourlyFiles, Hourly, Names, PartInv, Fresh
<1>7. TaskInv'
  BY <1>3, TaskKept
<1>8. VerifiedIsRemote'
  BY DEF VerifiedIsRemote, Verified
<1> QED BY <1>3, <1>5, <1>6, <1>7, <1>8

LEMMA ExportBeginsKeeps ==
    ASSUME IInv, ExportBegins
    PROVE  IInv'
<1> USE ConstantsOK DEF IInv, ExportBegins
<1>1. TypeOK'
  BY DEF TypeOK, VolumeType, RecorderType, ExportType, ArchiveType, BoundType
<1>2. HandleInv' /\ BufferInv'
  BY DEF HandleInv, BufferInv
<1>3. PartInv'
  BY DEF PartInv, Fresh, TypeOK, ExportType, Names
<1>4. TaskInv'
  BY TaskKept DEF TaskInv
<1>5. VerifiedIsRemote' /\ KeptInv'
  BY DEF VerifiedIsRemote, Verified, KeptInv
<1> QED BY <1>1, <1>2, <1>3, <1>4, <1>5

LEMMA ExportClosesKeeps ==
    ASSUME IInv, ExportCloses
    PROVE  IInv'
<1> USE DEF IInv, ExportCloses
<1>1. /\ files' \in [Names -> SUBSET Frames] /\ recorded' \subseteq Frames
      /\ BufferInv' /\ KeptInv'
      /\ task.at \in {"head", "unlink"} =>
            files'[task.name] \cap recorded' \subseteq remote'[task.name]
  BY FlushStep DEF TypeOK, RecorderType, BufferInv
<1>2. TypeOK'
  BY <1>1
  DEF TypeOK, VolumeType, RecorderType, ExportType, ArchiveType, BoundType
<1>3. HandleInv'
  BY NoneIsNoName, ConstantsOK DEF HandleInv, HourlyFiles, Hourly, Names
<1>4. PartInv'
  BY DEF PartInv, Fresh
<1>5. TaskInv'
  BY <1>1, TaskKept
<1>6. VerifiedIsRemote'
  BY DEF VerifiedIsRemote, Verified
<1> QED BY <1>1, <1>2, <1>3, <1>4, <1>5, <1>6

\* The name of the part an export makes.
LEMMA PartFacts ==
    ASSUME TypeOK, HandleInv, PartInv, exporting \in {"renaming", "sealing"}
    PROVE  /\ Part \in Names /\ Part.hour = exportHour /\ Part.hour <= clock
           /\ Part.part = exports /\ Part \notin HourlyFiles
           /\ Hourly(exportHour) \in HourlyFiles /\ Hourly(exportHour) \in Names
<1>1. exportHour \in Hours /\ exports \in 0..MaxExports /\ exports > 0
  BY DEF TypeOK, ExportType, HandleInv, PartInv
<1>2. exportHour <= clock
  BY <1>1, ConstantsOK DEF HandleInv
<1>3. Hourly(exportHour) \in HourlyFiles /\ Hourly(exportHour) \in Names
  BY <1>1, ConstantsOK DEF Names, Hourly, HourlyFiles
<1>4. Part \in Names /\ Part.hour = exportHour /\ Part.part = exports
  BY <1>1 DEF Part, Names
<1>5. \A n \in HourlyFiles : n.part = 0
  BY DEF Hourly, HourlyFiles
<1> QED BY <1>1, <1>2, <1>3, <1>4, <1>5

LEMMA ExportRenamesKeeps ==
    ASSUME IInv, ExportRenames
    PROVE  IInv'
<1> DEFINE active == Hourly(exportHour)
<1> USE DEF IInv
<1>1. CASE active \notin present
  <2>1. /\ exporting = "renaming" /\ exporting' = "no"
        /\ UNCHANGED <<clock, volume, recorder, exportHour, sealed, rows, store,
                       task, recorded, bounds>>
    BY <1>1 DEF ExportRenames
  <2>2. TypeOK'
    BY <2>1 DEF TypeOK, VolumeType, RecorderType, ExportType, ArchiveType, BoundType
  <2>3. HandleInv' /\ BufferInv' /\ PartInv'
    BY <2>1 DEF HandleInv, BufferInv, PartInv, Fresh
  <2>4. TaskInv'
    BY <2>1, TaskKept DEF TaskInv
  <2>5. VerifiedIsRemote' /\ KeptInv'
    BY <2>1 DEF VerifiedIsRemote, Verified, KeptInv
  <2> QED BY <2>2, <2>3, <2>4, <2>5
<1>2. CASE active \in present
  <2>1. /\ exporting = "renaming" /\ exporting' = "sealing"
        /\ present' = (present \ {active}) \cup {Part}
        /\ files' = [files EXCEPT ![Part] = files[active], ![active] = {}]
        /\ fh' = IF fh = active THEN Part ELSE fh
        /\ UNCHANGED <<clock, openHour, buffer, writing, exportHour, sealed, rows,
                       store, task, recorded, bounds>>
    BY <1>2 DEF ExportRenames
  <2>2. /\ Part \in Names /\ Part.hour <= clock /\ Part.part = exports
        /\ Part \notin HourlyFiles /\ active \in HourlyFiles /\ active \in Names
    BY <2>1, PartFacts
  <2>3. Part \notin present /\ Part \notin sealed /\ rows[Part].state = "none"
    BY <2>1, <2>2 DEF PartInv, Fresh
  <2>4. \A n \in Names : files'[n] = IF n = active THEN {}
                                     ELSE IF n = Part THEN files[active] ELSE files[n]
    BY <2>1, <2>2 DEF TypeOK, VolumeType
  <2> HIDE DEF active
  <2>5. TypeOK'
    <3>1. files[active] \in SUBSET Frames
      BY <2>2 DEF TypeOK, VolumeType
    <3> QED
      BY <2>1, <2>2, <3>1
      DEF TypeOK, VolumeType, RecorderType, ExportType, ArchiveType, BoundType
  <2>6. HandleInv'
    BY <2>1, <2>2 DEF HandleInv
  <2>7. BufferInv'
    BY <2>1, <2>2, <2>4 DEF BufferInv
  <2>8. PartInv'
    BY <2>1, <2>2 DEF PartInv, Fresh, TypeOK, ExportType
  <2>9. TaskInv'
    <3>1. task.at \in {"head", "unlink"} => task.name \in Names /\ task.name # Part
      BY <2>3, TaskFacts DEF TaskInv, Verified
    <3>2. task.at \in {"head", "unlink"} =>
             files'[task.name] \cap recorded' \subseteq remote'[task.name]
      <4>1. CASE task.name = active
        BY <2>4, <3>1, <4>1
      <4>2. CASE task.name # active
        BY <2>1, <2>4, <3>1, <4>2 DEF TaskInv
      <4> QED BY <4>1, <4>2
    <3> QED BY <2>1, <3>2, TaskKept
  <2>10. VerifiedIsRemote'
    BY <2>1 DEF VerifiedIsRemote, Verified
  <2>11. KeptInv'
    <3> SUFFICES ASSUME NEW f \in recorded
                 PROVE  \/ \E n \in present' : f \in files'[n]
                        \/ \E n \in Names : Verified(n)' /\ f \in remote'[n]
      BY <2>1 DEF KeptInv
    <3>1. CASE \E n \in present : f \in files[n]
      <4>1. PICK n \in present : f \in files[n]
        BY <3>1
      <4>2. CASE n = active
        BY <2>1, <2>2, <2>3, <2>4, <4>1, <4>2
      <4>3. CASE n # active
        BY <2>1, <2>3, <2>4, <4>1, <4>3 DEF TypeOK, VolumeType
      <4> QED BY <4>2, <4>3
    <3>2. CASE \E n \in Names : Verified(n) /\ f \in remote[n]
      BY <2>1, <3>2 DEF Verified
    <3> QED BY <3>1, <3>2 DEF KeptInv
  <2> QED BY <2>5, <2>6, <2>7, <2>8, <2>9, <2>10, <2>11
<1> QED BY <1>1, <1>2

LEMMA ExportSealsKeeps ==
    ASSUME IInv, ExportSeals
    PROVE  IInv'
<1> USE DEF IInv, ExportSeals
<1>1. Part \in Names /\ Part.part = exports
  BY PartFacts
<1>2. TypeOK'
  BY <1>1
  DEF TypeOK, VolumeType, RecorderType, ExportType, ArchiveType, BoundType
<1>3. HandleInv' /\ BufferInv'
  BY DEF HandleInv, BufferInv
<1>4. PartInv'
  BY <1>1 DEF PartInv, Fresh, TypeOK, ExportType
<1>5. TaskInv'
  BY TaskKept DEF TaskInv
<1>6. VerifiedIsRemote' /\ KeptInv'
  BY DEF VerifiedIsRemote, Verified, KeptInv
<1> QED BY <1>2, <1>3, <1>4, <1>5, <1>6

LEMMA RegisterPendingKeeps ==
    ASSUME IInv, RegisterPending
    PROVE  IInv'
<1> USE DEF IInv, RegisterPending
<1>1. PICK failed \in SUBSET Unregistered :
         /\ IF failed = {} THEN UNCHANGED faults ELSE Fault
         /\ rows' = [n \in Names |->
                       IF n \in Unregistered \ failed
                         THEN [rows[n] EXCEPT !.state = "local"] ELSE rows[n]]
  OBVIOUS
<1>2. \A n \in Names : rows[n] \in Row
  BY DEF TypeOK, ArchiveType
<1>3. \A n \in Names :
         /\ rows'[n] \in Row
         /\ rows'[n].bytes = rows[n].bytes
         /\ rows'[n].state = IF n \in Unregistered \ failed THEN "local"
                             ELSE rows[n].state
  BY <1>1, <1>2 DEF Row, States
<1>4. \A n \in Names : n \in Unregistered \ failed =>
         n \in sealed \cup present /\ rows[n].state = "none"
  BY DEF Unregistered, Found
<1>5. TypeOK'
  <2>1. faults' \in 0..MaxFaults
    BY <1>1, ConstantsOK DEF Fault, TypeOK, BoundType
  <2>2. rows' \in [Names -> Row]
    BY <1>1, <1>3
  <2> QED
    BY <2>1, <2>2
    DEF TypeOK, VolumeType, RecorderType, ExportType, ArchiveType, BoundType
<1>6. HandleInv' /\ BufferInv'
  BY DEF HandleInv, BufferInv
<1>7. PartInv'
  BY <1>3, <1>4 DEF PartInv, Fresh
<1>8. TaskInv'
  BY IdleKept DEF ArchiveIdle
<1>9. \A n \in Names : Verified(n)' <=> Verified(n)
  BY <1>3, <1>4 DEF Verified
<1>10. VerifiedIsRemote' /\ KeptInv'
  BY <1>3, <1>9, VerifiedKept, Kept DEF TypeOK, VolumeType
<1> QED BY <1>5, <1>6, <1>7, <1>8, <1>10

LEMMA UploadBeginsKeeps ==
    ASSUME IInv, NEW n \in Names, UploadBegins(n)
    PROVE  IInv'
<1> USE DEF IInv, UploadBegins
<1>1. task' \in Task /\ task' # Idle
  BY DEF Task, Idle, TypeOK, VolumeType
<1>2. TypeOK'
  BY <1>1
  DEF TypeOK, VolumeType, RecorderType, ExportType, ArchiveType, BoundType
<1>3. HandleInv' /\ BufferInv' /\ PartInv'
  BY DEF HandleInv, BufferInv, PartInv, Fresh
<1>4. TaskInv'
  BY DEF TaskInv, HandleInv, Active
<1>5. VerifiedIsRemote' /\ KeptInv'
  BY DEF VerifiedIsRemote, Verified, KeptInv
<1> QED BY <1>2, <1>3, <1>4, <1>5

\* What is not verified may be overwritten in the remote store.
LEMMA RemoteKept ==
    ASSUME IInv, NEW n \in Names, rows[n].state = "local",
           NEW stored \in SUBSET Frames,
           objects' = objects \cup {n}, remote' = [remote EXCEPT ![n] = stored],
           UNCHANGED <<present, files, recorded>>,
           \A m \in Names : /\ rows'[m].state = rows[m].state
                            /\ rows'[m].bytes = rows[m].bytes
    PROVE  /\ objects' \subseteq Names /\ remote' \in [Names -> SUBSET Frames]
           /\ remote'[n] = stored /\ VerifiedIsRemote' /\ KeptInv'
<1>1. /\ objects' \subseteq Names /\ remote' \in [Names -> SUBSET Frames]
      /\ \A m \in Names : remote'[m] = IF m = n THEN stored ELSE remote[m]
  BY DEF IInv, TypeOK, ArchiveType
<1>2. ~Verified(n) /\ \A m \in Names : Verified(m)' <=> Verified(m)
  BY DEF Verified
<1>3. VerifiedIsRemote'
  BY <1>1, <1>2 DEF IInv, VerifiedIsRemote
<1>4. KeptInv'
  BY <1>1, <1>2, Kept
<1> QED BY <1>1, <1>3, <1>4

LEMMA UploadPutKeeps ==
    ASSUME IInv, UploadPut
    PROVE  IInv'
<1> DEFINE n == task.name
<1> USE DEF IInv
<1>1. /\ task.at = "put" /\ n \in present
      /\ objects' = objects \cup {n} /\ remote' = [remote EXCEPT ![n] = files[n]]
      /\ \/ /\ Matches(remote'[n], task.digest)
            /\ task' = [task EXCEPT !.at = "mark"] /\ UNCHANGED rows
         \/ task' = Idle /\ Attempted(n)
      /\ UNCHANGED <<clock, volume, recorder, export, sealed, recorded, bounds>>
  BY DEF UploadPut, Step
<1>2. n \in Names /\ rows[n].state = "local" /\ files[n] \in SUBSET Frames
  BY <1>1, TaskFacts DEF TaskInv, TypeOK, VolumeType
<1> HIDE DEF n
<1>3. /\ rows' \in [Names -> Row]
      /\ \A m \in Names : /\ rows'[m].state = rows[m].state
                          /\ rows'[m].bytes = rows[m].bytes
  BY <1>1, <1>2, AttemptedFacts DEF TypeOK, ArchiveType
<1>4. /\ objects' \subseteq Names /\ remote' \in [Names -> SUBSET Frames]
      /\ VerifiedIsRemote' /\ KeptInv'
  BY <1>1, <1>2, <1>3, RemoteKept
<1>5. task' \in Task /\ TaskInv'
  <2>1. CASE task' = Idle
    BY <2>1, IdleKept DEF Task
  <2>2. CASE /\ Matches(remote'[n], task.digest)
             /\ task' = [task EXCEPT !.at = "mark"]
    <3>1. /\ task' \in Task /\ task'.at = "mark" /\ task'.name = n
          /\ task'.digest = task.digest /\ task # Idle
      BY <1>1, <2>2, TaskAt, TaskFacts DEF Types, n
    <3>2. remote'[n] = task'.digest /\ n \in objects'
      BY <1>1, <2>2, <3>1 DEF Matches
    <3>3. n.hour <= clock' /\ n \notin Active'
      BY <1>1, <3>1 DEF TaskInv, Active, n
    <3>4. rows'[n].state = "local"
      BY <1>2, <1>3
    <3> QED BY <3>1, <3>2, <3>3, <3>4 DEF TaskInv
  <2> QED BY <1>1, <2>1, <2>2
<1>6. TypeOK'
  BY <1>1, <1>3, <1>4, <1>5
  DEF TypeOK, VolumeType, RecorderType, ExportType, ArchiveType, BoundType
<1>7. HandleInv' /\ BufferInv' /\ PartInv'
  BY <1>1, <1>3 DEF HandleInv, BufferInv, PartInv, Fresh
<1> QED BY <1>4, <1>5, <1>6, <1>7

LEMMA UploadFailsKeeps ==
    ASSUME IInv, UploadFails
    PROVE  IInv'
<1> DEFINE n == task.name
<1> USE DEF IInv
<1>1. /\ task.at = "put" /\ task' = Idle /\ Attempted(n)
      /\ UNCHANGED faults \/ Fault
      /\ \/ UNCHANGED store
         \/ /\ objects' = objects \cup {n}
            /\ \E stored \in {{}, files[n]} : remote' = [remote EXCEPT ![n] = stored]
      /\ UNCHANGED <<clock, volume, recorder, export, sealed, recorded, written,
                     exports, crashes>>
  BY DEF UploadFails, Step
<1>2. n \in Names /\ rows[n].state = "local" /\ files[n] \in SUBSET Frames
  BY <1>1, TaskFacts DEF TaskInv, TypeOK, VolumeType
<1> HIDE DEF n
<1>3. /\ rows' \in [Names -> Row]
      /\ \A m \in Names : /\ rows'[m].state = rows[m].state
                          /\ rows'[m].bytes = rows[m].bytes
  BY <1>1, <1>2, AttemptedFacts
<1>4. /\ objects' \subseteq Names /\ remote' \in [Names -> SUBSET Frames]
      /\ VerifiedIsRemote' /\ KeptInv'
  <2>1. CASE UNCHANGED store
    BY <1>1, <1>3, <2>1
    DEF TypeOK, ArchiveType, VerifiedIsRemote, Verified, KeptInv
  <2>2. CASE ~UNCHANGED store
    <3>1. PICK stored \in {{}, files[n]} : remote' = [remote EXCEPT ![n] = stored]
      BY <1>1, <2>2
    <3>2. stored \in SUBSET Frames
      BY <1>2, <3>1
    <3> QED BY <1>1, <1>2, <1>3, <2>2, <3>1, <3>2, RemoteKept
  <2> QED BY <2>1, <2>2
<1>5. TypeOK'
  <2>1. faults' \in 0..MaxFaults
    BY <1>1, ConstantsOK DEF Fault, TypeOK, BoundType
  <2> QED
    BY <1>1, <1>3, <1>4, <2>1
    DEF TypeOK, VolumeType, RecorderType, ExportType, ArchiveType, BoundType, Task
<1>6. HandleInv' /\ BufferInv' /\ PartInv'
  BY <1>1, <1>3 DEF HandleInv, BufferInv, PartInv, Fresh
<1>7. TaskInv'
  BY <1>1, IdleKept
<1> QED BY <1>4, <1>5, <1>6, <1>7

LEMMA UploadMarkKeeps ==
    ASSUME IInv, UploadMark
    PROVE  IInv'
<1> DEFINE n == task.name
<1> USE DEF IInv
<1>1. /\ task.at = "mark" /\ task' = Idle
      /\ \/ rows' = [rows EXCEPT ![n].state = "uploaded", ![n].bytes = task.digest]
         \/ UNCHANGED rows
      /\ UNCHANGED faults \/ Fault
      /\ UNCHANGED <<clock, volume, recorder, export, sealed, store, recorded,
                     written, exports, crashes>>
  BY DEF UploadMark, Step
<1>2. /\ n \in Names /\ rows[n].state = "local" /\ task.digest \in SUBSET Frames
      /\ n \in objects /\ remote[n] = task.digest
  BY <1>1, TaskFacts DEF TaskInv
<1> HIDE DEF n
<1>3. /\ rows' \in [Names -> Row]
      /\ \A m \in Names \ {n} : rows'[m] = rows[m]
      /\ \/ rows'[n] = rows[n]
         \/ rows'[n].state = "uploaded" /\ rows'[n].bytes = task.digest
  <2>1. CASE UNCHANGED rows
    BY <2>1 DEF TypeOK, ArchiveType
  <2>2. CASE rows' = [rows EXCEPT ![n].state = "uploaded", ![n].bytes = task.digest]
    <3>1. \A m \in Names : rows[m] \in Row
      BY DEF TypeOK, ArchiveType
    <3> QED BY <1>2, <2>2, <3>1 DEF TypeOK, ArchiveType, Row, States
  <2> QED BY <1>1, <2>1, <2>2
<1>4. TypeOK'
  <2>1. faults' \in 0..MaxFaults
    BY <1>1, ConstantsOK DEF Fault, TypeOK, BoundType
  <2> QED
    BY <1>1, <1>3, <2>1
    DEF TypeOK, VolumeType, RecorderType, ExportType, ArchiveType, BoundType, Task
<1>5. HandleInv' /\ BufferInv'
  BY <1>1 DEF HandleInv, BufferInv
<1>6. PartInv'
  BY <1>1, <1>2, <1>3 DEF PartInv, Fresh
<1>7. TaskInv'
  BY <1>1, IdleKept
<1>8. VerifiedIsRemote'
  BY <1>1, <1>2, <1>3 DEF VerifiedIsRemote, Verified
<1>9. KeptInv'
  BY <1>1, <1>2, <1>3, Kept DEF Verified
<1> QED BY <1>4, <1>5, <1>6, <1>7, <1>8, <1>9

LEMMA PruneRefusesKeeps ==
    ASSUME IInv, NEW n \in Names, PruneRefuses(n)
    PROVE  IInv'
<1> USE DEF IInv, PruneRefuses
<1>1. /\ rows' \in [Names -> Row]
      /\ \A m \in Names : /\ rows'[m].state = rows[m].state
                          /\ rows'[m].bytes = rows[m].bytes
  BY AttemptedFacts
<1>2. TypeOK'
  BY <1>1
  DEF TypeOK, VolumeType, RecorderType, ExportType, ArchiveType, BoundType
<1>3. HandleInv' /\ BufferInv' /\ PartInv'
  BY <1>1 DEF HandleInv, BufferInv, PartInv, Fresh
<1>4. TaskInv'
  BY IdleKept DEF ArchiveIdle
<1>5. VerifiedIsRemote' /\ KeptInv'
  BY <1>1 DEF VerifiedIsRemote, Verified, KeptInv
<1> QED BY <1>2, <1>3, <1>4, <1>5

\* The size that was compared stands for the content the remote store has.
LEMMA PruneBeginsKeeps ==
    ASSUME IInv, NEW n \in Names, PruneBegins(n)
    PROVE  IInv'
<1> USE DEF IInv, PruneBegins
<1>1. task' \in Task /\ task' # Idle
  BY DEF Task, Idle, TypeOK, VolumeType
<1>2. TypeOK'
  BY <1>1
  DEF TypeOK, VolumeType, RecorderType, ExportType, ArchiveType, BoundType
<1>3. HandleInv' /\ BufferInv' /\ PartInv'
  BY DEF HandleInv, BufferInv, PartInv, Fresh
<1>4. files[n] = remote[n]
  BY DEF VerifiedIsRemote
<1>5. TaskInv'
  BY <1>4 DEF TaskInv, HandleInv, Active, Verified
<1>6. VerifiedIsRemote' /\ KeptInv'
  BY DEF VerifiedIsRemote, Verified, KeptInv
<1> QED BY <1>2, <1>3, <1>5, <1>6

LEMMA PruneMarkKeeps ==
    ASSUME IInv, PruneMark
    PROVE  IInv'
<1> DEFINE n == task.name
<1> USE DEF IInv
<1>1. /\ task.at = "head"
      /\ \/ /\ rows' = [rows EXCEPT ![n].state = "pruned"]
            /\ task' = [task EXCEPT !.at = "unlink"]
         \/ task' = Idle /\ (Attempted(n) \/ UNCHANGED rows)
      /\ UNCHANGED faults \/ Fault
      /\ UNCHANGED <<clock, volume, recorder, export, sealed, store, recorded,
                     written, exports, crashes>>
  BY DEF PruneMark, Step
<1>2. n \in Names /\ Verified(n)
  BY <1>1, TaskFacts DEF TaskInv
<1>3. /\ rows' \in [Names -> Row]
      /\ \A m \in Names : /\ Verified(m)' <=> Verified(m)
                          /\ rows'[m].bytes = rows[m].bytes
                          /\ rows[m].state = "none" <=> rows'[m].state = "none"
  <2>1. CASE Attempted(n) \/ UNCHANGED rows
    BY <1>2, <2>1, AttemptedFacts DEF TypeOK, ArchiveType, Verified
  <2>2. CASE rows' = [rows EXCEPT ![n].state = "pruned"]
    <3>1. \A m \in Names : rows[m] \in Row
      BY DEF TypeOK, ArchiveType
    <3>2. \A m \in Names :
             rows'[m] = IF m = n THEN [rows[n] EXCEPT !.state = "pruned"] ELSE rows[m]
      BY <1>2, <2>2 DEF TypeOK, ArchiveType
    <3> QED BY <1>2, <2>2, <3>1, <3>2 DEF TypeOK, ArchiveType, Row, States, Verified
  <2> QED BY <1>1, <2>1, <2>2
<1>4. task' \in Task /\ TaskInv'
  <2>1. CASE task' = Idle
    BY <2>1, IdleKept DEF Task
  <2>2. CASE task' = [task EXCEPT !.at = "unlink"]
    <3>1. /\ task' \in Task /\ task'.at = "unlink" /\ task'.name = n /\ task # Idle
      BY <1>1, <2>2, TaskAt, TaskFacts DEF Types
    <3> QED BY <1>1, <1>2, <1>3, <3>1 DEF TaskInv, Active
  <2> QED BY <1>1, <2>1, <2>2
<1> HIDE DEF n
<1>5. TypeOK'
  <2>1. faults' \in 0..MaxFaults
    BY <1>1, ConstantsOK DEF Fault, TypeOK, BoundType
  <2> QED
    BY <1>1, <1>3, <1>4, <2>1
    DEF TypeOK, VolumeType, RecorderType, ExportType, ArchiveType, BoundType
<1>6. HandleInv' /\ BufferInv' /\ PartInv'
  BY <1>1, <1>3 DEF HandleInv, BufferInv, PartInv, Fresh
<1>7. VerifiedIsRemote' /\ KeptInv'
  BY <1>1, <1>3, VerifiedKept, Kept
<1> QED BY <1>4, <1>5, <1>6, <1>7

\* The deletion: what the file had of the recorded frames is in the object.
LEMMA PruneUnlinkKeeps ==
    ASSUME IInv, PruneUnlink
    PROVE  IInv'
<1> DEFINE n == task.name
<1> USE DEF IInv
<1>1. /\ task.at = "unlink" /\ task' = Idle
      /\ \/ /\ present' = present \ {n} /\ files' = [files EXCEPT ![n] = {}]
            /\ UNCHANGED rows
         \/ Attempted(n) /\ UNCHANGED volume
      /\ UNCHANGED faults \/ Fault
      /\ UNCHANGED <<clock, recorder, export, sealed, store, recorded, written,
                     exports, crashes>>
  BY DEF PruneUnlink, Step
<1>2. /\ n \in Names /\ n \notin Active /\ Verified(n)
      /\ files[n] \cap recorded \subseteq remote[n]
  BY <1>1, TaskFacts DEF TaskInv
<1> HIDE DEF n
<1>3. /\ rows' \in [Names -> Row]
      /\ \A m \in Names : /\ rows'[m].state = rows[m].state
                          /\ rows'[m].bytes = rows[m].bytes
  BY <1>1, <1>2, AttemptedFacts DEF TypeOK, ArchiveType
<1>4. /\ present' \subseteq present /\ files' \in [Names -> SUBSET Frames]
      /\ \A m \in Names : /\ files'[m] \subseteq files[m]
                          /\ m # n => files'[m] = files[m]
      /\ \A m \in present : m # n => m \in present'
  BY <1>1, <1>2 DEF TypeOK, VolumeType
<1>5. TypeOK'
  <2>1. faults' \in 0..MaxFaults
    BY <1>1, ConstantsOK DEF Fault, TypeOK, BoundType
  <2> QED
    BY <1>1, <1>3, <1>4, <2>1
    DEF TypeOK, VolumeType, RecorderType, ExportType, ArchiveType, BoundType, Task
<1>6. HandleInv'
  <2>1. fh \in HourlyFiles => fh # n
    BY <1>2 DEF HandleInv, Active
  <2> QED BY <1>1, <1>4, <2>1 DEF HandleInv
<1>7. BufferInv' /\ PartInv'
  BY <1>1, <1>3, <1>4 DEF BufferInv, PartInv, Fresh
<1>8. TaskInv'
  BY <1>1, IdleKept
<1>9. VerifiedIsRemote'
  BY <1>1, <1>3, VerifiedKept DEF Verified
<1>10. KeptInv'
  <2> SUFFICES ASSUME NEW f \in recorded
               PROVE  \/ \E m \in present' : f \in files'[m]
                      \/ \E m \in Names : Verified(m)' /\ f \in remote'[m]
    BY <1>1 DEF KeptInv
  <2>1. \A m \in Names : Verified(m)' <=> Verified(m)
    BY <1>3 DEF Verified
  <2>2. CASE f \in files[n]
    BY <1>1, <1>2, <2>1, <2>2
  <2>3. CASE f \notin files[n]
    BY <1>1, <1>4, <2>1, <2>3 DEF KeptInv, TypeOK, VolumeType
  <2> QED BY <2>2, <2>3
<1> QED BY <1>5, <1>6, <1>7, <1>8, <1>9, <1>10

LEMMA CrashKeeps ==
    ASSUME IInv, Crash
    PROVE  IInv'
<1> USE DEF IInv, Crash
<1>1. TypeOK'
  <2>1. VolumeType' /\ RecorderType' /\ ExportType'
    BY DEF TypeOK, VolumeType, RecorderType, ExportType
  <2>2. ArchiveType'
    BY DEF TypeOK, ArchiveType, Task
  <2>3. BoundType'
    BY ConstantsOK DEF TypeOK, BoundType
  <2> QED BY <2>1, <2>2, <2>3 DEF TypeOK
<1>2. HandleInv'
  BY NoneIsNoName, ConstantsOK DEF HandleInv, HourlyFiles, Hourly, Names
<1>3. BufferInv' /\ PartInv'
  BY DEF BufferInv, PartInv, Fresh
<1>4. TaskInv'
  BY IdleKept
<1>5. VerifiedIsRemote' /\ KeptInv'
  BY DEF VerifiedIsRemote, Verified, KeptInv
<1> QED BY <1>1, <1>2, <1>3, <1>4, <1>5

(***************************************************************************)
(* Theorems                                                                *)
(***************************************************************************)

\* The invariant is inductive, for any number of hours, frames, exports,
\* failures and crashes of the recorder and the archive.
THEOREM Invariance == Spec => []IInv
<1>1. Init => IInv
  <2> SUFFICES ASSUME Init PROVE IInv
    OBVIOUS
  <2>1. TypeOK
    <3>1. VolumeType
      BY DEF Init, VolumeType
    <3>4. RecorderType
      <4>1. 0 \in Hours /\ 0 \in 0..MaxFrames
        BY ConstantsOK DEF Hours
      <4> QED BY <4>1 DEF Init, RecorderType
    <3>5. ExportType
      BY ConstantsOK DEF Init, ExportType
    <3>2. ArchiveType
      BY ConstantsOK DEF Init, ArchiveType, Row, States, Task
    <3>3. BoundType
      BY ConstantsOK DEF Init, BoundType
    <3> QED BY <3>1, <3>2, <3>3, <3>4, <3>5 DEF TypeOK
  <2>2. HandleInv /\ BufferInv /\ PartInv /\ TaskInv
    <3>1. fh \notin HourlyFiles
      <4>1. \A h \in Hours : Hourly(h) \in Names
        BY ConstantsOK DEF Hourly, Names
      <4> QED BY <4>1, NoneIsNoName DEF Init, HourlyFiles
    <3>2. HandleInv /\ BufferInv
      BY <3>1 DEF Init, HandleInv, BufferInv
    <3>3. PartInv
      BY DEF Init, PartInv
    <3>4. TaskInv
      BY DEF Init, TaskInv, Idle
    <3> QED BY <3>2, <3>3, <3>4
  <2>3. VerifiedIsRemote /\ KeptInv
    BY DEF Init, VerifiedIsRemote, Verified, KeptInv
  <2> QED BY <2>1, <2>2, <2>3 DEF IInv
<1>2. IInv /\ [Next]_vars => IInv'
  <2> SUFFICES ASSUME IInv, [Next]_vars PROVE IInv'
    OBVIOUS
  <2>1. CASE UNCHANGED vars
    BY <2>1
    DEF vars, IInv, TypeOK, VolumeType, RecorderType, ExportType, ArchiveType,
        BoundType, HandleInv, BufferInv, PartInv, Fresh, TaskInv, Active, Verified,
        VerifiedIsRemote, KeptInv
  <2>2. CASE ClockTicks \/ Rotate \/ Append \/ Flush \/ WriteFails
    BY <2>2, ClockTicksKeeps, RotateKeeps, AppendKeeps, FlushKeeps, WriteFailsKeeps
  <2>3. CASE ExportBegins \/ ExportCloses \/ ExportRenames \/ ExportSeals
    BY <2>3, ExportBeginsKeeps, ExportClosesKeeps, ExportRenamesKeeps, ExportSealsKeeps
  <2>4. CASE RegisterPending \/ Upload \/ Prune \/ Crash
    BY <2>4, RegisterPendingKeeps, UploadPutKeeps, UploadFailsKeeps, UploadMarkKeeps,
       PruneMarkKeeps, PruneUnlinkKeeps, CrashKeeps DEF Upload, Prune
  <2>5. CASE \E n \in Names : UploadBegins(n) \/ PruneRefuses(n) \/ PruneBegins(n)
    BY <2>5, UploadBeginsKeeps, PruneRefusesKeeps, PruneBeginsKeeps
  <2> QED BY <2>1, <2>2, <2>3, <2>4, <2>5 DEF Next
<1> QED BY <1>1, <1>2, PTL DEF Spec

\* Every variable of the recorder, the archive and the ledger keeps its type.
THEOREM TypeCorrect == Spec => []TypeOK
<1>1. IInv => TypeOK
  BY DEF IInv
<1> QED BY <1>1, Invariance, PTL

\* A row that authorises a deletion is true of the remote store.
THEOREM VerifiedRowsAreTrue == Spec => []VerifiedIsRemote
<1>1. IInv => VerifiedIsRemote
  BY DEF IInv
<1> QED BY <1>1, Invariance, PTL

\* No frame that was flushed to an hourly file is ever lost.
THEOREM NoFrameIsLost == Spec => []FramesAreKept
<1>1. IInv => FramesAreKept
  BY DEF IInv, KeptInv, VerifiedIsRemote, FramesAreKept
<1> QED BY <1>1, Invariance, PTL

\* No step takes a verified row back or changes what was verified.
THEOREM RowsAdvance == Spec => RowsOnlyAdvance
<1> DEFINE Advances ==
       \A n \in Names :
          /\ Verified(n) => Verified(n)' /\ rows'[n].bytes = rows[n].bytes
          /\ rows[n].state = "pruned" => rows'[n].state = "pruned"
          /\ rows'[n].state = "none" => rows[n].state = "none"
<1>1. IInv /\ [Next]_vars => [Advances]_vars
  <2> SUFFICES ASSUME IInv, Next PROVE Advances
    OBVIOUS
  <2> USE DEF IInv
  <2>1. CASE UNCHANGED rows
    BY <2>1 DEF Verified
  <2>2. ASSUME NEW m \in Names, Attempted(m) PROVE Advances
    BY <2>2, AttemptedFacts DEF Verified
  <2>3. CASE RegisterPending
    <3>1. \A n \in Names :
             rows'[n] = rows[n] \/ (n \in Unregistered /\ rows'[n].state = "local")
      BY <2>3 DEF RegisterPending, TypeOK, ArchiveType, Row
    <3> QED BY <3>1 DEF Unregistered, Verified
  <2>4. CASE UploadMark
    <3>1. task.name \in Names /\ rows[task.name].state = "local"
      BY <2>4, TaskFacts DEF UploadMark, Step, TaskInv
    <3>2. \A n \in Names :
             rows'[n] = rows[n] \/ (n = task.name /\ rows'[n].state = "uploaded")
      BY <2>4, <3>1 DEF UploadMark, TypeOK, ArchiveType, Row
    <3> QED BY <3>1, <3>2 DEF Verified
  <2>5. CASE PruneMark
    <3>1. task.name \in Names
      BY <2>5, TaskFacts DEF PruneMark, Step
    <3>2. CASE rows' = [rows EXCEPT ![task.name].state = "pruned"]
      BY <3>1, <3>2 DEF TypeOK, ArchiveType, Row, Verified
    <3> QED BY <2>1, <2>2, <2>5, <3>1, <3>2 DEF PruneMark
  <2>6. CASE UploadPut \/ UploadFails \/ PruneUnlink
    <3>1. task.name \in Names
      BY <2>6, TaskFacts DEF UploadPut, UploadFails, PruneUnlink, Step
    <3> QED BY <2>1, <2>2, <2>6, <3>1 DEF UploadPut, UploadFails, PruneUnlink
  <2>7. CASE \E n \in Names : UploadBegins(n) \/ PruneRefuses(n) \/ PruneBegins(n)
    BY <2>1, <2>2, <2>7 DEF UploadBegins, PruneRefuses, PruneBegins
  <2>8. CASE \/ ClockTicks \/ Rotate \/ Append \/ Flush \/ WriteFails \/ Crash
             \/ ExportBegins \/ ExportCloses \/ ExportRenames \/ ExportSeals
    BY <2>1, <2>8
    DEF ClockTicks, Rotate, Append, Flush, WriteFails, Crash,
        ExportBegins, ExportCloses, ExportRenames, ExportSeals
  <2> QED BY <2>3, <2>4, <2>5, <2>6, <2>7, <2>8 DEF Next, Upload, Prune
<1> QED BY <1>1, Invariance, PTL DEF Spec, RowsOnlyAdvance
=============================================================================
