-------------------------- MODULE CheckpointStore --------------------------
(***************************************************************************)
(* The checkpoint of one vault in a browser's localStorage, shared by all  *)
(* tabs of the origin (crates/api/static/app.js, persistVaultCheckpoint    *)
(* and the functions it calls).  The newest head a client has verified is  *)
(* kept twice: as an append-only record per head, and in a pointer that    *)
(* each save overwrites.                                                   *)
(*                                                                         *)
(* No lock spans a load and the write after it, so other tabs may run      *)
(* between them.  One action is one load or one write.                     *)
(*                                                                         *)
(* A load is a scan of many storage calls, and other tabs write meanwhile. *)
(* No record is ever removed, so a scan meets every record that was there  *)
(* when it began; a head in the pointer is in the records too, whenever it *)
(* is read.  A load that passes its check therefore passes it in the state *)
(* at its first record, where Recheck stands, and one that refuses does so *)
(* in the state at its end, where RecheckRefuses stands.  The head a load  *)
(* returns is taken to be the latest of one moment.  Assumed: storage      *)
(* calls of all tabs take effect in one order, and the index of a record   *)
(* does not shift under a scan when another tab adds a key or removes its  *)
(* probe (checkpointStorage).                                              *)
(***************************************************************************)
EXTENDS Integers

CONSTANTS
  Writers,      \* activations of persistVaultCheckpoint, in any tab
  Checkpoints,  \* heads a client may have verified: [seq, hash]
  None          \* no pointer, no head

ASSUME CheckpointAssumption ==
  /\ \A c \in Checkpoints : c.seq \in Nat
  /\ None \notin Checkpoints

VARIABLES
  records,  \* one storage key per saved head
  pointer,  \* the latest-pointer key
  writer,   \* where each activation is, and the head it saves
  accepted  \* history: the heads persistVaultCheckpoint returned for

storage         == <<records, pointer>>
checkpointVars  == <<records, pointer, writer, accepted>>

InitCheckpoints ==
  /\ records = {}
  /\ pointer = None
  /\ writer = [w \in Writers |-> [phase |-> "idle", head |-> None]]
  /\ accepted = {}

-----------------------------------------------------------------------------
\* Everything loadVaultCheckpointFromStorage pushes before it picks the latest.
Stored == records \cup (IF pointer = None THEN {} ELSE {pointer})

\* latestVaultCheckpoint throws: two heads with one sequence number.
Conflicting == \E c, d \in Stored : c.seq = d.seq /\ c # d

IsLatest(c) == c \in Stored /\ \A d \in Stored : d.seq <= c.seq

\* What a load returns when the stored heads do not conflict.
Loaded == IF Stored = {} THEN None ELSE CHOOSE c \in Stored : IsLatest(c)

\* The load and assertCheckpointWriteIsMonotonic both return.
MayWrite(c) ==
  /\ ~Conflicting
  /\ \A d \in Stored : d.seq < c.seq \/ d = c

MoveTo(w, phase) == writer' = [writer EXCEPT ![w].phase = phase]

\* The first load: the head is neither older than, nor a fork of, the latest.
StartPersist(w, c) ==
  /\ writer[w].phase = "idle"
  /\ MayWrite(c)
  /\ writer' = [writer EXCEPT ![w] = [phase |-> "record", head |-> c]]
  /\ UNCHANGED <<storage, accepted>>

\* The first load or its check throws, or there is no storage to probe: a load
\* may refuse for a record that was written while it was scanning.
RefusePersist(w, c) ==
  /\ writer[w].phase = "idle"
  /\ writer' = [writer EXCEPT ![w] = [phase |-> "refused", head |-> None]]
  /\ UNCHANGED <<storage, accepted>>

\* Slip: one key for all heads, overwritten by each save.
WriteRecordInPlace(w) ==
  /\ writer[w].phase = "record"
  /\ records' = {writer[w].head}
  /\ MoveTo(w, "recheck")
  /\ UNCHANGED <<pointer, accepted>>

WriteRecord(w) ==
  /\ writer[w].phase = "record"
  /\ records' = records \cup {writer[w].head}
  /\ MoveTo(w, "recheck")
  /\ UNCHANGED <<pointer, accepted>>

\* Slip: the records are not read again once the own record is written.
RecheckSkipped(w) ==
  /\ writer[w].phase = "recheck"
  /\ MoveTo(w, "pointer")
  /\ UNCHANGED <<storage, accepted>>

\* The second load, which sees the own record and those of other tabs: the step
\* is the beginning of a scan that will pass.
Recheck(w) ==
  /\ writer[w].phase = "recheck"
  /\ MayWrite(writer[w].head)
  /\ MoveTo(w, "pointer")
  /\ UNCHANGED <<storage, accepted>>

\* The end of a scan that has met a newer head or a fork.
RecheckRefuses(w) ==
  /\ writer[w].phase = "recheck"
  /\ ~MayWrite(writer[w].head)
  /\ writer' = [writer EXCEPT ![w] = [phase |-> "refused", head |-> None]]
  /\ UNCHANGED <<storage, accepted>>

\* Only now does persistVaultCheckpoint return.
WritePointer(w) ==
  /\ writer[w].phase = "pointer"
  /\ pointer' = writer[w].head
  /\ accepted' = accepted \cup {writer[w].head}
  /\ MoveTo(w, "saved")
  /\ UNCHANGED records

\* setItem throws, for the record or for the pointer: quota, blocked storage.
StorageFails(w) ==
  /\ writer[w].phase \in {"record", "pointer"}
  /\ writer' = [writer EXCEPT ![w] = [phase |-> "refused", head |-> None]]
  /\ UNCHANGED <<storage, accepted>>

\* The caller goes on, with the result or with the exception.
Return(w) ==
  /\ writer[w].phase \in {"saved", "refused"}
  /\ writer' = [writer EXCEPT ![w] = [phase |-> "idle", head |-> None]]
  /\ UNCHANGED <<storage, accepted>>

\* The storage calls that follow the first load.
Persisting(w) ==
  \/ WriteRecord(w)
  \/ Recheck(w) \/ RecheckRefuses(w)
  \/ WritePointer(w)
  \/ StorageFails(w)

NextCheckpoints ==
  \E w \in Writers :
    \/ \E c \in Checkpoints : StartPersist(w, c) \/ RefusePersist(w, c)
    \/ Persisting(w)
    \/ Return(w)

SpecCheckpoints == InitCheckpoints /\ [][NextCheckpoints]_checkpointVars

-----------------------------------------------------------------------------
(***************************************************************************)
(* Properties.                                                             *)
(***************************************************************************)

Saving == {"record", "recheck", "pointer"}

(* The storage holds heads, and an activation past its first load has one. *)
CheckpointTypeOK ==
  /\ records \subseteq Checkpoints
  /\ pointer \in Checkpoints \cup {None}
  /\ accepted \subseteq Checkpoints
  /\ writer \in [Writers ->
       [phase : Saving \cup {"saved"}, head : Checkpoints]
       \cup [phase : {"idle", "refused"}, head : {None}]]

(* Two tabs that race to save different heads with the same number never both
   succeed, although no lock spans a check and the write after it: the second
   load of persistVaultCheckpoint sees the other tab's record.              *)
NoForkAccepted ==
  \A c, d \in accepted : c.seq = d.seq => c = d

(* What a save returned for is never forgotten: every later load finds that
   head or a newer one, or refuses, even after a tab that was behind has
   overwritten the pointer with an older head.                              *)
AcceptedIsRemembered ==
  \A c \in accepted :
    /\ Stored # {}
    /\ \A d \in Stored : IsLatest(d) => Conflicting \/ d = c \/ d.seq > c.seq

(* No storage call of any tab makes a load return an older head than before,
   and evidence of a fork, once stored, stays.                              *)
LoadNeverRegresses ==
  [][ /\ Conflicting => Conflicting'
      /\ \A c \in Stored : \E d \in Stored' : c.seq <= d.seq ]_checkpointVars

=============================================================================
