------------------------- MODULE VaultClientProofs -------------------------
(***************************************************************************)
(* First the promises of CheckpointStore alone, for any tabs and heads;    *)
(* then that what a browser shows and saves is authentic, checkpointed and *)
(* past its own checkpoint, for any number of tabs, functions and changes. *)
(***************************************************************************)
EXTENDS VaultClient, SequenceTheorems, WellFoundedInduction, TLAPS

-----------------------------------------------------------------------------
(***************************************************************************)
(* CheckpointStore.  These proofs use CheckpointAssumption and nothing of  *)
(* the tabs: Writers and Checkpoints are any sets.                         *)
(*                                                                         *)
(* NoForkAccepted is not inductive: it says nothing of a tab that has      *)
(* passed its second load and is about to write the pointer.  CheckedHeads *)
(* are those tabs' heads together with the accepted ones; they never hold  *)
(* two heads of one number, because a head joins them only while it is     *)
(* recorded and no stored head conflicts with it.                          *)
(***************************************************************************)
CheckedHeads ==
  accepted \cup { writer[w].head : w \in { x \in Writers : writer[x].phase = "pointer" } }

CheckpointInv ==
  /\ CheckpointTypeOK
  /\ accepted \subseteq records
  /\ pointer # None => pointer \in records
  /\ \A w \in Writers :
       writer[w].phase \in {"recheck", "pointer", "saved"} => writer[w].head \in records
  /\ \A c, d \in CheckedHeads : c.seq = d.seq => c = d

LEMMA CheckpointInit == InitCheckpoints => CheckpointInv
BY CheckpointAssumption
   DEF InitCheckpoints, CheckpointInv, CheckpointTypeOK, CheckedHeads

(* Every storage call of every tab preserves the invariant. *)
LEMMA CheckpointStep ==
  CheckpointInv /\ [NextCheckpoints]_checkpointVars => CheckpointInv'
<1> SUFFICES ASSUME CheckpointInv, [NextCheckpoints]_checkpointVars
             PROVE  CheckpointInv'
  OBVIOUS
<1> USE CheckpointAssumption DEF CheckpointInv, CheckpointTypeOK, Saving
<1>1. ASSUME NEW w \in Writers, NEW c \in Checkpoints, StartPersist(w, c)
      PROVE  CheckpointInv'
  BY <1>1 DEF StartPersist, CheckedHeads, storage
<1>2. ASSUME NEW w \in Writers, NEW c \in Checkpoints, RefusePersist(w, c)
      PROVE  CheckpointInv'
  BY <1>2 DEF RefusePersist, CheckedHeads, storage
<1>3. ASSUME NEW w \in Writers, WriteRecord(w)
      PROVE  CheckpointInv'
  BY <1>3 DEF WriteRecord, MoveTo, CheckedHeads
<1>4. ASSUME NEW w \in Writers, Recheck(w)
      PROVE  CheckpointInv'
  <2>1. CheckedHeads' = CheckedHeads \cup {writer[w].head}
    BY <1>4 DEF Recheck, MoveTo, CheckedHeads, storage
  <2>2. CheckedHeads \subseteq Stored
    BY DEF CheckedHeads, Stored
  <2>3. \A d \in CheckedHeads : d.seq < writer[w].head.seq \/ d = writer[w].head
    BY <1>4, <2>2 DEF Recheck, MayWrite
  <2>4. writer[w].head.seq \in Nat
    BY <1>4 DEF Recheck
  <2>5. \A c, d \in CheckedHeads' : c.seq = d.seq => c = d
    BY <2>1, <2>3, <2>4
  <2> QED
    BY <1>4, <2>5 DEF Recheck, MoveTo, storage
<1>5. ASSUME NEW w \in Writers, RecheckRefuses(w)
      PROVE  CheckpointInv'
  BY <1>5 DEF RecheckRefuses, CheckedHeads, storage
<1>6. ASSUME NEW w \in Writers, WritePointer(w)
      PROVE  CheckpointInv'
  <2>1. CheckedHeads' \subseteq CheckedHeads
    BY <1>6 DEF WritePointer, MoveTo, CheckedHeads
  <2> QED
    BY <1>6, <2>1 DEF WritePointer, MoveTo
<1>7. ASSUME NEW w \in Writers, StorageFails(w)
      PROVE  CheckpointInv'
  BY <1>7 DEF StorageFails, CheckedHeads, storage
<1>8. ASSUME NEW w \in Writers, Return(w)
      PROVE  CheckpointInv'
  BY <1>8 DEF Return, CheckedHeads, storage
<1>9. CASE UNCHANGED checkpointVars
  BY <1>9 DEF checkpointVars, CheckedHeads
<1> QED
  BY <1>1, <1>2, <1>3, <1>4, <1>5, <1>6, <1>7, <1>8, <1>9 DEF NextCheckpoints, Persisting

LEMMA CheckpointInvariance == SpecCheckpoints => []CheckpointInv
BY CheckpointInit, CheckpointStep, PTL DEF SpecCheckpoints

(* Two tabs never both save rival heads of the same number, however their
   storage calls interleave.                                                *)
THEOREM NoForkSafe == SpecCheckpoints => []NoForkAccepted
<1>1. CheckpointInv => NoForkAccepted
  BY DEF CheckpointInv, NoForkAccepted, CheckedHeads
<1> QED
  BY <1>1, CheckpointInvariance, PTL

(* A head that was saved stays covered by what any tab loads later. *)
THEOREM RememberedSafe == SpecCheckpoints => []AcceptedIsRemembered
<1>1. CheckpointInv => AcceptedIsRemembered
  <2> SUFFICES ASSUME CheckpointInv, NEW c \in accepted
               PROVE  /\ Stored # {}
                      /\ \A d \in Stored :
                           IsLatest(d) => Conflicting \/ d = c \/ d.seq > c.seq
    BY DEF AcceptedIsRemembered
  <2>1. c \in Stored /\ Stored \subseteq Checkpoints
    BY DEF CheckpointInv, CheckpointTypeOK, Stored
  <2>2. ASSUME NEW d \in Stored, IsLatest(d)
        PROVE  Conflicting \/ d = c \/ d.seq > c.seq
    <3>1. c.seq <= d.seq /\ c.seq \in Nat /\ d.seq \in Nat
      BY <2>1, <2>2, CheckpointAssumption DEF IsLatest
    <3>2. c.seq = d.seq => Conflicting \/ d = c
      BY <2>1 DEF Conflicting
    <3> QED
      BY <3>1, <3>2
  <2> QED
    BY <2>1, <2>2
<1> QED
  BY <1>1, CheckpointInvariance, PTL

(* No step of any tab lets a later load return an older head. *)
THEOREM LoadsAdvance == SpecCheckpoints => LoadNeverRegresses
<1>1. CheckpointInv /\ CheckpointInv' /\ [NextCheckpoints]_checkpointVars
        => [ /\ Conflicting => Conflicting'
             /\ \A c \in Stored : \E d \in Stored' : c.seq <= d.seq ]_checkpointVars
  <2> SUFFICES ASSUME CheckpointInv, CheckpointInv', NextCheckpoints
               PROVE  /\ Conflicting => Conflicting'
                      /\ \A c \in Stored : \E d \in Stored' : c.seq <= d.seq
    OBVIOUS
  <2>1. records \subseteq records'
    BY DEF NextCheckpoints, Persisting, StartPersist, RefusePersist, WriteRecord, Recheck,
           RecheckRefuses, WritePointer, StorageFails, Return, storage
  <2>2. Stored = records /\ Stored' = records'
    BY DEF CheckpointInv, Stored
  <2>3. \A c \in Stored : c.seq \in Nat
    BY <2>2, CheckpointAssumption DEF CheckpointInv, CheckpointTypeOK
  <2>4. Conflicting => Conflicting'
    BY <2>1, <2>2 DEF Conflicting
  <2>5. \A c \in Stored : c \in Stored' /\ c.seq <= c.seq
    BY <2>1, <2>2, <2>3
  <2> QED
    BY <2>4, <2>5
<1> QED
  BY <1>1, CheckpointInvariance, PTL DEF SpecCheckpoints, LoadNeverRegresses

-----------------------------------------------------------------------------
(***************************************************************************)
(* VaultClient: the inductive invariant.                                   *)
(***************************************************************************)

\* Chains the model's bound lets the server have.
Chains == { c \in Seq(Change) : Len(c) <= MaxChain }

\* A saved checkpoint is the head of a chain that was verified.
RecordOK(c) == c.hash \in Chains /\ c = HeadOf(c.hash) /\ Authentic(c.hash)

RecordsOK == \A c \in records : RecordOK(c)

(* A vault object or a replay of one, the checkpoints recs being saved: all
   of its chain was verified, and it has met the checkpoint it started with,
   or is still before it.                                                   *)
OpenedOK(v, recs) ==
  /\ v \in Opened
  /\ v.chain \in Chains /\ Authentic(v.chain)
  /\ v.cp # None => v.cp \in recs /\ (v.verified => IsPrefixOf(v.cp.hash, v.chain))
  /\ ~v.verified => v.cp # None /\ Len(v.chain) < v.cp.seq

(* The replay of a function that is about to save it.  A change of its own is
   put on top of a vault object that another function may have moved on, so it
   may claim to have met a checkpoint that it has not: then that checkpoint,
   which is among the records recs, refuses its head.                       *)
Refuted(v) == v.cp # None /\ Len(v.chain) <= v.cp.seq /\ v.cp # HeadOf(v.chain)

ReplayOK(v, recs) ==
  /\ v \in Opened
  /\ v.chain \in Chains /\ Authentic(v.chain)
  /\ v.cp # None => v.cp \in recs
  /\ OpenedOK(v, recs) \/ Refuted(v)

Replaying == {"fetch", "verify", "own"}
Storing   == {"persist", "saving"}
Writing   == {"mac", "hash", "csrf", "post", "created"}

\* The values a function has at each of its awaits.
Fields ==
  [idle |-> {}, list |-> {}, decrypt |-> {"cp"},
   fetch |-> {"unlock", "replay"}, verify |-> {"unlock", "replay", "page", "has_more"},
   mac |-> {"base", "rev"}, hash |-> {"base", "rev", "key"}, csrf |-> {"base", "change"},
   post |-> {"base", "change"}, created |-> {"base", "change"},
   own |-> {"replay", "change"}, persist |-> {"replay"}, saving |-> {"replay"}]

TaskOK(f, recs) ==
  /\ f.phase \in Phases /\ f.ref \in {"none", "current", "detached", "wiped"}
  /\ DOMAIN f = {"phase", "ref"} \cup Fields[f.phase]
  /\ f.phase = "decrypt" => f.cp \in recs \cup {None}
  /\ f.phase \in Replaying => OpenedOK(f.replay, recs)
  /\ f.phase \in Storing => ReplayOK(f.replay, recs)
  /\ f.phase \in {"fetch", "verify"} => f.unlock \in BOOLEAN
  /\ f.phase = "verify" =>
       f.page \in Seq(Change) /\ Len(f.replay.chain) + Len(f.page) <= MaxChain
  /\ f.phase \in Writing => f.base \in Chains
  /\ f.phase \in {"mac", "hash"} => f.rev \in Revs
  /\ f.phase = "hash" => f.key \in {"vault", "wiped"}
  /\ f.phase \in {"csrf", "post", "created", "own"} => f.change \in Change
  /\ f.phase = "created" => Len(f.base) < MaxChain
  /\ f.phase = "own" => Len(f.replay.chain) < MaxChain

TasksOK ==
  /\ task = [w \in Writers |-> task[w]]
  /\ \A w \in Writers : TaskOK(task[w], records)

\* A function that holds the open vault replays that object.
Holds(f, v) ==
  f.ref = "current" =>
    v # None /\ (f.phase \in Replaying \cup Storing => f.replay.cp = v.cp)

HoldsOK == \A w \in Writers : Holds(task[w], vault[w[1]])

(* A function is inside its storage calls with the head it has verified, and
   only if it has met its checkpoint: the checkpoint is among the records
   the first load has seen.                                                 *)
SaveOK(w) ==
  IF task[w].phase = "saving"
  THEN /\ writer[w].phase # "idle"
       /\ writer[w].phase # "refused" =>
            /\ writer[w].head = HeadOf(task[w].replay.chain) /\ task[w].replay.verified
            /\ OpenedOK(task[w].replay, records)
       /\ writer[w].phase = "saved" => writer[w].head \in accepted
  ELSE writer[w].phase = "idle"

SavesOK == \A w \in Writers : SaveOK(w)

\* What is open is a replay whose head was saved, or the start of one.
VaultOK(v, recs, acc) ==
  /\ OpenedOK(v, recs)
  /\ v.verified \/ v.chain = <<>>
  /\ v.chain # <<>> => HeadOf(v.chain) \in acc

VaultsOK == \A t \in Tabs : vault[t] # None => VaultOK(vault[t], records, accepted)

ClientInv ==
  /\ ClientTypeOK /\ CheckpointInv
  /\ RecordsOK /\ TasksOK /\ HoldsOK /\ SavesOK /\ VaultsOK /\ BusyHasOwner

-----------------------------------------------------------------------------
(***************************************************************************)
(* Chains and checkpoints.                                                 *)
(***************************************************************************)

\* What the constants are.
LEMMA ClientFacts ==
  /\ Writers = Tabs \X Slots /\ None \notin Writers /\ None \notin Opened
  /\ None \notin Checkpoints
  /\ MaxChain \in Nat /\ MaxPage \in Nat /\ MaxRestores \in Nat /\ MaxSignIns \in Nat
  BY ClientAssumption, CheckpointAssumption

\* The head of a chain is a checkpoint.
LEMMA HeadsAreCheckpoints ==
  ASSUME NEW c \in Chains
  PROVE  /\ HeadOf(c) \in Checkpoints /\ HeadOf(c).hash = c
         /\ HeadOf(c).seq = Len(c) /\ Len(c) \in Nat
<1>1. c \in Seq(Change) /\ Len(c) \in 0..MaxChain
  BY ClientFacts DEF Chains
<1>2. c \in [1..Len(c) -> Change]
  BY <1>1
<1> QED
  BY <1>1, <1>2, ClientAssumption DEF HeadOf

\* Chains that grow by one change.
LEMMA LongerChain ==
  ASSUME NEW c \in Chains, Len(c) < MaxChain, NEW e \in Change
  PROVE  /\ Append(c, e) \in Chains /\ Len(Append(c, e)) = Len(c) + 1
         /\ Append(c, e) # <<>>
         /\ Authentic(c) /\ e.key = "vault" => Authentic(Append(c, e))
         /\ \A d \in Chains : IsPrefixOf(d, c) => IsPrefixOf(d, Append(c, e))
<1>1. c \in Seq(Change) /\ Len(c) \in Nat /\ MaxChain \in Nat
  BY ClientFacts DEF Chains
<1>2. /\ Append(c, e) \in Seq(Change) /\ Len(Append(c, e)) = Len(c) + 1
      /\ Append(c, e) # <<>>
      /\ \A i \in 1..Len(c) : Append(c, e)[i] = c[i]
      /\ Append(c, e)[Len(c) + 1] = e
  BY <1>1, AppendProperties
<1>3. ASSUME Authentic(c), e.key = "vault" PROVE Authentic(Append(c, e))
  <2>1. DOMAIN c = 1..Len(c) /\ DOMAIN Append(c, e) = 1..(Len(c) + 1)
    BY <1>1, <1>2
  <2> QED
    BY <1>1, <1>2, <1>3, <2>1 DEF Authentic
<1>4. ASSUME NEW d \in Chains, IsPrefixOf(d, c) PROVE IsPrefixOf(d, Append(c, e))
  <2>1. d \in Seq(Change) /\ Len(d) \in Nat /\ Len(d) <= Len(c) /\ SubSeq(c, 1, Len(d)) = d
    BY <1>4 DEF Chains, IsPrefixOf
  <2>2. Append(c, e) = c \o <<e>> /\ <<e>> \in Seq(Change)
    BY <1>1, AppendIsConcat
  <2>3. SubSeq(c \o <<e>>, 1, Len(d)) = SubSeq(c, 1, Len(d))
    BY <1>1, <2>1, <2>2, SubSeqOfConcat1
  <2> QED
    BY <1>1, <1>2, <2>1, <2>2, <2>3 DEF IsPrefixOf
<1> QED
  BY <1>1, <1>2, <1>3, <1>4 DEF Chains

\* Stored heads that do not conflict have a latest one, and a load finds it.
LEMMA LoadedStored ==
  ASSUME RecordsOK, CheckpointInv
  PROVE  Loaded \in records \cup {None}
<1>1. Stored = records
  BY DEF CheckpointInv, Stored
<1>2. CASE records = {}
  BY <1>1, <1>2 DEF Loaded
<1>3. CASE records # {}
  <2> DEFINE Left == { MaxChain - c.seq : c \in records }
  <2>1. \A c \in records : c.seq \in Nat /\ c.seq <= MaxChain
    <3> TAKE c \in records
    <3>1. c.hash \in Chains /\ c = HeadOf(c.hash)
      BY DEF RecordsOK, RecordOK
    <3>2. HeadOf(c.hash).seq = Len(c.hash) /\ Len(c.hash) \in Nat /\ Len(c.hash) <= MaxChain
      BY <3>1, HeadsAreCheckpoints DEF Chains
    <3> QED
      BY <3>1, <3>2
  <2>2. Left \subseteq Nat /\ Left # {}
    BY <1>3, <2>1, ClientFacts
  <2>3. PICK n \in Left : \A m \in Left : ~(<<m, n>> \in OpToRel(<, Nat))
    <3> HIDE DEF Left
    <3> QED
      BY <2>2, NatLessThanWellFounded, WFMin
  <2>4. \A m \in Left : ~(m < n)
    BY <2>2, <2>3 DEF OpToRel
  <2>5. PICK c \in records : n = MaxChain - c.seq
    OBVIOUS
  <2>6. \A d \in records : d.seq <= c.seq
    <3> TAKE d \in records
    <3>1. ~(MaxChain - d.seq < MaxChain - c.seq)
      BY <2>4, <2>5
    <3> HIDE DEF Left
    <3> QED
      BY <2>1, <3>1, ClientFacts
  <2>7. IsLatest(c)
    BY <1>1, <2>6 DEF IsLatest
  <2> QED
    BY <1>1, <1>3, <2>7 DEF Loaded
<1> QED
  BY <1>2, <1>3

\* Saving more forgets nothing of what is known of an object or a function.
LEMMA OpenedKept ==
  ASSUME NEW v, NEW recs, NEW recs2, recs \subseteq recs2
  PROVE  /\ OpenedOK(v, recs) => OpenedOK(v, recs2)
         /\ ReplayOK(v, recs) => ReplayOK(v, recs2)
  BY DEF OpenedOK, ReplayOK

\* What a function holds stays good while more checkpoints are saved.
LEMMA TaskKept ==
  ASSUME NEW f, NEW recs, NEW recs2, recs \subseteq recs2, TaskOK(f, recs)
  PROVE  TaskOK(f, recs2)
  BY OpenedKept DEF TaskOK

\* A function with the same values, whosever object it holds.
LEMMA SameButRef ==
  ASSUME NEW f, NEW recs, TaskOK(f, recs), NEW g, DOMAIN g = DOMAIN f, g.phase = f.phase,
         g.ref \in {"none", "current", "detached", "wiped"},
         \A x \in DOMAIN f : x # "ref" => g[x] = f[x]
  PROVE  TaskOK(g, recs) /\ (f.phase = "saving" => g.replay = f.replay)
<1>1. /\ DOMAIN f = {"phase", "ref"} \cup Fields[f.phase] /\ f.phase \in Phases
  BY DEF TaskOK
<1>2. /\ f.phase = "decrypt" => g.cp = f.cp
      /\ f.phase \in Replaying \cup Storing => g.replay = f.replay
      /\ f.phase \in {"fetch", "verify"} => g.unlock = f.unlock
      /\ f.phase = "verify" => g.page = f.page
      /\ f.phase \in Writing => g.base = f.base
      /\ f.phase \in {"mac", "hash"} => g.rev = f.rev
      /\ f.phase = "hash" => g.key = f.key
      /\ f.phase \in {"csrf", "post", "created", "own"} => g.change = f.change
  BY <1>1 DEF Fields, Replaying, Storing, Writing
<1>3. /\ g.phase \in Phases
      /\ DOMAIN g = {"phase", "ref"} \cup Fields[g.phase]
  BY <1>1
<1>4. /\ g.phase = "decrypt" => g.cp \in recs \cup {None}
      /\ g.phase \in Replaying => OpenedOK(g.replay, recs)
      /\ g.phase \in Storing => ReplayOK(g.replay, recs)
      /\ g.phase \in {"fetch", "verify"} => g.unlock \in BOOLEAN
  BY <1>2 DEF TaskOK
<1>5. /\ g.phase = "verify" =>
           g.page \in Seq(Change) /\ Len(g.replay.chain) + Len(g.page) <= MaxChain
      /\ g.phase = "own" => Len(g.replay.chain) < MaxChain
  BY <1>2 DEF TaskOK, Replaying
<1>6. /\ g.phase \in Writing => g.base \in Chains
      /\ g.phase \in {"mac", "hash"} => g.rev \in Revs
      /\ g.phase = "hash" => g.key \in {"vault", "wiped"}
      /\ g.phase \in {"csrf", "post", "created", "own"} => g.change \in Change
      /\ g.phase = "created" => Len(g.base) < MaxChain
  BY <1>2 DEF TaskOK, Writing
<1> QED
  BY <1>2, <1>3, <1>4, <1>5, <1>6 DEF TaskOK, Replaying, Storing

\* A lock or a new vault object changes nothing but whose object a function has.
LEMMA RefChanged ==
  ASSUME NEW f, NEW recs, TaskOK(f, recs), NEW r \in {"detached", "wiped"},
         NEW g, g = [f EXCEPT !.ref = r]
  PROVE  /\ TaskOK(g, recs) /\ g.phase = f.phase /\ g.ref = r
         /\ f.phase = "saving" => g.replay = f.replay
<1>1. DOMAIN f = {"phase", "ref"} \cup Fields[f.phase]
  BY DEF TaskOK
<1>2. /\ DOMAIN g = DOMAIN f /\ g.ref = r /\ g.phase = f.phase
      /\ \A x \in DOMAIN f : x # "ref" => g[x] = f[x]
  BY <1>1
<1> QED
  BY <1>2, SameButRef

-----------------------------------------------------------------------------
(***************************************************************************)
(* Steps without a storage call.                                           *)
(***************************************************************************)

\* The server, and the counters that bound the model.
PlainOK ==
  /\ server \in Seq(Change) /\ Len(server) <= MaxChain
  /\ used \subseteq Revs
  /\ restores \in 0..MaxRestores /\ signIns \in 0..MaxSignIns

Parked == {"idle", "list", "decrypt"}
Runs(f) == f.phase \in {"persist", "saving"}

\* Nothing but whose vault object it holds changes for function x.
SameTask(x) ==
  task'[x] = task[x] \/ \E r \in {"detached", "wiped"} : task'[x] = [task[x] EXCEPT !.ref = r]

\* What is kept of a function that does not go on.
LEMMA SameTaskKept ==
  ASSUME ClientInv, NEW x \in Writers, SameTask(x)
  PROVE  /\ TaskOK(task'[x], records) /\ task'[x].phase = task[x].phase
         /\ task[x].phase = "saving" => task'[x].replay = task[x].replay
         /\ task'[x].ref = "current" => task'[x] = task[x]
<1>1. TaskOK(task[x], records)
  BY DEF ClientInv, TasksOK
<1>2. CASE task'[x] = task[x]
  BY <1>1, <1>2
<1>3. ASSUME NEW r \in {"detached", "wiped"}, task'[x] = [task[x] EXCEPT !.ref = r]
      PROVE  /\ TaskOK(task'[x], records) /\ task'[x].phase = task[x].phase
             /\ task[x].phase = "saving" => task'[x].replay = task[x].replay
             /\ task'[x].ref # "current"
  <2>1. PICK f, g : f = task[x] /\ g = task'[x]
    OBVIOUS
  <2>2. TaskOK(f, records) /\ g = [f EXCEPT !.ref = r]
    BY <1>1, <1>3, <2>1
  <2> QED
    BY <2>1, <2>2, RefChanged
<1> QED
  BY <1>2, <1>3 DEF SameTask

\* At most one function of the tabs goes on; the others keep what they have.
LEMMA LocalStep ==
  ASSUME ClientInv, NEW W \in SUBSET Writers, \A x, y \in W : x = y,
         UNCHANGED checkpointVars, PlainOK',
         task' = [x \in Writers |-> task'[x]],
         \A x \in Writers \ W : SameTask(x),
         \A x \in W : /\ TaskOK(task'[x], records)
                      /\ task[x].phase # "saving" /\ task'[x].phase # "saving"
                      /\ task'[x].phase = "persist" => ~Running(x[1]),
         vault' \in [Tabs -> Opened \cup {None}],
         \A t \in Tabs : vault'[t] # None => VaultOK(vault'[t], records, accepted),
         \A x \in Writers : Holds(task'[x], vault'[x[1]]),
         busy' \in [Tabs -> BOOLEAN], BusyHasOwner'
  PROVE  ClientInv'
<1>1. UNCHANGED <<records, pointer, writer, accepted>>
  BY DEF checkpointVars
<1>2. CheckpointInv' /\ CheckpointTypeOK'
  BY <1>1 DEF ClientInv, CheckpointInv, CheckpointTypeOK, CheckedHeads
<1>3. ASSUME NEW x \in Writers
      PROVE  /\ TaskOK(task'[x], records)
             /\ task[x].phase = "saving" <=> task'[x].phase = "saving"
             /\ task[x].phase = "saving" => task'[x].replay = task[x].replay
  BY <1>3, SameTaskKept
<1>4. RecordsOK' /\ TasksOK' /\ VaultsOK'
  BY <1>1, <1>3 DEF ClientInv, RecordsOK, TasksOK, VaultsOK
<1>5. SavesOK'
  BY <1>1, <1>3 DEF ClientInv, SavesOK, SaveOK
<1>6. ASSUME NEW t \in Tabs, NEW r \in Slots, NEW s \in Slots, r # s,
             Runs(task'[<<t, r>>]), Runs(task'[<<t, s>>])
      PROVE  FALSE
  <2> DEFINE x == <<t, r>>
             y == <<t, s>>
  <2>1. x \in Writers /\ y \in Writers /\ x # y /\ x[1] = t /\ y[1] = t
    BY <1>6, ClientFacts
  <2>2. ~(Runs(task[x]) /\ Runs(task[y]))
    BY <1>6 DEF ClientInv, ClientTypeOK, Runs
  <2>3. \A z \in Writers \ W : Runs(task'[z]) => Runs(task[z])
    BY SameTaskKept DEF Runs
  <2>4. Running(t) <=> \E u \in Slots : Runs(task[<<t, u>>])
    BY DEF Running, Runs
  <2>5. CASE x \in W
    BY <1>6, <2>1, <2>3, <2>4, <2>5 DEF Runs
  <2>6. CASE y \in W
    BY <1>6, <2>1, <2>3, <2>4, <2>6 DEF Runs
  <2>7. CASE x \notin W /\ y \notin W
    BY <1>6, <2>1, <2>2, <2>3, <2>7
  <2> QED
    BY <2>5, <2>6, <2>7
<1>7. ClientTypeOK'
  <2>1. \A x \in Writers :
          /\ task'[x].phase \in Phases
          /\ task'[x].ref \in {"none", "current", "detached", "wiped"}
    BY <1>3 DEF TaskOK
  <2>2. \A x \in Writers : writer'[x].phase \in Saving => task'[x].phase = "saving"
    BY <1>1, <1>3 DEF ClientInv, ClientTypeOK
  <2> QED
    BY <1>2, <1>6, <2>1, <2>2 DEF ClientTypeOK, PlainOK, Runs, Holds
<1>8. HoldsOK'
  BY DEF HoldsOK
<1> QED
  BY <1>2, <1>4, <1>5, <1>7, <1>8 DEF ClientInv

(* Function w has gone on, and the tabs are as they should be.  It may be a
   step with a storage call.                                                *)
TabsOK(w) ==
  /\ task' = [x \in Writers |-> task'[x]]
  /\ \A x \in Writers \ {w} : SameTask(x)
  /\ vault' \in [Tabs -> Opened \cup {None}]
  /\ \A t \in Tabs : vault'[t] # None => VaultOK(vault'[t], records, accepted)
  /\ \A x \in Writers : Holds(task'[x], vault'[x[1]])
  /\ busy' \in [Tabs -> BOOLEAN] /\ BusyHasOwner'

\* Function w goes on as f; what is open and enabled stays.
LEMMA BecomesFacts ==
  ASSUME ClientInv, NEW w \in Writers, NEW f, Becomes(w, f), Holds(f, vault[w[1]]),
         task[w].phase \in Parked \/ f.phase \notin Parked
  PROVE  TabsOK(w) /\ task'[w] = f
<1>1. /\ task' = [task EXCEPT ![w] = f] /\ vault' = vault /\ busy' = busy
  BY DEF Becomes
<1>2. task = [x \in Writers |-> task[x]]
  BY DEF ClientInv, TasksOK
<1>3. /\ task' = [x \in Writers |-> task'[x]] /\ task'[w] = f
      /\ \A x \in Writers \ {w} : task'[x] = task[x]
  BY <1>1, <1>2
<1>4. \A x \in Writers : Holds(task[x], vault[x[1]])
  BY DEF ClientInv, HoldsOK
<1>5. BusyHasOwner'
  <2> SUFFICES ASSUME NEW t \in Tabs, busy[t]
               PROVE  \E s \in Slots : task'[<<t, s>>].phase \notin Parked
    BY <1>1 DEF BusyHasOwner, Parked
  <2>1. PICK s \in Slots : task[<<t, s>>].phase \notin Parked
    BY DEF ClientInv, BusyHasOwner, Parked
  <2>2. <<t, s>> \in Writers
    BY ClientFacts
  <2> QED
    BY <1>3, <2>1, <2>2
<1> QED
  BY <1>1, <1>3, <1>4, <1>5 DEF TabsOK, SameTask, ClientInv, ClientTypeOK, VaultsOK

\* Function w goes on without a storage call.
LEMMA OneStep ==
  ASSUME ClientInv, NEW w \in Writers, TabsOK(w), UNCHANGED checkpointVars, PlainOK',
         task[w].phase # "saving", task'[w].phase # "saving", TaskOK(task'[w], records),
         task'[w].phase = "persist" => ~Running(w[1])
  PROVE  ClientInv'
<1>1. PICK W \in SUBSET Writers : W = {w}
  OBVIOUS
<1>2. \A x, y \in W : x = y
  BY <1>1
<1>3. \A x \in W : /\ TaskOK(task'[x], records)
                   /\ task[x].phase # "saving" /\ task'[x].phase # "saving"
                   /\ task'[x].phase = "persist" => ~Running(x[1])
  BY <1>1
<1>4. \A x \in Writers \ W : SameTask(x)
  BY <1>1 DEF TabsOK
<1> QED
  BY <1>2, <1>3, <1>4, LocalStep DEF TabsOK

\* So it does when only its own state changes.
LEMMA BecomesKeeps ==
  ASSUME ClientInv, NEW w \in Writers, NEW f, Becomes(w, f), Locally,
         Holds(f, vault[w[1]]),
         task[w].phase \in Parked \/ f.phase \notin Parked,
         task[w].phase # "saving", f.phase # "saving", TaskOK(f, records),
         f.phase = "persist" => ~Running(w[1])
  PROVE  ClientInv'
<1>1. UNCHANGED checkpointVars /\ PlainOK'
  BY DEF Locally, Elsewhere, PlainOK, ClientInv, ClientTypeOK
<1>2. TabsOK(w) /\ task'[w] = f
  BY BecomesFacts
<1> QED
  BY <1>1, <1>2, OneStep

\* An idle function has nothing.
LEMMA NoTaskOK ==
  ASSUME NEW recs
  PROVE  TaskOK(NoTask, recs) /\ NoTask.phase = "idle" /\ NoTask.ref = "none"
  BY DEF TaskOK, NoTask, Phases, Fields, Replaying, Storing, Writing

\* Function w ends, and enables the controls of its tab.
LEMMA EndFacts ==
  ASSUME ClientInv, NEW w \in Writers, End(w)
  PROVE  TabsOK(w) /\ task'[w] = NoTask
<1>1. /\ task' = [task EXCEPT ![w] = NoTask] /\ vault' = vault
      /\ busy' = [busy EXCEPT ![w[1]] = FALSE]
  BY DEF End
<1>2. /\ task = [x \in Writers |-> task[x]] /\ busy \in [Tabs -> BOOLEAN]
      /\ vault \in [Tabs -> Opened \cup {None}] /\ w[1] \in Tabs
  BY ClientFacts DEF ClientInv, TasksOK, ClientTypeOK
<1>3. /\ task' = [x \in Writers |-> task'[x]] /\ task'[w] = NoTask
      /\ \A x \in Writers \ {w} : task'[x] = task[x]
  BY <1>1, <1>2
<1>4. \A x \in Writers : Holds(task[x], vault[x[1]])
  BY DEF ClientInv, HoldsOK
<1>5. /\ busy' \in [Tabs -> BOOLEAN] /\ ~busy'[w[1]]
      /\ \A t \in Tabs : t # w[1] => busy'[t] = busy[t]
  BY <1>1, <1>2
<1>6. BusyHasOwner'
  <2> SUFFICES ASSUME NEW t \in Tabs, busy[t], t # w[1]
               PROVE  \E s \in Slots : task'[<<t, s>>].phase \notin Parked
    BY <1>5 DEF BusyHasOwner, Parked
  <2>1. PICK s \in Slots : task[<<t, s>>].phase \notin Parked
    BY DEF ClientInv, BusyHasOwner, Parked
  <2>2. <<t, s>> \in Writers /\ <<t, s>> # w
    BY ClientFacts
  <2> QED
    BY <1>3, <2>1, <2>2
<1>7. \A x \in Writers : Holds(task'[x], vault'[x[1]])
  BY <1>1, <1>3, <1>4, NoTaskOK DEF Holds
<1> QED
  BY <1>1, <1>2, <1>3, <1>5, <1>6, <1>7 DEF TabsOK, SameTask, ClientInv, VaultsOK

\* The tab of function w, which goes on as f, is locked.
LEMMA LockFacts ==
  ASSUME ClientInv, NEW w \in Writers, NEW f, f.ref = "none", Lock(w, f)
  PROVE  TabsOK(w) /\ task'[w] = f
<1>1. /\ TasksOf(w[1], w, f, Wiped)
      /\ vault' = [vault EXCEPT ![w[1]] = None]
      /\ busy' = [busy EXCEPT ![w[1]] = FALSE]
  BY DEF Lock
<1>2. /\ busy \in [Tabs -> BOOLEAN]
      /\ vault \in [Tabs -> Opened \cup {None}] /\ w[1] \in Tabs
  BY ClientFacts DEF ClientInv, ClientTypeOK
<1>3. task' = [x \in Writers |-> IF x = w THEN f ELSE IF x[1] = w[1] THEN Wiped(task[x])
                                                                    ELSE task[x]]
  BY <1>1 DEF TasksOf
<1>4. /\ task' = [x \in Writers |-> task'[x]] /\ task'[w] = f
      /\ \A x \in Writers \ {w} : x[1] = w[1] => task'[x] = Wiped(task[x])
      /\ \A x \in Writers : x[1] # w[1] => task'[x] = task[x]
  BY <1>3
<1>5. /\ vault' \in [Tabs -> Opened \cup {None}] /\ vault'[w[1]] = None
      /\ \A t \in Tabs : t # w[1] => vault'[t] = vault[t] /\ busy'[t] = busy[t]
      /\ busy' \in [Tabs -> BOOLEAN] /\ ~busy'[w[1]]
  BY <1>1, <1>2
<1>6. \A x \in Writers \ {w} : SameTask(x)
  BY <1>4 DEF SameTask, Wiped
<1>7. ASSUME NEW x \in Writers PROVE Holds(task'[x], vault'[x[1]])
  <2> SUFFICES ASSUME task'[x].ref = "current" PROVE Holds(task'[x], vault'[x[1]])
    BY DEF Holds
  <2>1. x # w /\ task'[x] = task[x]
    BY <1>4, <1>6, SameTaskKept
  <2>2. task[x].ref = "current" /\ Holds(task[x], vault[x[1]]) /\ x[1] \in Tabs
    BY <2>1, ClientFacts DEF ClientInv, HoldsOK
  <2>3. x[1] # w[1]
    <3> SUFFICES ASSUME x[1] = w[1] PROVE FALSE
      OBVIOUS
    <3>1. task'[x] = [task[x] EXCEPT !.ref = "wiped"]
      BY <1>4, <2>1, <2>2 DEF Wiped
    <3>2. TaskOK(task[x], records)
      BY DEF ClientInv, TasksOK
    <3>3. PICK e, g : e = task[x] /\ g = task'[x]
      OBVIOUS
    <3>4. g.ref = "wiped"
      BY <3>1, <3>2, <3>3, RefChanged
    <3> QED
      BY <2>1, <2>2, <3>3, <3>4
  <2> QED
    BY <1>5, <2>1, <2>2, <2>3
<1>8. BusyHasOwner'
  <2> SUFFICES ASSUME NEW t \in Tabs, busy[t], t # w[1]
               PROVE  \E s \in Slots : task'[<<t, s>>].phase \notin Parked
    BY <1>5 DEF BusyHasOwner, Parked
  <2>1. PICK s \in Slots : task[<<t, s>>].phase \notin Parked
    BY DEF ClientInv, BusyHasOwner, Parked
  <2>2. <<t, s>> \in Writers /\ <<t, s>>[1] # w[1]
    BY ClientFacts
  <2> QED
    BY <1>4, <2>1, <2>2
<1> QED
  BY <1>4, <1>5, <1>6, <1>7, <1>8 DEF TabsOK, ClientInv, VaultsOK

\* A step of function w that ends it, or locks its tab.
LEMMA StopKeeps ==
  ASSUME ClientInv, NEW w \in Writers, End(w) \/ EndLocked(w),
         task[w].phase # "saving", UNCHANGED checkpointVars, PlainOK'
  PROVE  ClientInv'
<1>1. TabsOK(w) /\ task'[w] = NoTask
  BY EndFacts, LockFacts, NoTaskOK DEF EndLocked
<1>2. task'[w].phase = "idle" /\ TaskOK(task'[w], records)
  BY <1>1, NoTaskOK
<1> QED
  BY <1>1, <1>2, OneStep

\* A button starts function w as f, and disables the controls.
LEMMA ButtonFacts ==
  ASSUME ClientInv, NEW w \in Writers, NEW f, f.phase \notin Parked, Holds(f, vault[w[1]]),
         task' = [task EXCEPT ![w] = f], busy' = [busy EXCEPT ![w[1]] = TRUE],
         UNCHANGED vault
  PROVE  TabsOK(w) /\ task'[w] = f
<1>1. /\ task = [x \in Writers |-> task[x]] /\ busy \in [Tabs -> BOOLEAN]
      /\ vault \in [Tabs -> Opened \cup {None}] /\ w[1] \in Tabs
  BY ClientFacts DEF ClientInv, TasksOK, ClientTypeOK
<1>2. /\ task' = [x \in Writers |-> task'[x]] /\ task'[w] = f
      /\ \A x \in Writers \ {w} : task'[x] = task[x]
  BY <1>1
<1>3. \A x \in Writers : Holds(task[x], vault[x[1]])
  BY DEF ClientInv, HoldsOK
<1>4. /\ busy' \in [Tabs -> BOOLEAN] /\ \A t \in Tabs : t # w[1] => busy'[t] = busy[t]
  BY <1>1
<1>5. BusyHasOwner'
  <2> SUFFICES ASSUME NEW t \in Tabs, busy'[t]
               PROVE  \E s \in Slots : task'[<<t, s>>].phase \notin Parked
    BY DEF BusyHasOwner, Parked
  <2>1. CASE t = w[1]
    BY <1>2, <2>1, ClientFacts
  <2>2. CASE t # w[1]
    <3>1. PICK s \in Slots : task[<<t, s>>].phase \notin Parked
      BY <1>4, <2>2 DEF ClientInv, BusyHasOwner, Parked
    <3>2. <<t, s>> \in Writers /\ <<t, s>> # w
      BY <2>2, ClientFacts
    <3> QED
      BY <1>2, <3>1, <3>2
  <2> QED
    BY <2>1, <2>2
<1> QED
  BY <1>1, <1>2, <1>3, <1>4, <1>5 DEF TabsOK, SameTask, ClientInv, VaultsOK

-----------------------------------------------------------------------------
(***************************************************************************)
(* Unlock.                                                                 *)
(***************************************************************************)

\* The tab is locked before the list of vaults is requested.
LEMMA SignInKeeps ==
  ASSUME ClientInv, NEW w \in Writers, SignIn(w)
  PROVE  ClientInv'
<1>1. PICK f : f = [phase |-> "list", ref |-> "none"]
  OBVIOUS
<1>2. f.phase = "list" /\ f.ref = "none" /\ TaskOK(f, records)
  BY <1>1 DEF TaskOK, Phases, Fields, Replaying, Storing, Writing
<1>3. TabsOK(w) /\ task'[w] = f
  BY <1>1, <1>2, LockFacts DEF SignIn
<1>4. UNCHANGED checkpointVars /\ PlainOK' /\ task[w].phase = "idle"
  BY ClientFacts DEF SignIn, Resumes, PlainOK, ClientInv, ClientTypeOK
<1> QED
  BY <1>2, <1>3, <1>4, OneStep

\* The checkpoint an unlock loads is one that was saved.
LEMMA ListVaultsKeeps ==
  ASSUME ClientInv, NEW w \in Writers, ListVaults(w) \/ ListFails(w)
  PROVE  ClientInv'
<1>1. CASE ListVaults(w)
  <2>1. PICK f : f = [phase |-> "decrypt", ref |-> "none", cp |-> Loaded]
    OBVIOUS
  <2>2. f.phase = "decrypt" /\ TaskOK(f, records) /\ Holds(f, vault[w[1]])
    <3>1. Loaded \in records \cup {None}
      BY LoadedStored DEF ClientInv
    <3> QED
      BY <2>1, <3>1 DEF TaskOK, Phases, Fields, Replaying, Storing, Writing, Holds
  <2> QED
    BY <1>1, <2>1, <2>2, BecomesKeeps DEF ListVaults, Resumes, Parked
<1>2. CASE ListFails(w)
  BY <1>2, NoTaskOK, BecomesKeeps DEF ListFails, Resumes, Parked, Holds
<1> QED
  BY <1>1, <1>2

\* A vault that has just been opened has met its checkpoint, or is before it.
LEMMA JustOpened ==
  ASSUME RecordsOK, CheckpointInv, NEW cp \in records \cup {None}
  PROVE  VaultOK([chain |-> <<>>, cp |-> cp, verified |-> cp = None \/ cp = HeadOf(<<>>)],
                 records, accepted)
<1>1. PICK v : v = [chain |-> <<>>, cp |-> cp, verified |-> cp = None \/ cp = HeadOf(<<>>)]
  OBVIOUS
<1>2. v.chain = <<>> /\ v.cp = cp /\ (v.verified <=> cp = None \/ cp = HeadOf(<<>>))
  BY <1>1
<1>3. v \in Opened
  <2>1. (cp = None \/ cp = HeadOf(<<>>)) \in BOOLEAN
    OBVIOUS
  <2>2. cp \in Checkpoints \cup {None} /\ <<>> \in Seq(Change)
    BY DEF CheckpointInv, CheckpointTypeOK
  <2> QED
    BY <1>1, <2>1, <2>2 DEF Opened
<1>4. <<>> \in Chains /\ Authentic(<<>>) /\ Len(<<>>) = 0
  BY ClientFacts DEF Chains, Authentic
<1>5. cp # None => /\ cp.hash \in Chains /\ cp = HeadOf(cp.hash)
                   /\ cp.seq = Len(cp.hash) /\ cp.seq \in Nat
  BY HeadsAreCheckpoints DEF RecordsOK, RecordOK
<1>6. ASSUME cp # None, v.verified PROVE IsPrefixOf(cp.hash, <<>>)
  <2>1. cp.hash = <<>>
    BY <1>2, <1>4, <1>6, HeadsAreCheckpoints
  <2> QED
    BY <2>1 DEF IsPrefixOf
<1>7. ASSUME ~v.verified PROVE cp # None /\ 0 < cp.seq
  <2>1. cp # None /\ cp # HeadOf(<<>>)
    BY <1>2, <1>7
  <2>2. cp.hash # <<>>
    BY <1>5, <2>1
  <2>3. Len(cp.hash) # 0
    BY <1>5, <2>1, <2>2 DEF Chains
  <2> QED
    BY <1>5, <2>1, <2>3
<1>8. OpenedOK(v, records)
  BY <1>2, <1>3, <1>4, <1>6, <1>7 DEF OpenedOK
<1> QED
  BY <1>1, <1>2, <1>8 DEF VaultOK

\* The new object starts at the genesis head, before its checkpoint.
LEMMA OpenVaultKeeps ==
  ASSUME ClientInv, NEW w \in Writers, OpenVault(w)
  PROVE  ClientInv'
<1>1. PICK v : v = [chain |-> <<>>, cp |-> task[w].cp,
                    verified |-> task[w].cp = None \/ task[w].cp = HeadOf(<<>>)]
  OBVIOUS
<1>2. PICK f : f = [phase |-> "fetch", ref |-> "current", unlock |-> TRUE, replay |-> v]
  OBVIOUS
<1>3. /\ task[w].phase = "decrypt" /\ ~Running(w[1]) /\ Locally
      /\ vault' = [vault EXCEPT ![w[1]] = v]
      /\ busy' = [busy EXCEPT ![w[1]] = TRUE]
      /\ task' = [x \in Writers |-> IF x = w THEN f ELSE IF x[1] = w[1] THEN Detached(task[x])
                                                                      ELSE task[x]]
  BY <1>1, <1>2 DEF OpenVault, Resumes, TasksOf
<1>4. VaultOK(v, records, accepted)
  <2>1. task[w].cp \in records \cup {None}
    BY <1>3 DEF ClientInv, TasksOK, TaskOK
  <2> QED
    BY <1>1, <2>1, JustOpened DEF ClientInv
<1>5. f.phase = "fetch" /\ TaskOK(f, records)
  <2>1. OpenedOK(v, records)
    BY <1>4 DEF VaultOK
  <2> QED
    BY <1>2, <2>1 DEF TaskOK, Phases, Fields, Replaying, Storing, Writing
<1>6. /\ busy \in [Tabs -> BOOLEAN] /\ v # None /\ v \in Opened
      /\ vault \in [Tabs -> Opened \cup {None}] /\ w[1] \in Tabs
  BY <1>4, ClientFacts DEF ClientInv, ClientTypeOK, VaultOK, OpenedOK
<1>7. /\ task' = [x \in Writers |-> task'[x]] /\ task'[w] = f
      /\ \A x \in Writers \ {w} : x[1] = w[1] => task'[x] = Detached(task[x])
      /\ \A x \in Writers : x[1] # w[1] => task'[x] = task[x]
  BY <1>3
<1>8. /\ vault' \in [Tabs -> Opened \cup {None}] /\ vault'[w[1]] = v
      /\ \A t \in Tabs : t # w[1] => vault'[t] = vault[t] /\ busy'[t] = busy[t]
      /\ busy' \in [Tabs -> BOOLEAN]
  BY <1>3, <1>6
<1>9. \A x \in Writers \ {w} : SameTask(x)
  BY <1>7 DEF SameTask, Detached
<1>10. ASSUME NEW x \in Writers PROVE Holds(task'[x], vault'[x[1]])
  <2> SUFFICES ASSUME task'[x].ref = "current" PROVE Holds(task'[x], vault'[x[1]])
    BY DEF Holds
  <2>1. CASE x = w
    BY <1>2, <1>6, <1>7, <1>8, <2>1 DEF Holds
  <2>2. CASE x # w
    <3>1. task'[x] = task[x]
      BY <1>9, <2>2, SameTaskKept
    <3>2. task[x].ref = "current" /\ Holds(task[x], vault[x[1]]) /\ x[1] \in Tabs
      BY <3>1, ClientFacts DEF ClientInv, HoldsOK
    <3>3. x[1] # w[1]
      <4> SUFFICES ASSUME x[1] = w[1] PROVE FALSE
        OBVIOUS
      <4>1. task'[x] = [task[x] EXCEPT !.ref = "detached"]
        BY <1>7, <2>2, <3>2 DEF Detached
      <4>2. TaskOK(task[x], records)
        BY DEF ClientInv, TasksOK
      <4>3. PICK e, g : e = task[x] /\ g = task'[x]
        OBVIOUS
      <4>4. g.ref = "detached"
        BY <4>1, <4>2, <4>3, RefChanged
      <4> QED
        BY <3>1, <3>2, <4>3, <4>4
    <3> QED
      BY <1>8, <3>1, <3>2, <3>3
  <2> QED
    BY <2>1, <2>2
<1>11. BusyHasOwner'
  <2> SUFFICES ASSUME NEW t \in Tabs, busy'[t]
               PROVE  \E s \in Slots : task'[<<t, s>>].phase \notin Parked
    BY DEF BusyHasOwner, Parked
  <2>1. CASE t = w[1]
    BY <1>5, <1>7, <2>1, ClientFacts DEF Parked
  <2>2. CASE t # w[1]
    <3>1. PICK s \in Slots : task[<<t, s>>].phase \notin Parked
      BY <1>8, <2>2 DEF ClientInv, BusyHasOwner, Parked
    <3>2. <<t, s>> \in Writers /\ <<t, s>>[1] # w[1]
      BY <2>2, ClientFacts
    <3> QED
      BY <1>7, <3>1, <3>2
  <2> QED
    BY <2>1, <2>2
<1>12. UNCHANGED checkpointVars /\ PlainOK'
  BY <1>3 DEF Locally, Elsewhere, PlainOK, ClientInv, ClientTypeOK
<1>13. TabsOK(w)
  BY <1>4, <1>7, <1>8, <1>9, <1>10, <1>11 DEF TabsOK, ClientInv, VaultsOK
<1> QED
  BY <1>3, <1>5, <1>7, <1>12, <1>13, OneStep

-----------------------------------------------------------------------------
(***************************************************************************)
(* Sync.                                                                   *)
(***************************************************************************)

\* What is known of a function at its await.
LEMMA AtAwait ==
  ASSUME ClientInv, NEW w \in Writers
  PROVE  /\ TaskOK(task[w], records) /\ w[1] \in Tabs
         /\ Holds(task[w], vault[w[1]])
         /\ vault[w[1]] # None => VaultOK(vault[w[1]], records, accepted)
         /\ OpenedOK(task[w].replay, records) \/ task[w].phase \notin Replaying
         /\ ReplayOK(task[w].replay, records) \/ task[w].phase \notin Storing
  BY ClientFacts DEF ClientInv, TasksOK, HoldsOK, VaultsOK, TaskOK

\* A sync replays the open vault, which has met its checkpoint.
LEMMA SyncButtonKeeps ==
  ASSUME ClientInv, NEW w \in Writers, SyncButton(w)
  PROVE  ClientInv'
<1>1. PICK f : f = [phase |-> "fetch", ref |-> "current", unlock |-> FALSE,
                    replay |-> vault[w[1]]]
  OBVIOUS
<1>2. /\ task[w].phase = "idle" /\ vault[w[1]] # None /\ Locally /\ UNCHANGED vault
      /\ task' = [task EXCEPT ![w] = f] /\ busy' = [busy EXCEPT ![w[1]] = TRUE]
  BY <1>1 DEF SyncButton, Resumes
<1>3. f.phase = "fetch" /\ TaskOK(f, records) /\ Holds(f, vault[w[1]])
  <2>1. OpenedOK(vault[w[1]], records) /\ vault[w[1]] # None
    BY <1>2, AtAwait DEF VaultOK
  <2> QED
    BY <1>1, <2>1 DEF TaskOK, Phases, Fields, Replaying, Storing, Writing, Holds
<1>4. TabsOK(w) /\ task'[w] = f
  BY <1>2, <1>3, ButtonFacts DEF Parked
<1>5. UNCHANGED checkpointVars /\ PlainOK'
  BY <1>2 DEF Locally, Elsewhere, PlainOK, ClientInv, ClientTypeOK
<1> QED
  BY <1>2, <1>3, <1>4, <1>5, OneStep

\* The pages a server answers with.
LEMMA PageOfServer ==
  ASSUME ClientInv, NEW from \in Chains, Len(from) <= Len(server), NEW n \in Nat,
         n <= Len(server) - Len(from)
  PROVE  LET page == SubSeq(server, Len(from) + 1, Len(from) + n) IN
         page \in Seq(Change) /\ Len(from) + Len(page) <= MaxChain
<1>1. /\ server \in Seq(Change) /\ Len(server) \in Nat /\ Len(server) <= MaxChain
      /\ Len(from) \in Nat /\ MaxChain \in Nat
  BY ClientFacts DEF ClientInv, ClientTypeOK, Chains
<1>2. \A i \in (Len(from) + 1)..(Len(from) + n) : server[i] \in Change
  BY <1>1
<1> QED
  BY <1>1, <1>2, SubSeqProperties

\* The page continues the replay, so both fit the bound of the chain.
LEMMA FetchPageKeeps ==
  ASSUME ClientInv, NEW w \in Writers, FetchPage(w)
  PROVE  ClientInv'
<1>1. PICK from : from = task[w].replay.chain
  OBVIOUS
<1>2. PICK n : n = IF Len(server) - Len(from) < MaxPage THEN Len(server) - Len(from)
                                                       ELSE MaxPage
  OBVIOUS
<1>3. PICK page : page = SubSeq(server, Len(from) + 1, Len(from) + n)
  OBVIOUS
<1>4. PICK more : more = (Len(server) - Len(from) > MaxPage)
  OBVIOUS
<1>5. PICK f : f = [phase |-> "verify", ref |-> task[w].ref, unlock |-> task[w].unlock,
                    replay |-> task[w].replay, page |-> page, has_more |-> more]
  OBVIOUS
<1>6. /\ task[w].phase = "fetch" /\ Len(from) <= Len(server) /\ Becomes(w, f) /\ Locally
  BY <1>1, <1>2, <1>3, <1>4, <1>5 DEF FetchPage, Resumes
<1>7. /\ OpenedOK(task[w].replay, records) /\ task[w].unlock \in BOOLEAN
      /\ task[w].ref \in {"none", "current", "detached", "wiped"}
      /\ Holds(task[w], vault[w[1]])
  BY <1>6, AtAwait DEF TaskOK, Replaying
<1>8. page \in Seq(Change) /\ Len(from) + Len(page) <= MaxChain
  <2>1. /\ from \in Chains /\ Len(from) \in Nat /\ Len(server) \in Nat
    BY <1>1, <1>7 DEF OpenedOK, Chains, ClientInv, ClientTypeOK
  <2>2. n \in Nat /\ n <= Len(server) - Len(from)
    BY <1>2, <1>6, <2>1, ClientFacts
  <2> QED
    BY <1>3, <1>6, <2>1, <2>2, PageOfServer
<1>9. f.phase = "verify" /\ TaskOK(f, records) /\ Holds(f, vault[w[1]])
  BY <1>1, <1>5, <1>6, <1>7, <1>8 DEF TaskOK, Phases, Fields, Replaying, Storing, Writing, Holds
<1> QED
  BY <1>6, <1>7, <1>9, BecomesKeeps DEF Parked

\* A failed request ends the sync, or locks the tab that unlocks.
LEMMA FetchFailsKeeps ==
  ASSUME ClientInv, NEW w \in Writers, FetchFails(w)
  PROVE  ClientInv'
<1>1. UNCHANGED checkpointVars /\ PlainOK' /\ task[w].phase = "fetch"
  BY DEF FetchFails, Resumes, Locally, Elsewhere, PlainOK, ClientInv, ClientTypeOK
<1>2. End(w) \/ EndLocked(w)
  BY DEF FetchFails
<1> QED
  BY <1>1, <1>2, StopKeeps

\* A replay goes on over one more change that verifies.
LEMMA ProgressedOK ==
  ASSUME NEW recs, NEW v, OpenedOK(v, recs), NEW e \in Change, e.key = "vault",
         \A c \in recs : RecordOK(c), recs \subseteq Checkpoints,
         Len(v.chain) < MaxChain, ~Diverges(v, Append(v.chain, e))
  PROVE  /\ OpenedOK(Progressed(v, Append(v.chain, e)), recs)
         /\ Progressed(v, Append(v.chain, e)).chain = Append(v.chain, e)
<1>1. PICK chain : chain = Append(v.chain, e)
  OBVIOUS
<1>2. PICK g : g = Progressed(v, chain)
  OBVIOUS
<1>3. v \in Opened /\ v.chain \in Chains /\ Authentic(v.chain) /\ v.verified \in BOOLEAN
  BY DEF OpenedOK, Opened
<1>4. /\ chain \in Chains /\ Len(chain) = Len(v.chain) + 1 /\ Authentic(chain)
      /\ \A d \in Chains : IsPrefixOf(d, v.chain) => IsPrefixOf(d, chain)
  BY <1>1, <1>3, LongerChain
<1>5. PICK ver \in BOOLEAN : ver = (v.verified \/ v.cp = HeadOf(chain))
  OBVIOUS
<1>6. g = [v EXCEPT !.chain = chain, !.verified = ver]
  BY <1>2, <1>5 DEF Progressed
<1>7. /\ g \in Opened /\ g.chain = chain /\ g.cp = v.cp
      /\ g.verified <=> v.verified \/ v.cp = HeadOf(chain)
  BY <1>3, <1>4, <1>5, <1>6 DEF Opened, Chains
<1>8. v.cp # None => /\ v.cp \in recs /\ v.cp.hash \in Chains /\ v.cp.seq \in Nat
                     /\ v.verified => IsPrefixOf(v.cp.hash, v.chain)
  BY CheckpointAssumption DEF OpenedOK, RecordOK
<1>9. IsPrefixOf(chain, chain)
  <2>1. chain \in Seq(Change)
    BY <1>4 DEF Chains
  <2>2. SubSeq(chain, 1, Len(chain)) = chain /\ Len(chain) \in Nat
    BY <2>1, SubSeqFull
  <2> QED
    BY <2>2 DEF IsPrefixOf
<1>10. ASSUME g.cp # None, g.verified PROVE IsPrefixOf(g.cp.hash, chain)
  <2>1. CASE v.verified
    BY <1>4, <1>7, <1>8, <1>10, <2>1
  <2>2. CASE v.cp = HeadOf(chain)
    BY <1>4, <1>7, <1>9, <2>2, HeadsAreCheckpoints
  <2> QED
    BY <1>7, <1>10, <2>1, <2>2
<1>11. ASSUME ~g.verified PROVE g.cp # None /\ Len(chain) < g.cp.seq
  <2>1. ~v.verified /\ v.cp # HeadOf(chain)
    BY <1>7, <1>11
  <2>2. v.cp # None /\ ~(v.cp.seq <= Len(chain))
    BY <1>1, <2>1 DEF Diverges, OpenedOK
  <2>3. Len(chain) \in Nat
    BY <1>4, HeadsAreCheckpoints
  <2> QED
    BY <1>7, <1>8, <2>2, <2>3
<1> QED
  BY <1>1, <1>2, <1>4, <1>7, <1>8, <1>10, <1>11 DEF OpenedOK

\* A change enters the replay only verified, and not past the checkpoint unmet.
LEMMA ApplyChangeKeeps ==
  ASSUME ClientInv, NEW w \in Writers, ApplyChange(w)
  PROVE  ClientInv'
<1>1. PICK e : e = Head(task[w].page)
  OBVIOUS
<1>2. PICK v : v = task[w].replay
  OBVIOUS
<1>3. PICK g : g = Progressed(v, Append(v.chain, e))
  OBVIOUS
<1>4. PICK old : old = task[w]
  OBVIOUS
<1>5. PICK f : f = [old EXCEPT !.page = Tail(old.page), !.replay = g]
  OBVIOUS
<1>6. /\ old.phase = "verify" /\ old.page # <<>> /\ e.key = "vault"
      /\ ~Diverges(v, Append(v.chain, e)) /\ Becomes(w, f) /\ Locally
  BY <1>1, <1>2, <1>3, <1>4, <1>5 DEF ApplyChange, Resumes, Verifies
<1>7. /\ OpenedOK(v, records) /\ TaskOK(old, records)
      /\ Holds(old, vault[w[1]])
      /\ old.page \in Seq(Change) /\ Len(v.chain) + Len(old.page) <= MaxChain
  BY <1>2, <1>4, <1>6, AtAwait DEF TaskOK, Replaying
<1>8. /\ e \in Change /\ Tail(old.page) \in Seq(Change) /\ Len(v.chain) \in Nat
      /\ Len(Tail(old.page)) = Len(old.page) - 1 /\ Len(old.page) \in Nat
      /\ Len(v.chain) < MaxChain
  <2>1. PICK page \in Seq(Change) : page = old.page /\ page # <<>>
    BY <1>6, <1>7
  <2>2. /\ Head(page) \in Change /\ Tail(page) \in Seq(Change)
        /\ Len(Tail(page)) = Len(page) - 1 /\ Len(page) \in Nat /\ Len(page) > 0
    BY <2>1
  <2>3. Len(v.chain) \in Nat /\ MaxChain \in Nat
    BY <1>7, ClientFacts DEF OpenedOK, Chains
  <2>4. Len(v.chain) + Len(page) <= MaxChain
    BY <1>7, <2>1
  <2>5. Len(v.chain) < MaxChain
    BY <2>2, <2>3, <2>4
  <2> QED
    BY <1>1, <1>4, <2>1, <2>2, <2>3, <2>5
<1>9. OpenedOK(g, records) /\ g.chain = Append(v.chain, e)
  <2>1. (\A c \in records : RecordOK(c)) /\ records \subseteq Checkpoints
    BY DEF ClientInv, RecordsOK, CheckpointInv, CheckpointTypeOK
  <2> QED
    BY <1>3, <1>6, <1>7, <1>8, <2>1, ProgressedOK
<1>10. Len(g.chain) = Len(v.chain) + 1
  BY <1>7, <1>8, <1>9, LongerChain DEF OpenedOK
<1>11. Len(g.chain) + Len(Tail(old.page)) <= MaxChain
  <2>1. PICK a, b \in Nat : a = Len(v.chain) /\ b = Len(old.page)
    BY <1>8
  <2>2. PICK c, d : c = Len(g.chain) /\ d = Len(Tail(old.page))
    OBVIOUS
  <2>3. a + b <= MaxChain /\ MaxChain \in Nat /\ c = a + 1 /\ d = b - 1
    BY <1>7, <1>8, <1>10, <2>1, <2>2, ClientFacts
  <2>4. c + d <= MaxChain
    <3>1. \A i, j, k, l, m \in Nat : i + j <= m /\ k = i + 1 /\ l = j - 1 => k + l <= m
      OBVIOUS
    <3>2. c \in Nat /\ d \in Nat
      BY <1>8, <1>9, <2>2, <2>3, HeadsAreCheckpoints DEF OpenedOK
    <3> QED
      BY <2>3, <3>1, <3>2
  <2> QED
    BY <2>2, <2>4
<1>12. /\ f.phase = "verify" /\ f.ref = old.ref /\ f.page = Tail(old.page) /\ f.replay = g
       /\ f.unlock = old.unlock /\ DOMAIN f = DOMAIN old
  BY <1>5, <1>6, <1>7 DEF TaskOK, Fields
<1>13. TaskOK(f, records)
  <2>1. /\ DOMAIN f = {"phase", "ref"} \cup Fields["verify"] /\ f.unlock \in BOOLEAN
        /\ f.ref \in {"none", "current", "detached", "wiped"}
    BY <1>6, <1>7, <1>12 DEF TaskOK
  <2> QED
    BY <1>8, <1>9, <1>11, <1>12, <2>1 DEF TaskOK, Phases, Storing, Writing
<1>14. Holds(f, vault[w[1]])
  <2>1. g.cp = v.cp
    BY <1>3, <1>7 DEF Progressed, OpenedOK, Opened
  <2> QED
    BY <1>2, <1>4, <1>6, <1>7, <1>12, <2>1 DEF Holds, Replaying
<1> QED
  BY <1>4, <1>6, <1>7, <1>12, <1>13, <1>14, BecomesKeeps DEF Parked

\* A change that does not verify ends the sync, most often locking the tab.
LEMMA RejectChangeKeeps ==
  ASSUME ClientInv, NEW w \in Writers, RejectChange(w)
  PROVE  ClientInv'
<1>1. UNCHANGED checkpointVars /\ PlainOK' /\ task[w].phase = "verify"
  BY DEF RejectChange, Resumes, Locally, Elsewhere, PlainOK, ClientInv, ClientTypeOK
<1>2. End(w) \/ EndLocked(w)
  BY DEF RejectChange
<1> QED
  BY <1>1, <1>2, StopKeeps

\* The replay goes on with the next page as it is.
LEMMA NextPageKeeps ==
  ASSUME ClientInv, NEW w \in Writers, NextPage(w)
  PROVE  ClientInv'
<1>1. PICK f : f = [phase |-> "fetch", ref |-> task[w].ref, unlock |-> task[w].unlock,
                    replay |-> task[w].replay]
  OBVIOUS
<1>2. task[w].phase = "verify" /\ Becomes(w, f) /\ Locally
  BY <1>1 DEF NextPage, Resumes
<1>3. /\ OpenedOK(task[w].replay, records) /\ task[w].unlock \in BOOLEAN
      /\ task[w].ref \in {"none", "current", "detached", "wiped"}
      /\ Holds(task[w], vault[w[1]])
  BY <1>2, AtAwait DEF TaskOK, Replaying
<1>4. f.phase = "fetch" /\ TaskOK(f, records) /\ Holds(f, vault[w[1]])
  BY <1>1, <1>2, <1>3 DEF TaskOK, Phases, Fields, Replaying, Storing, Writing, Holds
<1> QED
  BY <1>2, <1>3, <1>4, BecomesKeeps DEF Parked

\* A replay is saved only after it has met its checkpoint.
LEMMA LastPageKeeps ==
  ASSUME ClientInv, NEW w \in Writers, LastPage(w)
  PROVE  ClientInv'
<1>1. task[w].phase = "verify" /\ ~Running(w[1]) /\ Locally
  BY DEF LastPage, Resumes
<1>2. CASE task[w].replay.verified
  <2>1. PICK f : f = [phase |-> "persist", ref |-> task[w].ref, replay |-> task[w].replay]
    OBVIOUS
  <2>2. Becomes(w, f)
    BY <1>2, <2>1 DEF LastPage
  <2>3. /\ ReplayOK(task[w].replay, records)
        /\ task[w].ref \in {"none", "current", "detached", "wiped"}
        /\ Holds(task[w], vault[w[1]])
    BY <1>1, AtAwait DEF TaskOK, Replaying, OpenedOK, ReplayOK
  <2>4. f.phase = "persist" /\ TaskOK(f, records) /\ Holds(f, vault[w[1]])
    BY <1>1, <2>1, <2>3 DEF TaskOK, Phases, Fields, Replaying, Storing, Writing, Holds
  <2> QED
    BY <1>1, <2>2, <2>3, <2>4, BecomesKeeps DEF Parked
<1>3. CASE ~task[w].replay.verified
  <2>1. UNCHANGED checkpointVars /\ PlainOK' /\ EndLocked(w)
    BY <1>1, <1>3 DEF LastPage, Locally, Elsewhere, PlainOK, ClientInv, ClientTypeOK
  <2> QED
    BY <1>1, <2>1, StopKeeps
<1> QED
  BY <1>2, <1>3

-----------------------------------------------------------------------------
(***************************************************************************)
(* Save and delete.                                                        *)
(***************************************************************************)

\* A write starts from the chain of the open vault, whatever else replays it.
LEMMA StartWriteKeeps ==
  ASSUME ClientInv, NEW w \in Writers, StartWrite(w)
  PROVE  ClientInv'
<1>1. PICK r \in Revs \ used :
        /\ used' = used \cup {r}
        /\ task' = [task EXCEPT ![w] = [phase |-> "mac", ref |-> "current",
                                        base |-> vault[w[1]].chain, rev |-> r]]
  BY DEF StartWrite
<1>2. PICK f : f = [phase |-> "mac", ref |-> "current", base |-> vault[w[1]].chain, rev |-> r]
  OBVIOUS
<1>3. /\ task[w].phase = "idle" /\ vault[w[1]] # None /\ UNCHANGED vault
      /\ task' = [task EXCEPT ![w] = f] /\ busy' = [busy EXCEPT ![w[1]] = TRUE]
      /\ UNCHANGED <<server, restores, signIns, checkpointVars>>
  BY <1>1, <1>2 DEF StartWrite, Resumes
<1>4. f.phase = "mac" /\ TaskOK(f, records) /\ Holds(f, vault[w[1]])
  <2>1. vault[w[1]].chain \in Chains /\ vault[w[1]] # None
    BY <1>3, AtAwait DEF VaultOK, OpenedOK
  <2> QED
    BY <1>2, <2>1 DEF TaskOK, Phases, Fields, Replaying, Storing, Writing, Holds
<1>5. TabsOK(w) /\ task'[w] = f
  BY <1>3, <1>4, ButtonFacts DEF Parked
<1>6. UNCHANGED checkpointVars /\ PlainOK'
  BY <1>1, <1>3 DEF PlainOK, ClientInv, ClientTypeOK
<1> QED
  BY <1>3, <1>4, <1>5, <1>6, OneStep

\* The MAC is made with whatever key the vault object has then.
LEMMA ComputeMacKeeps ==
  ASSUME ClientInv, NEW w \in Writers, ComputeMac(w)
  PROVE  ClientInv'
<1>1. PICK key : key = IF task[w].ref = "wiped" THEN "wiped" ELSE "vault"
  OBVIOUS
<1>2. PICK f : f = [phase |-> "hash", ref |-> task[w].ref, base |-> task[w].base,
                    rev |-> task[w].rev, key |-> key]
  OBVIOUS
<1>3. task[w].phase = "mac" /\ Becomes(w, f) /\ Locally
  BY <1>1, <1>2 DEF ComputeMac, Resumes
<1>4. /\ task[w].base \in Chains /\ task[w].rev \in Revs /\ key \in {"vault", "wiped"}
      /\ task[w].ref \in {"none", "current", "detached", "wiped"}
      /\ Holds(task[w], vault[w[1]])
  BY <1>1, <1>3, AtAwait DEF TaskOK, Writing
<1>5. f.phase = "hash" /\ TaskOK(f, records) /\ Holds(f, vault[w[1]])
  BY <1>2, <1>4 DEF TaskOK, Phases, Fields, Replaying, Storing, Writing, Holds
<1> QED
  BY <1>3, <1>4, <1>5, BecomesKeeps DEF Parked

\* The head hash may find that key wiped meanwhile.
LEMMA ComputeHeadHashKeeps ==
  ASSUME ClientInv, NEW w \in Writers, ComputeHeadHash(w)
  PROVE  ClientInv'
<1>1. PICK key : key = IF task[w].ref = "wiped" /\ task[w].key = "vault" THEN "mixed"
                                                                       ELSE task[w].key
  OBVIOUS
<1>2. PICK e : e = [rev |-> task[w].rev, key |-> key]
  OBVIOUS
<1>3. PICK f : f = [phase |-> "csrf", ref |-> task[w].ref, base |-> task[w].base, change |-> e]
  OBVIOUS
<1>4. task[w].phase = "hash" /\ Becomes(w, f) /\ Locally
  BY <1>1, <1>2, <1>3 DEF ComputeHeadHash, Resumes
<1>5. /\ task[w].base \in Chains /\ task[w].rev \in Revs
      /\ task[w].key \in {"vault", "wiped"}
      /\ task[w].ref \in {"none", "current", "detached", "wiped"}
      /\ Holds(task[w], vault[w[1]])
  BY <1>4, AtAwait DEF TaskOK, Writing
<1>6. e \in Change
  BY <1>1, <1>2, <1>5 DEF Change, Keys
<1>7. f.phase = "csrf" /\ TaskOK(f, records) /\ Holds(f, vault[w[1]])
  BY <1>3, <1>5, <1>6 DEF TaskOK, Phases, Fields, Replaying, Storing, Writing, Holds
<1> QED
  BY <1>4, <1>5, <1>7, BecomesKeeps DEF Parked

\* The change goes on to the next of its requests.
LEMMA SentOn ==
  ASSUME ClientInv, NEW w \in Writers, task[w].phase \in {"csrf", "post"},
         NEW phase \in {"post", "created"},
         phase = "created" => Len(task[w].base) < MaxChain,
         NEW f, f = [task[w] EXCEPT !.phase = phase]
  PROVE  /\ f.phase = phase /\ f.ref = task[w].ref /\ TaskOK(f, records)
         /\ Holds(f, vault[w[1]])
<1>1. PICK old : old = task[w]
  OBVIOUS
<1>2. /\ old.base \in Chains /\ old.change \in Change
      /\ old.ref \in {"none", "current", "detached", "wiped"}
      /\ Holds(old, vault[w[1]])
      /\ old.phase \in {"csrf", "post"} /\ DOMAIN old = {"phase", "ref"} \cup Fields[old.phase]
  BY <1>1, AtAwait DEF TaskOK, Writing
<1>3. /\ f.phase = phase /\ f.ref = old.ref /\ f.base = old.base /\ f.change = old.change
      /\ DOMAIN f = {"phase", "ref"} \cup {"base", "change"}
  BY <1>1, <1>2 DEF Fields
<1>4. TaskOK(f, records)
  <2>1. CASE phase = "post"
    BY <1>2, <1>3, <2>1 DEF TaskOK, Phases, Fields, Replaying, Storing, Writing
  <2>2. CASE phase = "created"
    BY <1>1, <1>2, <1>3, <2>2 DEF TaskOK, Phases, Fields, Replaying, Storing, Writing
  <2> QED
    BY <2>1, <2>2
<1>5. Holds(f, vault[w[1]])
  BY <1>2, <1>3 DEF Holds, Replaying, Storing
<1> QED
  BY <1>1, <1>3, <1>4, <1>5

\* The change waits for the CSRF token unaltered.
LEMMA FetchCsrfKeeps ==
  ASSUME ClientInv, NEW w \in Writers, FetchCsrf(w)
  PROVE  ClientInv'
<1>1. PICK f : f = [task[w] EXCEPT !.phase = "post"]
  OBVIOUS
<1>2. task[w].phase = "csrf" /\ Becomes(w, f) /\ Locally
  BY <1>1 DEF FetchCsrf, Resumes
<1>3. f.phase = "post" /\ TaskOK(f, records) /\ Holds(f, vault[w[1]])
  BY <1>1, <1>2, SentOn
<1> QED
  BY <1>2, <1>3, BecomesKeeps DEF Parked

\* A change is committed below the bound of the chain.
LEMMA PostChangeKeeps ==
  ASSUME ClientInv, NEW w \in Writers, PostChange(w)
  PROVE  ClientInv'
<1>1. /\ task[w].phase = "post" /\ server = task[w].base /\ Len(server) < MaxChain
      /\ server' = Append(task[w].base, task[w].change)
      /\ UNCHANGED <<used, restores, signIns, checkpointVars>>
  BY DEF PostChange, Resumes, ServerAccepts
<1>2. task[w].base \in Chains /\ task[w].change \in Change
  BY <1>1, AtAwait DEF TaskOK, Writing
<1>3. server' \in Chains
  BY <1>1, <1>2, LongerChain
<1>4. UNCHANGED checkpointVars /\ PlainOK'
  BY <1>1, <1>3 DEF PlainOK, ClientInv, ClientTypeOK, Chains
<1>5. CASE End(w)
  BY <1>1, <1>4, <1>5, StopKeeps
<1>6. CASE Becomes(w, [task[w] EXCEPT !.phase = "created"])
  <2>1. PICK f : f = [task[w] EXCEPT !.phase = "created"]
    OBVIOUS
  <2>2. f.phase = "created" /\ TaskOK(f, records) /\ Holds(f, vault[w[1]])
    BY <1>1, <2>1, SentOn
  <2>3. TabsOK(w) /\ task'[w] = f
    BY <1>6, <2>1, <2>2, BecomesFacts DEF Parked
  <2> QED
    BY <1>1, <1>4, <2>2, <2>3, OneStep
<1> QED
  BY <1>5, <1>6 DEF PostChange

\* A refused write ends.
LEMMA WriteFailsKeeps ==
  ASSUME ClientInv, NEW w \in Writers, WriteFails(w)
  PROVE  ClientInv'
<1>1. UNCHANGED checkpointVars /\ PlainOK' /\ task[w].phase \in {"csrf", "post"} /\ End(w)
  BY DEF WriteFails, Resumes, Locally, Elsewhere, PlainOK, ClientInv, ClientTypeOK
<1> QED
  BY <1>1, StopKeeps

\* The own change is applied to the vault open now, if that is its base.
LEMMA ApplyOwnChangeKeeps ==
  ASSUME ClientInv, NEW w \in Writers, ApplyOwnChange(w)
  PROVE  ClientInv'
<1>1. task[w].phase = "created" /\ Locally
  BY DEF ApplyOwnChange, Resumes
<1>2. UNCHANGED checkpointVars /\ PlainOK'
  BY <1>1 DEF Locally, Elsewhere, PlainOK, ClientInv, ClientTypeOK
<1>3. CASE End(w) \/ EndLocked(w)
  BY <1>1, <1>2, <1>3, StopKeeps
<1>4. PICK f : f = [phase |-> "own", ref |-> "current", replay |-> vault[w[1]],
                    change |-> task[w].change]
  OBVIOUS
<1>5. CASE vault[w[1]] # None /\ vault[w[1]].chain = task[w].base /\ Becomes(w, f)
  <2>1. OpenedOK(vault[w[1]], records) /\ vault[w[1]] # None
    BY <1>5, AtAwait DEF VaultOK
  <2>2. task[w].change \in Change /\ Len(task[w].base) < MaxChain
    BY <1>1, AtAwait DEF TaskOK
  <2>3. f.phase = "own" /\ TaskOK(f, records) /\ Holds(f, vault[w[1]])
    BY <1>4, <1>5, <2>1, <2>2 DEF TaskOK, Phases, Fields, Replaying, Storing, Writing, Holds
  <2> QED
    BY <1>1, <1>5, <2>3, BecomesKeeps DEF Parked
<1> QED
  BY <1>3, <1>4, <1>5 DEF ApplyOwnChange

(* The replay a save or a delete is left with: the vault object v as it is
   now, which may have moved on, with the head of the change on top of base,
   the object as it was.  It has met the checkpoint, is before it, or claims
   to have met it and is refuted by it.                                     *)
LEMMA OwnReplayOK ==
  ASSUME NEW recs, NEW base, OpenedOK(base, recs), NEW e \in Change, e.key = "vault",
         \A c \in recs : RecordOK(c), recs \subseteq Checkpoints,
         Len(base.chain) < MaxChain, NEW v, OpenedOK(v, recs), v.cp = base.cp,
         ~Diverges(v, Append(base.chain, e))
  PROVE  /\ ReplayOK(Progressed(v, Append(base.chain, e)), recs)
         /\ Progressed(v, Append(base.chain, e)).cp = v.cp
<1>1. PICK chain : chain = Append(base.chain, e)
  OBVIOUS
<1>2. PICK g : g = Progressed(v, chain)
  OBVIOUS
<1>3. /\ base.chain \in Chains /\ Authentic(base.chain) /\ v \in Opened
  BY DEF OpenedOK
<1>4. /\ chain \in Chains /\ Len(chain) = Len(base.chain) + 1 /\ Authentic(chain)
      /\ \A d \in Chains : IsPrefixOf(d, base.chain) => IsPrefixOf(d, chain)
  BY <1>1, <1>3, LongerChain
<1>5. PICK ver \in BOOLEAN : ver = (v.verified \/ v.cp = HeadOf(chain))
  OBVIOUS
<1>6. g = [v EXCEPT !.chain = chain, !.verified = ver]
  BY <1>2, <1>5 DEF Progressed
<1>7. /\ g \in Opened /\ g.chain = chain /\ g.cp = v.cp
      /\ g.verified <=> v.verified \/ v.cp = HeadOf(chain)
  BY <1>3, <1>4, <1>5, <1>6 DEF Opened, Chains
<1>8. v.cp # None => /\ v.cp \in recs /\ v.cp.hash \in Chains /\ v.cp.seq \in Nat
                     /\ v.cp = HeadOf(v.cp.hash)
  BY CheckpointAssumption DEF OpenedOK, RecordOK
<1>9. Len(chain) \in Nat /\ Len(base.chain) \in Nat
  BY <1>3, <1>4, HeadsAreCheckpoints
<1>10. g.cp = None \/ IsPrefixOf(g.cp.hash, chain) \/ Refuted(g)
  <2> SUFFICES ASSUME g.cp # None PROVE IsPrefixOf(g.cp.hash, chain) \/ Refuted(g)
    OBVIOUS
  <2>1. CASE base.verified
    BY <1>4, <1>7, <1>8, <2>1 DEF OpenedOK
  <2>2. CASE g.cp = HeadOf(chain)
    <3>1. chain \in Seq(Change) /\ g.cp.hash = chain
      BY <1>4, <2>2, HeadsAreCheckpoints DEF Chains
    <3>2. SubSeq(chain, 1, Len(chain)) = chain
      BY <3>1, SubSeqFull
    <3> QED
      BY <1>9, <3>1, <3>2 DEF IsPrefixOf
  <2>3. CASE ~base.verified /\ g.cp # HeadOf(chain)
    <3>1. Len(base.chain) < v.cp.seq
      BY <2>3 DEF OpenedOK
    <3>2. Len(chain) <= v.cp.seq
      BY <1>4, <1>7, <1>8, <1>9, <3>1
    <3> QED
      BY <1>7, <2>3, <3>2 DEF Refuted
  <2> QED
    BY <2>1, <2>2, <2>3
<1>11. ASSUME ~g.verified PROVE g.cp # None /\ Len(chain) < g.cp.seq
  <2>1. ~v.verified /\ v.cp # HeadOf(chain)
    BY <1>7, <1>11
  <2>2. v.cp # None /\ ~(v.cp.seq <= Len(chain))
    BY <1>1, <2>1 DEF Diverges, OpenedOK
  <2> QED
    BY <1>7, <1>8, <1>9, <2>2
<1>12. OpenedOK(g, recs) \/ Refuted(g)
  BY <1>4, <1>7, <1>8, <1>10, <1>11 DEF OpenedOK
<1> QED
  BY <1>1, <1>2, <1>4, <1>7, <1>8, <1>12 DEF ReplayOK

\* It is saved only if it verifies, though this tab has made it.
LEMMA VerifyOwnChangeKeeps ==
  ASSUME ClientInv, NEW w \in Writers, VerifyOwnChange(w)
  PROVE  ClientInv'
<1>1. PICK base, e : base = task[w].replay /\ e = task[w].change
  OBVIOUS
<1>2. PICK v : v = IF task[w].ref = "current" THEN vault[w[1]] ELSE base
  OBVIOUS
<1>3. task[w].phase = "own" /\ ~Running(w[1]) /\ Locally
  BY DEF VerifyOwnChange, Resumes
<1>4. UNCHANGED checkpointVars /\ PlainOK'
  BY <1>3 DEF Locally, Elsewhere, PlainOK, ClientInv, ClientTypeOK
<1>5. CASE Verifies(w, e) /\ ~Diverges(v, Append(base.chain, e))
  <2>1. PICK g : g = Progressed(v, Append(base.chain, e))
    OBVIOUS
  <2>2. PICK f : f = [phase |-> "persist", ref |-> task[w].ref, replay |-> g]
    OBVIOUS
  <2>3. Becomes(w, f)
    BY <1>1, <1>2, <1>5, <2>1, <2>2 DEF VerifyOwnChange
  <2>4. /\ OpenedOK(base, records) /\ e \in Change /\ Len(base.chain) < MaxChain
        /\ task[w].ref \in {"none", "current", "detached", "wiped"}
        /\ Holds(task[w], vault[w[1]])
    BY <1>1, <1>3, AtAwait DEF TaskOK, Replaying
  <2>5. OpenedOK(v, records) /\ v.cp = base.cp
    BY <1>1, <1>2, <1>3, <2>4, AtAwait DEF Holds, Replaying, VaultOK
  <2>6. ReplayOK(g, records) /\ g.cp = v.cp
    <3>1. (\A c \in records : RecordOK(c)) /\ records \subseteq Checkpoints
      BY DEF ClientInv, RecordsOK, CheckpointInv, CheckpointTypeOK
    <3>2. e.key = "vault"
      BY <1>5 DEF Verifies
    <3> QED
      BY <1>5, <2>1, <2>4, <2>5, <3>1, <3>2, OwnReplayOK
  <2>7. f.phase = "persist" /\ TaskOK(f, records)
    BY <2>2, <2>4, <2>6 DEF TaskOK, Phases, Fields, Replaying, Storing, Writing
  <2>8. Holds(f, vault[w[1]])
    BY <1>2, <2>2, <2>4, <2>6 DEF Holds
  <2> QED
    BY <1>3, <2>3, <2>7, <2>8, BecomesKeeps DEF Parked
<1>6. CASE ~(Verifies(w, e) /\ ~Diverges(v, Append(base.chain, e)))
  <2>1. End(w) \/ EndLocked(w)
    BY <1>1, <1>2, <1>6 DEF VerifyOwnChange
  <2> QED
    BY <1>3, <1>4, <2>1, StopKeeps
<1> QED
  BY <1>5, <1>6

-----------------------------------------------------------------------------
(***************************************************************************)
(* Saving the checkpoint.                                                  *)
(***************************************************************************)

\* A step of the one function of its tab that is inside its storage calls.
LEMMA StorageStep ==
  ASSUME ClientInv, NEW w \in Writers, Runs(task[w]), TabsOK(w), Elsewhere,
         NextCheckpoints \/ UNCHANGED checkpointVars,
         records \subseteq records', accepted \subseteq accepted',
         \A c \in records' : RecordOK(c),
         \A x \in Writers \ {w} : writer'[x] = writer[x],
         TaskOK(task'[w], records'), SaveOK(w)'
  PROVE  ClientInv'
<1>1. CheckpointInv'
  BY CheckpointStep DEF ClientInv
<1>2. PlainOK'
  BY DEF Elsewhere, PlainOK, ClientInv, ClientTypeOK
<1>3. ASSUME NEW x \in Writers \ {w}
      PROVE  /\ TaskOK(task'[x], records') /\ task'[x].phase = task[x].phase
             /\ task[x].phase = "saving" => task'[x].replay = task[x].replay
  BY SameTaskKept, TaskKept DEF TabsOK
<1>4. RecordsOK' /\ TasksOK'
  BY <1>3 DEF RecordsOK, TasksOK, TabsOK
<1>5. VaultsOK'
  <2> SUFFICES ASSUME NEW t \in Tabs, vault'[t] # None
               PROVE  VaultOK(vault'[t], records', accepted')
    BY DEF VaultsOK
  <2>1. VaultOK(vault'[t], records, accepted)
    BY DEF TabsOK
  <2> QED
    BY <2>1, OpenedKept DEF VaultOK
<1>6. SavesOK'
  <2> SUFFICES ASSUME NEW x \in Writers \ {w} PROVE SaveOK(x)'
    BY DEF SavesOK
  <2>1. SaveOK(x) /\ writer'[x] = writer[x]
    BY DEF ClientInv, SavesOK
  <2> QED
    BY <1>3, <2>1, OpenedKept DEF SaveOK
<1>7. ASSUME NEW t \in Tabs, NEW r \in Slots, NEW s \in Slots, r # s,
             Runs(task'[<<t, r>>]), Runs(task'[<<t, s>>])
      PROVE  FALSE
  <2>1. \A x \in Writers : Runs(task'[x]) => Runs(task[x])
    BY <1>3 DEF Runs
  <2>2. <<t, r>> \in Writers /\ <<t, s>> \in Writers
    BY ClientFacts
  <2> QED
    BY <1>7, <2>1, <2>2 DEF ClientInv, ClientTypeOK, Runs
<1>8. ClientTypeOK'
  <2>1. \A x \in Writers : TaskOK(task'[x], records')
    BY <1>3
  <2>2. \A x \in Writers :
          /\ task'[x].phase \in Phases
          /\ task'[x].ref \in {"none", "current", "detached", "wiped"}
    BY <2>1 DEF TaskOK
  <2>3. \A x \in Writers : writer'[x].phase \in Saving => task'[x].phase = "saving"
    BY <1>6 DEF SavesOK, SaveOK, Saving
  <2>4. CheckpointTypeOK'
    BY <1>1 DEF CheckpointInv
  <2> QED
    BY <1>2, <1>7, <2>2, <2>3, <2>4 DEF ClientTypeOK, PlainOK, Runs, TabsOK, Holds
<1> QED
  BY <1>1, <1>4, <1>5, <1>6, <1>8 DEF ClientInv, TabsOK, HoldsOK

\* The first load admits no head before the checkpoint the replay has to meet.
LEMMA PersistKeeps ==
  ASSUME ClientInv, NEW w \in Writers, Persist(w)
  PROVE  ClientInv'
<1>1. PICK v : v = task[w].replay
  OBVIOUS
<1>2. PICK f : f = [task[w] EXCEPT !.phase = "saving"]
  OBVIOUS
<1>3. /\ task[w].phase = "persist" /\ Becomes(w, f) /\ Elsewhere
      /\ StartPersist(w, HeadOf(v.chain)) \/ RefusePersist(w, HeadOf(v.chain))
  BY <1>1, <1>2 DEF Persist
<1>4. /\ ReplayOK(v, records) /\ v.chain \in Chains /\ Len(v.chain) \in Nat
      /\ HeadOf(v.chain) \in Checkpoints /\ HeadOf(v.chain).seq = Len(v.chain)
      /\ task[w].ref \in {"none", "current", "detached", "wiped"}
      /\ Holds(task[w], vault[w[1]])
  BY <1>1, <1>3, AtAwait, HeadsAreCheckpoints DEF Storing, ReplayOK, TaskOK
<1>5. /\ f.phase = "saving" /\ f.ref = task[w].ref /\ f.replay = v
      /\ DOMAIN f = {"phase", "ref", "replay"}
  <2>1. PICK old : old = task[w]
    OBVIOUS
  <2>2. DOMAIN old = {"phase", "ref"} \cup Fields[old.phase] /\ old.phase = "persist"
    BY <1>3, <2>1, AtAwait DEF TaskOK
  <2>3. DOMAIN old = {"phase", "ref", "replay"}
    BY <2>2 DEF Fields
  <2> QED
    BY <1>1, <1>2, <2>1, <2>3
<1>6. TaskOK(f, records)
  BY <1>4, <1>5 DEF TaskOK, Phases, Fields, Replaying, Storing, Writing
<1>7. TabsOK(w) /\ task'[w] = f
  <2>1. Holds(f, vault[w[1]])
    BY <1>1, <1>3, <1>4, <1>5 DEF Holds, Storing
  <2> QED
    BY <1>3, <1>5, <2>1, BecomesFacts DEF Parked
<1>8. NextCheckpoints /\ UNCHANGED <<records, pointer, accepted>>
  BY <1>3, <1>4 DEF NextCheckpoints, StartPersist, RefusePersist, storage
<1>9. writer = [x \in Writers |-> writer[x]]
  BY DEF ClientInv, CheckpointInv, CheckpointTypeOK
<1>10. CASE StartPersist(w, HeadOf(v.chain))
  <2>1. /\ MayWrite(HeadOf(v.chain))
        /\ writer' = [writer EXCEPT ![w] = [phase |-> "record", head |-> HeadOf(v.chain)]]
    BY <1>10 DEF StartPersist
  <2>2. v.verified /\ OpenedOK(v, records)
    <3>1. v.cp # None => v.cp \in records /\ v.cp.seq \in Nat
      BY <1>4, CheckpointAssumption DEF ReplayOK, Opened
    <3>2. v.cp # None => v.cp.seq < HeadOf(v.chain).seq \/ v.cp = HeadOf(v.chain)
      BY <2>1, <3>1 DEF MayWrite, Stored
    <3>3. ~Refuted(v)
      BY <1>4, <3>1, <3>2 DEF Refuted
    <3>4. OpenedOK(v, records)
      BY <1>4, <3>3 DEF ReplayOK
    <3>5. ASSUME ~v.verified PROVE FALSE
      BY <1>4, <3>1, <3>2, <3>4, <3>5 DEF OpenedOK
    <3> QED
      BY <3>4, <3>5
  <2>3. /\ writer'[w] = [phase |-> "record", head |-> HeadOf(v.chain)]
        /\ \A x \in Writers \ {w} : writer'[x] = writer[x]
    BY <1>9, <2>1
  <2>4. SaveOK(w)'
    BY <1>5, <1>7, <1>8, <2>2, <2>3 DEF SaveOK
  <2> QED
    BY <1>3, <1>6, <1>7, <1>8, <2>3, <2>4, StorageStep DEF Runs, ClientInv, RecordsOK
<1>11. CASE RefusePersist(w, HeadOf(v.chain))
  <2>1. writer' = [writer EXCEPT ![w] = [phase |-> "refused", head |-> None]]
    BY <1>11 DEF RefusePersist
  <2>2. /\ writer'[w].phase = "refused"
        /\ \A x \in Writers \ {w} : writer'[x] = writer[x]
    BY <1>9, <2>1
  <2>3. SaveOK(w)'
    BY <1>5, <1>7, <2>2 DEF SaveOK
  <2> QED
    BY <1>3, <1>6, <1>7, <1>8, <2>2, <2>3, StorageStep DEF Runs, ClientInv, RecordsOK
<1> QED
  BY <1>3, <1>10, <1>11

\* What is known of a function inside its storage calls.
LEMMA AtSaving ==
  ASSUME ClientInv, NEW w \in Writers, task[w].phase = "saving"
  PROVE  /\ SaveOK(w) /\ ReplayOK(task[w].replay, records)
         /\ Holds(task[w], vault[w[1]])
         /\ task[w].replay.chain \in Chains /\ RecordOK(HeadOf(task[w].replay.chain))
         /\ TaskOK(task[w], records)
<1>1. /\ SaveOK(w) /\ TaskOK(task[w], records) /\ ReplayOK(task[w].replay, records)
      /\ Holds(task[w], vault[w[1]])
  BY AtAwait DEF ClientInv, SavesOK, Storing
<1> QED
  BY <1>1, HeadsAreCheckpoints DEF ReplayOK, RecordOK

\* The storage calls save the head of the replay and nothing else.
LEMMA StorageCallKeeps ==
  ASSUME ClientInv, NEW w \in Writers, StorageCall(w)
  PROVE  ClientInv'
<1>1. /\ task[w].phase = "saving" /\ Persisting(w)
      /\ UNCHANGED <<server, used, restores, signIns, vault, busy, task>>
  BY DEF StorageCall, clientVars
<1>2. /\ SaveOK(w) /\ RecordOK(HeadOf(task[w].replay.chain)) /\ TaskOK(task[w], records)
  BY <1>1, AtSaving
<1>3. TabsOK(w) /\ Elsewhere /\ NextCheckpoints /\ Runs(task[w])
  <2>1. TabsOK(w)
    BY <1>1 DEF TabsOK, SameTask, ClientInv, ClientTypeOK, TasksOK, HoldsOK, VaultsOK,
                BusyHasOwner
  <2> QED
    BY <1>1, <2>1 DEF Elsewhere, NextCheckpoints, Runs
<1>4. \A c \in records : RecordOK(c)
  BY DEF ClientInv, RecordsOK
<1>5. writer = [x \in Writers |-> writer[x]]
  BY DEF ClientInv, CheckpointInv, CheckpointTypeOK
<1>6. ASSUME NEW head, NEW phase, phase # "idle",
             writer' = [writer EXCEPT ![w] = [phase |-> phase, head |-> head]],
             phase # "refused" => writer[w].phase # "refused" /\ head = writer[w].head,
             phase = "saved" => head \in accepted',
             records \subseteq records', accepted \subseteq accepted',
             \A c \in records' : RecordOK(c)
      PROVE  ClientInv'
  <2>1. writer'[w] = [phase |-> phase, head |-> head]
    BY <1>5, <1>6
  <2>2. \A x \in Writers \ {w} : writer'[x] = writer[x]
    BY <1>5, <1>6
  <2>3. SaveOK(w)'
    BY <1>1, <1>2, <1>6, <2>1, OpenedKept DEF SaveOK
  <2>4. TaskOK(task'[w], records')
    BY <1>1, <1>2, <1>6, TaskKept
  <2> QED
    BY <1>3, <1>6, <2>2, <2>3, <2>4, StorageStep
<1>7. PICK head : head = writer[w].head
  OBVIOUS
<1>8. ASSUME NEW phase, MoveTo(w, phase)
      PROVE  writer' = [writer EXCEPT ![w] = [phase |-> phase, head |-> head]]
  <2>1. PICK old : old = writer[w] /\ old = [phase |-> old.phase, head |-> head]
    BY <1>7 DEF ClientInv, CheckpointInv, CheckpointTypeOK
  <2>2. [old EXCEPT !.phase = phase] = [phase |-> phase, head |-> head]
    BY <2>1
  <2>3. writer' = [writer EXCEPT ![w] = [writer[w] EXCEPT !.phase = phase]]
    BY <1>8 DEF MoveTo
  <2> QED
    BY <2>1, <2>2, <2>3
<1>9. CASE WriteRecord(w)
  <2>1. /\ writer[w].phase = "record" /\ records' = records \cup {head} /\ UNCHANGED accepted
        /\ MoveTo(w, "recheck")
    BY <1>7, <1>9 DEF WriteRecord
  <2>2. head = HeadOf(task[w].replay.chain)
    BY <1>1, <1>2, <1>7, <2>1 DEF SaveOK
  <2> QED
    BY <1>2, <1>4, <1>6, <1>7, <1>8, <2>1, <2>2
<1>10. CASE Recheck(w)
  <2>1. /\ writer[w].phase = "recheck" /\ UNCHANGED <<records, accepted>>
        /\ MoveTo(w, "pointer")
    BY <1>10 DEF Recheck, storage
  <2> QED
    BY <1>4, <1>6, <1>7, <1>8, <2>1
<1>11. CASE WritePointer(w)
  <2>1. /\ writer[w].phase = "pointer" /\ UNCHANGED records /\ accepted' = accepted \cup {head}
        /\ MoveTo(w, "saved")
    BY <1>7, <1>11 DEF WritePointer
  <2> QED
    BY <1>4, <1>6, <1>7, <1>8, <2>1
<1>12. CASE RecheckRefuses(w) \/ StorageFails(w)
  <2>1. /\ UNCHANGED <<records, accepted>>
        /\ writer' = [writer EXCEPT ![w] = [phase |-> "refused", head |-> None]]
    BY <1>12 DEF RecheckRefuses, StorageFails, storage
  <2>2. PICK phase, hd : phase = "refused" /\ hd = None
    OBVIOUS
  <2>3. /\ phase # "idle" /\ phase = "refused" /\ phase # "saved"
        /\ writer' = [writer EXCEPT ![w] = [phase |-> phase, head |-> hd]]
        /\ records \subseteq records' /\ accepted \subseteq accepted'
        /\ \A c \in records' : RecordOK(c)
    BY <1>4, <2>1, <2>2
  <2> QED
    BY <1>6, <2>3
<1> QED
  BY <1>1, <1>9, <1>10, <1>11, <1>12 DEF Persisting

\* The activation has returned: its function leaves the storage calls.
LEMMA ReturnKeeps ==
  ASSUME ClientInv, NEW w \in Writers, task[w].phase = "saving", Return(w),
         TabsOK(w), task'[w] = NoTask, Elsewhere
  PROVE  ClientInv'
<1>1. /\ writer' = [writer EXCEPT ![w] = [phase |-> "idle", head |-> None]]
      /\ UNCHANGED <<records, pointer, accepted>> /\ NextCheckpoints
  BY DEF Return, storage, NextCheckpoints
<1>2. writer = [x \in Writers |-> writer[x]]
  BY DEF ClientInv, CheckpointInv, CheckpointTypeOK
<1>3. writer'[w].phase = "idle" /\ \A x \in Writers \ {w} : writer'[x] = writer[x]
  BY <1>1, <1>2
<1>4. SaveOK(w)' /\ TaskOK(task'[w], records')
  BY <1>3, NoTaskOK DEF SaveOK
<1>5. Runs(task[w]) /\ \A c \in records' : RecordOK(c)
  BY <1>1 DEF Runs, ClientInv, RecordsOK
<1> QED
  BY <1>1, <1>3, <1>4, <1>5, StorageStep

\* What is committed was saved and has met its checkpoint.
LEMMA CommitReplayKeeps ==
  ASSUME ClientInv, NEW w \in Writers, CommitReplay(w)
  PROVE  ClientInv'
<1>1. PICK v : v = task[w].replay
  OBVIOUS
<1>2. /\ task[w].phase = "saving" /\ writer[w].phase = "saved" /\ Return(w) /\ Elsewhere
      /\ task' = [task EXCEPT ![w] = NoTask]
      /\ busy' = [busy EXCEPT ![w[1]] = FALSE]
      /\ vault' = IF task[w].ref = "current" THEN [vault EXCEPT ![w[1]] = v] ELSE vault
  BY <1>1 DEF CommitReplay
<1>3. VaultOK(v, records, accepted) /\ v \in Opened /\ v # None
  <2>1. OpenedOK(v, records) /\ v.verified /\ HeadOf(v.chain) \in accepted
    BY <1>1, <1>2, AtSaving DEF SaveOK
  <2> QED
    BY <2>1, ClientFacts DEF VaultOK, OpenedOK
<1>4. /\ busy \in [Tabs -> BOOLEAN] /\ vault \in [Tabs -> Opened \cup {None}]
      /\ w[1] \in Tabs /\ task = [x \in Writers |-> task[x]]
  BY ClientFacts DEF ClientInv, ClientTypeOK, TasksOK
<1>5. /\ vault' \in [Tabs -> Opened \cup {None}] /\ busy' \in [Tabs -> BOOLEAN]
      /\ \A t \in Tabs : vault'[t] = vault[t] \/ vault'[t] = v
      /\ ~busy'[w[1]] /\ \A t \in Tabs : t # w[1] => busy'[t] = busy[t]
  BY <1>2, <1>3, <1>4
<1>6. /\ task' = [x \in Writers |-> task'[x]] /\ task'[w] = NoTask
      /\ \A x \in Writers \ {w} : task'[x] = task[x]
  BY <1>2, <1>4
<1>7. \A t \in Tabs : vault'[t] # None => VaultOK(vault'[t], records, accepted)
  BY <1>3, <1>5 DEF ClientInv, VaultsOK
<1>8. ASSUME NEW x \in Writers PROVE Holds(task'[x], vault'[x[1]])
  <2> SUFFICES ASSUME task'[x].ref = "current" PROVE Holds(task'[x], vault'[x[1]])
    BY DEF Holds
  <2>1. x # w /\ task'[x] = task[x] /\ x[1] \in Tabs
    BY <1>6, NoTaskOK, ClientFacts
  <2>2. Holds(task[x], vault[x[1]])
    BY DEF ClientInv, HoldsOK
  <2>3. CASE vault'[x[1]] = vault[x[1]]
    BY <2>1, <2>2, <2>3
  <2>4. CASE vault'[x[1]] # vault[x[1]]
    <3>1. x[1] = w[1] /\ task[w].ref = "current" /\ vault'[x[1]] = v
      BY <1>2, <1>4, <2>1, <2>4
    <3>2. v.cp = vault[w[1]].cp
      BY <1>1, <1>2, <3>1, AtSaving DEF Holds, Storing
    <3> QED
      BY <1>3, <2>1, <2>2, <3>1, <3>2 DEF Holds
  <2> QED
    BY <2>3, <2>4
<1>9. BusyHasOwner'
  <2> SUFFICES ASSUME NEW t \in Tabs, busy[t], t # w[1]
               PROVE  \E s \in Slots : task'[<<t, s>>].phase \notin Parked
    BY <1>5 DEF BusyHasOwner, Parked
  <2>1. PICK s \in Slots : task[<<t, s>>].phase \notin Parked
    BY DEF ClientInv, BusyHasOwner, Parked
  <2>2. <<t, s>> \in Writers /\ <<t, s>> # w
    BY ClientFacts
  <2> QED
    BY <1>6, <2>1, <2>2
<1>10. TabsOK(w)
  BY <1>5, <1>6, <1>7, <1>8, <1>9 DEF TabsOK, SameTask
<1> QED
  BY <1>2, <1>6, <1>10, ReturnKeeps

\* A checkpoint that cannot be saved locks the tab.
LEMMA PersistRefusedKeeps ==
  ASSUME ClientInv, NEW w \in Writers, PersistRefused(w)
  PROVE  ClientInv'
<1>1. task[w].phase = "saving" /\ EndLocked(w) /\ Return(w) /\ Elsewhere
  BY DEF PersistRefused
<1>2. TabsOK(w) /\ task'[w] = NoTask
  BY <1>1, LockFacts, NoTaskOK DEF EndLocked
<1> QED
  BY <1>1, <1>2, ReturnKeeps

-----------------------------------------------------------------------------
(***************************************************************************)
(* The user, other devices, the operator.                                  *)
(***************************************************************************)

\* A lock without a function of the tab going on.
LEMMA LockTabKeeps ==
  ASSUME ClientInv, NEW t \in Tabs, LockTab(t)
  PROVE  ClientInv'
<1>1. /\ TasksOf(t, None, NoTask, Wiped) /\ Locally
      /\ vault' = [vault EXCEPT ![t] = None]
      /\ busy' = [busy EXCEPT ![t] = FALSE]
  BY DEF LockTab
<1>2. busy \in [Tabs -> BOOLEAN] /\ vault \in [Tabs -> Opened \cup {None}]
  BY DEF ClientInv, ClientTypeOK
<1>3. task' = [x \in Writers |->
                 IF x = None THEN NoTask
                 ELSE IF x[1] = t THEN Wiped(task[x]) ELSE task[x]]
  BY <1>1 DEF TasksOf
<1>4. /\ task' = [x \in Writers |-> task'[x]]
      /\ \A x \in Writers : x[1] = t => task'[x] = Wiped(task[x])
      /\ \A x \in Writers : x[1] # t => task'[x] = task[x]
  BY <1>3, ClientFacts
<1>5. /\ vault' \in [Tabs -> Opened \cup {None}] /\ vault'[t] = None
      /\ \A u \in Tabs : u # t => vault'[u] = vault[u] /\ busy'[u] = busy[u]
      /\ busy' \in [Tabs -> BOOLEAN] /\ ~busy'[t]
  BY <1>1, <1>2
<1>6. \A x \in Writers : SameTask(x)
  BY <1>4 DEF SameTask, Wiped
<1>7. ASSUME NEW x \in Writers PROVE Holds(task'[x], vault'[x[1]])
  <2> SUFFICES ASSUME task'[x].ref = "current" PROVE Holds(task'[x], vault'[x[1]])
    BY DEF Holds
  <2>1. task'[x] = task[x]
    BY <1>6, SameTaskKept
  <2>2. task[x].ref = "current" /\ Holds(task[x], vault[x[1]]) /\ x[1] \in Tabs
    BY <2>1, ClientFacts DEF ClientInv, HoldsOK
  <2>3. x[1] # t
    <3> SUFFICES ASSUME x[1] = t PROVE FALSE
      OBVIOUS
    <3>1. task'[x] = [task[x] EXCEPT !.ref = "wiped"]
      BY <1>4, <2>2 DEF Wiped
    <3>2. TaskOK(task[x], records)
      BY DEF ClientInv, TasksOK
    <3>3. PICK e, g : e = task[x] /\ g = task'[x]
      OBVIOUS
    <3>4. g.ref = "wiped"
      BY <3>1, <3>2, <3>3, RefChanged
    <3> QED
      BY <2>1, <2>2, <3>3, <3>4
  <2> QED
    BY <1>5, <2>1, <2>2, <2>3
<1>8. BusyHasOwner'
  <2> SUFFICES ASSUME NEW u \in Tabs, busy[u], u # t
               PROVE  \E s \in Slots : task'[<<u, s>>].phase \notin Parked
    BY <1>5 DEF BusyHasOwner, Parked
  <2>1. PICK s \in Slots : task[<<u, s>>].phase \notin Parked
    BY DEF ClientInv, BusyHasOwner, Parked
  <2>2. <<u, s>> \in Writers /\ <<u, s>>[1] # t
    BY ClientFacts
  <2> QED
    BY <1>4, <2>1, <2>2
<1>9. \A u \in Tabs : vault'[u] # None => VaultOK(vault'[u], records, accepted)
  BY <1>5 DEF ClientInv, VaultsOK
<1>10. UNCHANGED checkpointVars /\ PlainOK'
  BY <1>1 DEF Locally, Elsewhere, PlainOK, ClientInv, ClientTypeOK
<1>11. PICK W \in SUBSET Writers : W = {}
  OBVIOUS
<1> QED
  BY <1>4, <1>5, <1>6, <1>7, <1>8, <1>9, <1>10, <1>11, LocalStep

\* A step of the server's alone, or none.
LEMMA ServerAlone ==
  ASSUME ClientInv, PlainOK', UNCHANGED checkpointVars, UNCHANGED <<vault, busy, task>>
  PROVE  ClientInv'
<1>1. PICK W \in SUBSET Writers : W = {}
  OBVIOUS
<1>2. task' = task /\ vault' = vault /\ busy' = busy
  OBVIOUS
<1>3. /\ task' = [x \in Writers |-> task'[x]] /\ \A x \in Writers : SameTask(x)
      /\ vault' \in [Tabs -> Opened \cup {None}] /\ busy' \in [Tabs -> BOOLEAN]
      /\ \A t \in Tabs : vault'[t] # None => VaultOK(vault'[t], records, accepted)
      /\ \A x \in Writers : Holds(task'[x], vault'[x[1]])
      /\ BusyHasOwner'
  BY <1>2 DEF ClientInv, ClientTypeOK, TasksOK, HoldsOK, VaultsOK, BusyHasOwner, SameTask
<1> QED
  BY <1>1, <1>3, LocalStep

\* Another device's change does not reach the tabs before they fetch it.
LEMMA OtherDeviceWritesKeeps ==
  ASSUME ClientInv, OtherDeviceWrites
  PROVE  ClientInv'
<1>1. PICK r \in Revs \ used :
        used' = used \cup {r} /\ server' = Append(server, [rev |-> r, key |-> "vault"])
  BY DEF OtherDeviceWrites
<1>2. /\ Len(server) < MaxChain /\ UNCHANGED checkpointVars
      /\ UNCHANGED <<restores, signIns, vault, busy, task>>
  BY DEF OtherDeviceWrites
<1>3. PICK e \in Change : e = [rev |-> r, key |-> "vault"]
  BY DEF Change, Keys
<1>4. server \in Seq(Change) /\ Len(server) \in Nat /\ MaxChain \in Nat
  BY ClientFacts DEF ClientInv, ClientTypeOK
<1>5. server' \in Seq(Change) /\ Len(server') = Len(server) + 1
  BY <1>1, <1>3, <1>4, AppendProperties
<1>6. PlainOK'
  BY <1>1, <1>2, <1>4, <1>5 DEF PlainOK, ClientInv, ClientTypeOK
<1> QED
  BY <1>2, <1>6, ServerAlone

\* Nor does a restore.
LEMMA RestoreKeeps ==
  ASSUME ClientInv, Restore
  PROVE  ClientInv'
<1>1. PICK n \in 0..(Len(server) - 1) : server' = SubSeq(server, 1, n)
  BY DEF Restore
<1>2. /\ restores < MaxRestores /\ restores' = restores + 1 /\ UNCHANGED checkpointVars
      /\ UNCHANGED <<used, signIns, vault, busy, task>>
  BY DEF Restore
<1>3. /\ server \in Seq(Change) /\ Len(server) \in Nat /\ Len(server) <= MaxChain
      /\ MaxChain \in Nat /\ MaxRestores \in Nat
  BY ClientFacts DEF ClientInv, ClientTypeOK
<1>4. \A i \in 1..n : i \in 1..Len(server)
  BY <1>3
<1>5. server' \in Seq(Change) /\ Len(server') = n
  BY <1>1, <1>3, <1>4, SubSeqProperties
<1>6. PlainOK'
  BY <1>2, <1>3, <1>5 DEF PlainOK, ClientInv, ClientTypeOK
<1> QED
  BY <1>2, <1>6, ServerAlone

-----------------------------------------------------------------------------
(***************************************************************************)
(* The theorems.                                                           *)
(***************************************************************************)

\* A browser that has just been opened.
LEMMA ClientInit == InitClient => ClientInv
<1> SUFFICES ASSUME InitClient PROVE ClientInv
  OBVIOUS
<1>1. /\ InitCheckpoints /\ server = <<>> /\ used = {} /\ restores = 0 /\ signIns = 0
      /\ vault = [t \in Tabs |-> None] /\ busy = [t \in Tabs |-> FALSE]
      /\ task = [w \in Writers |-> NoTask]
  BY DEF InitClient
<1>2. CheckpointInv /\ CheckpointTypeOK
  BY <1>1, CheckpointInit DEF CheckpointInv
<1>3. /\ records = {} /\ accepted = {}
      /\ \A w \in Writers : writer[w].phase = "idle" /\ task[w] = NoTask
  BY <1>1 DEF InitCheckpoints
<1>4. \A w \in Writers : TaskOK(task[w], records) /\ task[w].phase = "idle" /\ task[w].ref = "none"
  BY <1>3, NoTaskOK
<1>5. RecordsOK /\ TasksOK /\ HoldsOK /\ SavesOK /\ VaultsOK /\ BusyHasOwner
  BY <1>1, <1>3, <1>4 DEF RecordsOK, TasksOK, HoldsOK, Holds, SavesOK, SaveOK, VaultsOK,
                          BusyHasOwner
<1>6. /\ server \in Seq(Change) /\ Len(server) = 0
      /\ MaxChain \in Nat /\ MaxRestores \in Nat /\ MaxSignIns \in Nat
  BY <1>1, ClientFacts
<1>7. \A t \in Tabs, s \in Slots : task[<<t, s>>].phase = "idle"
  BY <1>4, ClientFacts
<1>8. ClientTypeOK
  <2>1. \A w \in Writers :
          /\ task[w].phase \in Phases /\ task[w].ref \in {"none", "current", "detached", "wiped"}
          /\ task[w].ref = "current" => vault[w[1]] # None
          /\ writer[w].phase \in Saving => task[w].phase = "saving"
    BY <1>3, <1>4 DEF Phases, Saving
  <2> QED
    BY <1>1, <1>2, <1>6, <1>7, <2>1 DEF ClientTypeOK
<1> QED
  BY <1>2, <1>5, <1>8 DEF ClientInv

\* Buttons.
LEMMA StartsKeeps ==
  ASSUME ClientInv, NEW w \in Writers, Starts(w)
  PROVE  ClientInv'
BY SignInKeeps, SyncButtonKeeps, StartWriteKeeps DEF Starts, SaveButton, DeleteButton

\* Everything a function does at and between its awaits.
LEMMA ResumeKeeps ==
  ASSUME ClientInv, NEW w \in Writers, Resume(w)
  PROVE  ClientInv'
<1>1. CASE ListVaults(w) \/ ListFails(w) \/ OpenVault(w)
  BY <1>1, ListVaultsKeeps, OpenVaultKeeps
<1>2. CASE FetchPage(w) \/ FetchFails(w) \/ ApplyChange(w) \/ RejectChange(w)
  BY <1>2, FetchPageKeeps, FetchFailsKeeps, ApplyChangeKeeps, RejectChangeKeeps
<1>3. CASE NextPage(w) \/ LastPage(w)
  BY <1>3, NextPageKeeps, LastPageKeeps
<1>4. CASE ComputeMac(w) \/ ComputeHeadHash(w) \/ FetchCsrf(w)
  BY <1>4, ComputeMacKeeps, ComputeHeadHashKeeps, FetchCsrfKeeps
<1>5. CASE PostChange(w) \/ WriteFails(w) \/ ApplyOwnChange(w) \/ VerifyOwnChange(w)
  BY <1>5, PostChangeKeeps, WriteFailsKeeps, ApplyOwnChangeKeeps, VerifyOwnChangeKeeps
<1>6. CASE Persist(w) \/ StorageCall(w) \/ CommitReplay(w) \/ PersistRefused(w)
  BY <1>6, PersistKeeps, StorageCallKeeps, CommitReplayKeeps, PersistRefusedKeeps
<1> QED
  BY <1>1, <1>2, <1>3, <1>4, <1>5, <1>6 DEF Resume

\* Every step of the browser, the server and the operator.
LEMMA ClientStep == ClientInv /\ [NextClient]_allVars => ClientInv'
<1> SUFFICES ASSUME ClientInv, [NextClient]_allVars PROVE ClientInv'
  OBVIOUS
<1>1. ASSUME NEW w \in Writers, Starts(w) \/ Resume(w) PROVE ClientInv'
  BY <1>1, StartsKeeps, ResumeKeeps
<1>2. ASSUME NEW t \in Tabs, LockButton(t) \/ SwitchMode(t) PROVE ClientInv'
  BY <1>2, LockTabKeeps DEF LockButton, SwitchMode
<1>3. CASE OtherDeviceWrites
  BY <1>3, OtherDeviceWritesKeeps
<1>4. CASE Restore
  BY <1>4, RestoreKeeps
<1>5. CASE UNCHANGED allVars
  <2>1. /\ UNCHANGED checkpointVars
        /\ UNCHANGED <<server, used, restores, signIns, vault, busy, task>>
    BY <1>5 DEF allVars, clientVars
  <2>2. PlainOK'
    BY <2>1 DEF PlainOK, ClientInv, ClientTypeOK
  <2> QED
    BY <2>1, <2>2, ServerAlone
<1> QED
  BY <1>1, <1>2, <1>3, <1>4, <1>5 DEF NextClient

\* The invariant holds throughout.
LEMMA ClientInvariance == SpecClient => []ClientInv
BY ClientInit, ClientStep, PTL DEF SpecClient

(* Tabs, functions and the server's chain keep their shape, and of a tab's
   functions at most one is inside its storage calls: persistVaultCheckpoint
   and commitVaultReplay have no await.                                     *)
THEOREM ClientTypeCorrect == SpecClient => []ClientTypeOK
<1>1. ClientInv => ClientTypeOK
  BY DEF ClientInv
<1> QED
  BY <1>1, ClientInvariance, PTL

(* Whatever locks, unlocks, syncs and saves interleave, no tab shows and no
   checkpoint covers a change that was not verified with the vault's key.   *)
THEOREM TrustSafe == SpecClient => []TrustsOnlyAuthentic
<1>1. ClientInv => TrustsOnlyAuthentic
  BY DEF ClientInv, RecordsOK, RecordOK, VaultsOK, VaultOK, OpenedOK, TrustsOnlyAuthentic
<1> QED
  BY <1>1, ClientInvariance, PTL

(* What commitVaultReplay shows, persistVaultCheckpoint has saved before, in
   every tab and however its storage calls interleave with other tabs'.     *)
THEOREM OpenSafe == SpecClient => []OpenIsCheckpointed
<1>1. ClientInv => OpenIsCheckpointed
  BY DEF ClientInv, VaultsOK, VaultOK, OpenIsCheckpointed
<1> QED
  BY <1>1, ClientInvariance, PTL

(* An open vault passes through the checkpoint it was unlocked with, for
   every length of the chain, of a page and of a restored chain.            *)
THEOREM CheckpointMet == SpecClient => []MeetsOwnCheckpoint
<1>1. ClientInv => MeetsOwnCheckpoint
  BY DEF ClientInv, VaultsOK, VaultOK, OpenedOK, MeetsOwnCheckpoint
<1> QED
  BY <1>1, ClientInvariance, PTL

(* Disabled controls have a function under way that enables them again:
   no interleaving leaves setVaultBusy set with nothing to reset it.        *)
THEOREM ControlsReturn == SpecClient => []BusyHasOwner
<1>1. ClientInv => BusyHasOwner
  BY DEF ClientInv
<1> QED
  BY <1>1, ClientInvariance, PTL

\* What a step of the tabs does to the checkpoint storage.
LEMMA ClientStorageStep ==
  ClientInv /\ [NextClient]_allVars => [NextCheckpoints]_checkpointVars
<1> SUFFICES ASSUME ClientInv, [NextClient]_allVars
             PROVE  NextCheckpoints \/ UNCHANGED checkpointVars
  OBVIOUS
<1>1. ASSUME NEW w \in Writers, Resume(w)
      PROVE  NextCheckpoints \/ UNCHANGED checkpointVars
  <2>1. CASE Persist(w)
    <3>1. PICK c : c = HeadOf(task[w].replay.chain)
      OBVIOUS
    <3>2. task[w].phase = "persist" /\ (StartPersist(w, c) \/ RefusePersist(w, c))
      BY <2>1, <3>1 DEF Persist
    <3>3. c \in Checkpoints
      BY <3>1, <3>2, AtAwait, HeadsAreCheckpoints DEF Storing, ReplayOK
    <3> QED
      BY <3>2, <3>3 DEF NextCheckpoints
  <2>2. CASE StorageCall(w)
    BY <2>2 DEF StorageCall, NextCheckpoints
  <2>3. CASE CommitReplay(w) \/ PersistRefused(w)
    BY <2>3 DEF CommitReplay, PersistRefused, NextCheckpoints
  <2>4. CASE ListVaults(w) \/ ListFails(w) \/ OpenVault(w)
    BY <2>4 DEF ListVaults, ListFails, OpenVault, Locally
  <2>5. CASE FetchPage(w) \/ FetchFails(w) \/ ApplyChange(w) \/ RejectChange(w)
    BY <2>5 DEF FetchPage, FetchFails, ApplyChange, RejectChange, Locally
  <2>6. CASE NextPage(w) \/ LastPage(w) \/ ComputeMac(w) \/ ComputeHeadHash(w)
    BY <2>6 DEF NextPage, LastPage, ComputeMac, ComputeHeadHash, Locally
  <2>7. CASE FetchCsrf(w) \/ PostChange(w) \/ WriteFails(w)
    BY <2>7 DEF FetchCsrf, PostChange, WriteFails, Locally, checkpointVars
  <2>8. CASE ApplyOwnChange(w) \/ VerifyOwnChange(w)
    BY <2>8 DEF ApplyOwnChange, VerifyOwnChange, Locally
  <2> QED
    BY <1>1, <2>1, <2>2, <2>3, <2>4, <2>5, <2>6, <2>7, <2>8 DEF Resume
<1>2. ASSUME NEW w \in Writers, Starts(w) PROVE UNCHANGED checkpointVars
  <2>1. CASE SignIn(w)
    BY <2>1 DEF SignIn
  <2>2. CASE SyncButton(w)
    BY <2>2 DEF SyncButton, Locally
  <2>3. CASE SaveButton(w) \/ DeleteButton(w)
    BY <2>3 DEF SaveButton, DeleteButton, StartWrite
  <2> QED
    BY <1>2, <2>1, <2>2, <2>3 DEF Starts
<1>3. ASSUME NEW t \in Tabs, LockButton(t) \/ SwitchMode(t) PROVE UNCHANGED checkpointVars
  BY <1>3 DEF LockButton, SwitchMode, LockTab, Locally
<1>4. CASE OtherDeviceWrites \/ Restore
  BY <1>4 DEF OtherDeviceWrites, Restore
<1>5. CASE UNCHANGED allVars
  BY <1>5 DEF allVars
<1> QED
  BY <1>1, <1>2, <1>3, <1>4, <1>5 DEF NextClient

(* The tabs use the checkpoint storage as CheckpointStore says: they save only
   checkpoints, each function is at one storage call at a time, and whatever
   is proved of CheckpointStore holds in the browser.                       *)
THEOREM ClientUsesStore == SpecClient => SpecCheckpoints
<1>1. InitClient => InitCheckpoints
  BY DEF InitClient
<1> QED
  BY <1>1, ClientInvariance, ClientStorageStep, PTL DEF SpecClient, SpecCheckpoints

(* So two tabs never both save rival heads of one number, and no save that
   persistVaultCheckpoint returned for is forgotten, while tabs sign in,
   lock, sync and write.                                                    *)
THEOREM ClientKeepsSaves == SpecClient => [](NoForkAccepted /\ AcceptedIsRemembered)
BY ClientUsesStore, NoForkSafe, RememberedSafe, PTL

(* No step of any tab lets a load of the checkpoint return an older head,
   while tabs sign in, lock, sync and write.                                *)
THEOREM ClientLoadsAdvance == SpecClient => LoadNeverRegresses
  BY ClientUsesStore, LoadsAdvance

-----------------------------------------------------------------------------
(***************************************************************************)
(* A tab never goes back.                                                  *)
(*                                                                         *)
(* A function that is past its second load is at least as far as what its  *)
(* tab shows: that was saved before, so the second load has seen it, and   *)
(* no other function of the tab runs until the replay is committed.        *)
(***************************************************************************)
Ahead(w) ==
  task[w].phase = "saving" /\ task[w].ref = "current" /\ writer[w].phase \in {"pointer", "saved"}
    => Len(vault[w[1]].chain) <= Len(task[w].replay.chain)

AllAhead == \A w \in Writers : Ahead(w)

(* What an open vault shows next is at least as long as what it shows, unless
   it is closed or opened anew.                                             *)
ShownAdvances ==
  [][ \A t \in Tabs :
        vault[t] # None /\ vault'[t] # None /\ vault'[t].chain # <<>> =>
          Len(vault[t].chain) <= Len(vault'[t].chain) ]_allVars

\* A step of tab t leaves the other tabs alone.
TabAlone(t) ==
  /\ \A x \in Writers : x[1] # t => task'[x] = task[x]
  /\ \A u \in Tabs \ {t} : vault'[u] = vault[u]

LEMMA FunctionAlone ==
  ASSUME ClientInv, NEW w \in Writers, NEW f,
         Becomes(w, f) \/ End(w) \/ Lock(w, f)
           \/ (vault' = vault /\ task' = [task EXCEPT ![w] = f])
  PROVE  TabAlone(w[1])
<1>1. /\ task = [x \in Writers |-> task[x]] /\ vault \in [Tabs -> Opened \cup {None}]
  BY DEF ClientInv, TasksOK, ClientTypeOK
<1>2. CASE Lock(w, f)
  BY <1>1, <1>2 DEF Lock, TasksOf, TabAlone
<1>3. CASE \E g : vault' = vault /\ task' = [task EXCEPT ![w] = g]
  BY <1>1, <1>3 DEF TabAlone
<1> QED
  BY <1>2, <1>3 DEF Becomes, End

\* Every step of a function but those from its storage calls on.
Awaits(w) ==
  \/ Starts(w)
  \/ ListVaults(w) \/ ListFails(w) \/ OpenVault(w)
  \/ FetchPage(w) \/ FetchFails(w)
  \/ ApplyChange(w) \/ RejectChange(w) \/ NextPage(w) \/ LastPage(w)
  \/ ComputeMac(w) \/ ComputeHeadHash(w) \/ FetchCsrf(w)
  \/ PostChange(w) \/ WriteFails(w)
  \/ ApplyOwnChange(w) \/ VerifyOwnChange(w)

LEMMA AwaitsAlone ==
  ASSUME ClientInv, NEW w \in Writers, Awaits(w)
  PROVE  TabAlone(w[1]) /\ ~Running(w[1]) /\ UNCHANGED checkpointVars
<1>1. ClientInv /\ w \in Writers
  OBVIOUS
<1>2. CASE SignIn(w)
  <2>1. Lock(w, [phase |-> "list", ref |-> "none"]) /\ ~Running(w[1]) /\ UNCHANGED checkpointVars
    BY <1>2 DEF SignIn, Resumes
  <2> QED
    BY <2>1, FunctionAlone
<1>3. CASE SyncButton(w) \/ SaveButton(w) \/ DeleteButton(w)
  <2>1. /\ vault' = vault /\ \E f : task' = [task EXCEPT ![w] = f]
        /\ ~Running(w[1]) /\ UNCHANGED checkpointVars
    BY <1>3 DEF SyncButton, SaveButton, DeleteButton, StartWrite, Resumes, Locally
  <2> QED
    BY <2>1, FunctionAlone
<1>4. CASE ListVaults(w) \/ ListFails(w)
  <2>1. (\E f : Becomes(w, f)) /\ ~Running(w[1]) /\ UNCHANGED checkpointVars
    BY <1>4 DEF ListVaults, ListFails, Resumes, Locally
  <2> QED
    BY <2>1, FunctionAlone
<1>5. CASE OpenVault(w)
  <2>1. PICK f, opened : /\ TasksOf(w[1], w, f, Detached) /\ ~Running(w[1])
                         /\ UNCHANGED checkpointVars
                         /\ vault' = [vault EXCEPT ![w[1]] = opened]
    BY <1>5 DEF OpenVault, Resumes, Locally
  <2>2. vault \in [Tabs -> Opened \cup {None}]
    BY DEF ClientInv, ClientTypeOK
  <2> QED
    BY <2>1, <2>2 DEF TasksOf, TabAlone
<1>6. CASE FetchPage(w) \/ ApplyChange(w) \/ NextPage(w)
  <2>1. (\E f : Becomes(w, f)) /\ ~Running(w[1]) /\ UNCHANGED checkpointVars
    BY <1>6 DEF FetchPage, ApplyChange, NextPage, Resumes, Locally
  <2> QED
    BY <2>1, FunctionAlone
<1>7. CASE FetchFails(w) \/ RejectChange(w) \/ LastPage(w)
  <2>1. ((\E f : Becomes(w, f)) \/ End(w) \/ Lock(w, NoTask))
        /\ ~Running(w[1]) /\ UNCHANGED checkpointVars
    BY <1>7 DEF FetchFails, RejectChange, LastPage, Resumes, Locally, EndLocked
  <2> QED
    BY <2>1, FunctionAlone
<1>8. CASE ComputeMac(w) \/ ComputeHeadHash(w) \/ FetchCsrf(w)
  <2>1. (\E f : Becomes(w, f)) /\ ~Running(w[1]) /\ UNCHANGED checkpointVars
    BY <1>8 DEF ComputeMac, ComputeHeadHash, FetchCsrf, Resumes, Locally
  <2> QED
    BY <2>1, FunctionAlone
<1>9. CASE PostChange(w) \/ WriteFails(w)
  <2>1. ((\E f : Becomes(w, f)) \/ End(w)) /\ ~Running(w[1]) /\ UNCHANGED checkpointVars
    BY <1>9 DEF PostChange, WriteFails, Resumes, Locally
  <2> QED
    BY <2>1, FunctionAlone
<1>10. CASE ApplyOwnChange(w) \/ VerifyOwnChange(w)
  <2>1. ((\E f : Becomes(w, f)) \/ End(w) \/ Lock(w, NoTask))
        /\ ~Running(w[1]) /\ UNCHANGED checkpointVars
    BY <1>10 DEF ApplyOwnChange, VerifyOwnChange, Resumes, Locally, EndLocked
  <2> QED
    BY <2>1, FunctionAlone
<1> QED
  BY <1>2, <1>3, <1>4, <1>5, <1>6, <1>7, <1>8, <1>9, <1>10 DEF Awaits, Starts

(* While a function is inside its storage calls its tab stands still: only a
   step of its own moves it on, and what others do leaves its values, what
   its tab shows and its activation alone. *)
LEMMA SavingStands ==
  ASSUME ClientInv, NextClient, NEW x \in Writers, task[x].phase = "saving",
         ~StorageCall(x), ~CommitReplay(x), ~PersistRefused(x)
  PROVE  task'[x] = task[x] /\ vault'[x[1]] = vault[x[1]] /\ writer'[x] = writer[x]
<1>1. x[1] \in Tabs /\ Running(x[1])
  <2>1. PICK t \in Tabs, s \in Slots : x = <<t, s>>
    BY ClientFacts
  <2> QED
    BY <2>1 DEF Running
<1>2. /\ task = [y \in Writers |-> task[y]] /\ vault \in [Tabs -> Opened \cup {None}]
      /\ writer = [y \in Writers |-> writer[y]]
  BY DEF ClientInv, TasksOK, ClientTypeOK, CheckpointTypeOK
<1>3. ASSUME NEW w \in Writers, Runs(task[w]), w # x PROVE w[1] # x[1]
  <2>1. PICK t \in Tabs, s \in Slots, u \in Tabs, r \in Slots : x = <<t, s>> /\ w = <<u, r>>
    BY ClientFacts
  <2> QED
    BY <1>3, <2>1 DEF ClientInv, ClientTypeOK, Runs
<1>4. ASSUME NEW w \in Writers, w[1] # x[1], TabAlone(w[1]), writer'[x] = writer[x]
      PROVE  task'[x] = task[x] /\ vault'[x[1]] = vault[x[1]] /\ writer'[x] = writer[x]
  BY <1>1, <1>4 DEF TabAlone
<1>5. ASSUME NEW w \in Writers, Awaits(w)
      PROVE  task'[x] = task[x] /\ vault'[x[1]] = vault[x[1]] /\ writer'[x] = writer[x]
  <2>1. TabAlone(w[1]) /\ ~Running(w[1]) /\ UNCHANGED checkpointVars
    BY <1>5, AwaitsAlone
  <2>2. w[1] # x[1] /\ writer'[x] = writer[x]
    BY <1>1, <2>1 DEF checkpointVars
  <2> QED
    BY <1>4, <2>1, <2>2
<1>6. ASSUME NEW w \in Writers, Persist(w)
      PROVE  task'[x] = task[x] /\ vault'[x[1]] = vault[x[1]] /\ writer'[x] = writer[x]
  <2>1. w # x /\ Runs(task[w]) /\ \E f : Becomes(w, f)
    BY <1>6 DEF Persist, Runs
  <2>2. writer'[x] = writer[x]
    BY <1>2, <1>6, <2>1 DEF Persist, StartPersist, RefusePersist
  <2> QED
    BY <1>3, <1>4, <2>1, <2>2, FunctionAlone
<1>7. ASSUME NEW w \in Writers, StorageCall(w)
      PROVE  task'[x] = task[x] /\ vault'[x[1]] = vault[x[1]] /\ writer'[x] = writer[x]
  <2>1. w # x /\ UNCHANGED <<task, vault>>
    BY <1>7 DEF StorageCall, clientVars
  <2> QED
    BY <1>2, <1>7, <2>1 DEF StorageCall, Persisting, WriteRecord, Recheck, RecheckRefuses,
                            WritePointer, StorageFails, MoveTo
<1>8. ASSUME NEW w \in Writers, CommitReplay(w) \/ PersistRefused(w)
      PROVE  task'[x] = task[x] /\ vault'[x[1]] = vault[x[1]] /\ writer'[x] = writer[x]
  <2>1. w # x /\ Runs(task[w]) /\ Return(w)
    BY <1>8 DEF CommitReplay, PersistRefused, Runs
  <2>2. w[1] # x[1] /\ writer'[x] = writer[x]
    BY <1>2, <1>3, <2>1 DEF Return
  <2>3. CASE CommitReplay(w)
    BY <1>1, <1>2, <2>1, <2>2, <2>3 DEF CommitReplay
  <2>4. CASE PersistRefused(w)
    BY <1>4, <2>2, <2>4, FunctionAlone DEF PersistRefused, EndLocked
  <2> QED
    BY <1>8, <2>3, <2>4
<1>9. ASSUME NEW t \in Tabs, LockButton(t) \/ SwitchMode(t)
      PROVE  task'[x] = task[x] /\ vault'[x[1]] = vault[x[1]] /\ writer'[x] = writer[x]
  <2>1. /\ LockTab(t) /\ t # x[1]
    BY <1>1, <1>9 DEF LockButton, SwitchMode
  <2>2. TasksOf(t, None, NoTask, Wiped) /\ vault' = [vault EXCEPT ![t] = None] /\ writer' = writer
    BY <2>1 DEF LockTab, Locally, checkpointVars
  <2> QED
    BY <1>1, <1>2, <2>1, <2>2, ClientFacts DEF TasksOf
<1>10. CASE OtherDeviceWrites \/ Restore
  BY <1>10 DEF OtherDeviceWrites, Restore, checkpointVars
<1>11. \A w \in Writers : Starts(w) \/ Resume(w) =>
         Awaits(w) \/ Persist(w) \/ StorageCall(w) \/ CommitReplay(w) \/ PersistRefused(w)
  BY DEF Awaits, Resume
<1> QED
  BY <1>5, <1>6, <1>7, <1>8, <1>9, <1>10, <1>11 DEF NextClient

\* The second load has seen what the tab shows.
LEMMA RecheckAhead ==
  ASSUME ClientInv, NEW x \in Writers, StorageCall(x), Recheck(x),
         task[x].ref = "current"
  PROVE  Len(vault[x[1]].chain) <= Len(task[x].replay.chain)
<1>1. PICK v, c : v = vault[x[1]] /\ c = task[x].replay.chain
  OBVIOUS
<1>2. task[x].phase = "saving" /\ writer[x].phase = "recheck"
  BY DEF StorageCall, Recheck
<1>3. x[1] \in Tabs /\ v # None
  BY <1>1, ClientFacts DEF ClientInv, ClientTypeOK
<1>4. VaultOK(v, records, accepted) /\ v.chain \in Chains /\ c \in Chains
  BY <1>1, <1>2, <1>3, AtSaving DEF ClientInv, VaultsOK, VaultOK, OpenedOK
<1>5. /\ HeadOf(c).seq = Len(c) /\ Len(c) \in Nat
      /\ HeadOf(v.chain).seq = Len(v.chain) /\ Len(v.chain) \in Nat
  BY <1>4, HeadsAreCheckpoints
<1>6. CASE v.chain = <<>>
  BY <1>1, <1>5, <1>6
<1>7. CASE v.chain # <<>>
  <2>1. HeadOf(v.chain) \in Stored
    BY <1>4, <1>7 DEF VaultOK, Stored, ClientInv, CheckpointInv
  <2>2. writer[x].head = HeadOf(c)
    BY <1>1, <1>2, AtSaving DEF SaveOK
  <2>3. HeadOf(v.chain).seq < HeadOf(c).seq \/ HeadOf(v.chain) = HeadOf(c)
    BY <2>1, <2>2 DEF Recheck, MayWrite
  <2> QED
    BY <1>1, <1>5, <2>3
<1> QED
  BY <1>6, <1>7

LEMMA AheadStep ==
  ClientInv /\ AllAhead /\ [NextClient]_allVars => AllAhead'
<1> SUFFICES ASSUME ClientInv, AllAhead, [NextClient]_allVars, NEW x \in Writers,
                    task'[x].phase = "saving", task'[x].ref = "current",
                    writer'[x].phase \in {"pointer", "saved"}
             PROVE  Len(vault'[x[1]].chain) <= Len(task'[x].replay.chain)
  BY DEF AllAhead, Ahead
<1>1. CASE UNCHANGED allVars
  BY <1>1 DEF allVars, clientVars, checkpointVars, AllAhead, Ahead
<1>2. CASE NextClient /\ StorageCall(x)
  <2>1. /\ UNCHANGED <<task, vault>> /\ writer = [y \in Writers |-> writer[y]]
        /\ Persisting(x)
    BY <1>2 DEF StorageCall, clientVars, ClientInv, ClientTypeOK, CheckpointTypeOK
  <2>2. CASE Recheck(x)
    BY <1>2, <2>1, <2>2, RecheckAhead
  <2>3. CASE WritePointer(x)
    BY <2>1, <2>3 DEF WritePointer, AllAhead, Ahead
  <2>4. CASE WriteRecord(x)
    BY <2>1, <2>4 DEF WriteRecord, MoveTo, ClientInv, ClientTypeOK, CheckpointTypeOK
  <2>5. CASE RecheckRefuses(x) \/ StorageFails(x)
    BY <2>1, <2>5 DEF RecheckRefuses, StorageFails
  <2> QED
    BY <2>1, <2>2, <2>3, <2>4, <2>5 DEF Persisting
<1>3. CASE NextClient /\ (CommitReplay(x) \/ PersistRefused(x))
  <2>1. task'[x] = NoTask
    BY <1>3 DEF CommitReplay, PersistRefused, EndLocked, Lock, TasksOf, ClientInv, TasksOK
  <2> QED
    BY <2>1, NoTaskOK
<1>4. CASE NextClient /\ ~StorageCall(x) /\ ~CommitReplay(x) /\ ~PersistRefused(x)
  <2>1. CASE task[x].phase = "saving"
    BY <1>4, <2>1, SavingStands DEF AllAhead, Ahead
  <2>2. CASE task[x].phase # "saving"
    <3>1. writer[x].phase = "idle"
      BY <2>2 DEF ClientInv, SavesOK, SaveOK
    <3>2. [NextCheckpoints]_checkpointVars
      BY ClientStorageStep
    <3>3. writer'[x].phase \notin {"pointer", "saved"}
      BY <3>1, <3>2 DEF NextCheckpoints, StartPersist, RefusePersist, Persisting, WriteRecord,
                        Recheck, RecheckRefuses, WritePointer, StorageFails, Return, MoveTo,
                        checkpointVars, ClientInv, ClientTypeOK, CheckpointTypeOK
    <3> QED
      BY <3>3
  <2> QED
    BY <2>1, <2>2
<1> QED
  BY <1>1, <1>2, <1>3, <1>4

(* No tab of a browser ever goes back to an older state of the vault than it
   shows, however its functions overtake one another, whatever the server
   restores and whatever the other tabs save in between.                    *)
THEOREM ShownSafe == SpecClient => ShownAdvances
<1>1. InitClient => AllAhead
  BY DEF InitClient, InitCheckpoints, AllAhead, Ahead
<1>2. ClientInv /\ AllAhead /\ [NextClient]_allVars =>
        [ \A t \in Tabs :
            vault[t] # None /\ vault'[t] # None /\ vault'[t].chain # <<>> =>
              Len(vault[t].chain) <= Len(vault'[t].chain) ]_allVars
  <2> SUFFICES ASSUME ClientInv, AllAhead, [NextClient]_allVars, ~UNCHANGED allVars,
                      NEW t \in Tabs,
                      vault[t] # None, vault'[t] # None, vault'[t].chain # <<>>
               PROVE  Len(vault[t].chain) <= Len(vault'[t].chain)
    OBVIOUS
  <2>1. vault \in [Tabs -> Opened \cup {None}] /\ vault[t].chain \in Seq(Change)
    BY DEF ClientInv, ClientTypeOK, Opened
  <2>2. Len(vault[t].chain) \in Nat
    BY <2>1
  <2>3. CASE vault'[t] = vault[t]
    BY <2>2, <2>3
  <2>4. ASSUME NEW w \in Writers, CommitReplay(w), vault'[t] # vault[t]
        PROVE  Len(vault[t].chain) <= Len(vault'[t].chain)
    <3>1. t = w[1] /\ task[w].ref = "current" /\ vault'[t] = task[w].replay
      BY <2>1, <2>4 DEF CommitReplay
    <3> QED
      BY <2>4, <3>1 DEF AllAhead, Ahead, CommitReplay
  <2>5. ASSUME vault'[t] # vault[t], ~ \E w \in Writers : CommitReplay(w)
        PROVE  FALSE
    <3>1. ASSUME NEW w \in Writers, OpenVault(w) PROVE FALSE
      BY <2>1, <2>5, <3>1 DEF OpenVault
    <3>2. ASSUME NEW w \in Writers, NEW f, Lock(w, f) PROVE FALSE
      BY <2>1, <2>5, <3>2 DEF Lock
    <3>3. ASSUME NEW u \in Tabs, LockButton(u) \/ SwitchMode(u) PROVE FALSE
      BY <2>1, <2>5, <3>3 DEF LockButton, SwitchMode, LockTab
    <3>4. ASSUME NEW w \in Writers, Starts(w) PROVE FALSE
      BY <2>5, <3>2, <3>4 DEF Starts, SignIn, SyncButton, SaveButton, DeleteButton, StartWrite
    <3>5. ASSUME NEW w \in Writers, Resume(w) PROVE FALSE
      <4>1. CASE OpenVault(w)
        BY <3>1, <4>1
      <4>2. CASE ListVaults(w) \/ ListFails(w) \/ FetchPage(w) \/ ApplyChange(w) \/ NextPage(w)
        BY <2>5, <4>2 DEF ListVaults, ListFails, FetchPage, ApplyChange, NextPage, Becomes
      <4>3. CASE FetchFails(w) \/ RejectChange(w) \/ LastPage(w)
        BY <2>5, <3>2, <4>3 DEF FetchFails, RejectChange, LastPage, EndLocked, End, Becomes
      <4>4. CASE ComputeMac(w) \/ ComputeHeadHash(w) \/ FetchCsrf(w) \/ PostChange(w)
                 \/ WriteFails(w)
        BY <2>5, <4>4 DEF ComputeMac, ComputeHeadHash, FetchCsrf, PostChange, WriteFails,
                          Becomes, End
      <4>5. CASE ApplyOwnChange(w) \/ VerifyOwnChange(w)
        BY <2>5, <3>2, <4>5 DEF ApplyOwnChange, VerifyOwnChange, EndLocked, End, Becomes
      <4>6. CASE Persist(w) \/ StorageCall(w) \/ PersistRefused(w)
        BY <2>5, <3>2, <4>6 DEF Persist, StorageCall, PersistRefused, EndLocked, Becomes,
                                clientVars
      <4> QED
        BY <2>5, <3>5, <4>1, <4>2, <4>3, <4>4, <4>5, <4>6 DEF Resume
    <3>6. CASE OtherDeviceWrites \/ Restore
      BY <2>5, <3>6 DEF OtherDeviceWrites, Restore
    <3> QED
      BY <3>3, <3>4, <3>5, <3>6 DEF NextClient
  <2> QED
    BY <2>3, <2>4, <2>5
<1> QED
  BY <1>1, <1>2, AheadStep, ClientInvariance, PTL DEF SpecClient, ShownAdvances

=============================================================================
