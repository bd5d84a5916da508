--------------------------- MODULE WorkspaceExport ---------------------------
(***************************************************************************)
(* The export of selected paths of one workspace volume                    *)
(* (internal/workspacex/export_*.go, internal/exportx): the private        *)
(* snapshot of the stopped volume, the zero-network inspector that reads   *)
(* it, the receiver that publishes into a directory of the host, and the   *)
(* recovery of a transaction whose process died.                           *)
(*                                                                         *)
(* Durable state: the volume record (vol), the raw disk (disk), one        *)
(* journal per transaction (jr), the private copy (snap), the inspector's  *)
(* spool stream.bin (spool) and the destination parents (dest).  Processes *)
(* run one command at a time (op); any of them may fail or die between two *)
(* durable writes.  Flocks (lock, xlock) die with their process.           *)
(*                                                                         *)
(* A workspace's bytes are abstracted to one mark per selectable           *)
(* directory; a digest and an inode identity to the marks they cover.      *)
(***************************************************************************)
EXTENDS Naturals, FiniteSets

CONSTANTS
    Proc,       \* boxwarden processes of the operator
    Export,     \* export transaction UUIDs
    Dir,        \* selectable top-level directories of the workspace
    Parent,     \* destination parents on the host
    None,
    MaxGen,     \* bound: runtime generations of the session
    MaxFault    \* bound: failed or killed commands

VARIABLES vol, run, disk, jr, snap, spool, dest, helper, lock, xlock, op, faults

exportVars == <<vol, run, disk, jr, snap, spool, dest, helper, lock, xlock, op, faults>>

Mark == {"absent", "partial", "exact", "other"}
Data == [Dir -> Mark]
NoData == [d \in Dir |-> "absent"]

Phases == {"copying", "aborted", "ready", "inspected", "published"}

(* Phases that claim the exact private snapshot (validateExportJournal).   *)
Claims == {"ready", "inspected", "published"}

Journal == [phase : Phases, parent : Parent, sel : Dir, snap : Data \cup {None}]

ValidJournal(j) == j.phase \in Claims <=> j.snap # None

ASSUME ExportAssumption ==
    /\ None \notin Proc \cup Export \cup Data \cup Journal
    /\ {"runtime", "client"} \cap (Proc \cup {None}) = {}
    /\ MaxGen \in Nat /\ MaxFault \in Nat

Copy == [st : {"absent", "dir", "partial", "full"}, data : Data]
Spool == [st : {"absent", "partial", "full"}, mark : Mark]
NoSpool == [st |-> "absent", mark |-> "absent"]
Destination == [in : SUBSET Export, out : [Export -> Mark]]

VolumeLocks == {"volume", "session", "storage"}

PCs == {"idle", "lock", "mark", "mkdir", "open", "copy", "ready", "clear",
        "rlock", "recover", "rabort", "rclear", "readmit", "build", "capture",
        "inspect", "publish", "receive", "rename", "final"}

(* A command: its step, transaction, journal it expects, first bytes read. *)
Command == [pc : PCs, tx : Export \cup {None}, saw : Journal \cup {None},
            first : Data \cup {None}]
Idle == [pc |-> "idle", tx |-> None, saw |-> None, first |-> None]

TypeOK ==
    /\ vol \in [att : BOOLEAN, use : 0..MaxGen, pend : Export \cup {None}]
    /\ run \in [live : BOOLEAN, gen : 0..MaxGen]
    /\ disk \in [data : Data, clean : BOOLEAN]
    /\ jr \in [Export -> Journal \cup {None}]
    /\ \A t \in Export : jr[t] # None => ValidJournal(jr[t])
    /\ snap \in [Export -> Copy]
    /\ spool \in [Export -> Spool]
    /\ dest \in [Parent -> Destination]
    /\ helper \in [Export -> 0..2]
    /\ lock \in [VolumeLocks -> Proc \cup {"runtime", "client", None}]
    /\ xlock \in [Export -> Proc \cup {None}]
    /\ op \in [Proc -> Command]
    /\ faults \in 0..MaxFault

ExportInit ==
    /\ vol = [att |-> TRUE, use |-> 0, pend |-> None]
    /\ run = [live |-> FALSE, gen |-> 0]
    /\ disk = [data |-> NoData, clean |-> TRUE]
    /\ jr = [t \in Export |-> None]
    /\ snap = [t \in Export |-> [st |-> "absent", data |-> NoData]]
    /\ spool = [t \in Export |-> NoSpool]
    /\ dest = [d \in Parent |-> [in |-> {}, out |-> [t \in Export |-> "absent"]]]
    /\ helper = [t \in Export |-> 0]
    /\ lock = [l \in VolumeLocks |-> None]
    /\ xlock = [t \in Export |-> None]
    /\ op = [p \in Proc |-> Idle]
    /\ faults = 0

-----------------------------------------------------------------------------
(* Admission predicates.                                                   *)

Free(locks) == \A l \in locks : lock[l] = None

(* The three volume locks are always taken in the same order, so taking    *)
(* them together loses no interleaving of durable steps.                   *)
Take(p, locks) == lock' = [l \in VolumeLocks |-> IF l \in locks THEN p ELSE lock[l]]
Release(p) == [l \in VolumeLocks |-> IF lock[l] = p THEN None ELSE lock[l]]
XFree(t) == xlock[t] = None
XRelease(p) == [t \in Export |-> IF xlock[t] = p THEN None ELSE xlock[t]]

(* The session is durably stopped and its exact machine observed stopped.  *)
(* Stop releases every Use before it publishes the stopped state, so the   *)
(* two are one step here.                                                  *)
stoppedSession == ~run.live /\ vol.use = 0

requireCleanExportSuperblock == disk.clean

(* A destination parent is admitted only while it is empty.                *)
admitExportParent(d) == dest[d].in = {} /\ \A t \in Export : dest[d].out[t] = "absent"

(* The copy at the journal's path still has the journal's inode, length    *)
(* and digest.                                                             *)
admitExactExportSnapshot(t) == snap[t].st = "full" /\ snap[t].data = jr[t].snap

requireAbsentInspectorSpool(t) == spool[t].st = "absent"
requireAbsentSnapshotDirectory(t) == snap[t].st = "absent"

(* The inspector request is encoded for a ready snapshot or a retry only.  *)
encodeExportInspectorRequest(t) == jr[t].phase \in {"ready", "inspected"}
prepareExportInspectorRequestLocked(t) ==
    jr[t] # None /\ encodeExportInspectorRequest(t) /\ admitExactExportSnapshot(t)

(* What the record store admits of each kind of change, whoever asks.      *)
checkBindings(next, mutation, t) ==
    /\ vol.pend # None /\ next.pend # vol.pend => mutation \in {"finish", "abort"}
    /\ \/ mutation = "attach" /\ ~vol.att /\ next.att /\ vol.use = 0 /\ next.use = 0
       \/ mutation = "detach" /\ vol.att /\ ~next.att /\ vol.use = 0 /\ next.use = 0
       \/ mutation = "reserve" /\ vol.att /\ next.att /\ vol.use = 0 /\ next.use # 0
       \/ mutation = "release" /\ vol.att = next.att /\ vol.use # 0 /\ next.use = 0
       \/ /\ mutation = "begin" /\ vol.att /\ vol.use = 0 /\ vol.pend = None
          /\ next = [vol EXCEPT !.pend = t]
       \/ /\ mutation = "finish" /\ vol.pend = t /\ next = [vol EXCEPT !.pend = None]
          /\ jr[t].phase = "ready"
       \/ /\ mutation = "abort" /\ vol.pend = t /\ next = [vol EXCEPT !.pend = None]
          /\ jr[t].phase = "aborted"

(* The record is replaced by an atomic rename.                             *)
saveRecordTransition(next, mutation, t) ==
    /\ checkBindings(next, mutation, t)
    /\ vol' = next

validExportPhaseAdvance(old, next) ==
    \/ old.phase = "copying" /\ next.phase = "ready" /\ next.snap # None
    \/ old.phase = "copying" /\ next.phase = "aborted" /\ next.snap = None
    \/ old.phase = "ready" /\ next.phase = "inspected" /\ next.snap = old.snap
    \/ old.phase = "inspected" /\ next.phase = "published" /\ next.snap = old.snap

(* Compare-and-swap of the journal by an atomic rename.                    *)
advanceExportJournalLocked(t, expected, next) ==
    /\ jr[t] = expected
    /\ ValidJournal(next)
    /\ next.parent = expected.parent /\ next.sel = expected.sel
    /\ validExportPhaseAdvance(expected, next)
    /\ jr' = [jr EXCEPT ![t] = next]

Phase(j, ph) == [j EXCEPT !.phase = ph]

(* A command moves to its next step, keeping or dropping what it saw.      *)
Goto(p, pc) == op' = [op EXCEPT ![p].pc = pc]
Return(p) == op' = [op EXCEPT ![p] = Idle]

-----------------------------------------------------------------------------
(* The session around the volume: one generation at a time reserves the    *)
(* Use, holds the volume lock until it is reaped, and writes the disk.     *)
(* ReserveUse and ReleaseUseAfterObservedStop are the steps of the start's *)
(* and the stop's batch for this volume, under the conditions of the       *)
(* functions of these names.                                               *)

(* Mutant: a start ignores the export marker of the volume.                *)
MutReserveUse ==
    /\ Free(VolumeLocks)
    /\ vol.att /\ vol.use = 0
    /\ stoppedSession
    /\ run.gen < MaxGen
    /\ run' = [live |-> TRUE, gen |-> run.gen + 1]
    /\ vol' = [vol EXCEPT !.use = run.gen + 1]
    /\ lock' = [lock EXCEPT !["volume"] = "runtime"]
    /\ disk' = [disk EXCEPT !.clean = FALSE]
    /\ UNCHANGED <<jr, snap, spool, dest, helper, xlock, op, faults>>

ReserveUse ==
    /\ Free(VolumeLocks)
    /\ vol.att /\ vol.use = 0 /\ vol.pend = None
    /\ stoppedSession
    /\ run.gen < MaxGen
    /\ run' = [live |-> TRUE, gen |-> run.gen + 1]
    /\ saveRecordTransition([vol EXCEPT !.use = run.gen + 1], "reserve", None)
    /\ lock' = [lock EXCEPT !["volume"] = "runtime"]
    /\ disk' = [disk EXCEPT !.clean = FALSE]
    /\ UNCHANGED <<jr, snap, spool, dest, helper, xlock, op, faults>>

GuestWrite(d, m) ==
    /\ run.live
    /\ disk' = [disk EXCEPT !.data[d] = m]
    /\ UNCHANGED <<vol, run, jr, snap, spool, dest, helper, lock, xlock, op, faults>>

(* The supervisor reaps its machine and drops the volume lock.  Only a     *)
(* stop that holds the session's locks ends it cleanly; a machine may also *)
(* be lost at any time and then leaves a filesystem journal to replay.     *)
MachineEnds(clean) ==
    /\ run.live
    /\ clean => Free({"session"})
    /\ run' = [run EXCEPT !.live = FALSE]
    /\ lock' = [lock EXCEPT !["volume"] = None]
    /\ disk' = [disk EXCEPT !.clean = clean]
    /\ UNCHANGED <<vol, jr, snap, spool, dest, helper, xlock, op, faults>>

ReleaseUseAfterObservedStop ==
    /\ Free(VolumeLocks)
    /\ vol.use # 0 /\ ~run.live
    /\ saveRecordTransition([vol EXCEPT !.use = 0], "release", None)
    /\ UNCHANGED <<run, disk, jr, snap, spool, dest, helper, lock, xlock, op, faults>>

Attach ==
    /\ Free({"session", "storage"})
    /\ ~vol.att /\ vol.use = 0 /\ vol.pend = None /\ stoppedSession
    /\ saveRecordTransition([vol EXCEPT !.att = TRUE], "attach", None)
    /\ UNCHANGED <<run, disk, jr, snap, spool, dest, helper, lock, xlock, op, faults>>

Detach ==
    /\ Free({"session", "storage"})
    /\ vol.att /\ vol.use = 0 /\ vol.pend = None /\ stoppedSession
    /\ saveRecordTransition([vol EXCEPT !.att = FALSE], "detach", None)
    /\ UNCHANGED <<run, disk, jr, snap, spool, dest, helper, lock, xlock, op, faults>>

-----------------------------------------------------------------------------
(* createExportSnapshot: read, lock, journal, marker, directory, copy,     *)
(* ready, clear.                                                           *)

(* The attached record is read before any lock is held.                    *)
CreateRead(p) ==
    /\ op[p].pc = "idle"
    /\ vol.att
    /\ op' = [op EXCEPT ![p] = [Idle EXCEPT !.pc = "lock"]]
    /\ UNCHANGED <<vol, run, disk, jr, snap, spool, dest, helper, lock, xlock, faults>>

(* Under the locks the record is read again and every precondition is      *)
(* rechecked before the transaction becomes durable.                       *)
CreateJournal(p, t, d, s) ==
    /\ op[p].pc = "lock"
    /\ Free(VolumeLocks)
    /\ jr[t] = None
    /\ vol.att /\ vol.use = 0 /\ vol.pend = None
    /\ stoppedSession
    /\ requireCleanExportSuperblock
    /\ admitExportParent(d)
    /\ jr' = [jr EXCEPT ![t] = [phase |-> "copying", parent |-> d, sel |-> s, snap |-> None]]
    /\ Take(p, VolumeLocks)
    /\ op' = [op EXCEPT ![p] = [Idle EXCEPT !.pc = "mark", !.tx = t, !.saw = jr'[t]]]
    /\ UNCHANGED <<vol, run, disk, snap, spool, dest, helper, xlock, faults>>

CreateRefused(p) ==
    /\ op[p].pc = "lock"
    /\ Free(VolumeLocks)
    /\ ~ (vol.att /\ vol.use = 0 /\ vol.pend = None /\ stoppedSession
          /\ requireCleanExportSuperblock)
    /\ Return(p)
    /\ UNCHANGED <<vol, run, disk, jr, snap, spool, dest, helper, lock, xlock, faults>>

BeginExportSnapshot(p) ==
    /\ op[p].pc = "mark"
    /\ saveRecordTransition([vol EXCEPT !.pend = op[p].tx], "begin", op[p].tx)
    /\ Goto(p, "mkdir")
    /\ UNCHANGED <<run, disk, jr, snap, spool, dest, helper, lock, xlock, faults>>

MakeDirectory(p) ==
    /\ op[p].pc = "mkdir"
    /\ snap[op[p].tx].st = "absent"
    /\ snap' = [snap EXCEPT ![op[p].tx].st = "dir"]
    /\ Goto(p, "open")
    /\ UNCHANGED <<vol, run, disk, jr, spool, dest, helper, lock, xlock, faults>>

(* snapshot.raw exists with some of the source's bytes; what the first     *)
(* bytes were is remembered as the running digest of the copy.             *)
CopyOpen(p) ==
    /\ op[p].pc = "open"
    /\ snap' = [snap EXCEPT ![op[p].tx].st = "partial"]
    /\ op' = [op EXCEPT ![p].pc = "copy", ![p].first = disk.data]
    /\ UNCHANGED <<vol, run, disk, jr, spool, dest, helper, lock, xlock, faults>>

(* The source is hashed again after the copy and must still match it.      *)
verifyExportSource(p) == disk.data = op[p].first

copyExportSnapshot(p) ==
    /\ op[p].pc = "copy"
    /\ verifyExportSource(p)
    /\ snap' = [snap EXCEPT ![op[p].tx] = [st |-> "full", data |-> op[p].first]]
    /\ Goto(p, "ready")
    /\ UNCHANGED <<vol, run, disk, jr, spool, dest, helper, lock, xlock, faults>>

AdvanceReady(p) ==
    LET t == op[p].tx IN
    /\ op[p].pc = "ready"
    /\ XFree(t)
    /\ advanceExportJournalLocked(t, op[p].saw,
           [op[p].saw EXCEPT !.phase = "ready", !.snap = op[p].first])
    /\ op' = [op EXCEPT ![p].pc = "clear", ![p].saw = jr'[t]]
    /\ UNCHANGED <<vol, run, disk, snap, spool, dest, helper, lock, xlock, faults>>

(* The marker is cleared against the durable ready journal, then the locks *)
(* are released and the volume may run again.                              *)
finishExportSnapshotPending(t, ready) ==
    /\ jr[t] = ready /\ jr[t].phase = "ready"
    /\ vol.pend = t /\ vol.use = 0 /\ vol.att
    /\ saveRecordTransition([vol EXCEPT !.pend = None], "finish", t)

CreateFinish(p) ==
    /\ op[p].pc = "clear"
    /\ finishExportSnapshotPending(op[p].tx, op[p].saw)
    /\ lock' = Release(p)
    /\ Goto(p, "build")
    /\ UNCHANGED <<run, disk, jr, snap, spool, dest, helper, xlock, faults>>

-----------------------------------------------------------------------------
(* ResumeSelectedWorkspace and RecoverExportSnapshot.                      *)

(* The phase is read without a lock; a copy-stage transaction, or a ready  *)
(* one whose marker survives, is recovered first.                          *)
ResumeBegin(p, t) ==
    /\ op[p].pc = "idle"
    /\ jr[t] # None
    /\ op' = [op EXCEPT ![p] = [Idle EXCEPT !.tx = t, !.saw = jr[t], !.pc =
                IF \/ jr[t].phase \in {"copying", "aborted"}
                   \/ jr[t].phase = "ready" /\ vol.pend = t
                THEN "rlock" ELSE "readmit"]]
    /\ UNCHANGED <<vol, run, disk, jr, snap, spool, dest, helper, lock, xlock, faults>>

RecoverLock(p) ==
    /\ op[p].pc = "rlock"
    /\ Free(VolumeLocks)
    /\ Take(p, VolumeLocks)
    /\ Goto(p, "recover")
    /\ UNCHANGED <<vol, run, disk, jr, snap, spool, dest, helper, xlock, faults>>

(* The exact available binding the recovery must prove before it changes   *)
(* anything.                                                               *)
RecoverBinding(p) ==
    /\ jr[op[p].tx] = op[p].saw
    /\ vol.att /\ vol.use = 0 /\ vol.pend \in {None, op[p].tx}
    /\ stoppedSession

RecoverReturn(p, pc) ==
    /\ lock' = Release(p)
    /\ IF pc = "idle" THEN Return(p) ELSE Goto(p, pc)

(* A finished copy stage is only read: the volume may have run since.      *)
RecoverSettled(p) ==
    LET t == op[p].tx IN
    /\ op[p].pc = "recover"
    /\ jr[t] = op[p].saw
    /\ vol.pend = None /\ jr[t].phase \in {"ready", "aborted"}
    /\ RecoverReturn(p, IF jr[t].phase = "ready" THEN "readmit" ELSE "idle")
    /\ UNCHANGED <<vol, run, disk, jr, snap, spool, dest, helper, xlock, faults>>

(* Mutant: the partial copy is left where it is.                           *)
MutremoveExactPartialSnapshot(p) ==
    /\ op[p].pc = "recover"
    /\ RecoverBinding(p)
    /\ jr[op[p].tx].phase = "copying"
    /\ Goto(p, "rabort")
    /\ UNCHANGED <<vol, run, disk, jr, snap, spool, dest, helper, lock, xlock, faults>>

(* Exact partial state is removed only while the marker authorises it.     *)
removeExactPartialSnapshot(p) ==
    LET t == op[p].tx IN
    /\ op[p].pc = "recover"
    /\ RecoverBinding(p)
    /\ jr[t].phase = "copying"
    /\ IF vol.pend = None
       THEN requireAbsentSnapshotDirectory(t) /\ UNCHANGED snap
       ELSE snap' = [snap EXCEPT ![t] = [st |-> "absent", data |-> NoData]]
    /\ Goto(p, "rabort")
    /\ UNCHANGED <<vol, run, disk, jr, spool, dest, helper, lock, xlock, faults>>

RecoverAbort(p) ==
    LET t == op[p].tx IN
    /\ op[p].pc = "rabort"
    /\ XFree(t)
    /\ advanceExportJournalLocked(t, op[p].saw, Phase(op[p].saw, "aborted"))
    /\ Goto(p, "rclear")
    /\ UNCHANGED <<vol, run, disk, snap, spool, dest, helper, lock, xlock, faults>>

RecoverAborted(p) ==
    LET t == op[p].tx IN
    /\ op[p].pc = "recover"
    /\ RecoverBinding(p)
    /\ jr[t].phase = "aborted" /\ vol.pend = t
    /\ requireAbsentSnapshotDirectory(t)
    /\ Goto(p, "rclear")
    /\ UNCHANGED <<vol, run, disk, jr, snap, spool, dest, helper, lock, xlock, faults>>

RecoverClear(p) ==
    LET t == op[p].tx IN
    /\ op[p].pc = "rclear"
    /\ IF vol.pend = None THEN UNCHANGED vol
       ELSE saveRecordTransition([vol EXCEPT !.pend = None], "abort", t)
    /\ RecoverReturn(p, "idle")
    /\ UNCHANGED <<run, disk, jr, snap, spool, dest, helper, xlock, faults>>

RecoverReady(p) ==
    LET t == op[p].tx IN
    /\ op[p].pc = "recover"
    /\ RecoverBinding(p)
    /\ jr[t].phase = "ready" /\ vol.pend = t
    /\ admitExactExportSnapshot(t)
    /\ finishExportSnapshotPending(t, op[p].saw)
    /\ RecoverReturn(p, "readmit")
    /\ UNCHANGED <<run, disk, jr, snap, spool, dest, helper, xlock, faults>>

RecoverRefused(p) ==
    LET t == op[p].tx IN
    /\ op[p].pc = "recover"
    /\ \/ jr[t] # op[p].saw
       \/ /\ ~ (vol.pend = None /\ jr[t].phase \in {"ready", "aborted"})
          /\ \/ ~RecoverBinding(p)
             \/ /\ jr[t].phase = "copying" /\ vol.pend = None
                /\ ~requireAbsentSnapshotDirectory(t)
    /\ RecoverReturn(p, "idle")
    /\ UNCHANGED <<vol, run, disk, jr, snap, spool, dest, helper, xlock, faults>>

(* resumeSelectedWorkspace: exact snapshot, original empty parent, no      *)
(* spool of an earlier helper.                                             *)
ResumeOK(t) ==
    /\ encodeExportInspectorRequest(t) /\ admitExactExportSnapshot(t)
    /\ admitExportParent(jr[t].parent)
    /\ requireAbsentInspectorSpool(t)

resumeSelectedWorkspace(p) ==
    LET t == op[p].tx IN
    /\ op[p].pc = "readmit"
    /\ IF ResumeOK(t)
       THEN op' = [op EXCEPT ![p].pc = "build", ![p].saw = jr[t]]
       ELSE Return(p)
    /\ UNCHANGED <<vol, run, disk, jr, snap, spool, dest, helper, lock, xlock, faults>>

-----------------------------------------------------------------------------
(* completeSelectedWorkspace: build the bundle, capture the inspector's    *)
(* stream, publish it.                                                     *)

(* The bundle is built and admitted under the transaction lock against     *)
(* the journal it was requested for.                                       *)
buildAdmittedExportInspectorBundle(p) ==
    LET t == op[p].tx IN
    /\ op[p].pc = "build"
    /\ XFree(t)
    /\ IF prepareExportInspectorRequestLocked(t) THEN Goto(p, "capture") ELSE Return(p)
    /\ UNCHANGED <<vol, run, disk, jr, snap, spool, dest, helper, lock, xlock, faults>>

(* stream.bin is created exclusively before the helper is started.         *)
OpenSpool(t) == spool[t].st = "absent"

captureBoundExportInspector(p) ==
    LET t == op[p].tx IN
    /\ op[p].pc = "capture"
    /\ XFree(t)
    /\ IF prepareExportInspectorRequestLocked(t) /\ OpenSpool(t)
       THEN /\ xlock' = [xlock EXCEPT ![t] = p]
            /\ spool' = [spool EXCEPT ![t] = [st |-> "partial", mark |-> "absent"]]
            /\ helper' = [helper EXCEPT ![t] = @ + 1]
            /\ Goto(p, "inspect")
       ELSE Return(p) /\ UNCHANGED <<xlock, spool, helper>>
    /\ UNCHANGED <<vol, run, disk, jr, snap, dest, lock, faults>>

(* Stopped-machine and EOF evidence: the stream is complete and the        *)
(* snapshot and journal are still the ones captured.                       *)
InspectorStopped(p) ==
    LET t == op[p].tx IN
    /\ op[p].pc = "inspect"
    /\ helper' = [helper EXCEPT ![t] = @ - 1]
    /\ xlock' = XRelease(p)
    /\ IF admitExactExportSnapshot(t) /\ jr[t] = op[p].saw
       THEN /\ spool' = [spool EXCEPT ![t] = [st |-> "full", mark |-> snap[t].data[jr[t].sel]]]
            /\ Goto(p, "publish")
       ELSE /\ spool' = [spool EXCEPT ![t] = NoSpool]
            /\ Return(p)
    /\ UNCHANGED <<vol, run, disk, jr, snap, dest, lock, faults>>

(* A cancellation receipt proves the machine stopped: the spool goes.      *)
InspectorCancelled(p) ==
    LET t == op[p].tx IN
    /\ op[p].pc = "inspect"
    /\ faults < MaxFault /\ faults' = faults + 1
    /\ helper' = [helper EXCEPT ![t] = @ - 1]
    /\ spool' = [spool EXCEPT ![t] = NoSpool]
    /\ xlock' = XRelease(p)
    /\ Return(p)
    /\ UNCHANGED <<vol, run, disk, jr, snap, dest, lock>>

(* Without that evidence the spool is kept: the machine may still run.     *)
InspectorStopUnproven(p) ==
    /\ op[p].pc = "inspect"
    /\ faults < MaxFault /\ faults' = faults + 1
    /\ xlock' = XRelease(p)
    /\ Return(p)
    /\ UNCHANGED <<vol, run, disk, jr, snap, spool, dest, helper, lock>>

HelperEnds(t) ==
    /\ helper[t] > 0
    /\ \A p \in Proc : ~ (op[p].pc = "inspect" /\ op[p].tx = t)
    /\ helper' = [helper EXCEPT ![t] = @ - 1]
    /\ UNCHANGED <<vol, run, disk, jr, snap, spool, dest, lock, xlock, op, faults>>

RemoveSpool(t) == spool' = [spool EXCEPT ![t] = NoSpool]

PublishOK(t) ==
    /\ jr[t].phase \in {"ready", "inspected"}
    /\ spool[t].st = "full"
    /\ admitExactExportSnapshot(t)
    /\ admitExportParent(jr[t].parent)

(* Mutant: output is written without the durable inspected intent.         *)
MutPublishBegin(p) ==
    LET t == op[p].tx IN
    /\ op[p].pc = "publish"
    /\ XFree(t) /\ PublishOK(t)
    /\ xlock' = [xlock EXCEPT ![t] = p]
    /\ op' = [op EXCEPT ![p].pc = "receive", ![p].saw = jr[t]]
    /\ UNCHANGED <<vol, run, disk, jr, snap, spool, dest, helper, lock, faults>>

(* Under the transaction lock: spool, snapshot and parent are admitted     *)
(* once more and the inspected intent is durable before any output.        *)
PublishBegin(p) ==
    LET t == op[p].tx IN
    /\ op[p].pc = "publish"
    /\ XFree(t)
    /\ IF PublishOK(t)
       THEN /\ xlock' = [xlock EXCEPT ![t] = p]
            /\ IF jr[t].phase = "ready"
               THEN advanceExportJournalLocked(t, jr[t], Phase(jr[t], "inspected"))
               ELSE UNCHANGED jr
            /\ op' = [op EXCEPT ![p].pc = "receive", ![p].saw = jr'[t]]
            /\ UNCHANGED spool
       ELSE /\ RemoveSpool(t) /\ Return(p)
            /\ UNCHANGED <<jr, xlock>>
    /\ UNCHANGED <<vol, run, disk, snap, dest, helper, lock, faults>>

Receive(p) ==
    LET t == op[p].tx IN
    /\ op[p].pc = "receive"
    /\ dest' = [dest EXCEPT ![jr[t].parent].in = @ \cup {t}]
    /\ Goto(p, "rename")
    /\ UNCHANGED <<vol, run, disk, jr, snap, spool, helper, lock, xlock, faults>>

(* The terminal record is accepted only when every selected path came;     *)
(* the staged tree is renamed without replacing.                           *)
ReceiveTerminal(p) ==
    LET t == op[p].tx
        d == jr[t].parent IN
    /\ op[p].pc = "rename"
    /\ IF spool[t].mark # "absent" /\ dest[d].out[t] = "absent"
       THEN /\ dest' = [dest EXCEPT ![d].in = @ \ {t}, ![d].out[t] = spool[t].mark]
            /\ Goto(p, "final")
            /\ UNCHANGED <<spool, xlock>>
       ELSE /\ dest' = [dest EXCEPT ![d].in = @ \ {t}]
            /\ RemoveSpool(t) /\ xlock' = XRelease(p) /\ Return(p)
    /\ UNCHANGED <<vol, run, disk, jr, snap, helper, lock, faults>>

PublishFinish(p) ==
    LET t == op[p].tx IN
    /\ op[p].pc = "final"
    /\ advanceExportJournalLocked(t, op[p].saw, Phase(op[p].saw, "published"))
    /\ RemoveSpool(t)
    /\ xlock' = XRelease(p)
    /\ Return(p)
    /\ UNCHANGED <<vol, run, disk, snap, dest, helper, lock, faults>>

-----------------------------------------------------------------------------
(* Faults.                                                                 *)

(* A command returns an error at its current step: deferred cleanup runs   *)
(* (the captured spool, an unpublished staging tree) and locks are freed.  *)
Fail(p) ==
    LET t == op[p].tx
        pc == op[p].pc IN
    /\ pc \notin {"idle", "inspect"}
    /\ faults < MaxFault /\ faults' = faults + 1
    /\ IF pc \in {"publish", "receive", "rename", "final"} THEN RemoveSpool(t) ELSE UNCHANGED spool
    /\ dest' = IF pc = "rename" THEN [dest EXCEPT ![jr[t].parent].in = @ \ {t}] ELSE dest
    /\ lock' = Release(p) /\ xlock' = XRelease(p)
    /\ Return(p)
    /\ UNCHANGED <<vol, run, disk, jr, snap, helper>>

(* The process is killed: only its locks disappear.                        *)
Crash(p) ==
    /\ op[p].pc # "idle"
    /\ faults < MaxFault /\ faults' = faults + 1
    /\ lock' = Release(p) /\ xlock' = XRelease(p)
    /\ Return(p)
    /\ UNCHANGED <<vol, run, disk, jr, snap, spool, dest, helper>>

-----------------------------------------------------------------------------
CommandStep(p) ==
    \/ \E t \in Export, d \in Parent, s \in Dir : CreateJournal(p, t, d, s)
    \/ CreateRefused(p) \/ BeginExportSnapshot(p) \/ MakeDirectory(p)
    \/ CopyOpen(p) \/ copyExportSnapshot(p) \/ AdvanceReady(p) \/ CreateFinish(p)
    \/ RecoverLock(p) \/ RecoverSettled(p) \/ removeExactPartialSnapshot(p)
    \/ RecoverAbort(p) \/ RecoverAborted(p) \/ RecoverClear(p) \/ RecoverReady(p)
    \/ RecoverRefused(p) \/ resumeSelectedWorkspace(p)
    \/ buildAdmittedExportInspectorBundle(p) \/ captureBoundExportInspector(p)
    \/ InspectorStopped(p) \/ PublishBegin(p) \/ Receive(p) \/ ReceiveTerminal(p)
    \/ PublishFinish(p)

FaultStep(p) == InspectorCancelled(p) \/ InspectorStopUnproven(p) \/ Fail(p) \/ Crash(p)

SessionStep ==
    ReserveUse \/ ReleaseUseAfterObservedStop \/ Attach \/ Detach

(* The export side of the system; the machine's end and the guest's writes *)
(* are joined by the module that composes it with the import.              *)
ExportNext ==
    \/ \E p \in Proc : CommandStep(p) \/ FaultStep(p) \/ CreateRead(p)
    \/ \E p \in Proc, t \in Export : ResumeBegin(p, t)
    \/ \E t \in Export : HelperEnds(t)
    \/ SessionStep

-----------------------------------------------------------------------------
(* Properties.                                                             *)

(* A volume marked for an export is attached, unused and stopped, and the  *)
(* transaction that owns the marker is still in its copy stage: no         *)
(* inspector, no output, and no other export can have overtaken it.        *)
PendingOwnsVolume ==
    vol.pend # None =>
        /\ vol.att /\ vol.use = 0 /\ ~run.live
        /\ jr[vol.pend] # None /\ jr[vol.pend].phase \in {"copying", "ready", "aborted"}

(* Steps under the volume's locks, and steps that own a captured spool.    *)
VolumePCs == {"mark", "mkdir", "open", "copy", "ready", "clear",
              "recover", "rabort", "rclear"}
SpoolPCs == {"inspect", "publish", "receive", "rename", "final"}

(* A command under the volume's locks holds them all, and a machine that   *)
(* runs holds the volume's: they exclude one another.  A capture and a     *)
(* publication hold the transaction's lock.                                *)
LockExact ==
    /\ \A p \in Proc : op[p].pc \in VolumePCs => \A l \in VolumeLocks : lock[l] = p
    /\ run.live => lock["volume"] = "runtime"
    /\ \A p \in Proc :
         op[p].pc \in SpoolPCs \ {"publish"} => xlock[op[p].tx] = p
    /\ \A p, q \in Proc :
         op[p].pc \in SpoolPCs /\ op[q].pc \in SpoolPCs /\ op[p].tx = op[q].tx => p = q

(* What a transaction's phase says of its copy.  While its marker is       *)
(* durable a ready snapshot is the content of the volume.                  *)
CopyExact ==
    \A t \in Export :
        /\ jr[t] = None => snap[t].st = "absent"
        /\ jr[t] # None =>
            /\ jr[t].phase = "copying" /\ vol.pend # t => snap[t].st = "absent"
            /\ jr[t].phase = "aborted" => snap[t].st = "absent"
            /\ jr[t].phase \in Claims =>
                 snap[t].st = "full" /\ snap[t].data = jr[t].snap
            /\ jr[t].phase = "ready" /\ vol.pend = t => jr[t].snap = disk.data

(* A spool exists only for a claimed snapshot; a complete one is what the  *)
(* journal selects, and only an incomplete one can have a machine.         *)
SpoolExact ==
    \A t \in Export :
        /\ spool[t].st # "absent" => jr[t] # None /\ jr[t].phase \in Claims
        /\ spool[t].st # "partial" => helper[t] = 0
        /\ spool[t].st = "full" => spool[t].mark = jr[t].snap[jr[t].sel]

(* What a command has established when it is about to take a step.         *)
CopyStep(p) ==
    LET t == op[p].tx IN
    /\ op[p].pc \in {"mark", "mkdir", "open", "copy", "ready"} =>
         jr[t] = op[p].saw /\ jr[t].phase = "copying"
    /\ op[p].pc \in {"mkdir", "open", "copy", "ready", "clear"} => vol.pend = t
    /\ op[p].pc \in {"copy", "ready"} => op[p].first \in Data
    /\ op[p].pc = "ready" =>
         /\ snap[t].st = "full" /\ snap[t].data = op[p].first
         /\ disk.data = op[p].first
    /\ op[p].pc \in {"rabort", "rclear"} =>
         /\ vol.pend \in {None, t} /\ snap[t].st = "absent"
         /\ jr[t].phase = IF op[p].pc = "rabort" THEN "copying" ELSE "aborted"

PublishStep(p) ==
    LET t == op[p].tx IN
    /\ op[p].pc \in SpoolPCs \cup {"readmit", "build", "capture"} =>
         jr[t].phase \in Claims /\ vol.pend # t
    /\ op[p].pc = "inspect" => spool[t].st = "partial" /\ helper[t] = 1
    /\ op[p].pc \in SpoolPCs \ {"inspect"} => spool[t].st = "full"
    /\ op[p].pc \in {"receive", "rename", "final"} =>
         jr[t] = op[p].saw /\ jr[t].phase = "inspected"
    /\ op[p].pc = "final" => dest[jr[t].parent].out[t] # "absent"

Transacting(p) ==
    op[p].pc \notin {"idle", "lock"} => op[p].tx \in Export /\ jr[op[p].tx] # None

CommandExact == \A p \in Proc : Transacting(p) /\ CopyStep(p) /\ PublishStep(p)

(* The marker is released exactly: either the ready journal's snapshot is  *)
(* the volume's content at that moment, or the aborted transaction has     *)
(* left no copy behind.                                                    *)
PendingReleaseExact ==
    [][vol.pend # None /\ vol'.pend = None =>
          LET t == vol.pend IN
          \/ jr[t].phase = "ready" /\ snap[t].st = "full"
             /\ snap[t].data = jr[t].snap /\ jr[t].snap = disk.data
          \/ jr[t].phase = "aborted" /\ snap[t].st = "absent"]_exportVars

(* At most one inspector machine ever reads a transaction's snapshot, even *)
(* when its process died or its stop was not proven.                       *)
OneInspector == \A t \in Export : helper[t] <= 1

(* What stands under a destination parent is exactly the selected part of  *)
(* the journal's snapshot, is claimed by a durable inspected journal       *)
(* before it appears, and a published journal never lacks its output.      *)
PublishedExact ==
    \A t \in Export :
        /\ \A d \in Parent : dest[d].out[t] # "absent" =>
              /\ jr[t] # None /\ jr[t].parent = d
              /\ jr[t].phase \in {"inspected", "published"}
              /\ dest[d].out[t] = jr[t].snap[jr[t].sel]
        /\ (jr[t] # None /\ jr[t].phase = "published") =>
              dest[jr[t].parent].out[t] # "absent"

=============================================================================
