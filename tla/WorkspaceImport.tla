--------------------------- MODULE WorkspaceImport ---------------------------
(***************************************************************************)
(* The import of a captured host tree into a running workspace and its     *)
(* verification through a stopped export (internal/workspacex/import_*.go, *)
(* internal/importx, internal/sessionruntime/import_owner.go,              *)
(* internal/sshx/import_sftp*.go), composed with WorkspaceExport: the two  *)
(* share the volume record, the disk, the session and the locks.           *)
(*                                                                         *)
(* An import transaction writes one directory of the workspace named after *)
(* it, so Dir is the set of import transactions.  The client holds the     *)
(* session's locks across the call to the supervisor; the owner inside the *)
(* supervisor performs the transfer and survives the client's death.       *)
(***************************************************************************)
EXTENDS WorkspaceExport

VARIABLES
    src,      \* src[i]: the captured private host snapshot exists
    ij,       \* ij[i]: the import journal
    client,   \* the importing process
    owner     \* the transfer the runtime owner performs

importVars == <<src, ij, client, owner>>
vars == <<exportVars, importVars>>

ImportPhases == {"captured", "transferring", "verified"}
ImportJournal == [phase : ImportPhases, gen : 1..MaxGen, export : Export \cup {None}]

(* A verified import names distinct export evidence, any other none.       *)
ValidImportJournal(j) == j.phase = "verified" <=> j.export # None

ASSUME ImportAssumption == None \notin Dir \cup ImportJournal

NoClient == [pc |-> "idle", tx |-> None]
NoTransfer == [st |-> "idle", tx |-> None]

ImportTypeOK ==
    /\ TypeOK
    /\ src \in [Dir -> BOOLEAN]
    /\ ij \in [Dir -> ImportJournal \cup {None}]
    /\ \A i \in Dir : ij[i] # None => ValidImportJournal(ij[i])
    /\ client \in [pc : {"idle", "mark", "rpc", "after"}, tx : Dir \cup {None}]
    /\ owner \in [st : {"idle", "upload", "read", "done"}, tx : Dir \cup {None}]

Init ==
    /\ ExportInit
    /\ src = [i \in Dir |-> FALSE]
    /\ ij = [i \in Dir |-> None]
    /\ client = NoClient
    /\ owner = NoTransfer

(* The client is a process of its own; it takes the same flocks.           *)
ImportLocks == {"session", "storage"}
Hold(locks) == lock' = [l \in VolumeLocks |-> IF l \in locks THEN "client" ELSE lock[l]]
Drop(locks) == lock' = [l \in VolumeLocks |-> IF l \in locks /\ lock[l] = "client" THEN None ELSE lock[l]]

-----------------------------------------------------------------------------
(* Capture and admission.                                                  *)

(* The selected bytes are copied, hashed and renamed into place without    *)
(* replacing; a failed capture leaves nothing.                             *)
CaptureSelectedSource(i) ==
    /\ ~src[i]
    /\ src' = [src EXCEPT ![i] = TRUE]
    /\ UNCHANGED <<exportVars, ij, client, owner>>

(* Re-admission of the captured bytes: manifest, every file's digest.      *)
admitImportSnapshot(i) == src[i]

(* The exact running generation holds the Use of the attached volume and a *)
(* fresh snapshot of its supervisor proves it ready.                       *)
LiveUse(g) ==
    /\ run.live /\ run.gen = g
    /\ vol.att /\ vol.use = g /\ vol.pend = None

BeginImport(i) ==
    /\ client = NoClient
    /\ ij[i] = None
    /\ Free(ImportLocks)
    /\ run.gen > 0 /\ LiveUse(run.gen)
    /\ admitImportSnapshot(i)
    /\ ij' = [ij EXCEPT ![i] = [phase |-> "captured", gen |-> run.gen, export |-> None]]
    /\ UNCHANGED <<exportVars, src, client, owner>>

advanceImportJournal(i, next) ==
    /\ \/ ij[i].phase = "captured" /\ next.phase = "transferring"
       \/ ij[i].phase = "transferring" /\ next.phase = "verified"
    /\ next.gen = ij[i].gen /\ ValidImportJournal(next)
    /\ admitImportSnapshot(i)
    /\ ij' = [ij EXCEPT ![i] = next]

admitTransferLive(i) == admitImportSnapshot(i) /\ LiveUse(ij[i].gen)

-----------------------------------------------------------------------------
(* TransferCapturedImport in the client.                                   *)

TransferLock(i) ==
    /\ client = NoClient
    /\ ij[i] # None
    /\ Free(ImportLocks)
    /\ ij[i].phase \in {"captured", "transferring"}
    /\ admitTransferLive(i)
    /\ Hold(ImportLocks)
    /\ client' = [pc |-> "mark", tx |-> i]
    /\ UNCHANGED <<vol, run, disk, jr, snap, spool, dest, helper, xlock, op, faults, src, ij, owner>>

(* The intent is durable before the guest is touched; storage is released  *)
(* for the duration of the call, the session is not.                       *)
TransferMark ==
    LET i == client.tx IN
    /\ client.pc = "mark"
    /\ IF ij[i].phase = "captured"
       THEN advanceImportJournal(i, [ij[i] EXCEPT !.phase = "transferring"])
       ELSE UNCHANGED ij
    /\ Drop({"storage"})
    /\ client' = [client EXCEPT !.pc = "rpc"]
    /\ UNCHANGED <<vol, run, disk, jr, snap, spool, dest, helper, xlock, op, faults, src, owner>>

(* The reply is accepted only if journal, Use and readiness still hold.    *)
TransferAfter ==
    LET i == client.tx IN
    /\ client.pc = "rpc"
    /\ owner = [st |-> "done", tx |-> i]
    /\ lock["storage"] = None
    /\ ij[i].phase = "transferring" /\ admitTransferLive(i)
    /\ owner' = NoTransfer
    /\ client' = NoClient
    /\ Drop(ImportLocks)
    /\ UNCHANGED <<vol, run, disk, jr, snap, spool, dest, helper, xlock, op, faults, src, ij>>

(* The command fails, times out or is killed; its flocks go with it while  *)
(* the owner carries on.                                                   *)
ClientLost ==
    /\ client # NoClient
    /\ client' = NoClient
    /\ Drop(ImportLocks)
    /\ UNCHANGED <<vol, run, disk, jr, snap, spool, dest, helper, xlock, op, faults, src, ij, owner>>

-----------------------------------------------------------------------------
(* The transfer inside the runtime owner.                                  *)

(* The owner admits the durable journal, session and Use by itself; one    *)
(* transfer runs at a time under readyMu.                                  *)
admitOwnerImport(i) == ij[i].phase = "transferring" /\ LiveUse(ij[i].gen)

(* Mutant: the owner takes the request for the intent.                     *)
MutOwnerBegin ==
    LET i == client.tx IN
    /\ client.pc \in {"mark", "rpc"}
    /\ owner.st \in {"idle", "done"} /\ owner # [st |-> "done", tx |-> i]
    /\ LiveUse(ij[i].gen)
    /\ owner' = [st |-> "upload", tx |-> i]
    /\ disk' = [disk EXCEPT !.data[i] = "partial"]
    /\ UNCHANGED <<vol, run, jr, snap, spool, dest, helper, lock, xlock, op, faults, src, ij, client>>

(* A request is served while its client waits; one that is still queued    *)
(* when its client dies is left out.                                       *)
OwnerBegin ==
    LET i == client.tx IN
    /\ client.pc = "rpc"
    /\ owner.st \in {"idle", "done"} /\ owner # [st |-> "done", tx |-> i]
    /\ admitOwnerImport(i)
    /\ owner' = [st |-> "upload", tx |-> i]
    /\ disk' = [disk EXCEPT !.data[i] = "partial"]
    /\ UNCHANGED <<vol, run, jr, snap, spool, dest, helper, lock, xlock, op, faults, src, ij, client>>

(* The batch makes the directory if absent and overwrites every file.      *)
OwnerUpload ==
    /\ owner.st = "upload"
    /\ disk' = [disk EXCEPT !.data[owner.tx] = "exact"]
    /\ owner' = [owner EXCEPT !.st = "read"]
    /\ UNCHANGED <<vol, run, jr, snap, spool, dest, helper, lock, xlock, op, faults, src, ij, client>>

(* Every file is read back into a fresh private tree and compared, and the *)
(* binding is admitted again; otherwise the call fails.                    *)
OwnerReadback ==
    /\ owner.st = "read"
    /\ owner' = IF disk.data[owner.tx] = "exact" /\ admitOwnerImport(owner.tx)
                THEN [owner EXCEPT !.st = "done"] ELSE NoTransfer
    /\ UNCHANGED <<exportVars, src, ij, client>>

(* The connection breaks or the deadline passes in the middle.             *)
OwnerFails ==
    /\ owner.st \in {"upload", "read"}
    /\ owner' = NoTransfer
    /\ UNCHANGED <<exportVars, src, ij, client>>

-----------------------------------------------------------------------------
(* VerifyStoppedImport.                                                    *)

(* The published export binds this volume and session, selects exactly the *)
(* imported directory, and the volume is retained, stopped and unmarked.   *)
admitStoppedImportExport(i, e) ==
    /\ jr[e].phase = "published" /\ jr[e].sel = i
    /\ vol.att /\ vol.use = 0 /\ vol.pend = None
    /\ stoppedSession

(* The transaction's directory is the only entry of the parent.            *)
publishedImportRoot(e) ==
    LET d == dest[jr[e].parent] IN
    d.in = {} /\ \A t \in Export : t # e => d.out[t] = "absent"

(* Mutant: the published tree is compared by name only.                    *)
MutComparePublishedTree(i, e) ==
    admitImportSnapshot(i) /\ dest[jr[e].parent].out[e] # "absent"

(* Every entry of the captured tree, and no other, is in the published     *)
(* tree with the same bytes.                                               *)
ComparePublishedTree(i, e) == admitImportSnapshot(i) /\ dest[jr[e].parent].out[e] = "exact"

VerifyStoppedImport(i, e) ==
    /\ ij[i] # None /\ jr[e] # None
    /\ Free(VolumeLocks)
    /\ ij[i].phase = "transferring"
    /\ admitStoppedImportExport(i, e)
    /\ admitExactExportSnapshot(e)
    /\ publishedImportRoot(e)
    /\ ComparePublishedTree(i, e)
    /\ advanceImportJournal(i, [ij[i] EXCEPT !.phase = "verified", !.export = e])
    /\ UNCHANGED <<exportVars, src, client, owner>>

-----------------------------------------------------------------------------
(* The end of a machine takes the transfer of its owner with it.           *)
RuntimeEnds ==
    /\ \E clean \in BOOLEAN : MachineEnds(clean)
    /\ owner' = NoTransfer
    /\ UNCHANGED <<src, ij, client>>

GuestStep ==
    /\ \E d \in Dir, m \in {"absent", "other"} : disk.data[d] # m /\ GuestWrite(d, m)
    /\ UNCHANGED importVars

Next ==
    \/ ExportNext /\ UNCHANGED importVars
    \/ RuntimeEnds \/ GuestStep
    \/ \E i \in Dir : CaptureSelectedSource(i) \/ BeginImport(i) \/ TransferLock(i)
    \/ TransferMark \/ TransferAfter \/ ClientLost
    \/ OwnerBegin \/ OwnerUpload \/ OwnerReadback \/ OwnerFails
    \/ \E i \in Dir, e \in Export : VerifyStoppedImport(i, e)

Spec == Init /\ [][Next]_vars

-----------------------------------------------------------------------------
(* Properties.                                                             *)

(* The owner transfers only while its machine runs, and, like the client   *)
(* after its intent, only for a journal that says so.                      *)
TransferExact ==
    /\ owner # NoTransfer =>
         /\ run.live /\ owner.tx \in Dir /\ ij[owner.tx] # None
         /\ ij[owner.tx].phase \in {"transferring", "verified"}
    /\ client # NoClient => client.tx \in Dir /\ ij[client.tx] # None

(* Well typed; a volume that an export holds is idle and its transaction   *)
(* is still copying; at most one inspector ever reads a snapshot           *)
(* (export_copy.go createExportSnapshot, export_run.go); and locks,        *)
(* copies, spools and what each command has established agree.             *)
TransferInv ==
    /\ ImportTypeOK /\ PendingOwnsVolume /\ OneInspector
    /\ LockExact /\ CopyExact /\ SpoolExact /\ CommandExact /\ TransferExact

(* A transaction's bytes are in the workspace only after the journal       *)
(* durably says so: an interrupted transfer is always visible.             *)
IntentBeforeEffect ==
    \A i \in Dir : disk.data[i] \in {"partial", "exact"} =>
        ij[i] # None /\ ij[i].phase \in {"transferring", "verified"}

(* A verified import rests on a snapshot, taken of the stopped volume,     *)
(* that held exactly the captured bytes, and nothing transfers into the    *)
(* directory again: not even the call of a client that died.               *)
VerifiedEvidence ==
    \A i \in Dir : ij[i] # None /\ ij[i].phase = "verified" =>
        /\ jr[ij[i].export] # None /\ jr[ij[i].export].phase = "published"
        /\ jr[ij[i].export].snap[i] = "exact"
        /\ owner.tx # i
=============================================================================
