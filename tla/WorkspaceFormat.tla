--------------------------- MODULE WorkspaceFormat ---------------------------
(***************************************************************************)
(* The creation of one managed workspace volume: the exclusive raw file,   *)
(* the format in an isolated machine, the format journal                   *)
(* (internal/workspaceformat), the workspace record and its promotion      *)
(* (internal/workspacex/create_managed.go, promotion.go), and the binding  *)
(* of a volume formatted by an older version (reconcile_legacy.go,         *)
(* legacy_binding.go).                                                     *)
(*                                                                         *)
(* Each durable object is a pair: what processes see (mem) and what a      *)
(* power loss is sure to keep (dur).  A rename changes mem; the sync of    *)
(* the directory makes it durable.  Every command may fail or be killed    *)
(* between two steps; a killed command leaves the formatter running.       *)
(***************************************************************************)
EXTENDS Naturals

CONSTANTS
    Proc,      \* boxwarden processes
    None,
    MaxFault   \* bound: failures, kills and power losses

ASSUME FormatAssumption == None \notin Proc /\ MaxFault \in Nat

VARIABLES
    ver,      \* version of the journal: 2, or 1 for a volume of an older release
    jr,       \* <volume>.format.json
    raw,      \* <volume>.raw: the content of the file
    rcd,      \* workspaces/<volume>.json
    bind,     \* <volume>.binding.json
    drift,    \* the device number differs from the version 1 receipt
    vm,       \* the formatter machine runs
    formats,  \* history: how often mkfs was started on the file
    use,      \* a session's machine has the volume attached
    lock,     \* the domain's storage lock
    op, told, faults

vars == <<ver, jr, raw, rcd, bind, drift, vm, formats, use, lock, op, told, faults>>

JournalStates == {"absent", "torn", "reserved", "formatting", "failed", "verified"}
Pair(S) == [mem : S, dur : S]
Both(x) == [mem |-> x, dur |-> x]
Synced(x) == Both(x.mem)

PCs == {"idle", "look", "admit", "create", "initial", "raw", "rawsync", "intent", "intentsync",
        "format", "vm", "verify", "rename", "vsync", "settle", "publish", "csync", "promote",
        "psync", "unlink", "bsync"}

(* Steps of Create between the reservation and the verified publication:   *)
(* their failure is recorded in the journal.                               *)
Failing == {"raw", "rawsync", "intent", "intentsync", "format", "vm", "verify"}

TypeOK ==
    /\ ver \in {1, 2}
    /\ jr \in Pair(JournalStates)
    /\ raw \in Pair({"absent", "blank", "torn", "ext4"})
    /\ rcd \in Pair({"absent", "creating", "available"})
    /\ bind \in Pair({"absent", "linked", "exact"})
    /\ drift \in BOOLEAN /\ vm \in BOOLEAN /\ use \in BOOLEAN
    /\ formats \in Nat
    /\ lock \in Proc \cup {None}
    /\ op \in [Proc -> PCs]
    /\ told \subseteq {"created", "bound"}
    /\ faults \in 0..MaxFault

(* A new volume, or an available one of the older release.                 *)
Init ==
    /\ \/ /\ ver = 2 /\ jr = Both("absent") /\ raw = Both("absent") /\ rcd = Both("absent")
       \/ /\ ver = 1 /\ jr = Both("verified") /\ raw = Both("ext4") /\ rcd = Both("available")
    /\ bind = Both("absent") /\ drift = FALSE
    /\ vm = FALSE /\ formats = 0 /\ use = FALSE
    /\ lock = None /\ op = [p \in Proc |-> "idle"] /\ told = {} /\ faults = 0

-----------------------------------------------------------------------------
Goto(p, pc) == op' = [op EXCEPT ![p] = pc]
Unlock(p) == lock' = IF lock = p THEN None ELSE lock
Return(p) == Goto(p, "idle") /\ Unlock(p)

(* The host reads magic and UUID only: a format cut short may show both.   *)
verifyExt4Header == raw.mem \in {"torn", "ext4"}

(* A version 1 receipt needs the same device, or the exact binding, which  *)
(* is unreadable while it has two links.                                   *)
readLegacyBinding == bind.mem # "linked"
hostIdentityMatches ==
    ver = 2 \/ (readLegacyBinding /\ (bind.mem = "exact" \/ ~drift))

admitVerified == jr.mem = "verified" /\ hostIdentityMatches /\ verifyExt4Header

(* Mutant: admission believes the journal it reads without syncing it.     *)
MutAdmitSync == UNCHANGED <<jr, bind>>

(* Admission of a version 2 journal ends with a sync of the directory.     *)
AdmitSync == /\ jr' = IF ver = 2 THEN Synced(jr) ELSE jr
             /\ UNCHANGED bind

-----------------------------------------------------------------------------
(* CreateManaged.                                                          *)

CreateBegin(p) ==
    /\ op[p] = "idle" /\ ver = 2
    /\ Goto(p, "look")
    /\ UNCHANGED <<ver, jr, raw, rcd, bind, drift, vm, formats, use, lock, told, faults>>

(* An existing record that is not in use is only promoted again.           *)
loadManagedRecord(p) ==
    /\ op[p] = "look" /\ lock = None
    /\ Goto(p, CASE rcd.mem = "absent" -> "admit"
                 [] use -> "idle"
                 [] OTHER -> "promote")
    /\ UNCHANGED <<ver, jr, raw, rcd, bind, drift, vm, formats, use, lock, told, faults>>

(* Mutant: a creator without a record never looks for a verified journal.  *)
MutAdmitExisting(p) ==
    /\ op[p] = "admit"
    /\ Goto(p, "create")
    /\ UNCHANGED <<ver, jr, raw, rcd, bind, drift, vm, formats, use, lock, told, faults>>

(* No lock is held: another process may be formatting meanwhile.           *)
AdmitExisting(p) ==
    /\ op[p] = "admit"
    /\ IF admitVerified THEN AdmitSync /\ Goto(p, "publish")
       ELSE UNCHANGED <<jr, bind>> /\ Goto(p, "create")
    /\ UNCHANGED <<ver, raw, rcd, drift, vm, formats, use, lock, told, faults>>

(* Mutant: a journal that records a failure may be started over.           *)
MutReserveName(p) ==
    /\ op[p] = "create" /\ lock = None
    /\ IF jr.mem \in {"absent", "failed"}
       THEN /\ jr' = [jr EXCEPT !.mem = "torn"]
            /\ raw' = [raw EXCEPT !.mem = "absent"]
            /\ lock' = p /\ Goto(p, "initial")
       ELSE UNCHANGED <<jr, raw>> /\ Return(p)
    /\ UNCHANGED <<ver, rcd, bind, drift, vm, formats, use, told, faults>>

(* The journal's name is created exclusively, and never again.             *)
ReserveName(p) ==
    /\ op[p] = "create" /\ lock = None
    /\ IF jr.mem = "absent"
       THEN /\ jr' = [jr EXCEPT !.mem = "torn"]
            /\ lock' = p /\ Goto(p, "initial")
       ELSE UNCHANGED jr /\ Return(p)
    /\ UNCHANGED <<ver, raw, rcd, bind, drift, vm, formats, use, told, faults>>

writeInitialJournal(p) ==
    /\ op[p] = "initial"
    /\ jr' = Both("reserved")
    /\ Goto(p, "raw")
    /\ UNCHANGED <<ver, raw, rcd, bind, drift, vm, formats, use, lock, told, faults>>

CreateRaw(p) ==
    /\ op[p] = "raw" /\ raw.mem = "absent"
    /\ raw' = [raw EXCEPT !.mem = "blank"]
    /\ Goto(p, "rawsync")
    /\ UNCHANGED <<ver, jr, rcd, bind, drift, vm, formats, use, lock, told, faults>>

(* Marker, file and directory are synced before the intent names the file. *)
SyncRaw(p) ==
    /\ op[p] = "rawsync"
    /\ raw' = Synced(raw)
    /\ Goto(p, "intent")
    /\ UNCHANGED <<ver, jr, rcd, bind, drift, vm, formats, use, lock, told, faults>>

FormattingIntent(p) ==
    /\ op[p] = "intent"
    /\ jr' = [jr EXCEPT !.mem = "formatting"]
    /\ Goto(p, "intentsync")
    /\ UNCHANGED <<ver, raw, rcd, bind, drift, vm, formats, use, lock, told, faults>>

SyncIntent(p) ==
    /\ op[p] = "intentsync"
    /\ jr' = Synced(jr)
    /\ Goto(p, "format")
    /\ UNCHANGED <<ver, raw, rcd, bind, drift, vm, formats, use, lock, told, faults>>

(* The formatter admits journal, identity and marker once more, then mkfs  *)
(* runs in the isolated machine.                                           *)
FormatAndVerify(p) ==
    /\ op[p] = "format"
    /\ jr.mem = "formatting" /\ raw.mem = "blank"
    /\ vm' = TRUE /\ formats' = formats + 1
    /\ raw' = [raw EXCEPT !.mem = "torn"]
    /\ Goto(p, "vm")
    /\ UNCHANGED <<ver, jr, rcd, bind, drift, use, lock, told, faults>>

(* The guest has formatted, checked and probed its disk and stopped; the   *)
(* process that started it, if it still lives, gets the report.            *)
formatInLinuxGuest ==
    /\ vm
    /\ vm' = FALSE
    /\ raw' = [raw EXCEPT !.mem = "ext4"]
    /\ op' = [p \in Proc |-> IF op[p] = "vm" THEN "verify" ELSE op[p]]
    /\ UNCHANGED <<ver, jr, rcd, bind, drift, formats, use, lock, told, faults>>

(* Report, journal, identity and header agree; the file is synced.         *)
VerifyFormat(p) ==
    /\ op[p] = "verify"
    /\ jr.mem = "formatting" /\ verifyExt4Header
    /\ raw' = Synced(raw)
    /\ Goto(p, "rename")
    /\ UNCHANGED <<ver, jr, rcd, bind, drift, vm, formats, use, lock, told, faults>>

PublishVerified(p) ==
    /\ op[p] = "rename"
    /\ jr' = [jr EXCEPT !.mem = "verified"]
    /\ Goto(p, "vsync")
    /\ UNCHANGED <<ver, raw, rcd, bind, drift, vm, formats, use, lock, told, faults>>

SyncVerified(p) ==
    /\ op[p] = "vsync"
    /\ jr' = Synced(jr)
    /\ Goto(p, "publish") /\ Unlock(p)
    /\ UNCHANGED <<ver, raw, rcd, bind, drift, vm, formats, use, told, faults>>

(* The publication returned an error: what stands there decides.           *)
settleVerifiedJournal(p) ==
    /\ op[p] = "settle"
    /\ IF jr.mem = "verified" /\ admitVerified
       THEN jr' = Synced(jr) /\ Goto(p, "publish") /\ Unlock(p)
       ELSE UNCHANGED jr /\ Return(p)
    /\ UNCHANGED <<ver, raw, rcd, bind, drift, vm, formats, use, told, faults>>

SaveCreating(p) ==
    /\ op[p] = "publish" /\ lock = None
    /\ IF rcd.mem = "absent"
       THEN /\ rcd' = [rcd EXCEPT !.mem = "creating"]
            /\ lock' = p /\ Goto(p, "csync")
       ELSE UNCHANGED <<rcd, lock>> /\ Goto(p, IF use THEN "idle" ELSE "promote")
    /\ UNCHANGED <<ver, jr, raw, bind, drift, vm, formats, use, told, faults>>

SyncCreating(p) ==
    /\ op[p] = "csync"
    /\ rcd' = Synced(rcd)
    /\ Goto(p, "promote") /\ Unlock(p)
    /\ UNCHANGED <<ver, jr, raw, bind, drift, vm, formats, use, told, faults>>

(* A record becomes available only after a fresh admission, whose sync     *)
(* makes the journal durable first.                                        *)
PromoteVerified(p) ==
    /\ op[p] = "promote" /\ lock = None
    /\ IF rcd.mem # "absent" /\ ~use /\ admitVerified
       THEN /\ AdmitSync
            /\ rcd' = [rcd EXCEPT !.mem = "available"]
            /\ lock' = p /\ Goto(p, "psync")
       ELSE UNCHANGED <<jr, bind, rcd, lock>> /\ Goto(p, "idle")
    /\ UNCHANGED <<ver, raw, drift, vm, formats, use, told, faults>>

syncWorkspaceRecords(p) ==
    /\ op[p] = "psync"
    /\ rcd' = Synced(rcd)
    /\ told' = told \cup {"created"}
    /\ Return(p)
    /\ UNCHANGED <<ver, jr, raw, bind, drift, vm, formats, use, faults>>

-----------------------------------------------------------------------------
(* ReconcileLegacy: a write-once binding for a version 1 receipt.          *)

BindAdmitted ==
    /\ ver = 1 /\ jr.mem = "verified" /\ rcd.mem = "available" /\ ~use
    /\ verifyExt4Header /\ readLegacyBinding

BindLegacy(p) ==
    /\ op[p] = "idle" /\ lock = None
    /\ BindAdmitted
    /\ lock' = p
    /\ IF bind.mem = "exact" THEN UNCHANGED bind /\ Goto(p, "bsync")
       ELSE bind' = [bind EXCEPT !.mem = "linked"] /\ Goto(p, "unlink")
    /\ UNCHANGED <<ver, jr, raw, rcd, drift, vm, formats, use, told, faults>>

writeLegacyBinding(p) ==
    /\ op[p] = "unlink"
    /\ bind' = [bind EXCEPT !.mem = "exact"]
    /\ Goto(p, "bsync")
    /\ UNCHANGED <<ver, jr, raw, rcd, drift, vm, formats, use, lock, told, faults>>

SyncBinding(p) ==
    /\ op[p] = "bsync"
    /\ bind' = Synced(bind)
    /\ told' = told \cup {"bound"}
    /\ Return(p)
    /\ UNCHANGED <<ver, jr, raw, rcd, drift, vm, formats, use, faults>>

-----------------------------------------------------------------------------
(* The volume in use, and its storage.                                     *)

Launch ==
    /\ lock = None /\ ~use
    /\ rcd.mem = "available" /\ admitVerified
    /\ AdmitSync /\ use' = TRUE
    /\ UNCHANGED <<ver, raw, rcd, drift, vm, formats, lock, op, told, faults>>

MachineEnds ==
    /\ use /\ use' = FALSE
    /\ UNCHANGED <<ver, jr, raw, rcd, bind, drift, vm, formats, lock, op, told, faults>>

(* The removable storage comes back under another device number.           *)
Remount ==
    /\ ver = 1 /\ ~drift /\ ~use
    /\ \A p \in Proc : op[p] = "idle"
    /\ drift' = TRUE
    /\ UNCHANGED <<ver, jr, raw, rcd, bind, vm, formats, use, lock, op, told, faults>>

-----------------------------------------------------------------------------
(* Faults.                                                                 *)

Fault == faults < MaxFault /\ faults' = faults + 1

(* A step of the format fails: its machine is killed and reaped, and the   *)
(* failure is recorded, if that works.                                     *)
FormatFails(p) ==
    /\ op[p] \in Failing /\ Fault
    /\ vm' = FALSE
    /\ jr' \in {jr, [jr EXCEPT !.mem = "failed"], Both("failed")}
    /\ Return(p)
    /\ UNCHANGED <<ver, raw, rcd, bind, drift, formats, use, told>>

(* An error of the verified publication, before or after its rename, never *)
(* marks the journal failed.                                               *)
PublicationFails(p) ==
    /\ op[p] \in {"rename", "vsync"} /\ Fault
    /\ Goto(p, "settle")
    /\ UNCHANGED <<ver, jr, raw, rcd, bind, drift, vm, formats, use, lock, told>>

(* Any other error; the deferred removal unlinks a linked binding's        *)
(* temporary name.                                                         *)
CommandFails(p) ==
    /\ op[p] \notin Failing \cup {"idle", "rename", "vsync"} /\ Fault
    /\ bind' = IF op[p] = "unlink" THEN [bind EXCEPT !.mem = "exact"] ELSE bind
    /\ Return(p)
    /\ UNCHANGED <<ver, jr, raw, rcd, drift, vm, formats, use, told>>

Killed(p) ==
    /\ op[p] # "idle" /\ Fault
    /\ Return(p)
    /\ UNCHANGED <<ver, jr, raw, rcd, bind, drift, vm, formats, use, told>>

Survives(x) == {Both(x.mem), Both(x.dur)}

PowerLoss ==
    /\ Fault
    /\ jr' \in Survives(jr) /\ rcd' \in Survives(rcd) /\ bind' \in Survives(bind)
    /\ raw' \in IF raw.mem = raw.dur THEN {raw}
                ELSE Survives(raw) \cup (IF raw.mem \in {"torn", "ext4"} THEN {Both("torn")} ELSE {})
    /\ vm' = FALSE /\ use' = FALSE
    /\ lock' = None /\ op' = [p \in Proc |-> "idle"]
    /\ UNCHANGED <<ver, drift, formats, told>>

-----------------------------------------------------------------------------
CommandStep(p) ==
    \/ loadManagedRecord(p) \/ AdmitExisting(p) \/ ReserveName(p) \/ writeInitialJournal(p)
    \/ CreateRaw(p) \/ SyncRaw(p) \/ FormattingIntent(p) \/ SyncIntent(p) \/ FormatAndVerify(p)
    \/ VerifyFormat(p) \/ PublishVerified(p) \/ SyncVerified(p) \/ settleVerifiedJournal(p)
    \/ SaveCreating(p) \/ SyncCreating(p) \/ PromoteVerified(p) \/ syncWorkspaceRecords(p)
    \/ writeLegacyBinding(p) \/ SyncBinding(p)

Next ==
    \/ \E p \in Proc : CommandStep(p) \/ CreateBegin(p) \/ BindLegacy(p)
    \/ formatInLinuxGuest
    \/ Launch \/ MachineEnds \/ Remount
    \/ \E p \in Proc : FormatFails(p) \/ PublicationFails(p) \/ CommandFails(p) \/ Killed(p)
    \/ PowerLoss

(* Commands run on, the format's machine ends, a lock that keeps becoming  *)
(* free is taken, and the operator repeats the creation.                   *)
Fairness ==
    /\ \A p \in Proc : SF_vars(CommandStep(p)) /\ SF_vars(CreateBegin(p))
    /\ WF_vars(formatInLinuxGuest) /\ WF_vars(MachineEnds)

Spec == Init /\ [][Next]_vars /\ Fairness

-----------------------------------------------------------------------------
(* Properties.                                                             *)

(* A volume ID is formatted at most once, whoever retries after whatever   *)
(* failure, and never once it holds a qualified filesystem.                *)
FormattedOnce == formats <= 1 /\ (ver = 1 => formats = 0)

(* Whatever a process can attach is completely formatted, with its journal *)
(* and its bytes durable, and no formatter still writes to it: also after  *)
(* a power loss, a failed sync or a race of two creators.                  *)
AvailableQualified ==
    rcd.mem = "available" \/ use =>
        jr = Both("verified") /\ raw = Both("ext4") /\ ~vm

(* A reported success survives a power loss.                               *)
ReportedDurable ==
    /\ "created" \in told => rcd = Both("available")
    /\ "bound" \in told => bind = Both("exact")

(* A durable verified journal is final: no late failure of another         *)
(* creator, no recovery and no retry takes it back.                        *)
VerifiedFinal ==
    [][jr.dur = "verified" => jr'.dur = "verified" /\ jr'.mem = "verified"]_vars

(* A volume whose format was verified becomes available by repeating the   *)
(* command, although a formatted volume is never formatted again.          *)
VerifiedPublished == jr.dur = "verified" ~> rcd.mem = "available"

(* The steps under the storage lock, and among them the steps between the  *)
(* reservation of the journal's name and the verified publication.         *)
Creating == Failing \cup {"initial", "rename", "vsync", "settle"}
Locking == Creating \cup {"csync", "psync", "unlink", "bsync"}

(* Where a process stands fixes the journal, the file and the machine.     *)
PhaseExact(p) ==
    /\ op[p] \in Locking => lock = p
    /\ op[p] \in PCs \ {"idle", "unlink", "bsync"} => ver = 2
    /\ op[p] \in {"unlink", "bsync"} => ver = 1
    /\ op[p] = "initial" => jr.mem = "torn"
    /\ op[p] \in {"raw", "rawsync", "intent"} => jr = Both("reserved")
    /\ op[p] = "intentsync" => jr = [mem |-> "formatting", dur |-> "reserved"]
    /\ op[p] \in {"format", "vm", "verify", "rename"} => jr = Both("formatting")
    /\ op[p] = "vsync" => jr.mem = "verified"
    /\ op[p] \in {"raw", "rawsync", "intent", "intentsync", "format"} => formats = 0
    /\ op[p] = "rawsync" => raw.mem = "blank"
    /\ op[p] \in {"intent", "intentsync", "format"} => raw = Both("blank")
    /\ op[p] = "vm" => vm
    /\ op[p] \in {"verify", "rename"} => raw.mem = "ext4" /\ ~vm
    /\ op[p] \in {"rename", "vsync", "settle"} => raw = Both("ext4") /\ ~vm
    /\ op[p] \in {"publish", "csync", "promote", "psync"} => jr = Both("verified")
    /\ op[p] = "csync" => rcd.mem = "creating"
    /\ op[p] = "psync" => rcd.mem = "available"
    /\ op[p] = "bsync" => bind.mem = "exact"

(* What the journal says of the file, in memory and after a power loss.    *)
JournalExact ==
    /\ jr.mem \in {"absent", "torn"} =>
           jr.dur \in {"absent", jr.mem} /\ raw = Both("absent")
    /\ jr.mem \in {"absent", "torn", "reserved"} \/ jr.dur \in {"absent", "torn", "reserved"} =>
           formats = 0 /\ ~vm
    /\ jr.dur \in {"absent", "torn"} => jr.mem \in {"absent", "torn"}
    /\ vm => jr = Both("formatting") /\ formats = 1
    /\ jr.mem = "verified" => raw = Both("ext4") /\ ~vm
    /\ jr.dur = "verified" => jr.mem = "verified"
    /\ ver = 1 => jr = Both("verified") /\ rcd = Both("available") /\ formats = 0

(* A record, and a machine that uses the volume, stand on a journal that   *)
(* is verified and durable; later states of records are never lost.        *)
RecordExact ==
    /\ rcd # Both("absent") \/ use => jr = Both("verified")
    /\ rcd.dur = "available" => rcd.mem = "available"
    /\ rcd.dur = "creating" => rcd.mem # "absent"
    /\ bind.dur = "exact" => bind.mem = "exact"

(* Well typed; one format per volume; what was reported is durable; every  *)
(* step finds the journal, the file and the record it was planned for      *)
(* (workspaceformat/format.go Create, admitVerified).                      *)
FormatInv ==
    /\ TypeOK /\ FormattedOnce /\ ReportedDurable
    /\ JournalExact /\ RecordExact /\ \A p \in Proc : PhaseExact(p)

(* A verified format is neither taken back nor stuck (format.go Create,    *)
(* settleVerifiedJournal).                                                 *)
VerifiedKept == VerifiedFinal /\ VerifiedPublished
=============================================================================
