---------------------------- MODULE PreparedBase ----------------------------
(***************************************************************************)
(* The preparation of a base system: the attempt and its journal           *)
(* (internal/basebuild build.go), the qualification on a fresh clone       *)
(* (internal/alphaqual), the cache of prepared bases (prepare.go), and the *)
(* domain's golden records and current pointer (internal/golden).          *)
(*                                                                         *)
(* The "prepared-base" lock covers a whole Prepare, so one preparation     *)
(* runs at a time; golden registrations by the operator interleave with    *)
(* it.  An attempt stands for the attempt ID and the candidate ID, which   *)
(* share one nonce.  A renamed file is visible at once (mem) and survives  *)
(* a power loss only after its directory was synced (dur).                 *)
(***************************************************************************)
EXTENDS Naturals

CONSTANTS
    Attempt,   \* attempt IDs, each with its candidate object and golden revision
    Key,       \* preparation keys: digests of recipe and sources
    None,
    MaxFault,  \* bound: kills, power losses and failed directory syncs
    MaxActs    \* bound: the operator's edits and registrations

ASSUME PreparedAssumption == None \notin Attempt \cup Key /\ {MaxFault, MaxActs} \subseteq Nat

VARIABLES
    src,       \* the key of the sources as they are on disk now
    journal,   \* <attempt>/attempt.json, as a pair; None when absent
    dir,       \* attempts whose directory exists
    next,      \* attempts with a left-over attempt.json.next
    cache,     \* prepared/records/<key>.json, as a pair
    tmp,       \* its .next: absent, scratch, or linked to the record
    vm,        \* the candidate: absent, stopped, running the installer
    ver,       \* its disk: 0 none, 1 blank or partial, 2 installed, 3 altered later
    clone,     \* the qualification clone of the candidate
    ev,        \* qualification files: none, bom, passed, failed
    seed,      \* attempts whose builder verifier file exists
    script,    \* attempts with a seed script alive
    built,     \* history: the key of the inputs staged for the attempt
    proved,    \* history: attempts whose clone passed and was proved stopped
    failed,    \* history: attempts recorded failed since they were reserved
    rec, cur,  \* golden records and current.json, as pairs
    torn,      \* history: revisions whose record directory failed to sync
    glock,     \* the golden lock: None, "prepare" or "operator"
    reg,       \* the operator's registration: its revision and step
    op,        \* the running Prepare
    result,    \* what the last Prepare returned
    faults, acts

store == <<journal, dir, next, cache, tmp>>
object == <<vm, ver, clone>>
host == <<ev, seed, script>>
history == <<built, proved, failed>>
golden == <<rec, cur, torn, glock, reg>>
bounds == <<faults, acts>>
vars == <<src, store, object, host, history, golden, op, result, bounds>>

Pair(S) == [mem : S, dur : S]
Both(x) == [mem |-> x, dur |-> x]
Synced(f) == [x \in DOMAIN f |-> Both(f[x].mem)]

Phases == {"reserved", "rendered", "created", "installer-running", "preparing", "finalizing",
           "stopping", "candidate-stopped", "qualifying", "admission-pending", "admitted", "failed"}
Journal == [phase : Phases, key : Key, receipt : BOOLEAN, ident : 0..3]
Prepared == [att : Attempt, ident : 1..3]

BuildPCs == {"stage", "verifier", "render", "create", "configure", "launch",
             "installer-running", "preparing", "finalizing", "stopping", "stopped"}
QualifyPCs == {"register", "clone", "start", "inspect", "stop", "evidence", "recheck"}
PCs == BuildPCs \cup QualifyPCs \cup
       {"idle", "load", "reserve", "first", "fail", "written", "qfail", "pending", "store", "unlink", "complete"}

TypeOK ==
    /\ src \in Key
    /\ journal \in [Attempt -> Pair(Journal \cup {None})]
    /\ dir \subseteq Attempt /\ next \subseteq Attempt
    /\ cache \in [Key -> Pair(Prepared \cup {None})]
    /\ tmp \in [Key -> {"none", "scratch", "linked"}]
    /\ vm \in [Attempt -> {"absent", "stopped", "running"}]
    /\ ver \in [Attempt -> 0..3]
    /\ clone \in [Attempt -> {"none", "stopped", "running"}]
    /\ ev \in [Attempt -> {"none", "bom", "passed", "failed"}]
    /\ seed \subseteq Attempt /\ script \subseteq Attempt
    /\ built \in [Attempt -> Key \cup {None}]
    /\ proved \subseteq Attempt /\ failed \subseteq Attempt
    /\ rec \in [Attempt -> Pair(BOOLEAN)] /\ cur \in Pair(Attempt \cup {None})
    /\ torn \subseteq Attempt
    /\ glock \in {None, "prepare", "operator"}
    /\ reg \in [rev : Attempt \cup {None}, pc : {"idle", "record", "pointer"}]
    /\ op \in [pc : PCs, att : Attempt \cup {None}, key : Key \cup {None},
               bkey : Key \cup {None}, seen : 0..3, unproven : BOOLEAN]
    /\ result \in [att : Attempt, key : Key, seen : 0..3] \cup {None}
    /\ faults \in 0..MaxFault /\ acts \in 0..MaxActs

NoOp == [pc |-> "idle", att |-> None, key |-> None, bkey |-> None, seen |-> 0,
         unproven |-> FALSE]

Init ==
    /\ src \in Key
    /\ journal = [a \in Attempt |-> Both(None)] /\ dir = {} /\ next = {}
    /\ cache = [k \in Key |-> Both(None)] /\ tmp = [k \in Key |-> "none"]
    /\ vm = [a \in Attempt |-> "absent"] /\ ver = [a \in Attempt |-> 0]
    /\ clone = [a \in Attempt |-> "none"] /\ ev = [a \in Attempt |-> "none"]
    /\ seed = {} /\ script = {}
    /\ built = [a \in Attempt |-> None] /\ proved = {} /\ failed = {}
    /\ rec = [a \in Attempt |-> Both(FALSE)] /\ cur = Both(None) /\ torn = {}
    /\ glock = None /\ reg = [rev |-> None, pc |-> "idle"]
    /\ op = NoOp /\ result = None /\ faults = 0 /\ acts = 0

-----------------------------------------------------------------------------
att == op.att
Goto(pc) == op' = [op EXCEPT !.pc = pc]
Return == op' = NoOp

Fault == faults < MaxFault /\ faults' = faults + 1 /\ UNCHANGED acts
NoFault == UNCHANGED bounds
Act == acts < MaxActs /\ acts' = acts + 1 /\ UNCHANGED faults

State(ph, k) == [phase |-> ph, key |-> k, receipt |-> FALSE, ident |-> 0]

(* writeAttempt creates attempt.json.next exclusively, renames it and      *)
(* syncs the directory; it may fail before or after the rename.            *)
writeAttempt(a, state, ok, bad) ==
    \/ /\ a \notin next
       /\ \/ journal' = [journal EXCEPT ![a] = Both(state)] /\ Goto(ok) /\ NoFault
          \/ journal' = [journal EXCEPT ![a].mem = state] /\ Goto(bad) /\ Fault
       /\ failed' = IF state.phase = "failed" THEN failed \cup {a} ELSE failed
    \/ Goto(bad) /\ NoFault /\ UNCHANGED <<journal, failed>>

ReadAttempt(a) == IF a \in dir THEN journal[a].mem ELSE None

exactStopped(a) == vm[a] = "stopped"

(* Mutant: the name of the candidate is taken for its identity.            *)
MutexactCandidateIdentity(a, ident) == TRUE

(* The digest of the bundle's files, with device, inode and size.          *)
exactCandidateIdentity(a, ident) == ver[a] = ident

verifyQualificationFiles(a) == ev[a] = "passed"

(* Journal and cache record describe the same qualified candidate.         *)
verifyAdmittedAttempt(r, k) ==
    LET state == ReadAttempt(r.att) IN
    /\ state # None
    /\ state.phase \in {"admission-pending", "admitted"}
    /\ state.key = k /\ state.receipt /\ state.ident = r.ident

-----------------------------------------------------------------------------
(* Prepare.                                                                *)

EditSource(k) ==
    /\ Act /\ src # k /\ src' = k
    /\ UNCHANGED <<store, object, host, history, golden, op, result>>

(* The key is verified before the lock is taken; a request usually brings  *)
(* a fresh attempt ID, but may repeat one.                                 *)
Prepare(a) ==
    /\ op.pc = "idle"
    /\ op' = [NoOp EXCEPT !.pc = "load", !.att = a, !.key = src]
    /\ result' = None
    /\ UNCHANGED <<src, store, object, host, history, golden, bounds>>

(* A record whose scratch link was not removed is finished first.          *)
finishPublishedRecord ==
    /\ op.pc = "load" /\ cache[op.key].mem # None /\ tmp[op.key] = "linked"
    /\ tmp' = [tmp EXCEPT ![op.key] = "none"]
    /\ \/ cache' = Synced(cache) /\ UNCHANGED op /\ NoFault
       \/ UNCHANGED cache /\ Return /\ Fault
    /\ UNCHANGED <<src, journal, dir, next, object, host, history, golden, result>>

(* A cached record is handed out only after its attempt, its files, the    *)
(* stopped candidate and its bytes were checked again.                     *)
LoadFound ==
    /\ op.pc = "load" /\ cache[op.key].mem # None /\ tmp[op.key] = "none"
    /\ LET r == cache[op.key].mem IN
       IF /\ verifyAdmittedAttempt(r, op.key) /\ verifyQualificationFiles(r.att)
          /\ exactStopped(r.att) /\ exactCandidateIdentity(r.att, r.ident)
       THEN op' = [op EXCEPT !.pc = "complete", !.att = r.att, !.seen = ver[r.att]]
       ELSE Return
    /\ UNCHANGED <<src, store, object, host, history, golden, result, bounds>>

pendingMatches(state) ==
    state.phase = "admission-pending" /\ state.key = op.key /\ state.receipt

(* Without a cached record an existing attempt is continued only when its  *)
(* journal holds a pending admission for this key and candidate.           *)
resumePendingAdmission ==
    /\ op.pc = "load" /\ cache[op.key].mem = None
    /\ LET state == ReadAttempt(att) IN
       IF state = None THEN Goto("reserve")
       ELSE IF /\ pendingMatches(state) /\ verifyQualificationFiles(att)
               /\ exactStopped(att) /\ exactCandidateIdentity(att, state.ident)
       THEN op' = [op EXCEPT !.pc = "store", !.seen = ver[att]]
       ELSE Return
    /\ UNCHANGED <<src, store, object, host, history, golden, result, bounds>>

(* storePrepared: an older scratch file is replaced, the record is linked  *)
(* without replacing one, the scratch link removed and the directory       *)
(* synced.                                                                 *)
storePrepared ==
    /\ op.pc = "store" /\ cache[op.key].mem = None
    /\ cache' = [cache EXCEPT ![op.key].mem = [att |-> att, ident |-> journal[att].mem.ident]]
    /\ tmp' = [tmp EXCEPT ![op.key] = "linked"]
    /\ Goto("unlink")
    /\ UNCHANGED <<src, journal, dir, next, object, host, history, golden, result, bounds>>

StoreFinish ==
    /\ op.pc = "unlink"
    /\ tmp' = [tmp EXCEPT ![op.key] = "none"]
    /\ \/ cache' = Synced(cache) /\ Goto("complete") /\ NoFault
       \/ UNCHANGED cache /\ Return /\ Fault
    /\ UNCHANGED <<src, journal, dir, next, object, host, history, golden, result>>

Success == [att |-> att, key |-> op.key, seen |-> op.seen]

(* completeAdmission: an admitted journal is left alone; otherwise a       *)
(* left-over attempt.json.next is cleared and the journal advanced.        *)
completeAdmission ==
    /\ op.pc = "complete"
    /\ LET state == ReadAttempt(att) IN
       \/ /\ state.phase = "admitted"
          /\ result' = Success /\ Return /\ NoFault
          /\ UNCHANGED <<journal, next, failed>>
       \/ /\ state.phase = "admission-pending"
          /\ next' = next \ {att}
          /\ \/ /\ journal' = [journal EXCEPT ![att] = Both([state EXCEPT !.phase = "admitted"])]
                /\ result' = Success /\ NoFault
             \/ /\ journal' = [journal EXCEPT ![att].mem = [state EXCEPT !.phase = "admitted"]]
                /\ UNCHANGED result /\ Fault
             \/ UNCHANGED <<journal, result>> /\ NoFault
          /\ Return /\ UNCHANGED failed
    /\ UNCHANGED <<src, dir, cache, tmp, object, host, built, proved, golden>>

(* An error before the cache was touched, or a failed scratch write.       *)
PrepareFails ==
    /\ op.pc \in {"load", "reserve", "written", "store", "complete"}
    /\ Return
    /\ UNCHANGED <<src, store, object, host, history, golden, result, bounds>>

-----------------------------------------------------------------------------
(* Build.                                                                  *)

(* The sources are verified again, the candidate must be absent, and the   *)
(* attempt directory is created exclusively.                               *)
Reserve ==
    /\ op.pc = "reserve"
    /\ IF vm[att] # "absent" \/ att \in dir
       THEN Return /\ UNCHANGED <<dir, failed>>
       ELSE /\ dir' = dir \cup {att} /\ failed' = failed \ {att}
            /\ op' = [op EXCEPT !.pc = "first", !.bkey = src]
    /\ UNCHANGED <<src, journal, next, cache, tmp, object, host, built, proved, golden, result, bounds>>

FirstJournal ==
    /\ op.pc = "first"
    /\ writeAttempt(att, State("reserved", op.bkey), "stage", "idle")
    /\ UNCHANGED <<src, dir, next, cache, tmp, object, host, built, proved, golden, result>>

(* The sources are copied; the copies must give the verified key.          *)
stageBuildInputs(a) ==
    /\ built' = [built EXCEPT ![a] = src]
    /\ Goto(IF src = op.bkey THEN "verifier" ELSE "fail")

Stage ==
    /\ op.pc = "stage"
    /\ stageBuildInputs(att)
    /\ UNCHANGED <<src, store, object, host, proved, failed, golden, result, bounds>>

(* The builder verifier; then a seed script, which reads it, is started.   *)
BuilderVerifier ==
    /\ op.pc = "verifier"
    /\ seed' = seed \cup {att} /\ script' = script \cup {att}
    /\ Goto("render")
    /\ UNCHANGED <<src, store, object, ev, history, golden, result, bounds>>

(* RunOwned: the script ended and was reaped; or its reap is unproven and  *)
(* it may run on.                                                          *)
RunOwned ==
    /\ op.pc = "render"
    /\ \/ /\ script' = script \ {att}
          /\ writeAttempt(att, State("rendered", op.bkey), "create", "fail")
       \/ script' = script \ {att} /\ Goto("fail") /\ NoFault /\ UNCHANGED <<journal, failed>>
       \/ /\ op' = [op EXCEPT !.pc = "fail", !.unproven = TRUE] /\ NoFault
          /\ UNCHANGED <<script, journal, failed>>
    /\ UNCHANGED <<src, dir, next, cache, tmp, object, ev, seed, built, proved, golden, result>>

(* tart create, which may leave the object behind although it failed.      *)
Create ==
    /\ op.pc = "create"
    /\ vm' = [vm EXCEPT ![att] = "stopped"] /\ ver' = [ver EXCEPT ![att] = 1]
    /\ writeAttempt(att, State("created", op.bkey), "configure", "fail")
    /\ UNCHANGED <<src, dir, next, cache, tmp, clone, host, built, proved, golden, result>>

Configure ==
    /\ op.pc = "configure"
    /\ writeAttempt(att, State("installer-running", op.bkey), "launch", "fail")
    /\ UNCHANGED <<src, dir, next, cache, tmp, object, host, built, proved, golden, result>>

(* A start that fails after the process exists still returns the handle.   *)
RunInstaller ==
    /\ op.pc = "launch"
    /\ vm' = [vm EXCEPT ![att] = "running"]
    /\ Goto("installer-running") \/ Goto("fail")
    /\ UNCHANGED <<src, store, ver, clone, host, history, golden, result, bounds>>

Following == [p \in {"installer-running", "preparing", "finalizing"} |->
    CASE p = "installer-running" -> "preparing"
      [] p = "preparing" -> "finalizing"
      [] p = "finalizing" -> "stopping"]

(* The marker of this stage was read from the installer's serial line; the *)
(* next fixed command is sent after the journal says so.                   *)
WaitFor ==
    /\ op.pc \in DOMAIN Following /\ vm[att] = "running"
    /\ writeAttempt(att, State(Following[op.pc], op.bkey), Following[op.pc], "fail")
    /\ UNCHANGED <<src, dir, next, cache, tmp, object, host, built, proved, golden, result>>

(* Poweroff: the process is waited for, and the candidate observed.        *)
Poweroff ==
    /\ op.pc = "stopping"
    /\ vm' = [vm EXCEPT ![att] = "stopped"] /\ ver' = [ver EXCEPT ![att] = 2]
    /\ Goto("stopped")
    /\ UNCHANGED <<src, store, clone, host, history, golden, result, bounds>>

(* Mutant: the verifier is removed whatever became of its script.          *)
MutremoveVerifier(a) == seed' = seed \ {a}

(* The verifier goes when Build returns, unless a script's reap is         *)
(* unproven.                                                               *)
removeVerifier(a) == seed' = IF op.unproven THEN seed ELSE seed \ {a}

CandidateStopped ==
    /\ op.pc = "stopped" /\ exactStopped(att)
    /\ writeAttempt(att, State("candidate-stopped", op.bkey), "written", "fail")
    /\ IF op'.pc = "written" THEN removeVerifier(att) ELSE UNCHANGED seed
    /\ UNCHANGED <<src, dir, next, cache, tmp, object, ev, script, built, proved, golden, result>>

(* Any step of Build may fail.                                             *)
BuildStepFails ==
    /\ op.pc \in BuildPCs \ {"render"}
    /\ Goto("fail")
    /\ UNCHANGED <<src, store, object, host, history, golden, result, bounds>>

(* The deferred cleanup of a failed Build: the installer is stopped and    *)
(* reaped within its deadline or not, the verifier removed, and the        *)
(* failure recorded.                                                       *)
BuildFails ==
    /\ op.pc = "fail"
    /\ vm' \in {vm, IF vm[att] = "running" THEN [vm EXCEPT ![att] = "stopped"] ELSE vm}
    /\ removeVerifier(att)
    /\ writeAttempt(att, State("failed", op.bkey), "idle", "idle")
    /\ UNCHANGED <<src, dir, next, cache, tmp, ver, clone, ev, script, built, proved, golden, result>>

-----------------------------------------------------------------------------
(* Qualification.                                                          *)

(* The result of Build must be for this key, and its journal reread.       *)
BuildDone ==
    /\ op.pc = "written"
    /\ LET state == ReadAttempt(att) IN
       IF op.bkey = op.key /\ state # None /\ state = State("candidate-stopped", op.key)
       THEN writeAttempt(att, State("qualifying", op.key), "register", "idle")
       ELSE Return /\ NoFault /\ UNCHANGED <<journal, failed>>
    /\ UNCHANGED <<src, dir, next, cache, tmp, object, host, built, proved, golden, result>>

(* A golden record that exists is compared and left alone; a new one is    *)
(* renamed into place and the directory synced, which makes every record   *)
(* in it durable.                                                          *)
writeImmutable(r, ok, bad) ==
    \/ rec[r].mem /\ ok /\ NoFault /\ UNCHANGED <<rec, torn>>
    \/ /\ ~rec[r].mem
       /\ \/ rec' = Synced([rec EXCEPT ![r].mem = TRUE]) /\ ok /\ NoFault /\ UNCHANGED torn
          \/ rec' = [rec EXCEPT ![r].mem = TRUE] /\ torn' = torn \cup {r} /\ bad /\ Fault

(* RegisterRevision of the stopped candidate under the golden lock; the    *)
(* current pointer stays.                                                  *)
RegisterRevision ==
    /\ op.pc = "register" /\ glock = None /\ ev[att] = "none" /\ exactStopped(att)
    /\ writeImmutable(att, Goto("clone"), Goto("qfail"))
    /\ UNCHANGED <<src, store, object, host, history, cur, glock, reg, result>>

CreateFreshFromRevision ==
    /\ op.pc = "clone" /\ rec[att].mem
    /\ clone' = [clone EXCEPT ![att] = "stopped"]
    /\ Goto("start")
    /\ UNCHANGED <<src, store, vm, ver, host, history, golden, result, bounds>>

(* The public start of the clone; a failed one may leave it running.       *)
StartClone ==
    /\ op.pc = "start"
    /\ clone' = [clone EXCEPT ![att] = "running"]
    /\ Goto("inspect") \/ Goto("qfail")
    /\ UNCHANGED <<src, store, vm, ver, host, history, golden, result, bounds>>

(* A fresh READY snapshot and the inspection of the guest.                 *)
Inspect ==
    /\ op.pc = "inspect"
    /\ Goto("stop")
    /\ UNCHANGED <<src, store, object, host, history, golden, result, bounds>>

(* The public stop and the observation of the stopped clone.               *)
StopClone ==
    /\ op.pc = "stop"
    /\ clone' = [clone EXCEPT ![att] = "stopped"]
    /\ proved' = proved \cup {att}
    /\ Goto("evidence")
    /\ UNCHANGED <<src, store, vm, ver, host, built, failed, golden, result, bounds>>

(* The BOM is written before the evidence, each exclusively.               *)
writePrivate ==
    /\ op.pc = "evidence"
    /\ \/ ev[att] = "none" /\ ev' = [ev EXCEPT ![att] = "bom"] /\ UNCHANGED op
       \/ ev[att] = "bom" /\ ev' = [ev EXCEPT ![att] = "passed"] /\ Goto("recheck")
    /\ UNCHANGED <<src, store, object, seed, script, history, golden, result, bounds>>

(* The receipt and files are checked, the candidate observed and hashed.   *)
Recheck ==
    /\ op.pc = "recheck"
    /\ verifyQualificationFiles(att) /\ exactStopped(att)
    /\ op' = [op EXCEPT !.pc = "pending", !.seen = ver[att]]
    /\ UNCHANGED <<src, store, object, host, history, golden, result, bounds>>

(* The intent to admit is recorded; its failure, and any later one, is not *)
(* recorded as a failed qualification.                                     *)
AdmissionPending ==
    /\ op.pc = "pending"
    /\ writeAttempt(att, [phase |-> "admission-pending", key |-> op.key, receipt |-> TRUE,
                          ident |-> op.seen], "store", "idle")
    /\ UNCHANGED <<src, dir, next, cache, tmp, object, host, built, proved, golden, result>>

QualifyStepFails ==
    /\ op.pc \in QualifyPCs
    /\ Goto("qfail")
    /\ UNCHANGED <<src, store, object, host, history, golden, result, bounds>>

(* A clone that was not proved stopped is stopped, or not; the failure is  *)
(* retained in evidence and journal.                                       *)
QualificationFails ==
    /\ op.pc = "qfail"
    /\ clone' \in {clone, IF clone[att] = "running" THEN [clone EXCEPT ![att] = "stopped"] ELSE clone}
    /\ ev' \in {ev, IF ev[att] # "passed" THEN [ev EXCEPT ![att] = "failed"] ELSE ev}
    /\ writeAttempt(att, State("failed", op.key), "idle", "idle")
    /\ UNCHANGED <<src, dir, next, cache, tmp, vm, ver, seed, script, built, proved, golden, result>>

-----------------------------------------------------------------------------
(* Golden registration by the operator.                                    *)

Register(r) ==
    /\ Act /\ reg.pc = "idle" /\ glock = None /\ exactStopped(r)
    /\ glock' = "operator" /\ reg' = [rev |-> r, pc |-> "record"]
    /\ UNCHANGED <<src, store, object, host, history, rec, cur, torn, op, result>>

RegisterReturns == reg' = [rev |-> None, pc |-> "idle"] /\ glock' = None

PersistRecord ==
    /\ reg.pc = "record"
    /\ writeImmutable(reg.rev, reg' = [reg EXCEPT !.pc = "pointer"] /\ UNCHANGED glock, RegisterReturns)
    /\ UNCHANGED <<src, store, object, host, history, cur, op, result>>

(* current.json is replaced by a rename; the sync of its directory may     *)
(* fail.                                                                   *)
replaceAtomically ==
    /\ reg.pc = "pointer"
    /\ \/ cur' = Both(reg.rev) /\ NoFault
       \/ cur' = [cur EXCEPT !.mem = reg.rev] /\ Fault
       \/ UNCHANGED cur /\ NoFault
    /\ RegisterReturns
    /\ UNCHANGED <<src, store, object, host, history, rec, torn, op, result>>

-----------------------------------------------------------------------------
(* The environment.                                                        *)

(* An installer whose owner gave up or was killed ends by itself; the disk *)
(* is whatever it left.                                                    *)
InstallerExits(a) ==
    /\ vm[a] = "running"
    /\ vm' = [vm EXCEPT ![a] = "stopped"]
    /\ UNCHANGED <<src, store, ver, clone, host, history, golden, op, result, bounds>>

ScriptEnds(a) ==
    /\ a \in script
    /\ op.pc = "render" => a # att
    /\ script' = script \ {a}
    /\ UNCHANGED <<src, store, object, ev, seed, history, golden, op, result, bounds>>

(* Somebody runs or edits the candidate after its admission was recorded.  *)
(* A change between the qualification of its clone and the hash that       *)
(* admission records is left out: it would be admitted with the hash.      *)
CandidateAltered(a) ==
    /\ ver[a] = 2 /\ vm[a] = "stopped"
    /\ journal[a].mem # None /\ journal[a].mem.phase \in {"admission-pending", "admitted"}
    /\ ver' = [ver EXCEPT ![a] = 3]
    /\ UNCHANGED <<src, store, vm, clone, host, history, golden, op, result, bounds>>

Writing == {"first", "render", "create", "configure", "stopped", "fail", "written", "pending",
            "qfail", "complete"} \cup DOMAIN Following

(* The preparing process is killed: in the middle of a journal write it    *)
(* leaves attempt.json.next, before the link a scratch record.             *)
Killed ==
    /\ op.pc # "idle" /\ Fault
    /\ next' \in {next, IF op.pc \in Writing THEN next \cup {att} ELSE next}
    /\ tmp' \in {tmp, IF op.pc = "store" THEN [tmp EXCEPT ![op.key] = "scratch"] ELSE tmp}
    /\ Return
    /\ UNCHANGED <<src, journal, dir, cache, object, host, history, golden, result>>

Survives(x) == {Both(x.mem), Both(x.dur)}

(* A power loss ends every process and may take back what was not synced;  *)
(* the entry of an attempt's directory is never synced.                    *)
PowerLoss ==
    /\ Fault
    /\ \E lost \in SUBSET dir :
        /\ dir' = dir \ lost /\ next' = next \ lost /\ seed' = seed \ lost
        /\ ev' = [a \in Attempt |-> IF a \in lost THEN "none" ELSE ev[a]]
        /\ journal' \in {[a \in Attempt |-> IF a \in lost THEN Both(None) ELSE Both(journal[a].mem)],
                         [a \in Attempt |-> IF a \in lost THEN Both(None) ELSE Both(journal[a].dur)]}
    /\ \E keep \in SUBSET {k \in Key : cache[k].mem # cache[k].dur} :
        /\ cache' = [k \in Key |-> Both(IF k \in keep THEN cache[k].mem ELSE cache[k].dur)]
        /\ tmp' = [k \in Key |-> IF tmp[k] = "linked" /\ cache'[k].mem = None THEN "scratch" ELSE tmp[k]]
    /\ rec' \in {Synced(rec), [a \in Attempt |-> Both(rec[a].dur)]}
    /\ cur' \in Survives(cur)
    /\ vm' = [a \in Attempt |-> IF vm[a] = "running" THEN "stopped" ELSE vm[a]]
    /\ clone' = [a \in Attempt |-> IF clone[a] = "running" THEN "stopped" ELSE clone[a]]
    /\ script' = {} /\ glock' = None /\ reg' = [rev |-> None, pc |-> "idle"]
    /\ Return
    /\ UNCHANGED <<src, ver, history, torn, result>>

-----------------------------------------------------------------------------
BuildStep ==
    \/ Reserve \/ FirstJournal \/ Stage \/ BuilderVerifier \/ RunOwned \/ Create \/ Configure
    \/ RunInstaller \/ WaitFor \/ Poweroff \/ CandidateStopped \/ BuildStepFails \/ BuildFails

QualifyStep ==
    \/ BuildDone \/ RegisterRevision \/ CreateFreshFromRevision \/ StartClone \/ Inspect
    \/ StopClone \/ writePrivate \/ Recheck \/ AdmissionPending \/ QualifyStepFails \/ QualificationFails

PrepareStep ==
    \/ finishPublishedRecord \/ LoadFound \/ resumePendingAdmission \/ storePrepared
    \/ StoreFinish \/ completeAdmission \/ PrepareFails

Next ==
    \/ PrepareStep \/ BuildStep \/ QualifyStep
    \/ PersistRecord \/ replaceAtomically
    \/ \E k \in Key : EditSource(k)
    \/ \E a \in Attempt : Prepare(a) \/ Register(a) \/ InstallerExits(a) \/ ScriptEnds(a)
                            \/ CandidateAltered(a)
    \/ Killed \/ PowerLoss

Spec == Init /\ [][Next]_vars

-----------------------------------------------------------------------------
(* Properties.                                                             *)

Admission == {"admission-pending", "admitted"}

(* What makes candidate a worth keeping for key k.                         *)
Qualified(a, k) ==
    /\ built[a] = k /\ a \in proved \ failed
    /\ clone[a] = "stopped" /\ vm[a] = "stopped"

(* Prepare says that "failed attempts are retained and never adopted by    *)
(* key alone": every cached record names a candidate built from exactly    *)
(* the inputs of its key, never recorded failed, whose fresh clone passed  *)
(* and was proved stopped, whatever was killed, retried or edited.         *)
CacheQualified ==
    \A k \in Key : \A x \in {cache[k].mem, cache[k].dur} \ {None} :
        Qualified(x.att, k) /\ x.ident = 2

(* A seed script that may still run keeps the verifier file it reads       *)
(* (ErrScriptReapUnproven in build.go).                                    *)
VerifierKept == \A a \in script \cap dir : a \in seed

(* current.json resolves to a complete record in every process and after   *)
(* a power loss, except for a revision an earlier registration of which    *)
(* failed to sync: the retry finds its record and does not sync it again.  *)
CurrentResolves ==
    \A r \in {cur.mem, cur.dur} \ {None} : rec[r].mem \/ r \in torn

(* An admission a journal ever recorded, pending or done, durable or not,  *)
(* is of a qualified candidate: a later Prepare may resume it.             *)
PendingQualified ==
    \A a \in Attempt : \A x \in {journal[a].mem, journal[a].dur} \ {None} :
        x.phase \in Admission => Qualified(a, x.key) /\ x.receipt /\ x.ident = 2

(* What a power loss would leave of a cache record is the record itself.   *)
CacheExact == \A k \in Key : cache[k].dur # None => cache[k].mem = cache[k].dur

(* No cache record and no recorded admission names a.                      *)
Unadmitted(a) ==
    /\ \A k \in Key : \A x \in {cache[k].mem, cache[k].dur} \ {None} : x.att # a
    /\ \A x \in {journal[a].mem, journal[a].dur} \ {None} : x.phase \notin Admission

Working == BuildPCs \cup QualifyPCs \cup {"first", "fail", "written", "qfail", "pending"}

(* A Build or qualification works on an attempt that nothing was admitted  *)
(* from; what it has established of inputs, candidate and clone stays true *)
(* until it records the admission.                                         *)
AttemptExact ==
    op.pc \in Working =>
        /\ att \in dir \ failed /\ op.bkey \in Key /\ Unadmitted(att)
        /\ op.pc \in (BuildPCs \ {"stage"}) \cup {"written"} => built[att] = op.bkey
        /\ op.pc \in QualifyPCs \cup {"stopped", "written", "pending"} =>
               vm[att] = "stopped" /\ ver[att] = 2
        /\ op.pc \in QualifyPCs \cup {"pending"} => built[att] = op.key
        /\ op.pc \in {"evidence", "recheck", "pending"} =>
               att \in proved /\ clone[att] = "stopped"
        /\ op.pc = "pending" => op.seen = 2

(* Between the recorded admission and its completion.                      *)
AdmissionExact ==
    op.pc \in {"store", "unlink", "complete"} =>
        LET state == journal[att].mem IN
        /\ att \in dir /\ op.seen = 2 /\ Qualified(att, op.key)
        /\ state \in Journal /\ state.key = op.key /\ state.receipt /\ state.ident = 2
        /\ state.phase \in IF op.pc = "complete" THEN Admission ELSE {"admission-pending"}

(* Nothing was returned while a Prepare runs.                              *)
CallExact == op.pc # "idle" => att \in Attempt /\ op.key \in Key /\ result = None

(* A script lives in its attempt directory; the running Build knows of its *)
(* own one unless it has proved it gone.                                   *)
ScriptExact ==
    /\ script \subseteq dir
    /\ op.pc \in (BuildPCs \ {"render"}) \cup {"first", "fail"} /\ ~op.unproven => att \notin script

(* A record is visible only when it is durable or its sync failed; the     *)
(* pointer is written after the record.                                    *)
RecordExact ==
    /\ \A r \in Attempt :
        /\ rec[r].dur => rec[r].mem
        /\ rec[r].mem => rec[r].dur \/ r \in torn
    /\ reg.pc # "idle" => reg.rev \in Attempt
    /\ reg.pc = "pointer" => rec[reg.rev].mem

PreparedInv ==
    /\ TypeOK /\ CacheQualified /\ VerifierKept /\ CurrentResolves
    /\ PendingQualified /\ CacheExact /\ AttemptExact /\ AdmissionExact
    /\ CallExact /\ ScriptExact /\ RecordExact

(* A candidate Prepare hands out, built or reused, had the qualified bytes *)
(* and was built for the requested key.                                    *)
ReturnedIntact ==
    result # None =>
        /\ built[result.att] = result.key
        /\ result.att \in proved
        /\ result.seen = 2

(* A cached record is published without replacing one (storePrepared links *)
(* it): once durable it stays, so that a key is never given another base.  *)
CacheFinal == [][\A k \in Key : cache[k].dur # None => cache'[k] = cache[k]]_vars
=============================================================================
