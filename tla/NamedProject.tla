---------------------------- MODULE NamedProject ----------------------------
(***************************************************************************)
(* A named project: a bookmark file that ties one session, its system and  *)
(* its workspace together, the intent and the receipts of a replacement of *)
(* that system, and the setup profile of the domain, all files of one      *)
(* directory.  Every file is published by a rename, which is visible at    *)
(* once and durable only after the directory was synced.                   *)
(*                                                                         *)
(* Commands on a project hold its lock, so one runs at a time; the setup   *)
(* commands have a lock of their own.  Session commands take neither: an   *)
(* operator may start, stop, rebuild or delete the session at any step.    *)
(* The session's record and its rebuild journal are the subject of         *)
(* SessionRebuild; here their writes are atomic and durable.  A base       *)
(* stands for a prepared base together with the recipe bound to it.        *)
(***************************************************************************)
EXTENDS Naturals, FiniteSets

CONSTANTS
    Objects,    \* backend objects that may be created
    Bases,      \* prepared bases, each with its recipe
    None,       \* absence of any of these
    MaxSetups,  \* setup commands
    MaxFaults   \* failed syncs and power losses

ASSUME ProjectAssumption ==
    /\ None \notin Objects \cup Bases
    /\ MaxSetups \in Nat /\ MaxFaults \in Nat

VARIABLES
    mem,      \* the projects directory as commands see it
    dur,      \* the directory that a power loss leaves
    sess,     \* session record of the project's name
    jr,       \* rebuild journal of that session
    used,     \* object identities ever generated
    vol,      \* workspace record: formatting state and attached session
    pc,       \* lock scope -> next step of the command that holds it
    after,    \* lock scope -> step that follows the directory sync
    want,     \* base the project command was given
    rec,      \* bookmark the project command works on
    intent,   \* replacement the project command works on
    jn,       \* journal the project command was handed
    promised, \* intents whose publication was reported as durable
    setups,   \* setup commands so far
    faults    \* faults so far

files == <<mem, dur>>
session == <<sess, jr, used, vol>>
counts == <<promised, setups, faults>>
locals == <<after, want, rec, intent, jn>>
vars == <<files, session, pc, locals, counts>>

-----------------------------------------------------------------------------
Object == Objects \cup {None}
Base == Bases \cup {None}

(* A session and its first object are named by one identity; bookmark and  *)
(* session keep the identity when the object is replaced.                  *)
Bookmark == [id : Object, obj : Object, base : Base, init : BOOLEAN,
             imp : {"none", "pending", "imported"}]
NoProject == [id |-> None, obj |-> None, base |-> None, init |-> FALSE,
              imp |-> "none"]
Replacement == [before : Bookmark, cand : Object, base : Base]
NoIntent == [before |-> NoProject, cand |-> None, base |-> None]
Directory == [bm : Bookmark, pend : Replacement, hist : SUBSET Replacement,
              setup : BOOLEAN]

Session == [st : {"none", "stopped", "starting", "running"}, id : Object,
            obj : Object, base : Base]
NoSession == [st |-> "none", id |-> None, obj |-> None, base |-> None]

(* cutover: the record names the candidate; ready and retiring included.   *)
Journal == [ph : {"none", "reserved", "cloned", "cutover"}, id : Object,
            old : Object, oldBase : Base, cand : Object, base : Base]
NoJournal == [ph |-> "none", id |-> None, old |-> None, oldBase |-> None,
              cand |-> None, base |-> None]

Scopes == {"project", "setup"}
PCs == {"idle", "sync", "clone", "receipt", "init", "attach", "bind", "start",
        "transfer", "observe", "prepare", "begin", "check",
        "drive", "bound", "history", "bookmark", "unlink", "replaced"}

(* Every file of the directory holds a complete document.                  *)
TypeOK ==
    /\ mem \in Directory /\ dur \in Directory
    /\ sess \in Session /\ jr \in Journal
    /\ used \subseteq Objects
    /\ vol \in [st : {"none", "creating", "ready"}, att : Object]
    /\ pc \in [Scopes -> PCs] /\ after \in [Scopes -> PCs]
    /\ want \in Base
    /\ rec \in Bookmark /\ intent \in Replacement /\ jn \in Journal
    /\ promised \subseteq Replacement
    /\ setups \in 0..MaxSetups /\ faults \in 0..MaxFaults

Init ==
    /\ mem = [bm |-> NoProject, pend |-> NoIntent, hist |-> {},
              setup |-> FALSE]
    /\ dur = mem
    /\ sess = NoSession /\ jr = NoJournal /\ used = {}
    /\ vol = [st |-> "none", att |-> None]
    /\ pc = [s \in Scopes |-> "idle"] /\ after = pc
    /\ want = None
    /\ rec = NoProject /\ intent = NoIntent /\ jn = NoJournal
    /\ promised = {} /\ setups = 0 /\ faults = 0

-----------------------------------------------------------------------------
At(s, label) == pc[s] = label

(* What a finished command knew is gone.                                   *)
Forget(s) ==
    /\ after' = [after EXCEPT ![s] = "idle"]
    /\ IF s = "project"
       THEN /\ want' = None /\ rec' = NoProject
            /\ intent' = NoIntent /\ jn' = NoJournal
       ELSE UNCHANGED <<want, rec, intent, jn>>

Goto(s, label) == pc' = [pc EXCEPT ![s] = label]
Step(label) == Goto("project", label) /\ UNCHANGED after

(* publishRaw: the renamed file is seen at once; the sync comes next.      *)
publish(s, next, label) ==
    /\ mem' = next
    /\ Goto(s, "sync")
    /\ after' = [after EXCEPT ![s] = label]
    /\ UNCHANGED <<dur, faults>>

(* The directory is synced: everything in it survives.                     *)
syncProjectDirectory(s) ==
    /\ At(s, "sync")
    /\ dur' = mem
    /\ promised' = IF s = "project" /\ after[s] = "check"
                   THEN promised \cup {intent} ELSE promised
    /\ IF after[s] = "idle" THEN Goto(s, "idle") /\ Forget(s)
       ELSE Goto(s, after[s]) /\ UNCHANGED locals
    /\ UNCHANGED <<mem, session, setups, faults>>

SyncFails(s) ==
    /\ At(s, "sync")
    /\ faults < MaxFaults
    /\ faults' = faults + 1
    /\ Goto(s, "idle") /\ Forget(s)
    /\ UNCHANGED <<files, session, promised, setups>>

(* A step of the command returns an error, or the command is killed.       *)
CommandEnds(s) ==
    /\ ~At(s, "idle")
    /\ Goto(s, "idle") /\ Forget(s)
    /\ UNCHANGED <<files, session, counts>>

(* Each file is the one last synced or the one last renamed.               *)
PowerLoss ==
    /\ faults < MaxFaults
    /\ faults' = faults + 1
    /\ \E kept \in SUBSET DOMAIN mem :
        mem' = [f \in DOMAIN mem |-> IF f \in kept THEN mem[f] ELSE dur[f]]
    /\ dur' = mem'
    /\ pc' = [s \in Scopes |-> "idle"] /\ after' = pc'
    /\ want' = None
    /\ rec' = NoProject /\ intent' = NoIntent /\ jn' = NoJournal
    /\ UNCHANGED <<session, promised, setups>>

-----------------------------------------------------------------------------
(* Mutant: the replaced system starts with a new import selection.         *)
MutNext_(i) ==
    [i.before EXCEPT !.obj = i.cand, !.base = i.base, !.imp = "none"]

(* The bookmark that a completed replacement publishes.                    *)
Next_(i) == [i.before EXCEPT !.obj = i.cand, !.base = i.base]

RequireNoRebuild == jr.ph = "none"

boundProjectSession(r) ==
    /\ r.id # None
    /\ sess.id = r.id /\ sess.obj = r.obj /\ sess.base = r.base
    /\ RequireNoRebuild

WorkspaceBound(r) == vol.st = "ready" /\ vol.att = r.id

boundProject(r) == boundProjectSession(r) /\ WorkspaceBound(r)

(* Save: bindings stay, receipts do not regress.                           *)
Save(next, label) ==
    /\ mem.bm.base = next.base
    /\ mem.bm.id # None => mem.bm.id = next.id /\ mem.bm.obj = next.obj
    /\ mem.bm.imp # "none" => next.imp # "none"
    /\ mem.bm.init => next.init
    /\ mem.bm.imp = "imported" => next.imp = "imported"
    /\ publish("project", [mem EXCEPT !.bm = next], label)

(* What every command but create and rebuild asks first.                   *)
Loaded ==
    /\ At("project", "idle")
    /\ mem.bm # NoProject
    /\ mem.pend = NoIntent
    /\ mem.bm.id # None

-----------------------------------------------------------------------------
(* Creation                                                                *)

createProject(b) ==
    /\ At("project", "idle")
    /\ mem.bm = NoProject
    /\ sess = NoSession
    /\ mem.setup
    /\ rec' = [NoProject EXCEPT !.base = b]
    /\ publish("project", [mem EXCEPT !.bm = rec'], "clone")
    /\ UNCHANGED <<session, want, intent, jn, promised, setups>>

(* The name must still be free; the session is created under its locks.    *)
CreateFresh(o) ==
    /\ At("project", "clone")
    /\ sess = NoSession
    /\ o \notin used
    /\ used' = used \cup {o}
    /\ sess' = [st |-> "stopped", id |-> o, obj |-> o, base |-> rec.base]
    /\ rec' = [rec EXCEPT !.id = o, !.obj = o]
    /\ Step("receipt")
    /\ UNCHANGED <<files, jr, vol, want, intent, jn, counts>>

SaveReceipt ==
    /\ At("project", "receipt")
    /\ Save(rec, "init")
    /\ UNCHANGED <<session, want, rec, intent, jn, promised, setups>>

(* Formatting may stop half way; the next attempt names the same volume.   *)
InitializeWorkspace ==
    /\ At("project", "init")
    /\ boundProjectSession(rec)
    /\ vol.st # "ready" => mem.setup
    /\ \/ vol' = [vol EXCEPT !.st = "ready"] /\ Step("attach")
          /\ UNCHANGED <<want, rec, intent, jn>>
       \/ /\ vol.st = "none"
          /\ vol' = [vol EXCEPT !.st = "creating"]
          /\ Goto("project", "idle") /\ Forget("project")
    /\ UNCHANGED <<files, sess, jr, used, counts>>

InitializeAttach ==
    /\ At("project", "attach")
    /\ vol.att = None => sess.st = "stopped"
    /\ vol' = [vol EXCEPT !.att = IF @ = None THEN sess.id ELSE @]
    /\ Step("bind")
    /\ UNCHANGED <<files, sess, jr, used, want, rec, intent, jn, counts>>

InitializeSave ==
    /\ At("project", "bind")
    /\ boundProject(rec)
    /\ rec' = [rec EXCEPT !.init = TRUE]
    /\ Save(rec', "start")
    /\ UNCHANGED <<session, want, intent, jn, promised, setups>>

-----------------------------------------------------------------------------
(* The session commands a project issues under its name                    *)

(* A start may leave the session starting; it names the session only.      *)
Startable == sess.st # "none" /\ RequireNoRebuild

SessionStart ==
    /\ At("project", "start")
    /\ Startable
    /\ \E st \in {"starting", "running"} : sess' = [sess EXCEPT !.st = st]
    /\ Goto("project", "idle") /\ Forget("project")
    /\ UNCHANGED <<files, jr, used, vol, counts>>

OpenProject ==
    /\ Loaded
    /\ mem.bm.init => boundProject(mem.bm)
    /\ rec' = mem.bm
    /\ Step(IF mem.bm.init THEN "start" ELSE "init")
    /\ UNCHANGED <<files, session, want, intent, jn, counts>>

StopProject ==
    /\ Loaded
    /\ boundProject(mem.bm)
    /\ sess.st # "stopped"
    /\ sess' = [sess EXCEPT !.st = "stopped"]
    /\ UNCHANGED <<files, jr, used, vol, pc, locals, counts>>

(* The transaction and its source are frozen before anything is captured.  *)
ImportBegin ==
    /\ Loaded
    /\ boundProject(mem.bm)
    /\ mem.bm.imp = "none"
    /\ rec' = [mem.bm EXCEPT !.imp = "pending"]
    /\ Save(rec', "transfer")
    /\ UNCHANGED <<session, want, intent, jn, promised, setups>>

ImportRetry ==
    /\ Loaded
    /\ boundProject(mem.bm)
    /\ mem.bm.imp = "pending"
    /\ rec' = mem.bm
    /\ Step("transfer")
    /\ UNCHANGED <<files, session, want, intent, jn, counts>>

(* The receipt must name the session and the object of the bookmark.       *)
ImportTransfer ==
    /\ At("project", "transfer")
    /\ sess.st = "running" /\ sess.id = rec.id /\ sess.obj = rec.obj
    /\ rec' = [rec EXCEPT !.imp = "imported"]
    /\ Save(rec', "idle")
    /\ UNCHANGED <<session, want, intent, jn, promised, setups>>

-----------------------------------------------------------------------------
(* The session's rebuild driver, for the project and for the operator      *)

ObjectExists(o) ==
    o \in {sess.obj, jr.old} \cup IF jr.ph = "reserved" THEN {} ELSE {jr.cand}

Reserve(o, b) ==
    /\ RequireNoRebuild
    /\ sess.st = "stopped"
    /\ o \notin used
    /\ used' = used \cup {o}
    /\ jr' = [ph |-> "reserved", id |-> sess.id, old |-> sess.obj,
              oldBase |-> sess.base, cand |-> o, base |-> b]
    /\ UNCHANGED <<sess, vol>>

(* The journal is the stopped session's and asks for base b.               *)
Preparable(b) ==
    /\ jr.ph \in {"reserved", "cloned"}
    /\ jr.id = sess.id /\ jr.old = sess.obj /\ jr.oldBase = sess.base
    /\ jr.base = b
    /\ sess.st = "stopped"

Clone ==
    /\ Preparable(jr.base)
    /\ jr.ph = "reserved"
    /\ jr' = [jr EXCEPT !.ph = "cloned"]
    /\ UNCHANGED <<sess, used, vol>>

Cutover ==
    /\ Preparable(jr.base)
    /\ jr.ph = "cloned"
    /\ sess' = [sess EXCEPT !.obj = jr.cand, !.base = jr.base]
    /\ jr' = [jr EXCEPT !.ph = "cutover"]
    /\ UNCHANGED <<used, vol>>

StartCandidate ==
    /\ jr.ph = "cutover"
    /\ sess.st # "running"
    /\ \E st \in {"starting", "running"} : sess' = [sess EXCEPT !.st = st]
    /\ UNCHANGED <<jr, used, vol>>

(* The old object is deleted and the journal removed.                      *)
RetireOld ==
    /\ jr.ph = "cutover"
    /\ sess.st = "running"
    /\ jr' = NoJournal
    /\ UNCHANGED <<sess, used, vol>>

-----------------------------------------------------------------------------
(* Replacement of the project's system                                     *)

rebuildProject(b) ==
    /\ At("project", "idle")
    /\ mem.pend = NoIntent
    /\ boundProject(mem.bm)
    /\ sess.st = "stopped"
    /\ mem.bm.imp # "pending"
    /\ rec' = mem.bm
    /\ want' = b
    /\ Step("observe")
    /\ UNCHANGED <<files, session, intent, jn, counts>>

(* The live journal of the bookmark's own system is taken up again.        *)
RetryJournal ==
    /\ At("project", "idle")
    /\ mem.bm # NoProject /\ mem.pend = NoIntent
    /\ jr.ph \in {"reserved", "cloned"}
    /\ jr.id = mem.bm.id /\ jr.old = mem.bm.obj /\ jr.oldBase = mem.bm.base
    /\ rec' = mem.bm
    /\ want' = jr.base
    /\ Step("observe")
    /\ UNCHANGED <<files, session, intent, jn, counts>>

LoadCompletedReplacement == {i \in mem.hist : Next_(i) = mem.bm}

(* The pending intent; without one and without a journal, the receipt of   *)
(* the replacement that made the bookmark what it is.                      *)
RetryIntent ==
    /\ At("project", "idle")
    /\ mem.bm # NoProject
    /\ \/ mem.pend # NoIntent /\ intent' = mem.pend
       \/ /\ mem.pend = NoIntent /\ RequireNoRebuild
          /\ intent' \in LoadCompletedReplacement
    /\ rec' = mem.bm
    /\ Step("check")
    /\ UNCHANGED <<files, session, want, jn, counts>>

ObserveStopped ==
    /\ At("project", "observe")
    /\ ObjectExists(rec.obj)
    /\ sess.obj = rec.obj => sess.st = "stopped"
    /\ Step("prepare")
    /\ UNCHANGED <<files, session, want, rec, intent, jn, counts>>

PrepareCandidate(o) ==
    /\ At("project", "prepare")
    /\ Reserve(o, want)
    /\ UNCHANGED <<files, pc, locals, counts>>

PrepareClone ==
    /\ At("project", "prepare")
    /\ Preparable(want)
    /\ \/ Clone
       \/ jr.ph = "cloned" /\ UNCHANGED session
    /\ jn' = jr'
    /\ Step("begin")
    /\ UNCHANGED <<files, want, rec, intent, counts>>

BeginReplacement ==
    /\ At("project", "begin")
    /\ rec.init
    /\ jn.id = rec.id /\ jn.old = rec.obj /\ jn.oldBase = rec.base
    /\ mem.bm = rec
    /\ intent' = [before |-> rec, cand |-> jn.cand, base |-> jn.base]
    /\ mem.pend \in {NoIntent, intent'}
    /\ publish("project", [mem EXCEPT !.pend = intent'], "check")
    /\ UNCHANGED <<session, want, rec, jn, promised, setups>>

projectReplacementWorkspace ==
    /\ At("project", "check")
    /\ rec \in {intent.before, Next_(intent)}
    /\ WorkspaceBound(intent.before)
    /\ Step("drive")
    /\ UNCHANGED <<files, session, want, rec, intent, jn, counts>>

(* The journal the driver finds must be the frozen candidate's.            *)
requirePrepared ==
    /\ jr.id = intent.before.id
    /\ jr.old = intent.before.obj /\ jr.oldBase = intent.before.base
    /\ jr.cand = intent.cand /\ jr.base = intent.base

DriveCandidate ==
    /\ At("project", "drive")
    /\ requirePrepared
    /\ Cutover \/ StartCandidate
    /\ UNCHANGED <<files, pc, locals, counts>>

DriveRetire ==
    /\ At("project", "drive")
    /\ requirePrepared
    /\ RetireOld
    /\ Step("bound")
    /\ UNCHANGED <<files, want, rec, intent, jn, counts>>

(* settlePrepared: no journal, and the session is the candidate already.   *)
DriveSettled ==
    /\ At("project", "drive")
    /\ RequireNoRebuild
    /\ sess.id = intent.before.id
    /\ sess.obj = intent.cand /\ sess.base = intent.base
    /\ sess.st \in {"stopped", "running"}
    /\ Step("bound")
    /\ UNCHANGED <<files, session, want, rec, intent, jn, counts>>

CheckCompleted ==
    /\ At("project", "bound")
    /\ boundProject(Next_(intent))
    /\ Step("history")
    /\ UNCHANGED <<files, session, want, rec, intent, jn, counts>>

settleCompletedReplacement ==
    /\ At("project", "history")
    /\ mem.pend = NoIntent
    /\ mem.bm = Next_(intent)
    /\ intent \in mem.hist
    /\ publish("project", mem, "replaced")
    /\ UNCHANGED <<session, want, rec, intent, jn, promised, setups>>

(* CompleteReplacement: the receipt is durable before the bookmark moves,  *)
(* and the intent goes last.  Mutant: the receipt is not synced.           *)
MutCompleteHistory ==
    /\ At("project", "history")
    /\ mem.pend = intent
    /\ mem.bm \in {intent.before, Next_(intent)}
    /\ mem' = [mem EXCEPT !.hist = @ \cup {intent}]
    /\ Step("bookmark")
    /\ UNCHANGED <<dur, session, want, rec, intent, jn, counts>>

CompleteHistory ==
    /\ At("project", "history")
    /\ mem.pend = intent
    /\ mem.bm \in {intent.before, Next_(intent)}
    /\ publish("project", [mem EXCEPT !.hist = @ \cup {intent}], "bookmark")
    /\ UNCHANGED <<session, want, rec, intent, jn, promised, setups>>

(* Mutant: bookmark and intent are changed under one sync.                 *)
MutCompleteBookmark ==
    /\ At("project", "bookmark")
    /\ LET next == [mem EXCEPT !.bm = Next_(intent), !.pend = NoIntent]
       IN  publish("project", next, "replaced")
    /\ UNCHANGED <<session, want, rec, intent, jn, promised, setups>>

CompleteBookmark ==
    /\ At("project", "bookmark")
    /\ publish("project", [mem EXCEPT !.bm = Next_(intent)], "unlink")
    /\ UNCHANGED <<session, want, rec, intent, jn, promised, setups>>

CompleteUnlink ==
    /\ At("project", "unlink")
    /\ publish("project", [mem EXCEPT !.pend = NoIntent], "replaced")
    /\ UNCHANGED <<session, want, rec, intent, jn, promised, setups>>

(* A system with a recipe is started through the ordinary command.         *)
Replaced ==
    /\ At("project", "replaced")
    /\ Step("start")
    /\ UNCHANGED <<files, session, want, rec, intent, jn, counts>>

-----------------------------------------------------------------------------
(* The setup profile is saved once; saving it again completes the sync.    *)

SaveSetup ==
    /\ At("setup", "idle")
    /\ setups < MaxSetups /\ setups' = setups + 1
    /\ publish("setup", [mem EXCEPT !.setup = TRUE], "idle")
    /\ UNCHANGED <<session, want, rec, intent, jn, promised>>

-----------------------------------------------------------------------------
(* Session and workspace commands given directly by an operator            *)

OperatorSession ==
    /\ \/ /\ Startable
          /\ \E st \in {"starting", "running"} :
                sess' = [sess EXCEPT !.st = st]
          /\ UNCHANGED <<jr, used>>
       \/ /\ sess.st \in {"starting", "running"}
          /\ sess' = [sess EXCEPT !.st = "stopped"]
          /\ UNCHANGED <<jr, used>>
       \/ /\ sess.st = "stopped" /\ RequireNoRebuild /\ vol.att # sess.id
          /\ sess' = NoSession
          /\ UNCHANGED <<jr, used>>
       \/ /\ sess = NoSession
          /\ \E o \in Objects \ used, b \in Bases :
                /\ used' = used \cup {o}
                /\ sess' = [st |-> "stopped", id |-> o, obj |-> o, base |-> b]
          /\ UNCHANGED jr
    /\ UNCHANGED vol

(* A session rebuild to the base the session already has does nothing.     *)
OperatorRebuild ==
    \/ \E o \in Objects, b \in Bases \ {sess.base} : Reserve(o, b)
    \/ Clone \/ Cutover \/ StartCandidate \/ RetireOld

OperatorWorkspace ==
    /\ sess.st = "stopped"
    /\ vol.st = "ready"
    /\ vol.att \in {None, sess.id}
    /\ vol' = [vol EXCEPT !.att = IF @ = None THEN sess.id ELSE None]
    /\ UNCHANGED <<sess, jr, used>>

Operator ==
    /\ OperatorSession \/ OperatorRebuild \/ OperatorWorkspace
    /\ UNCHANGED <<files, pc, locals, counts>>

-----------------------------------------------------------------------------
CreateStep ==
    \/ \E b \in Bases : createProject(b)
    \/ \E o \in Objects : CreateFresh(o)
    \/ SaveReceipt \/ InitializeWorkspace \/ InitializeAttach \/ InitializeSave

UseStep ==
    \/ OpenProject \/ SessionStart \/ StopProject
    \/ ImportBegin \/ ImportRetry \/ ImportTransfer

ReplaceStep ==
    \/ \E b \in Bases : rebuildProject(b)
    \/ RetryJournal \/ RetryIntent \/ ObserveStopped
    \/ \E o \in Objects : PrepareCandidate(o)
    \/ PrepareClone \/ BeginReplacement \/ projectReplacementWorkspace
    \/ DriveCandidate \/ DriveRetire \/ DriveSettled \/ CheckCompleted
    \/ settleCompletedReplacement \/ CompleteHistory \/ CompleteBookmark
    \/ CompleteUnlink \/ Replaced

Next ==
    \/ CreateStep \/ UseStep \/ ReplaceStep \/ SaveSetup
    \/ \E s \in Scopes :
        syncProjectDirectory(s) \/ SyncFails(s) \/ CommandEnds(s)
    \/ PowerLoss
    \/ Operator

Spec == Init /\ [][Next]_vars

-----------------------------------------------------------------------------
(* Properties                                                              *)

(* A replacement whose intent was reported durable is never lost sight of: *)
(* while the session runs on its candidate, the bookmark names the         *)
(* candidate or the intent is still pending for project rebuild retry,     *)
(* through kills, failed syncs and power losses (replacement.go:           *)
(* CompleteReplacement clears the intent last).                            *)
ReplacementFound ==
    \A i \in promised :
        sess.id = i.before.id /\ sess.obj = i.cand /\ mem.bm.id = sess.id =>
            mem.bm.obj = i.cand \/ mem.pend = i

(* The step the project command takes once its sync is done.               *)
Ahead == IF At("project", "sync") THEN after["project"] ELSE pc["project"]

(* A session with a record, and a candidate with a journal, have drawn     *)
(* their identities.                                                       *)
SessionExact ==
    /\ sess.st = "none" <=> sess.id = None
    /\ sess.id \in used \cup {None}
    /\ jr.ph # "none" => sess.st # "none" /\ jr.cand \in used

(* A bookmark keeps its session, and an initialized or imported project    *)
(* stays so.                                                               *)
Forward(old, new) ==
    /\ old.id # None => new.id = old.id
    /\ old.init => new.init
    /\ old.imp # "none" => new.imp \in {old.imp, "imported"}

(* What is seen is ahead of what is durable, and whichever bookmark a      *)
(* power loss leaves, its receipt is durable already.                      *)
FilesExact ==
    /\ Forward(dur.bm, mem.bm)
    /\ dur.hist \subseteq mem.hist
    /\ \A b \in {mem.bm, dur.bm} :
        b.obj # b.id => \E i \in dur.hist : i.cand = b.obj /\ i.base = b.base

(* The journal will make the candidate of i the session's system.          *)
OnItsWay(i) == jr.ph \in {"reserved", "cloned"} /\ jr.cand = i.cand

InUse(i) == sess.id = i.before.id /\ (sess.obj = i.cand \/ OnItsWay(i))

(* Whichever bookmark b and pending intent p a power loss leaves, they     *)
(* lead to the promised candidate that is in use.                          *)
PromiseKept ==
    \A i \in promised :
        /\ i.before.id \in used /\ i.cand \in used
        /\ \A b \in {mem.bm, dur.bm}, p \in {mem.pend, dur.pend} :
            InUse(i) /\ b.id = sess.id => b.obj = i.cand \/ p = i

(* What the project command relies on between its steps: the bookmark it   *)
(* saved, fresh identities, the intent it published, and that no other     *)
(* promised candidate is in use when it completes a replacement.           *)
CommandExact ==
    /\ Ahead \in {"clone", "init", "attach", "bind", "transfer"} => rec = mem.bm
    /\ Ahead = "clone" => rec.id = None /\ rec.obj = None
    /\ Ahead = "receipt" =>
        /\ mem.bm.id = None
        /\ rec.id \in used /\ rec.obj = rec.id
        /\ \A i \in promised : i.before.id # rec.id
    /\ Ahead = "begin" => jn.id \in used /\ jn.cand \in used
    /\ At("project", "sync") /\ Ahead = "check" =>
        mem.pend = intent /\ intent.before.id \in used /\ intent.cand \in used
    /\ Ahead \in {"history", "bookmark", "unlink"} =>
        \A i \in promised : InUse(i) /\ sess.id = intent.before.id =>
            i.cand = intent.cand /\ ~OnItsWay(i)
    /\ Ahead \in {"bookmark", "unlink"} =>
        mem.bm \in {intent.before, Next_(intent)} /\ mem.pend = intent
    /\ At("project", "bookmark") => intent \in dur.hist
    /\ Ahead = "bookmark" => intent \in mem.hist
    /\ Ahead = "unlink" => mem.bm = Next_(intent)
    /\ At("project", "unlink") => dur.bm = mem.bm

(* The directory stays well formed, every replacement can be found, and    *)
(* files, session and command agree.                                       *)
ProjectInv ==
    /\ TypeOK /\ ReplacementFound
    /\ SessionExact /\ FilesExact /\ PromiseKept /\ CommandExact

(* A bookmark that left the session's first system has the receipt of the  *)
(* replacement beside it, in what commands see and in what a power loss    *)
(* leaves: the history is durable before the bookmark is renamed           *)
(* (replacement.go CompleteReplacement).                                   *)
ReceiptBeforeBookmark ==
    \A d \in {mem, dur} :
        d.bm.obj # d.bm.id =>
            \E i \in d.hist : i.cand = d.bm.obj /\ i.base = d.bm.base

(* What survives a power loss only moves forward: the bookmark keeps its   *)
(* session, and an initialized or imported project stays so (store.go      *)
(* Save).                                                                  *)
MovesForward == Forward(dur.bm, dur'.bm)

DurableForward == [][MovesForward]_vars

=============================================================================
