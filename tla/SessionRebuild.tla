--------------------------- MODULE SessionRebuild ---------------------------
(***************************************************************************)
(* The rebuild of a session's system: a durable journal beside the session *)
(* record carries one replacement from the reservation of a candidate      *)
(* object through clone, cutover and readiness to the deletion of the old  *)
(* object.  Ordinary commands of the same session run in between and ask   *)
(* the journal for permission.                                             *)
(*                                                                         *)
(* One session name, with at least one volume.  Generations, batches and   *)
(* namespaces are the subject of SessionLifecycle and GenerationNamespace; *)
(* here a launch has one supervisor, and the Uses of all attached volumes  *)
(* are one Use that names the object it was made for.  A rebuild takes the *)
(* transition lock anew for every phase, so that other commands run        *)
(* between two phases.                                                     *)
(***************************************************************************)
EXTENDS Naturals, FiniteSets

CONSTANTS
    Commands,   \* concurrently running CLI processes
    Objects,    \* backend objects that may be created
    Bases,      \* golden revisions a system can be cloned from
    None        \* absence of an object or a revision

ASSUME RebuildAssumption == None \notin (Objects \cup Bases)

VARIABLES
    rec,     \* session record: state, object and base of the active system
    jr,      \* rebuild journal
    exists,  \* objects that exist in the backend
    used,    \* object identities ever generated
    use,     \* object that the durable Uses of the attached volumes name
    pin,     \* object whose host key the session's pin file holds
    torn,    \* objects whose pin file or staged pin was left half written
    up,      \* objects whose virtual machine runs
    sup,     \* supervisor of the current launch, and the journal it loaded
    kept,    \* journal a project has kept as the witness of its replacement
    pc,      \* command -> its next step
    want,    \* command -> what it was asked to do
    cur,     \* command -> record it loaded
    jn       \* command -> journal it loaded

durable == <<rec, jr, exists, used, use, pin, torn>>
runtime == <<up, sup>>
command == <<pc, want, cur, jn>>
vars == <<durable, runtime, kept, command>>

-----------------------------------------------------------------------------
States == {"none", "stopped", "starting", "running", "stopping", "deleting"}
Record == [st : States, obj : Objects \cup {None}, base : Bases \cup {None}]
NoRec == [st |-> "none", obj |-> None, base |-> None]

RebuildPhases == {"reserved", "cloned", "cutover", "ready", "retiring"}
RebuildJournal == [ph : RebuildPhases, old : Objects, oldBase : Bases,
                   cand : Objects, base : Bases, oldPin : BOOLEAN]
NoJournal == [ph |-> "none", old |-> None, oldBase |-> None, cand |-> None,
              base |-> None, oldPin |-> FALSE]
(* A journal that was not written to its end blocks everything.            *)
Torn == [NoJournal EXCEPT !.ph = "torn"]

(* validateRebuildJournal: complete, and the candidate is not the old one. *)
Journal == {NoJournal, Torn} \cup {j \in RebuildJournal : j.cand # j.old}

candidateRebuildPhase(j) == j.ph \in {"cutover", "ready", "retiring"}

(* loaded: record and journal read; checked: old system observed; live:    *)
(* machine launched; booted: pin admitted; lost: killed while it ran.      *)
SupPhases == {"none", "loaded", "checked", "live", "booted", "lost"}
Supervisor == [ph : SupPhases, obj : Objects \cup {None}, j : Journal]
NoSup == [ph |-> "none", obj |-> None, j |-> NoJournal]

(* resume: an execute that found the candidate ready or the old one going. *)
Request == [kind : {"none", "execute", "resume", "prepare", "plain"},
            base : Bases \cup {None}, wit : Objects \cup {None}]
NoRequest == [kind |-> "none", base |-> None, wit |-> None]
Ordinary == [kind |-> "plain", base |-> None, wit |-> None]

TransitionPCs == {"clone", "cloned", "switch", "delete", "clear", "release",
                  "reserve", "await", "stopping", "erase", "erased"}
SessionPCs == {"switch"}
PCs == TransitionPCs \cup
       {"idle", "journal", "prepare", "cutover", "candidate", "start",
        "confirm", "retire"}

TypeOK ==
    /\ rec \in Record
    /\ jr \in Journal
    /\ exists \subseteq Objects /\ used \subseteq Objects
    /\ use \in Objects \cup {None} /\ pin \in Objects \cup {None}
    /\ torn \subseteq Objects
    /\ up \subseteq Objects
    /\ sup \in Supervisor
    /\ kept \in Journal
    /\ pc \in [Commands -> PCs]
    /\ want \in [Commands -> Request]
    /\ cur \in [Commands -> Record]
    /\ jn \in [Commands -> Journal]

(* Identities are random: which unused one is drawn does not matter, so it *)
(* is always the same.                                                     *)
IsFresh(unused, o) == o = CHOOSE x \in unused : TRUE

(* A session that was just created and has never run.                      *)
Init ==
    /\ \E o \in Objects, b \in Bases :
        /\ IsFresh(Objects, o)
        /\ rec = [st |-> "stopped", obj |-> o, base |-> b]
        /\ exists = {o} /\ used = {o}
    /\ jr = NoJournal
    /\ use = None /\ pin = None /\ torn = {}
    /\ up = {} /\ sup = NoSup
    /\ kept = NoJournal
    /\ pc = [c \in Commands |-> "idle"]
    /\ want = [c \in Commands |-> NoRequest]
    /\ cur = [c \in Commands |-> NoRec]
    /\ jn = [c \in Commands |-> NoJournal]

-----------------------------------------------------------------------------
TransitionFree == \A c \in Commands : pc[c] \notin TransitionPCs
SessionFree == \A c \in Commands : pc[c] \notin SessionPCs
LeaseFree == sup.ph \notin {"checked", "live", "booted"}

(* Tart may list a running machine as stopped: it only has to exist.       *)
ObservedStopped(o) == o \in exists

RequireNoRebuild == jr.ph = "none"

(* Mutant: only the presence of a witness is looked at.                    *)
MutrequirePrepared(c, j) == want[c].wit # None => j.cand # None

requirePrepared(c, j) == want[c].wit # None => j.cand = want[c].wit

(* The record names the journal's candidate as the active system.          *)
CandidateActive(j, r) == r.obj = j.cand /\ r.base = j.base
OldActive(j, r) == r.obj = j.old /\ r.base = j.oldBase

(* A fresh snapshot of the exact live owner says it is ready.              *)
Evidence == sup.ph = "booted" /\ sup.obj = rec.obj /\ rec.obj \in up

Goto(c, label) == pc' = [pc EXCEPT ![c] = label]

Forget(c) ==
    /\ cur' = [cur EXCEPT ![c] = NoRec]
    /\ jn' = [jn EXCEPT ![c] = NoJournal]

Done(c) ==
    /\ Goto(c, "idle")
    /\ want' = [want EXCEPT ![c] = NoRequest]
    /\ Forget(c)

Advance(phase) == jr' = [jr EXCEPT !.ph = phase]

-----------------------------------------------------------------------------
(* Execute.  The record and the journal are read without a lock; what the  *)
(* two say together decides where the command continues.                   *)

ExecuteBegin(c, b) ==
    /\ pc[c] = "idle" /\ rec.st # "none"
    /\ want' = [want EXCEPT ![c] = [kind |-> "execute", base |-> b, wit |-> None]]
    /\ cur' = [cur EXCEPT ![c] = rec]
    /\ Goto(c, "journal")
    /\ UNCHANGED <<durable, runtime, kept, jn>>

(* ExecutePrepared: only the candidate a project has kept.                 *)
ExecutePrepared(c) ==
    /\ pc[c] = "idle" /\ rec.st # "none" /\ kept.ph = "cloned"
    /\ want' = [want EXCEPT ![c] =
                  [kind |-> "execute", base |-> kept.base, wit |-> kept.cand]]
    /\ cur' = [cur EXCEPT ![c] = rec]
    /\ Goto(c, "journal")
    /\ UNCHANGED <<durable, runtime, kept, jn>>

(* PrepareCandidate on its own reserves also for the base in use.          *)
PrepareBegin(c, b) ==
    /\ pc[c] = "idle"
    /\ want' = [want EXCEPT ![c] = [kind |-> "prepare", base |-> b, wit |-> None]]
    /\ Goto(c, "prepare")
    /\ UNCHANGED <<durable, runtime, kept, cur, jn>>

(* settlePrepared and a stopped session of that base change nothing; one   *)
(* that runs is started again for evidence that it is ready.               *)
ExecuteNoJournal(c) ==
    /\ pc[c] = "journal" /\ jr.ph = "none"
    /\ \/ /\ want[c].wit = None /\ want[c].base \notin {None, cur[c].base}
          /\ Goto(c, "prepare") /\ Forget(c) /\ UNCHANGED want
       \/ /\ want[c].wit = None /\ want[c].base = cur[c].base
          /\ cur[c].st = "running"
          /\ want' = [want EXCEPT ![c] = Ordinary]
          /\ Goto(c, "start") /\ Forget(c)
       \/ /\ want[c].wit # None \/ want[c].base = None
             \/ (want[c].base = cur[c].base /\ cur[c].st # "running")
          /\ Done(c)
    /\ UNCHANGED <<durable, runtime, kept>>

ExecuteResume(c) ==
    /\ pc[c] = "journal" /\ jr.ph \notin {"none", "torn"}
    /\ requirePrepared(c, jr)
    /\ want[c].base \in {None, jr.base}
    /\ want' = [want EXCEPT ![c].base = jr.base,
                            ![c].kind = IF jr.ph \in {"ready", "retiring"}
                                        THEN "resume" ELSE "execute"]
    /\ cur' = [cur EXCEPT ![c] = NoRec]
    /\ Goto(c, CASE jr.ph \in {"reserved", "cloned"} -> "prepare"
                 [] jr.ph = "cutover" -> "cutover"
                 [] cur[c].st \in {"stopped", "starting"} -> "start"
                 [] OTHER -> "retire")
    /\ jn' = [jn EXCEPT ![c] = IF pc'[c] = "start" THEN jr ELSE NoJournal]
    /\ UNCHANGED <<durable, runtime, kept>>

-----------------------------------------------------------------------------
(* prepareCandidate holds the transition lock.                             *)

(* Mutant: a Use that a killed start left behind is not looked for.        *)
MutReservable(c) ==
    /\ pc[c] = "prepare" /\ want[c].wit = None
    /\ TransitionFree /\ SessionFree /\ LeaseFree
    /\ rec.st = "stopped"
    /\ RequireNoRebuild
    /\ ObservedStopped(rec.obj)
    /\ pin \in {None, rec.obj} /\ (pin = None => rec.obj \notin torn)

(* WithStoppedRebuildGate and reserveCandidate; the identity is fresh.  An *)
(* old pin is witnessed, one that cannot be read refuses the reservation.  *)
Reservable(c) ==
    /\ pc[c] = "prepare" /\ want[c].wit = None
    /\ TransitionFree /\ SessionFree /\ LeaseFree
    /\ rec.st = "stopped" /\ use = None
    /\ RequireNoRebuild
    /\ ObservedStopped(rec.obj)
    /\ pin \in {None, rec.obj} /\ (pin = None => rec.obj \notin torn)

Reserve(c, o) ==
    /\ Reservable(c)
    /\ o \notin used /\ IsFresh(Objects \ used, o)
    /\ used' = used \cup {o}
    /\ jr' = [ph |-> "reserved", old |-> rec.obj, oldBase |-> rec.base,
              cand |-> o, base |-> want[c].base, oldPin |-> pin # None]
    /\ cur' = [cur EXCEPT ![c] = rec]
    /\ jn' = [jn EXCEPT ![c] = jr']
    /\ Goto(c, "clone")
    /\ UNCHANGED <<rec, exists, use, pin, torn, runtime, kept, want>>

(* The journal is created in place: killed while writing, it stays torn.   *)
ReserveTorn(c) ==
    /\ Reservable(c)
    /\ jr' = Torn
    /\ Done(c)
    /\ UNCHANGED <<rec, exists, used, use, pin, torn, runtime, kept>>

verifyOldPin(j) == IF j.oldPin THEN pin = j.old ELSE pin = None

PrepareResume(c) ==
    /\ pc[c] = "prepare" /\ TransitionFree
    /\ jr.ph \in {"reserved", "cloned"}
    /\ requirePrepared(c, jr)
    /\ OldActive(jr, rec) /\ want[c].base = jr.base
    /\ rec.st = "stopped"
    /\ verifyOldPin(jr)
    /\ ObservedStopped(jr.old)
    /\ cur' = [cur EXCEPT ![c] = rec]
    /\ jn' = [jn EXCEPT ![c] = jr]
    /\ Goto(c, "clone")
    /\ UNCHANGED <<durable, runtime, kept, want>>

(* Mutant: a clone that reports an error gives its reservation up.         *)
MutPrepareClone(c) ==
    /\ pc[c] = "clone" /\ jn[c].ph = "reserved"
    /\ exists' = exists \cup {jn[c].cand}
    /\ \/ Goto(c, "cloned") /\ UNCHANGED <<jr, want, cur, jn>>
       \/ jr' = NoJournal /\ Done(c)
    /\ UNCHANGED <<rec, used, use, pin, torn, runtime, kept>>

(* A candidate found stopped under a reserved journal is an earlier clone. *)
PrepareClone(c) ==
    /\ pc[c] = "clone" /\ jn[c].ph = "reserved"
    /\ exists' = exists \cup {jn[c].cand}
    /\ Goto(c, "cloned")
    /\ UNCHANGED <<rec, jr, used, use, pin, torn, runtime, kept, want, cur, jn>>

(* The prepared journal goes on to the cutover or to the project.          *)
Prepared(c, j) ==
    IF want[c].kind = "prepare"
    THEN Done(c) /\ kept' = j
    ELSE Goto(c, "cutover") /\ Forget(c) /\ UNCHANGED <<want, kept>>

PrepareCloned(c) ==
    /\ pc[c] = "cloned" /\ SessionFree
    /\ ObservedStopped(jn[c].cand)
    /\ rec = cur[c] /\ jr = jn[c]
    /\ Advance("cloned")
    /\ Prepared(c, jr')
    /\ UNCHANGED <<rec, exists, used, use, pin, torn, runtime>>

PrepareAgain(c) ==
    /\ pc[c] = "clone" /\ jn[c].ph = "cloned"
    /\ ObservedStopped(jn[c].cand)
    /\ Prepared(c, jn[c])
    /\ UNCHANGED <<durable, runtime>>

-----------------------------------------------------------------------------
(* Cutover: first the journal, then the record, under both locks.          *)

CutoverBegin(c) ==
    /\ pc[c] = "cutover" /\ TransitionFree /\ SessionFree
    /\ jr.ph \in {"cloned", "cutover"}
    /\ requirePrepared(c, jr)
    /\ rec.st = "stopped" /\ OldActive(jr, rec)
    /\ verifyOldPin(jr)
    /\ ObservedStopped(jr.old) /\ ObservedStopped(jr.cand)
    /\ Advance("cutover")
    /\ Goto(c, "switch")
    /\ UNCHANGED <<rec, exists, used, use, pin, torn, runtime, kept, want, cur, jn>>

CutoverRecord(c) ==
    /\ pc[c] = "switch"
    /\ rec' = [rec EXCEPT !.obj = jr.cand, !.base = jr.base]
    /\ Goto(c, "candidate")
    /\ UNCHANGED <<jr, exists, used, use, pin, torn, runtime, kept, want, cur, jn>>

CutoverDone(c) ==
    /\ pc[c] = "cutover" /\ TransitionFree /\ SessionFree
    /\ jr.ph = "cutover"
    /\ requirePrepared(c, jr)
    /\ CandidateActive(jr, rec)
    /\ Goto(c, "candidate")
    /\ UNCHANGED <<durable, runtime, kept, want, cur, jn>>

(* The journal is read again, without a lock, to authorise the start.      *)
LoadCandidate(c) ==
    /\ pc[c] = "candidate"
    /\ jr.ph \notin {"none", "torn"} /\ requirePrepared(c, jr)
    /\ jn' = [jn EXCEPT ![c] = jr]
    /\ Goto(c, "start")
    /\ UNCHANGED <<durable, runtime, kept, want, cur>>

-----------------------------------------------------------------------------
(* Start, ordinary or of the candidate.                                    *)

StartBegin(c) ==
    /\ pc[c] = "idle"
    /\ want' = [want EXCEPT ![c] = Ordinary]
    /\ Goto(c, "start")
    /\ UNCHANGED <<durable, runtime, kept, cur, jn>>

(* An ordinary start needs no journal, a candidate's the one it was given. *)
StartAuthorised(c) ==
    IF want[c].kind = "plain" THEN RequireNoRebuild
    ELSE /\ jr = jn[c] /\ candidateRebuildPhase(jr)
         /\ CandidateActive(jr, rec)

StartLoad(c) ==
    /\ pc[c] = "start" /\ TransitionFree /\ SessionFree
    /\ StartAuthorised(c)
    /\ \/ rec.st = "stopped" /\ ObservedStopped(rec.obj) /\ Goto(c, "release")
       \/ rec.st = "starting" /\ use = rec.obj /\ Goto(c, "await")
    /\ cur' = [cur EXCEPT ![c] = rec]
    /\ UNCHANGED <<durable, runtime, kept, want, jn>>

(* What the command does with a session that runs and is ready.            *)
Started(c) ==
    IF want[c].kind = "plain" THEN Done(c)
    ELSE /\ UNCHANGED want
         /\ \/ /\ want[c].kind = "execute" /\ Goto(c, "confirm")
               /\ cur' = [cur EXCEPT ![c] = NoRec] /\ UNCHANGED jn
            \/ want[c].kind # "execute" /\ Goto(c, "retire") /\ Forget(c)

StartRunning(c) ==
    /\ pc[c] = "start" /\ TransitionFree /\ SessionFree
    /\ StartAuthorised(c)
    /\ rec.st = "running" /\ use = rec.obj /\ Evidence
    /\ Started(c)
    /\ UNCHANGED <<durable, runtime, kept>>

StartRelease(c) ==
    /\ pc[c] = "release" /\ SessionFree /\ LeaseFree
    /\ rec = cur[c]
    /\ use \in {None, rec.obj}
    /\ use' = None
    /\ Goto(c, "reserve")
    /\ UNCHANGED <<rec, jr, exists, used, pin, torn, runtime, kept, want, cur, jn>>

(* The Uses come first; killed before the record, they stay.               *)
StartReserve(c) ==
    /\ pc[c] = "reserve" /\ SessionFree /\ LeaseFree
    /\ rec = cur[c] /\ StartAuthorised(c)
    /\ ObservedStopped(rec.obj)
    /\ use' = rec.obj
    /\ \/ UNCHANGED rec /\ Done(c)
       \/ /\ rec' = [rec EXCEPT !.st = "starting"]
          /\ cur' = [cur EXCEPT ![c] = rec']
          /\ Goto(c, "await")
          /\ UNCHANGED <<want, jn>>
    /\ UNCHANGED <<jr, exists, used, pin, torn, runtime, kept>>

StartAccept(c) ==
    /\ pc[c] = "await" /\ SessionFree
    /\ rec.obj = cur[c].obj /\ rec.st = "starting"
    /\ Evidence
    /\ rec' = [rec EXCEPT !.st = "running"]
    /\ Started(c)
    /\ UNCHANGED <<jr, exists, used, use, pin, torn, runtime, kept>>

-----------------------------------------------------------------------------
(* ConfirmReady and RetireOld.  A command whose candidate was confirmed by *)
(* another, and which first saw the session stopped, starts it once more.  *)

CandidateReady(c) ==
    /\ TransitionFree /\ SessionFree
    /\ requirePrepared(c, jr)
    /\ CandidateActive(jr, rec)
    /\ rec.st = "running" /\ use = rec.obj /\ Evidence

ConfirmReady(c) ==
    /\ pc[c] = "confirm" /\ CandidateReady(c)
    /\ jr.ph \in {"cutover", "ready"}
    /\ Advance("ready")
    /\ \/ Goto(c, "retire") /\ Forget(c) /\ UNCHANGED want
       \/ /\ jn[c].ph # "cutover"
          /\ want' = [want EXCEPT ![c].kind = "resume"]
          /\ Goto(c, "start")
          /\ UNCHANGED <<cur, jn>>
    /\ UNCHANGED <<rec, exists, used, use, pin, torn, runtime, kept>>

(* Mutant: the old object goes before its deletion is journaled.           *)
MutRetireBegin(c) ==
    /\ pc[c] = "retire" /\ CandidateReady(c)
    /\ jr.ph \in {"ready", "retiring"}
    /\ cur' = [cur EXCEPT ![c] = rec]
    /\ jn' = [jn EXCEPT ![c] = jr]
    /\ Goto(c, "delete")
    /\ UNCHANGED <<durable, runtime, kept, want>>

(* The intent is durable before the old object is touched; only under it   *)
(* may the old object be absent already.                                   *)
RetireBegin(c) ==
    /\ pc[c] = "retire" /\ CandidateReady(c)
    /\ jr.ph = "retiring" \/ (jr.ph = "ready" /\ jr.old \in exists)
    /\ Advance("retiring")
    /\ cur' = [cur EXCEPT ![c] = rec]
    /\ jn' = [jn EXCEPT ![c] = jr']
    /\ Goto(c, "delete")
    /\ UNCHANGED <<rec, exists, used, use, pin, torn, runtime, kept, want>>

RetireDelete(c) ==
    /\ pc[c] = "delete"
    /\ exists' = exists \ {jn[c].old}
    /\ Goto(c, "clear")
    /\ UNCHANGED <<rec, jr, used, use, pin, torn, runtime, kept, want, cur, jn>>

RetireClear(c) ==
    /\ pc[c] = "clear" /\ SessionFree
    /\ jn[c].old \notin exists
    /\ rec = cur[c] /\ jr = jn[c]
    /\ jr' = NoJournal
    /\ Done(c)
    /\ UNCHANGED <<rec, exists, used, use, pin, torn, runtime, kept>>

-----------------------------------------------------------------------------
(* Stop asks no journal; delete and create do.                             *)

StopBegin(c) ==
    /\ pc[c] = "idle" /\ TransitionFree /\ SessionFree
    /\ rec.st \in {"stopped", "starting", "running", "stopping"}
    /\ rec.obj \in exists
    /\ rec' = IF rec.st = "stopped" THEN rec ELSE [rec EXCEPT !.st = "stopping"]
    /\ cur' = [cur EXCEPT ![c] = rec']
    /\ want' = [want EXCEPT ![c] = Ordinary]
    /\ Goto(c, "stopping")
    /\ UNCHANGED <<jr, exists, used, use, pin, torn, runtime, kept, jn>>

(* Mutant: a released lease counts as the end of the launch.               *)
MutStopFinish(c) ==
    /\ pc[c] = "stopping" /\ SessionFree /\ LeaseFree
    /\ rec = cur[c]
    /\ ObservedStopped(rec.obj)
    /\ use \in {None, rec.obj}
    /\ use' = None
    /\ rec' = [rec EXCEPT !.st = "stopped"]
    /\ Done(c)
    /\ UNCHANGED <<jr, exists, used, pin, torn, runtime, kept>>

StopFinish(c) ==
    /\ pc[c] = "stopping" /\ SessionFree /\ LeaseFree
    /\ rec = cur[c]
    /\ rec.st = "stopping" => sup.ph = "none"
    /\ ObservedStopped(rec.obj)
    /\ use \in {None, rec.obj}
    /\ use' = None
    /\ \/ rec' = [rec EXCEPT !.st = "stopped"]
       \/ UNCHANGED rec
    /\ Done(c)
    /\ UNCHANGED <<jr, exists, used, pin, torn, runtime, kept>>

DeleteBegin(c) ==
    /\ pc[c] = "idle" /\ TransitionFree /\ SessionFree
    /\ RequireNoRebuild
    /\ \/ rec.st = "stopped" /\ LeaseFree /\ use = None /\ ObservedStopped(rec.obj)
       \/ rec.st = "deleting"
    /\ rec' = [rec EXCEPT !.st = "deleting"]
    /\ cur' = [cur EXCEPT ![c] = rec']
    /\ want' = [want EXCEPT ![c] = Ordinary]
    /\ Goto(c, "erase")
    /\ UNCHANGED <<jr, exists, used, use, pin, torn, runtime, kept, jn>>

DeleteErase(c) ==
    /\ pc[c] = "erase"
    /\ exists' = exists \ {cur[c].obj}
    /\ Goto(c, "erased")
    /\ UNCHANGED <<rec, jr, used, use, pin, torn, runtime, kept, want, cur, jn>>

DeleteFinal(c) ==
    /\ pc[c] = "erased" /\ SessionFree /\ LeaseFree
    /\ rec = cur[c] /\ RequireNoRebuild
    /\ use = None /\ rec.obj \notin exists
    /\ rec' = NoRec
    /\ Done(c)
    /\ UNCHANGED <<jr, exists, used, use, pin, torn, runtime, kept>>

(* A new session of the same name: its pin file has a name of its own.     *)
(* While it is being created every other command refuses, so it is one     *)
(* step; SessionLifecycle has its parts.                                   *)
Create(o, b) ==
    /\ SessionFree /\ RequireNoRebuild
    /\ rec = NoRec /\ o \notin used /\ IsFresh(Objects \ used, o)
    /\ rec' = [st |-> "stopped", obj |-> o, base |-> b]
    /\ exists' = exists \cup {o} /\ used' = used \cup {o}
    /\ pin' = None
    /\ UNCHANGED <<jr, use, torn, runtime, kept, command>>

Abort(c) ==
    /\ pc[c] # "idle"
    /\ Done(c)
    /\ UNCHANGED <<durable, runtime, kept>>

-----------------------------------------------------------------------------
(* The supervisor of the launch.  It reads record and journal without a    *)
(* lock, and the journal again before it admits the host key.              *)

SupLoad ==
    /\ sup.ph = "none" /\ rec.st = "starting"
    /\ \/ jr.ph = "none"
       \/ /\ candidateRebuildPhase(jr) /\ CandidateActive(jr, rec)
          /\ jr.ph # "cutover" => pin = rec.obj
    /\ sup' = [ph |-> "loaded", obj |-> rec.obj, j |-> jr]
    /\ UNCHANGED <<durable, up, kept, command>>

(* The old system must be stopped, or absent under retiring intent; then   *)
(* AdmitLaunchDisks looks at record and Uses under the session lock.       *)
SupCheck ==
    /\ sup.ph = "loaded" /\ SessionFree
    /\ sup.j.ph \in {"none", "retiring"} \/ ObservedStopped(sup.j.old)
    /\ ObservedStopped(sup.obj)
    /\ rec.st = "starting" /\ rec.obj = sup.obj /\ use = sup.obj
    /\ sup' = [sup EXCEPT !.ph = "checked"]
    /\ UNCHANGED <<durable, up, kept, command>>

SupLaunch ==
    /\ sup.ph = "checked" /\ sup.obj \in exists
    /\ up' = up \cup {sup.obj}
    /\ sup' = [sup EXCEPT !.ph = "live"]
    /\ UNCHANGED <<durable, kept, command>>

(* Admit writes an absent pin; TransitionRebuild replaces a witnessed old  *)
(* one, and takes a pin of the candidate for its own earlier work.         *)
PinAdmissible ==
    /\ \/ sup.j.ph = "none" /\ pin \in {None, sup.obj}
       \/ /\ sup.j.ph # "none" /\ jr = sup.j
          /\ \/ pin = sup.obj
             \/ pin = None /\ ~sup.j.oldPin
             \/ pin = sup.j.old /\ sup.j.oldPin
    /\ pin # sup.obj => sup.obj \notin torn

SupBootstrap ==
    /\ sup.ph = "live" /\ sup.obj \in up
    /\ PinAdmissible
    /\ pin' = sup.obj
    /\ sup' = [sup EXCEPT !.ph = "booted", !.j = NoJournal]
    /\ UNCHANGED <<rec, jr, exists, used, use, torn, up, kept, command>>

(* The host dies while the pin, or its staged successor, is written.       *)
SupTorn ==
    /\ sup.ph = "live" /\ PinAdmissible /\ pin # sup.obj
    /\ torn' = torn \cup {sup.obj}
    /\ sup' = [sup EXCEPT !.ph = "lost", !.j = NoJournal]
    /\ UNCHANGED <<rec, jr, exists, used, use, pin, up, kept, command>>

MachineEnds ==
    /\ up # {}
    /\ \E o \in up : up' = up \ {o}
    /\ UNCHANGED <<durable, sup, kept, command>>

(* Refused before the launch, or reaped after the machine's end.           *)
SupEnds ==
    /\ sup.ph \in {"loaded", "checked", "live", "booted"} /\ up = {}
    /\ sup' = NoSup
    /\ UNCHANGED <<durable, up, kept, command>>

(* Killed: before the launch a retry resumes; after it artifacts stay.     *)
SupLost ==
    /\ sup.ph \in {"live", "booted"}
    /\ sup' = [sup EXCEPT !.ph = "lost", !.j = NoJournal]
    /\ UNCHANGED <<durable, up, kept, command>>

-----------------------------------------------------------------------------
RebuildStep(c) ==
    \/ \E b \in Bases \cup {None} : ExecuteBegin(c, b)
    \/ ExecutePrepared(c)
    \/ \E b \in Bases : PrepareBegin(c, b)
    \/ ExecuteNoJournal(c) \/ ExecuteResume(c)
    \/ \E o \in Objects : Reserve(c, o)
    \/ ReserveTorn(c)
    \/ PrepareResume(c) \/ PrepareClone(c) \/ PrepareCloned(c) \/ PrepareAgain(c)
    \/ CutoverBegin(c) \/ CutoverRecord(c) \/ CutoverDone(c) \/ LoadCandidate(c)
    \/ ConfirmReady(c) \/ RetireBegin(c) \/ RetireDelete(c) \/ RetireClear(c)

SessionStep(c) ==
    \/ StartBegin(c) \/ StartLoad(c) \/ StartRunning(c) \/ StartRelease(c)
    \/ StartReserve(c) \/ StartAccept(c)
    \/ StopBegin(c) \/ StopFinish(c)
    \/ DeleteBegin(c) \/ DeleteErase(c) \/ DeleteFinal(c)
    \/ Abort(c)

SupStep ==
    \/ SupLoad \/ SupCheck \/ SupLaunch \/ SupBootstrap \/ SupTorn
    \/ MachineEnds \/ SupEnds \/ SupLost

Next ==
    \/ \E c \in Commands : RebuildStep(c) \/ SessionStep(c)
    \/ \E o \in Objects, b \in Bases : Create(o, b)
    \/ SupStep

Spec == Init /\ [][Next]_vars

-----------------------------------------------------------------------------
(* Safety.                                                                 *)

Pending == jr.ph \notin {"none", "torn"}

(* From the reservation on the old system never runs again, and the        *)
(* candidate runs only as the active system after the cutover.             *)
OldNeverRuns ==
    Pending => /\ jr.old \notin up
               /\ jr.cand \in up => candidateRebuildPhase(jr) /\ rec.obj = jr.cand

(* A session always has a system: the object its record names exists, and  *)
(* until its deletion is intended the old one exists beside the candidate. *)
SystemKept ==
    /\ rec.st \notin {"none", "deleting"} => rec.obj \in exists
    /\ Pending /\ jr.ph # "retiring" => jr.old \in exists

(* Every object is named by the record or by the journal.                  *)
NothingLeaked ==
    exists \subseteq {rec.obj, jr.old, jr.cand}

(* Objects are drawn once; what is named or pinned was drawn.              *)
ObjectsKnown ==
    /\ exists \subseteq used /\ rec.obj \in used \cup {None}
    /\ jr.old \in used \cup {None} /\ jr.cand \in used \cup {None}

(* Only a record that starts, runs or stops may have a launch, and the     *)
(* launch is of its object.  An absent or deleting record holds no Use.    *)
RecordExact ==
    /\ rec.st = "none" => rec = NoRec
    /\ rec.st # "none" => rec.obj \in Objects /\ rec.base \in Bases
    /\ rec.st \in {"none", "deleting"} => use = None
    /\ rec.st \in {"none", "stopped", "deleting"} => sup = NoSup
    /\ rec.st = "running" => sup.ph \in {"none", "booted", "lost"}

(* The machine that runs is its supervisor's; one that has not admitted    *)
(* its pin yet loaded the journal that is still on disk.                   *)
LaunchExact ==
    /\ sup.ph = "none" => sup = NoSup
    /\ up \subseteq {sup.obj}
    /\ sup.ph \in {"none", "loaded", "checked"} => up = {}
    /\ sup.ph # "none" => sup.obj = rec.obj
    /\ sup.ph \in {"loaded", "checked", "live"} => jr = sup.j
    /\ sup.ph = "booted" => pin = sup.obj

(* The old system is still the active one: stopped, with no Use, and its   *)
(* pin as the reservation found it.                                        *)
OldWaits ==
    /\ OldActive(jr, rec) /\ rec.st = "stopped" /\ use = None
    /\ verifyOldPin(jr)

(* What each phase of the journal says of record, objects and pin.         *)
JournalExact ==
    /\ jr.ph = "torn" => rec.st = "stopped"
    /\ Pending => rec.st \notin {"none", "deleting"}
    /\ jr.ph \in {"reserved", "cloned"} => OldWaits
    /\ jr.ph = "cutover" => OldWaits \/ CandidateActive(jr, rec)
    /\ jr.ph \in {"cloned", "cutover", "ready"} => jr.cand \in exists
    /\ jr.ph \in {"ready", "retiring"} => CandidateActive(jr, rec) /\ pin = jr.cand

OneHolder ==
    \A c, d \in Commands :
        pc[c] \in TransitionPCs /\ pc[d] \in TransitionPCs => c = d

(* A preparation is for a base.  What the holder of the transition lock    *)
(* loaded is what is on disk, from its first step under it to its last.    *)
HeldExact(c) ==
    /\ pc[c] = "prepare" => want[c].base \in Bases
    /\ pc[c] \in {"clone", "cloned", "delete", "clear"} =>
         jr = jn[c] /\ requirePrepared(c, jr)
    /\ pc[c] \in TransitionPCs \ SessionPCs => rec = cur[c]
    /\ pc[c] = "clone" => jr.ph \in {"reserved", "cloned"}
    /\ pc[c] = "cloned" => jr.ph = "reserved" /\ jr.cand \in exists
    /\ pc[c] = "switch" => jr.ph = "cutover" /\ OldWaits
    /\ pc[c] \in {"delete", "clear"} => jr.ph = "retiring" /\ rec.st = "running"
    /\ pc[c] \in {"release", "reserve"} => rec.st = "stopped"
    /\ pc[c] = "await" => rec.st = "starting"
    /\ pc[c] = "stopping" => rec.st \in {"stopped", "stopping"}
    /\ pc[c] \in {"erase", "erased"} => rec.st = "deleting" /\ jr = NoJournal

CommandExact == \A c \in Commands : HeldExact(c)

(* Well typed, no object is orphaned by a rebuild that is interrupted and  *)
(* repeated (rebuild.go prepareCandidate, RetireOld), and record, journal, *)
(* launch and the lock's holder agree.                                     *)
RebuildInv ==
    /\ TypeOK /\ NothingLeaked /\ ObjectsKnown
    /\ RecordExact /\ LaunchExact /\ JournalExact
    /\ OneHolder /\ CommandExact

(* What the old system left in durable state never refuses the new one:    *)
(* Uses name the active system, and so does the pin once the rebuild ends; *)
(* before the old object may go, the candidate has proved its host key.    *)
BindingsFollow ==
    /\ use # None => use = rec.obj
    /\ ~Pending /\ rec.st # "none" => pin \in {None, rec.obj}
    /\ jr.ph \in {"ready", "retiring"} => pin = jr.cand /\ rec.obj = jr.cand

(* A command that was given a kept witness never advances another          *)
(* replacement, however many were completed and begun since it looked.     *)
PreparedExact ==
    [][\A c \in Commands :
         want[c].wit # None /\ pc'[c] # pc[c] /\ jr' # jr =>
            jr.cand = want[c].wit]_vars

=============================================================================
