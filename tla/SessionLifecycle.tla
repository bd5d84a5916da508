-------------------------- MODULE SessionLifecycle --------------------------
(***************************************************************************)
(* The lifecycle of Boxwarden sessions: the durable session records, the   *)
(* durable workspace volume records, the CLI commands that move them, the  *)
(* detached supervisors that serve one start generation each, and the      *)
(* virtual machines those supervisors launch.                              *)
(*                                                                         *)
(* Commands of several processes interleave.  Every command and every      *)
(* supervisor may fail, time out or be killed between any two steps, and a *)
(* batch of record writes may be cut short after any prefix of it.         *)
(*                                                                         *)
(* Two kernel locks per session serialise the commands.  The transition    *)
(* lock spans a whole start, stop or delete; the session lock is held only *)
(* around the record and is deliberately released while a supervisor works.*)
(* Both are functions of the program counters (TransitionPCs, SessionPCs): *)
(* a killed process drops them with its descriptors.                       *)
(*                                                                         *)
(* A supervisor opens its generation's lock by path and locks what it      *)
(* opened.  If the namespace is cleaned away in between, it locks a file   *)
(* no path names and works on beside the owner of the next publication:    *)
(* two supervisors of one generation are part of this model.               *)
(***************************************************************************)
EXTENDS Naturals, FiniteSets

CONSTANTS
    Sessions,   \* session names of one domain
    Volumes,    \* managed workspace volumes
    Commands,   \* concurrently running CLI processes
    Ids,        \* session identities; each names one backend object
    Gens,       \* start generations
    Supervisors,\* detached supervisor processes, at one time
    None,       \* absence of an identity or a generation
    MaxAttach   \* maxSessionAttachments

ASSUME NoneAssumption == None \notin (Ids \cup Gens \cup Sessions)
ASSUME MaxAttachAssumption == MaxAttach \in Nat

VARIABLES
    rec,      \* session name -> durable record (state, identity, generation)
    att,      \* volume -> identity of the session it is attached to
    use,      \* volume -> generation its durable Use names
    vm,       \* identities whose backend object exists
    used,     \* identities ever generated
    bound,    \* generation -> identity it was generated for
    ns,       \* generation -> its runtime namespace on disk
    sup,      \* supervisor -> its phase
    serves,   \* supervisor -> the generation it was spawned for
    atpath,   \* supervisors whose lock descriptor is the file at the path
    disks,    \* supervisor -> volumes whose leases its launch was given
    running,  \* supervisors whose virtual machine process is alive
    pc,       \* command -> its next step
    tgt,      \* command -> the session it works on
    exp       \* command -> the record it last loaded

durable == <<rec, att, use, vm, used, bound>>
runtime == <<ns, sup, serves, atpath, disks, running>>
command == <<pc, tgt, exp>>
vars == <<durable, runtime, command>>

-----------------------------------------------------------------------------
States == {"none", "creating", "stopped", "starting", "running", "stopping",
           "deleting"}
Record == [st : States, id : Ids \cup {None}, gen : Gens \cup {None}]
Rec(st, id, g) == [st |-> st, id |-> id, gen |-> g]
NoRec == Rec("none", None, None)

(* What the generation's directory and its cleanup residue hold: request   *)
(* and lock only, live artifacts too (serial, scratch, socket), what an    *)
(* unfinished cleanup left under the cleanup names, or residue with the    *)
(* live artifacts of a supervisor that did not own the lock cleaned away.  *)
Namespace == {"absent", "published", "artifacts", "residue", "stranded"}

Phases == {"gone", "spawned", "opened", "claimed", "admitted", "live",
           "stopping", "cleaning", "checked"}
Holding == {"claimed", "admitted", "live", "stopping", "cleaning", "checked"}
Leasing == {"admitted", "live", "stopping"}

TransitionPCs == {"release", "prepare", "launch", "spawn", "accept", "persist",
                  "poison", "awaitPoison", "relaunch",
                  "prove", "control", "awaitStop", "finish", "publish",
                  "delete", "deleted"}
SessionPCs == {"clone", "cloned", "persist", "prove"}
PCs == {"idle"} \cup TransitionPCs \cup SessionPCs

TypeOK ==
    /\ rec \in [Sessions -> Record]
    /\ att \in [Volumes -> Ids \cup {None}]
    /\ use \in [Volumes -> Gens \cup {None}]
    /\ vm \subseteq Ids
    /\ used \subseteq Ids
    /\ bound \in [Gens -> Ids \cup {None}]
    /\ ns \in [Gens -> Namespace]
    /\ sup \in [Supervisors -> Phases]
    /\ serves \in [Supervisors -> Gens \cup {None}]
    /\ atpath \subseteq Supervisors
    /\ disks \in [Supervisors -> SUBSET Volumes]
    /\ running \subseteq Supervisors
    /\ pc \in [Commands -> PCs]
    /\ tgt \in [Commands -> Sessions \cup {None}]
    /\ exp \in [Commands -> Record]

Init ==
    /\ rec = [s \in Sessions |-> NoRec]
    /\ att = [v \in Volumes |-> None]
    /\ use = [v \in Volumes |-> None]
    /\ vm = {}
    /\ used = {}
    /\ bound = [g \in Gens |-> None]
    /\ ns = [g \in Gens |-> "absent"]
    /\ sup = [k \in Supervisors |-> "gone"]
    /\ serves = [k \in Supervisors |-> None]
    /\ atpath = {}
    /\ disks = [k \in Supervisors |-> {}]
    /\ running = {}
    /\ pc = [c \in Commands |-> "idle"]
    /\ tgt = [c \in Commands |-> None]
    /\ exp = [c \in Commands |-> NoRec]

-----------------------------------------------------------------------------
(* Locks, observations and the volume records of one session.              *)

TransitionFree(s) == \A c \in Commands : tgt[c] = s => pc[c] \notin TransitionPCs
SessionFree(s) == \A c \in Commands : tgt[c] = s => pc[c] \notin SessionPCs

(* A volume-use lock outlives a critical section only inside the lease of  *)
(* a supervisor that has not proved its reap.                              *)
VolumeFree(v) == \A k \in Supervisors : v \in disks[k] => sup[k] \notin Leasing

Attached(id) == {v \in Volumes : att[v] = id}
InUse(id) == {v \in Attached(id) : use[v] # None}

VmUp(id) == \E k \in running : bound[serves[k]] = id

(* Tart may list a running machine as stopped, never the converse.         *)
Observed(id) ==
    IF id \notin vm THEN {"absent"}
    ELSE IF VmUp(id) THEN {"running", "stopped"} ELSE {"stopped"}

ObservedStopped(id) == "stopped" \in Observed(id)

Of(g) == {k \in Supervisors : serves[k] = g}

(* Mutant: a free generation lock is taken for proof that nothing runs     *)
(* (RunningDisksReserved).                                                 *)
QuiescedByLock(g) == \A k \in Of(g) : sup[k] \notin Holding

Quiesced(g) == ns[g] = "absent"

VerifyUses(r) == \A v \in Attached(r.id) : use[v] = r.gen

Goto(c, label) == pc' = [pc EXCEPT ![c] = label]

(* A command that ends, for whatever reason, forgets what it loaded.       *)
Done(c) ==
    /\ pc' = [pc EXCEPT ![c] = "idle"]
    /\ tgt' = [tgt EXCEPT ![c] = None]
    /\ exp' = [exp EXCEPT ![c] = NoRec]

Begin(c, s, r, label) ==
    /\ pc' = [pc EXCEPT ![c] = label]
    /\ tgt' = [tgt EXCEPT ![c] = s]
    /\ exp' = [exp EXCEPT ![c] = r]

Advance(c, r, label) ==
    /\ pc' = [pc EXCEPT ![c] = label]
    /\ exp' = [exp EXCEPT ![c] = r]
    /\ UNCHANGED tgt

Save(s, r) == rec' = [rec EXCEPT ![s] = r]

(* A reap answers the stop calls that wait for it.                         *)
Answered(g) ==
    pc' = [c \in Commands |->
             CASE exp[c].gen = g /\ pc[c] = "awaitStop" -> "finish"
               [] exp[c].gen = g /\ pc[c] = "awaitPoison" -> "relaunch"
               [] OTHER -> pc[c]]

(* A supervisor's process ends.  Its name is used again once its machine   *)
(* has ended too.                                                          *)
Gone(k) ==
    /\ sup' = [sup EXCEPT ![k] = "gone"]
    /\ serves' = [serves EXCEPT ![k] = IF k \in running THEN @ ELSE None]
    /\ disks' = [disks EXCEPT ![k] = IF k \in running THEN @ ELSE {}]

-----------------------------------------------------------------------------
(* Mutants: what a plausible slip in the code would make of an action.  No *)
(* action uses them; each breaks the property named with it.               *)

(* An earlier clone found under creating intent is a conflict, not a       *)
(* resumption (RetryCompletes).                                            *)
CreateCloneFresh(c) ==
    /\ pc[c] = "clone"
    /\ exp[c].id \notin vm
    /\ vm' = vm \cup {exp[c].id}
    /\ Goto(c, "cloned")
    /\ UNCHANGED <<rec, att, use, used, bound, runtime, tgt, exp>>

(* A retry of starting takes the path of a fresh start (GenerationStable). *)
StartAnew(c, s) ==
    /\ pc[c] = "idle"
    /\ TransitionFree(s) /\ SessionFree(s)
    /\ rec[s].st \in {"stopped", "starting"}
    /\ ObservedStopped(rec[s].id)
    /\ Begin(c, s, rec[s], "release")
    /\ UNCHANGED <<durable, runtime>>

(* The starting record is committed over an unfinished batch of Uses       *)
(* (StartedUsesComplete).                                                  *)
StartPrepareEarly(c, g, W) ==
    LET r == exp[c]
        A == Attached(r.id)
        started == Rec("starting", r.id, g) IN
    /\ pc[c] = "prepare"
    /\ bound[g] = None
    /\ SessionFree(tgt[c])
    /\ \A v \in A : VolumeFree(v) /\ use[v] = None
    /\ rec[tgt[c]] = r
    /\ ObservedStopped(r.id)
    /\ W \subseteq A
    /\ bound' = [bound EXCEPT ![g] = r.id]
    /\ use' = [v \in Volumes |-> IF v \in W THEN g ELSE use[v]]
    /\ Save(tgt[c], started) /\ Advance(c, started, "launch")
    /\ UNCHANGED <<att, vm, used, runtime>>

(* Stopping intent is not accepted by a repeated stop (StopConverges).     *)
StopBeginOnce(c, s, o) ==
    LET r == [rec[s] EXCEPT !.st = "stopping"] IN
    /\ pc[c] = "idle"
    /\ TransitionFree(s) /\ SessionFree(s)
    /\ rec[s].st \in {"starting", "running"}
    /\ o \in Observed(rec[s].id) \ {"absent"}
    /\ Save(s, r)
    /\ Begin(c, s, r, IF o = "stopped" THEN "prove" ELSE "control")
    /\ UNCHANGED <<att, use, vm, used, bound, runtime>>

(* Tart's stopped is believed without the proof (StoppedMeansQuiet).       *)
StopTrusts(c) ==
    /\ pc[c] = "prove"
    /\ Goto(c, "finish")
    /\ UNCHANGED <<durable, runtime, tgt, exp>>

(* A serial subtree that is there already is adopted (OneLaunchPerObject). *)
OwnerLaunchAdopts(k) ==
    /\ sup[k] = "admitted"
    /\ ns[serves[k]] \in {"published", "artifacts"}
    /\ bound[serves[k]] \in vm
    /\ sup' = [sup EXCEPT ![k] = "live"]
    /\ ns' = [ns EXCEPT ![serves[k]] = "artifacts"]
    /\ running' = running \cup {k}
    /\ UNCHANGED <<durable, serves, atpath, disks, command>>

(* The record goes although detaching was cut short (NothingOrphaned).     *)
DeleteFinalEarly(c, W) ==
    LET r == exp[c]
        A == Attached(r.id) IN
    /\ pc[c] = "deleted"
    /\ SessionFree(tgt[c])
    /\ \A v \in A : VolumeFree(v) /\ use[v] = None
    /\ rec[tgt[c]] = r
    /\ r.id \notin vm
    /\ W \subseteq A
    /\ att' = [v \in Volumes |-> IF v \in W THEN None ELSE att[v]]
    /\ Save(tgt[c], NoRec)
    /\ Done(c)
    /\ UNCHANGED <<use, vm, used, bound, runtime>>

(* A launch is admitted on its Uses alone, whatever the record says by now *)
(* (IndInv).                                                               *)
OwnerAdmitUnchecked(k) ==
    LET g == serves[k]
        A == Attached(bound[g]) IN
    /\ sup[k] = "claimed"
    /\ \A v \in A : VolumeFree(v) /\ use[v] = g
    /\ ObservedStopped(bound[g])
    /\ disks' = [disks EXCEPT ![k] = A]
    /\ sup' = [sup EXCEPT ![k] = "admitted"]
    /\ UNCHANGED <<durable, ns, serves, atpath, running, command>>

(* The reap is reported while the machine runs (UseReleasedAfterReap).     *)
OwnerReapEarly(k) ==
    /\ sup[k] \in {"live", "stopping"}
    /\ sup' = [sup EXCEPT ![k] = "cleaning"]
    /\ disks' = [disks EXCEPT ![k] = {}]
    /\ Answered(serves[k])
    /\ UNCHANGED <<durable, ns, serves, atpath, running, tgt, exp>>

-----------------------------------------------------------------------------
(* Create holds the session lock throughout and never the transition lock. *)

CreateReserve(c, s, id) ==
    /\ pc[c] = "idle"
    /\ SessionFree(s)
    /\ rec[s] = NoRec
    /\ id \notin used
    /\ id \notin vm
    /\ Save(s, Rec("creating", id, None))
    /\ used' = used \cup {id}
    /\ Begin(c, s, Rec("creating", id, None), "clone")
    /\ UNCHANGED <<att, use, vm, bound, runtime>>

CreateResume(c, s) ==
    /\ pc[c] = "idle"
    /\ SessionFree(s)
    /\ rec[s].st = "creating"
    /\ Begin(c, s, rec[s], "clone")
    /\ UNCHANGED <<durable, runtime>>

(* An object found stopped under creating intent is an earlier clone.      *)
CreateClone(c) ==
    /\ pc[c] = "clone"
    /\ exp[c].id \notin vm \/ ObservedStopped(exp[c].id)
    /\ vm' = vm \cup {exp[c].id}
    /\ Goto(c, "cloned")
    /\ UNCHANGED <<rec, att, use, used, bound, runtime, tgt, exp>>

CreateFinish(c) ==
    /\ pc[c] = "cloned"
    /\ ObservedStopped(exp[c].id)
    /\ Save(tgt[c], Rec("stopped", exp[c].id, None))
    /\ Done(c)
    /\ UNCHANGED <<att, use, vm, used, bound, runtime>>

-----------------------------------------------------------------------------
(* Attach and Detach run under the session and storage locks only.         *)

StoppedSession(s) ==
    /\ SessionFree(s)
    /\ rec[s].st = "stopped"
    /\ ObservedStopped(rec[s].id)

Attach(s, v) ==
    /\ StoppedSession(s)
    /\ att[v] = None /\ use[v] = None
    /\ Cardinality(Attached(rec[s].id)) < MaxAttach
    /\ att' = [att EXCEPT ![v] = rec[s].id]
    /\ UNCHANGED <<rec, use, vm, used, bound, runtime, command>>

Detach(s, v) ==
    /\ StoppedSession(s)
    /\ att[v] = rec[s].id /\ use[v] = None
    /\ att' = [att EXCEPT ![v] = None]
    /\ UNCHANGED <<rec, use, vm, used, bound, runtime, command>>

-----------------------------------------------------------------------------
(* Start.  The transition lock is held from the first step to the last; the*)
(* session lock is released around the volume batches and the supervisor.  *)

StartStopped(c, s) ==
    /\ pc[c] = "idle"
    /\ TransitionFree(s) /\ SessionFree(s)
    /\ rec[s].st = "stopped"
    /\ ObservedStopped(rec[s].id)
    /\ Begin(c, s, rec[s], "release")
    /\ UNCHANGED <<durable, runtime>>

(* Releases the Uses of the session's attached volumes: W is the set of    *)
(* records written before the batch ended.                                 *)
ReleaseUses(c, W) ==
    LET r == exp[c] IN
    /\ SessionFree(tgt[c])
    /\ \A v \in Attached(r.id) : VolumeFree(v)
    /\ rec[tgt[c]] = r
    /\ ObservedStopped(r.id)
    /\ \A v \in InUse(r.id) :
          /\ bound[use[v]] = r.id
          /\ r.st = "stopping" => use[v] = r.gen
    /\ W \subseteq InUse(r.id)
    /\ use' = [v \in Volumes |-> IF v \in W THEN None ELSE use[v]]

StartRelease(c, W) ==
    /\ pc[c] = "release"
    /\ ReleaseUses(c, W)
    /\ IF W = InUse(exp[c].id)
       THEN Goto(c, "prepare") /\ UNCHANGED <<tgt, exp>>
       ELSE Done(c)
    /\ UNCHANGED <<rec, att, vm, used, bound, runtime>>

(* Every Use is durable before the record says starting: a batch that ends *)
(* early leaves the record stopped.                                        *)
StartPrepare(c, g, W) ==
    LET r == exp[c]
        A == Attached(r.id)
        started == Rec("starting", r.id, g) IN
    /\ pc[c] = "prepare"
    /\ bound[g] = None
    /\ SessionFree(tgt[c])
    /\ \A v \in A : VolumeFree(v) /\ use[v] = None
    /\ rec[tgt[c]] = r
    /\ ObservedStopped(r.id)
    /\ W \subseteq A
    /\ bound' = [bound EXCEPT ![g] = r.id]
    /\ use' = [v \in Volumes |-> IF v \in W THEN g ELSE use[v]]
    /\ \/ W = A /\ Save(tgt[c], started) /\ Advance(c, started, "launch")
       \/ UNCHANGED rec /\ Done(c)
    /\ UNCHANGED <<att, vm, used, runtime>>

(* A retry of starting: the generation and its exact Uses are kept.        *)
Retry(c, s, st, label) ==
    /\ pc[c] = "idle"
    /\ TransitionFree(s) /\ SessionFree(s)
    /\ rec[s].st = st
    /\ VerifyUses(rec[s])
    /\ Begin(c, s, rec[s], label)
    /\ UNCHANGED <<durable, runtime>>

(* The control socket answers under the canonical path only.               *)
Serving(k, g) == serves[k] = g /\ ns[g] = "artifacts"

(* A snapshot of a live supervisor of g says its machine runs.             *)
Evidence(g) == \E k \in running : Serving(k, g) /\ sup[k] = "live"

StartRetryLaunch(c, s) ==
    /\ Retry(c, s, "starting", "launch")
    /\ ObservedStopped(rec[s].id) \/ Evidence(rec[s].gen)

StartRetryReady(c, s) ==
    /\ Retry(c, s, "starting", "persist")
    /\ Evidence(rec[s].gen)

StartRetryPoisoned(c, s) ==
    /\ Retry(c, s, "starting", "poison")
    /\ Evidence(rec[s].gen)

StartRunning(c, s) ==
    /\ Retry(c, s, "running", "persist")
    /\ Evidence(rec[s].gen)

(* Only the session lock holder gets here, so the record cannot have moved.*)
StartPersist(c) ==
    /\ pc[c] = "persist"
    /\ Save(tgt[c], [exp[c] EXCEPT !.st = "running"])
    /\ Done(c)
    /\ UNCHANGED <<att, use, vm, used, bound, runtime>>

StartRelaunch(c) ==
    /\ pc[c] = "relaunch"
    /\ SessionFree(tgt[c])
    /\ rec[tgt[c]] = exp[c]
    /\ ObservedStopped(exp[c].id)
    /\ Goto(c, "launch")
    /\ UNCHANGED <<durable, runtime, tgt, exp>>

(* A namespace whose lock nobody holds and that has no live artifacts is   *)
(* finished or resumed and published again; an owned one is watched; stale *)
(* artifacts are refused.                                                  *)
StartPublish(c) ==
    LET g == exp[c].gen IN
    /\ pc[c] = "launch"
    /\ \A k \in Of(g) \cap atpath : sup[k] \notin Holding
    /\ ns[g] \notin {"artifacts", "stranded"}
    /\ ns' = [ns EXCEPT ![g] = "published"]
    /\ Goto(c, "spawn")
    /\ UNCHANGED <<durable, sup, serves, atpath, disks, running, tgt, exp>>

StartSpawn(c, k) ==
    /\ pc[c] = "spawn"
    /\ sup[k] = "gone" /\ k \notin running
    /\ sup' = [sup EXCEPT ![k] = "spawned"]
    /\ serves' = [serves EXCEPT ![k] = exp[c].gen]
    /\ Goto(c, "launch")
    /\ UNCHANGED <<durable, ns, atpath, disks, running, tgt, exp>>

StartWatch(c) ==
    /\ pc[c] = "launch"
    /\ Evidence(exp[c].gen)
    /\ Goto(c, "accept")
    /\ UNCHANGED <<durable, runtime, tgt, exp>>

StartAccept(c) ==
    LET r == rec[tgt[c]] IN
    /\ pc[c] = "accept"
    /\ SessionFree(tgt[c])
    /\ r.id = exp[c].id /\ r.gen = exp[c].gen
    /\ r.st = "starting" \/ (r.st = "running" /\ Evidence(r.gen))
    /\ Save(tgt[c], [r EXCEPT !.st = "running"])
    /\ Done(c)
    /\ UNCHANGED <<att, use, vm, used, bound, runtime>>

-----------------------------------------------------------------------------
(* Stop.                                                                   *)

StopStopped(c, s) ==
    /\ pc[c] = "idle"
    /\ TransitionFree(s) /\ SessionFree(s)
    /\ rec[s].st = "stopped"
    /\ ObservedStopped(rec[s].id)
    /\ Begin(c, s, rec[s], "finish")
    /\ UNCHANGED <<durable, runtime>>

(* The intent is durable before anything is asked of the supervisor.  The  *)
(* observation o is taken before the intent is saved and used after it.    *)
StopBegin(c, s, o) ==
    LET r == [rec[s] EXCEPT !.st = "stopping"] IN
    /\ pc[c] = "idle"
    /\ TransitionFree(s) /\ SessionFree(s)
    /\ rec[s].st \in {"starting", "running", "stopping"}
    /\ o \in Observed(rec[s].id) \ {"absent"}
    /\ Save(s, r)
    /\ Begin(c, s, r, IF o = "stopped" THEN "prove" ELSE "control")
    /\ UNCHANGED <<att, use, vm, used, bound, runtime>>

StopProve(c) ==
    /\ pc[c] = "prove"
    /\ Goto(c, IF Quiesced(exp[c].gen) THEN "finish" ELSE "control")
    /\ UNCHANGED <<durable, runtime, tgt, exp>>

(* The control call of Stop and of a start that found a poisoned serial.   *)
ControlStop(c, k) ==
    /\ pc[c] \in {"control", "poison"}
    /\ Serving(k, exp[c].gen) /\ sup[k] \in {"live", "stopping"}
    /\ sup' = [sup EXCEPT ![k] = "stopping"]
    /\ Goto(c, IF pc[c] = "control" THEN "awaitStop" ELSE "awaitPoison")
    /\ UNCHANGED <<durable, ns, serves, atpath, disks, running, tgt, exp>>

StopRelease(c, W) ==
    /\ pc[c] = "finish"
    /\ ReleaseUses(c, W)
    /\ IF W = InUse(exp[c].id)
       THEN Goto(c, "publish") /\ UNCHANGED <<tgt, exp>>
       ELSE Done(c)
    /\ UNCHANGED <<rec, att, vm, used, bound, runtime>>

StopPublish(c) ==
    /\ pc[c] = "publish"
    /\ SessionFree(tgt[c])
    /\ rec[tgt[c]] = exp[c]
    /\ ObservedStopped(exp[c].id)
    /\ Save(tgt[c], Rec("stopped", exp[c].id, None))
    /\ Done(c)
    /\ UNCHANGED <<att, use, vm, used, bound, runtime>>

-----------------------------------------------------------------------------
(* Delete.  The deleting intent is durable before the backend is touched   *)
(* and is removed last.                                                    *)

DeleteReserve(c, s) ==
    LET r == [rec[s] EXCEPT !.st = "deleting"]
        A == Attached(rec[s].id) IN
    /\ pc[c] = "idle"
    /\ TransitionFree(s) /\ SessionFree(s)
    /\ rec[s].st = "stopped"
    /\ \A v \in A : VolumeFree(v) /\ use[v] = None
    /\ ObservedStopped(rec[s].id)
    /\ Save(s, r)
    /\ Begin(c, s, r, "delete")
    /\ UNCHANGED <<att, use, vm, used, bound, runtime>>

DeleteRetry(c, s) ==
    /\ pc[c] = "idle"
    /\ TransitionFree(s) /\ SessionFree(s)
    /\ rec[s].st = "deleting"
    /\ Begin(c, s, rec[s], "delete")
    /\ UNCHANGED <<durable, runtime>>

DeleteBackend(c) ==
    /\ pc[c] = "delete"
    /\ exp[c].id \notin vm \/ ObservedStopped(exp[c].id)
    /\ vm' = vm \ {exp[c].id}
    /\ Goto(c, "deleted")
    /\ UNCHANGED <<rec, att, use, used, bound, runtime, tgt, exp>>

DeleteFinal(c, W) ==
    LET r == exp[c]
        A == Attached(r.id) IN
    /\ pc[c] = "deleted"
    /\ SessionFree(tgt[c])
    /\ \A v \in A : VolumeFree(v) /\ use[v] = None
    /\ rec[tgt[c]] = r
    /\ r.id \notin vm
    /\ W \subseteq A
    /\ att' = [v \in Volumes |-> IF v \in W THEN None ELSE att[v]]
    /\ \/ W = A /\ Save(tgt[c], NoRec)
       \/ UNCHANGED rec
    /\ Done(c)
    /\ UNCHANGED <<use, vm, used, bound, runtime>>

(* Any error, deadline, cancellation or kill: the locks go, the durable    *)
(* state stays.                                                            *)
Abort(c) ==
    /\ pc[c] # "idle"
    /\ Done(c)
    /\ UNCHANGED <<durable, runtime>>

-----------------------------------------------------------------------------
(* The supervisors of a generation, and their machines.                    *)

(* A child reads the request, sees no live artifacts beside it and opens   *)
(* the lock by its path.                                                   *)
OwnerOpen(k) ==
    /\ sup[k] = "spawned"
    /\ ns[serves[k]] = "published"
    /\ sup' = [sup EXCEPT ![k] = "opened"]
    /\ atpath' = atpath \cup {k}
    /\ UNCHANGED <<durable, ns, serves, disks, running, command>>

(* It locks the file it opened, which may be one that no path names any    *)
(* more: its lock then keeps nobody out of the namespace.  Which of the    *)
(* files of earlier publications it is, is left open.                      *)
OwnerClaim(k) ==
    /\ sup[k] = "opened"
    /\ k \in atpath => \A j \in Of(serves[k]) \cap atpath : sup[j] \notin Holding
    /\ sup' = [sup EXCEPT ![k] = "claimed"]
    /\ UNCHANGED <<durable, ns, serves, atpath, disks, running, command>>

(* A child that finds no request, a foreign owner or stale artifacts.      *)
ChildExit(k) ==
    /\ sup[k] \in {"spawned", "opened"}
    /\ Gone(k)
    /\ atpath' = atpath \ {k}
    /\ UNCHANGED <<durable, ns, running, command>>

(* AdmitLaunchDisks: volume locks, then session and storage locks, under   *)
(* which the record must still say starting for exactly this generation.   *)
OwnerAdmit(k) ==
    LET g == serves[k]
        A == Attached(bound[g]) IN
    /\ sup[k] = "claimed"
    /\ \E s \in Sessions :
          /\ rec[s] = Rec("starting", bound[g], g)
          /\ SessionFree(s)
    /\ \A v \in A : VolumeFree(v) /\ use[v] = g
    /\ ObservedStopped(bound[g])
    /\ disks' = [disks EXCEPT ![k] = A]
    /\ sup' = [sup EXCEPT ![k] = "admitted"]
    /\ UNCHANGED <<durable, ns, serves, atpath, running, command>>

(* A start refused before any machine exists releases its leases.          *)
OwnerRefuse(k) ==
    /\ sup[k] \in {"claimed", "admitted"}
    /\ sup' = [sup EXCEPT ![k] = "cleaning"]
    /\ disks' = [disks EXCEPT ![k] = {}]
    /\ UNCHANGED <<durable, ns, serves, atpath, running, command>>

(* The serial subtree is made exclusively, in the directory at the         *)
(* canonical path, whoever's lock is in it; then the machine is launched.  *)
OwnerLaunch(k) ==
    /\ sup[k] = "admitted"
    /\ ns[serves[k]] = "published"
    /\ bound[serves[k]] \in vm
    /\ sup' = [sup EXCEPT ![k] = "live"]
    /\ ns' = [ns EXCEPT ![serves[k]] = "artifacts"]
    /\ running' = running \cup {k}
    /\ UNCHANGED <<durable, serves, atpath, disks, command>>

(* The supervisor decides to stop on its own: cancellation, a failed       *)
(* control server or listener, a start that never reached running, or a    *)
(* launcher that gave up on its child.                                     *)
OwnerQuit(k) ==
    /\ sup[k] = "live"
    /\ sup' = [sup EXCEPT ![k] = "stopping"]
    /\ UNCHANGED <<durable, ns, serves, atpath, disks, running, command>>

(* Power-off from inside the guest, a graceful stop, or the forced one.    *)
MachineEnds(k) ==
    /\ k \in running
    /\ running' = running \ {k}
    /\ disks' = [disks EXCEPT ![k] = IF sup[k] = "gone" THEN {} ELSE @]
    /\ serves' = [serves EXCEPT ![k] = IF sup[k] = "gone" THEN None ELSE @]
    /\ UNCHANGED <<durable, ns, sup, atpath, command>>

(* Reap releases the volume leases, closes the serial subtree by its path  *)
(* and answers the waiting stop calls.                                     *)
OwnerReap(k) ==
    LET g == serves[k] IN
    /\ sup[k] \in {"live", "stopping"}
    /\ k \notin running
    /\ sup' = [sup EXCEPT ![k] = "cleaning"]
    /\ ns' = [ns EXCEPT ![g] = IF @ = "artifacts" THEN "published" ELSE @]
    /\ disks' = [disks EXCEPT ![k] = {}]
    /\ Answered(g)
    /\ UNCHANGED <<durable, serves, atpath, running, tgt, exp>>

(* removeExactGeneration goes on only if the namespace holds request and   *)
(* lock alone and the lock is the retained one.                            *)
OwnerCheck(k) ==
    /\ sup[k] = "cleaning"
    /\ IF k \in atpath /\ ns[serves[k]] = "published"
       THEN /\ sup' = [sup EXCEPT ![k] = "checked"]
            /\ UNCHANGED <<serves, atpath, disks>>
       ELSE Gone(k) /\ atpath' = atpath \ {k}
    /\ UNCHANGED <<durable, ns, running, command>>

(* The directory is renamed and taken apart.  Live artifacts that appeared *)
(* in it after the check go with it, and end the cleanup.                  *)
OwnerClean(k) ==
    LET g == serves[k] IN
    /\ sup[k] = "checked"
    /\ ns' = [ns EXCEPT ![g] = IF @ = "artifacts" THEN "stranded" ELSE "absent"]
    /\ Gone(k)
    /\ atpath' = atpath \ Of(g)
    /\ UNCHANGED <<durable, running, command>>

(* What the namespace may hold when a supervisor disappears: a serial      *)
(* subtree without its machine, a socket not yet removed, or the residue   *)
(* of the cleanup it was at.                                               *)
Leftover(k) ==
    LET n == ns[serves[k]] IN
    {n} \cup (IF sup[k] \in {"admitted", "cleaning"} /\ n = "published"
              THEN {"artifacts"} ELSE {})
        \cup (IF sup[k] = "checked"
              THEN {IF n = "artifacts" THEN "stranded" ELSE "residue"} ELSE {})

(* The supervisor is killed, or exits without proving its cleanup.  Kernel *)
(* locks go with it; its machine, a process group of its own, does not.    *)
OwnerLost(k, left) ==
    LET g == serves[k] IN
    /\ sup[k] \in Holding
    /\ left \in Leftover(k)
    /\ ns' = [ns EXCEPT ![g] = left]
    /\ Gone(k)
    /\ atpath' = atpath \ (IF left \in {"residue", "stranded"} THEN Of(g) ELSE {k})
    /\ UNCHANGED <<durable, running, command>>

-----------------------------------------------------------------------------
CommandStep(c) ==
    \/ CreateClone(c) \/ CreateFinish(c)
    \/ \E W \in SUBSET Volumes :
          StartRelease(c, W) \/ StopRelease(c, W) \/ DeleteFinal(c, W)
    \/ \E g \in Gens, W \in SUBSET Volumes : StartPrepare(c, g, W)
    \/ \E k \in Supervisors : StartSpawn(c, k) \/ ControlStop(c, k)
    \/ StartPersist(c) \/ StartRelaunch(c) \/ StartPublish(c)
    \/ StartWatch(c) \/ StartAccept(c)
    \/ StopProve(c) \/ StopPublish(c)
    \/ DeleteBackend(c)
    \/ Abort(c)

CommandBegin(c, s) ==
    \/ \E id \in Ids : CreateReserve(c, s, id)
    \/ CreateResume(c, s)
    \/ StartStopped(c, s) \/ StartRunning(c, s)
    \/ StartRetryLaunch(c, s) \/ StartRetryReady(c, s)
    \/ StartRetryPoisoned(c, s)
    \/ StopStopped(c, s)
    \/ \E o \in {"running", "stopped"} : StopBegin(c, s, o)
    \/ DeleteReserve(c, s) \/ DeleteRetry(c, s)

SupervisorStep(k) ==
    \/ OwnerOpen(k) \/ OwnerClaim(k) \/ ChildExit(k)
    \/ OwnerAdmit(k) \/ OwnerRefuse(k) \/ OwnerLaunch(k)
    \/ OwnerQuit(k) \/ MachineEnds(k) \/ OwnerReap(k)
    \/ OwnerCheck(k) \/ OwnerClean(k)
    \/ \E left \in Namespace : OwnerLost(k, left)

Next ==
    \/ \E c \in Commands : CommandStep(c)
    \/ \E c \in Commands, s \in Sessions : CommandBegin(c, s)
    \/ \E s \in Sessions, v \in Volumes : Attach(s, v) \/ Detach(s, v)
    \/ \E k \in Supervisors : SupervisorStep(k)

Spec == Init /\ [][Next]_vars

-----------------------------------------------------------------------------
(* Safety.                                                                 *)

(* A volume in the hands of a running machine stays reserved for exactly   *)
(* that launch and attached to exactly that session, whatever commands     *)
(* ran, failed or were killed meanwhile: no second writer can be admitted. *)
RunningDisksReserved ==
    \A k \in running : \A v \in disks[k] :
        use[v] = serves[k] /\ att[v] = bound[serves[k]]

(* A launch that was given volumes: the session had some when it started.  *)
WithVolumes(k) == disks[k] # {}

(* A record that is durably stopped (or being created or deleted) is a     *)
(* promise that no machine of that session that was given volumes runs and *)
(* that no supervisor of it holds volume leases.  Attach, Detach, Delete   *)
(* and the next generation all rest on it although Tart may list a live    *)
(* machine as stopped.  For a session without volumes a second supervisor  *)
(* of the generation breaks it.                                            *)
StoppedMeansQuiet ==
    \A s \in Sessions : rec[s].st \in {"creating", "stopped", "deleting"} =>
        \A k \in Supervisors : WithVolumes(k) /\ bound[serves[k]] = rec[s].id =>
            k \notin running /\ sup[k] \notin Leasing

(* A backend object never runs twice with volumes: not for two generations *)
(* of its session, nor for two supervisors of one generation, of which one *)
(* may have been killed and have left its machine running.                 *)
OneLaunchPerObject ==
    \A j, k \in running :
        WithVolumes(j) /\ WithVolumes(k) /\ bound[serves[j]] = bound[serves[k]]
            => j = k

(* Nothing is orphaned: every backend object, attachment and Use belongs   *)
(* to a session that still has a record to find it by.                     *)
NothingOrphaned ==
    LET recorded == {rec[s].id : s \in Sessions} \ {None} IN
    /\ vm \subseteq recorded
    /\ \A v \in Volumes : att[v] # None => att[v] \in recorded
    /\ \A v \in Volumes : use[v] # None => att[v] = bound[use[v]]

(* The starting record is the commit marker of the Use batch: while it or  *)
(* its successor running stands, every attached volume carries its exact   *)
(* generation, so a retry is never refused by VerifySessionUses.           *)
StartedUsesComplete ==
    \A s \in Sessions : rec[s].st \in {"starting", "running"} =>
        VerifyUses(rec[s])

(* A Use is cleared or replaced only once no launch of its generation can  *)
(* write any more: its machine has ended and its leases are released.      *)
UseReleasedAfterReap ==
    [][\A v \in Volumes : use[v] # None /\ use'[v] # use[v] =>
          \A k \in Supervisors : serves[k] = use[v] =>
              k \notin running \cup running' /\ sup[k] \notin Leasing]_vars

(* Between a committed start and the stop that ends it the generation and  *)
(* the identity never change: a retry relaunches, it never re-allocates.   *)
GenerationStable ==
    [][\A s \in Sessions : rec[s].gen # None =>
          \/ rec'[s].gen = rec[s].gen /\ rec'[s].id = rec[s].id
          \/ rec'[s] = Rec("stopped", rec[s].id, None)
                /\ rec[s].st = "stopping"]_vars

-----------------------------------------------------------------------------
(* The inductive invariant behind the safety properties.                   *)

(* A machine that runs, or may be launched with the leases already held.   *)
Active(k) == k \in running \/ sup[k] \in Leasing

(* A supervisor whose live artifacts are in its generation's namespace.    *)
Launched(k) == k \in running \/ sup[k] \in {"live", "stopping"}

(* Records name one identity each, and a generation exactly from the       *)
(* committed start to the published stop; it was generated for them.       *)
RecordsExact ==
    /\ \A s \in Sessions :
        /\ rec[s].st = "none" <=> rec[s].id = None
        /\ rec[s].gen # None <=> rec[s].st \in {"starting", "running", "stopping"}
        /\ rec[s].id # None => rec[s].id \in used
        /\ rec[s].gen # None => bound[rec[s].gen] = rec[s].id
    /\ \A s, t \in Sessions :
        rec[s].id = rec[t].id /\ rec[s].id # None => s = t

(* The state a record is in while a command is about to take a step.       *)
StatesAt(label) ==
    CASE label \in {"clone", "cloned"} -> {"creating"}
      [] label \in {"release", "prepare"} -> {"stopped"}
      [] label \in {"launch", "spawn", "accept", "poison", "awaitPoison",
                    "relaunch"} -> {"starting"}
      [] label = "persist" -> {"starting", "running"}
      [] label \in {"prove", "control", "awaitStop"} -> {"stopping"}
      [] label \in {"finish", "publish"} -> {"stopped", "stopping"}
      [] label \in {"delete", "deleted"} -> {"deleting"}
      [] OTHER -> {}

(* The two locks leave at most one command at work on a session, and the   *)
(* record it loaded is still the record on disk.                           *)
CommandsExact ==
    /\ \A c \in Commands : pc[c] # "idle" =>
        /\ tgt[c] \in Sessions
        /\ rec[tgt[c]] = exp[c]
        /\ exp[c].st \in StatesAt(pc[c])
    /\ \A c, d \in Commands :
        pc[c] # "idle" /\ pc[d] # "idle" /\ tgt[c] = tgt[d] => c = d

(* Supervisors at work serve a generated generation; the ones that have    *)
(* launched, or left a machine, have artifacts in it, one at a time.       *)
NamespaceExact ==
    /\ \A k \in Supervisors :
        /\ sup[k] # "gone" \/ k \in running =>
             serves[k] \in Gens /\ bound[serves[k]] # None
        /\ k \in running => sup[k] \in {"gone", "live", "stopping"}
        /\ Launched(k) => ns[serves[k]] \in {"artifacts", "stranded"}
    /\ \A j, k \in Supervisors :
        Launched(j) /\ Launched(k) /\ serves[j] = serves[k] => j = k

(* The lock file at the canonical path has one holder at most, and only it *)
(* is past the check of its cleanup.                                       *)
LockExact ==
    /\ \A k \in atpath :
        sup[k] # "gone" /\ ns[serves[k]] \in {"published", "artifacts"}
    /\ \A k \in Supervisors : sup[k] = "checked" => k \in atpath
    /\ \A j, k \in atpath :
        sup[j] \in Holding /\ sup[k] \in Holding /\ serves[j] = serves[k] => j = k

(* Whatever is active with volumes is what some record names.              *)
ActiveRecorded ==
    \A k \in Supervisors : Active(k) /\ WithVolumes(k) =>
        \E s \in Sessions : rec[s].gen = serves[k] /\ rec[s].id = bound[serves[k]]

(* A stop past its proof of quiescence finds no launch with volumes but    *)
(* one without a namespace to launch from, and that one keeps it from      *)
(* releasing the Uses.                                                     *)
FinishProved ==
    \A c \in Commands, k \in Supervisors :
        /\ pc[c] \in {"finish", "publish"} /\ exp[c].gen # None
        /\ serves[k] = exp[c].gen /\ Active(k) /\ WithVolumes(k)
        => pc[c] = "finish" /\ sup[k] = "admitted" /\ ns[serves[k]] = "absent"

(* Leases name reserved, attached volumes from admission to the reap, and  *)
(* all that are reserved for the generation; no two supervisors hold one.  *)
LeasesReserved ==
    /\ \A k \in Supervisors : Active(k) =>
        /\ \A v \in disks[k] : use[v] = serves[k] /\ att[v] = bound[serves[k]]
        /\ \A v \in Volumes : use[v] = serves[k] => v \in disks[k]
    /\ \A j, k \in Supervisors :
        /\ sup[j] \in Leasing /\ sup[k] \in Leasing
        /\ disks[j] \cap disks[k] # {}
        => j = k

(* A Use names a generation that was really generated.                     *)
UsesBound == \A v \in Volumes : use[v] # None => bound[use[v]] # None

IndInv ==
    /\ RecordsExact
    /\ CommandsExact
    /\ NamespaceExact
    /\ LockExact
    /\ ActiveRecorded
    /\ FinishProved
    /\ LeasesReserved
    /\ NothingOrphaned
    /\ UsesBound
    /\ StartedUsesComplete

-----------------------------------------------------------------------------
(* Liveness.  A supervisor process that is scheduled proceeds; an operator *)
(* repeats the interrupted command, and the repetition is not cut short at *)
(* the same step for ever.                                                 *)

(* Every call to a supervisor has a deadline.                              *)
Timeout(c) ==
    /\ pc[c] \in {"launch", "control", "awaitStop", "poison", "awaitPoison"}
    /\ Abort(c)

(* A supervisor takes the next step of the phase it is in; once it stops   *)
(* its machine, the machine ends, by force if need be.                     *)
Proceeds(k) ==
    \/ OwnerOpen(k) \/ OwnerClaim(k) \/ ChildExit(k)
    \/ OwnerAdmit(k) \/ OwnerRefuse(k) \/ OwnerLaunch(k)
    \/ sup[k] = "stopping" /\ MachineEnds(k)
    \/ OwnerReap(k) \/ OwnerCheck(k) \/ OwnerClean(k)

Fairness ==
    /\ \A k \in Supervisors : WF_vars(Proceeds(k))
    /\ \A c \in Commands : WF_vars(Timeout(c))
    /\ SF_vars(\E c \in Commands, s \in Sessions : CreateResume(c, s))
    /\ SF_vars(\E c \in Commands : CreateClone(c))
    /\ SF_vars(\E c \in Commands : CreateFinish(c))
    /\ SF_vars(\E c \in Commands, s \in Sessions : DeleteRetry(c, s))
    /\ SF_vars(\E c \in Commands : DeleteBackend(c))
    /\ SF_vars(\E c \in Commands :
                 DeleteFinal(c, Attached(exp[c].id)) /\ rec' # rec)
    /\ SF_vars(\E c \in Commands, s \in Sessions :
                 \E o \in {"running", "stopped"} : StopBegin(c, s, o))
    /\ SF_vars(\E c \in Commands : StopProve(c))
    /\ SF_vars(\E c \in Commands, k \in Supervisors : ControlStop(c, k))
    /\ SF_vars(\E c \in Commands : StopRelease(c, InUse(exp[c].id)))
    /\ SF_vars(\E c \in Commands : StopPublish(c))

LiveSpec == Spec /\ Fairness

(* The namespace of g exists and no process is left that would remove it,  *)
(* or it was renamed with live artifacts in it, which nobody removes.      *)
Abandoned(g) ==
    \/ ns[g] # "absent" /\ \A k \in Of(g) : sup[k] = "gone"
    \/ ns[g] = "stranded"

(* A create or delete that failed anywhere completes when it is repeated.  *)
RetryCompletes ==
    \A s \in Sessions :
        /\ rec[s].st = "creating" ~> rec[s].st = "stopped"
        /\ rec[s].st = "deleting" ~> rec[s].st = "none"

(* A stop that failed anywhere completes when it is repeated, except that a*)
(* generation whose namespace was left behind with nobody to remove it     *)
(* stays stopping for ever, its Uses reserved, for an operator.            *)
StopConverges ==
    \A s \in Sessions :
        \/ []<>(rec[s].st # "stopping")
        \/ <>[](rec[s].gen # None /\ Abandoned(rec[s].gen))
=============================================================================
