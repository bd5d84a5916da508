------------------------ MODULE GenerationNamespace ------------------------
(***************************************************************************)
(* The runtime namespace of one start generation: the canonical directory  *)
(* with its request and generation.lock, the cleanup directory it is       *)
(* renamed to, the lock marker beside it, the flock on the lock inode, the *)
(* detached supervisors that contend for it, and the one CLI command that  *)
(* may work on the generation at a time under the session's transition     *)
(* lock.                                                                   *)
(*                                                                         *)
(* SessionLifecycle takes the namespace of a generation in one piece.      *)
(* Here every path is looked at in a step of its own, every lock file is   *)
(* an inode of its own, cleanup is one step per system call, and every     *)
(* process may be killed between any two.                                  *)
(***************************************************************************)
EXTENDS Naturals, FiniteSets

CONSTANTS
    Kids,     \* detached supervisors that may be spawned for the generation
    Inodes,   \* generation.lock files that may be created
    Cli,      \* the command that holds the transition lock
    None      \* absence of an inode, a process or a supervisor

ASSUME CliAssumption ==
    Cli \notin Kids /\ None \notin (Kids \cup Inodes \cup {Cli})

Procs == Kids \cup {Cli}

VARIABLES
    canon,    \* the canonical directory: its lock inode and live artifacts
    clean,    \* the cleanup directory it is renamed to
    marker,   \* the lock inode at the cleanup marker's path
    made,     \* lock inodes ever created
    holder,   \* lock inode -> process that holds its flock
    fd,       \* process -> lock inode it opened
    alive,    \* supervisors whose virtual machine process is alive
    intent,   \* what the session record says of this generation
    leased,   \* the session has attached volumes, whose locks a launch takes
    pc,       \* process -> its next step
    back,     \* what the command's probe of the namespace is for
    seen,     \* what that probe has seen so far
    mine,     \* the supervisor the command spawned or asked to stop
    verdict   \* how the last start or stop command ended

disk == <<canon, clean, marker, made>>
locks == <<holder, fd>>
cli == <<back, seen, mine, verdict>>
vars == <<disk, locks, alive, intent, leased, pc, cli>>

CliPCs == {"idle", "canon", "dir", "mark", "entries", "probed", "generation",
           "flock", "publish", "spawn", "watch", "snapshot", "lockpath",
           "cleanuplock", "q1", "q2", "q3", "control", "awaitStop", "finish"}
Owning == {"owned", "admitted", "serial", "live"}
Admitting == {"spawned", "read", "opened", "late", "lateOpened", "doomed"}
KidPCs == {"unborn", "reaped", "checked", "renamed", "gone"}
            \cup Admitting \cup Owning
CleanupPCs == {"unrequest", "movelock", "rmdir", "unmark"}
Purposes == {"loop", "publish", "published", "launch", "await", "claimed",
             "cleanup", "resume"}
Verdicts == {"none", "started", "stopped", "child", "stale", "foreign",
             "coexist", "torn", "unreachable"}

(* Publication makes request and lock appear together, so that a canonical *)
(* directory is its lock inode; art is the supervisor whose serial subtree *)
(* and sockets a directory holds.                                          *)
Canonical == [lk : Inodes \cup {None}, art : Kids \cup {None}]
NoCanonical == [lk |-> None, art |-> None]
CleanupDir == [ex : BOOLEAN, req : BOOLEAN, lk : Inodes \cup {None},
               art : Kids \cup {None}]
NoCleanup == [ex |-> FALSE, req |-> FALSE, lk |-> None, art |-> None]

TypeOK ==
    /\ canon \in Canonical
    /\ clean \in CleanupDir
    /\ marker \in Inodes \cup {None}
    /\ made \subseteq Inodes
    /\ holder \in [Inodes -> Procs \cup {None}]
    /\ fd \in [Procs -> Inodes \cup {None}]
    /\ alive \subseteq Kids
    /\ intent \in {"starting", "stopping", "stopped"}
    /\ leased \in BOOLEAN
    /\ pc \in [Procs -> CliPCs \cup KidPCs \cup CleanupPCs]
    /\ back \in Purposes
    /\ seen \in [canon : BOOLEAN, dir : BOOLEAN, mark : BOOLEAN]
    /\ mine \in Kids \cup {None}
    /\ verdict \in Verdicts

(* A start has just made the generation durable.                           *)
Init ==
    /\ canon = NoCanonical /\ clean = NoCleanup
    /\ marker = None /\ made = {}
    /\ holder = [i \in Inodes |-> None]
    /\ fd = [p \in Procs |-> None]
    /\ alive = {}
    /\ intent = "starting"
    /\ leased \in BOOLEAN
    /\ pc = [p \in Procs |-> IF p = Cli THEN "idle" ELSE "unborn"]
    /\ back = "loop"
    /\ seen = [canon |-> FALSE, dir |-> FALSE, mark |-> FALSE]
    /\ mine = None
    /\ verdict = "none"

-----------------------------------------------------------------------------
NothingSeen == [canon |-> FALSE, dir |-> FALSE, mark |-> FALSE]

(* New inodes and processes are anonymous: which unused name one gets does *)
(* not matter, so it always gets the same.                                 *)
IsFresh(unused, x) == x = CHOOSE y \in unused : TRUE

(* A process that is gone and left no machine and no artifacts is nobody;  *)
(* its name is used again.                                                 *)
Unborn == {k \in Kids : /\ pc[k] \in {"unborn", "gone"} /\ k \notin alive
                        /\ k \notin {canon.art, clean.art, mine}}

Goto(p, label) == pc' = [pc EXCEPT ![p] = label]

Unlock(p) ==
    /\ holder' = [i \in Inodes |-> IF holder[i] = p THEN None ELSE holder[i]]
    /\ fd' = [fd EXCEPT ![p] = None]

(* A process that ends drops its descriptors and with them its lock.       *)
Leave(k) == Goto(k, "gone") /\ Unlock(k)

End(v) ==
    /\ Goto(Cli, "idle") /\ Unlock(Cli)
    /\ back' = "loop" /\ seen' = NothingSeen /\ mine' = None
    /\ verdict' = v

(* The command looks at the namespace again, for the purpose b.            *)
Probe(b) ==
    /\ Goto(Cli, "canon") /\ Unlock(Cli)
    /\ back' = b
    /\ UNCHANGED <<seen, mine, verdict>>

(* An error of the probe ends the command; after its child has exited, the *)
(* command reports that instead.                                           *)
Refuse(v) == End(IF back = "claimed" THEN "child" ELSE v)

(* The command goes on to a step of its own.                               *)
Move(label) == Goto(Cli, label) /\ UNCHANGED <<locks, cli>>

Published == canon.lk # None

(* The volume locks a launch of this generation holds until its reap.      *)
LeaseFree ==
    leased => \A k \in Kids : pc[k] \notin {"admitted", "serial", "live"}

Serving(k) == pc[k] = "live" /\ canon.art = k

-----------------------------------------------------------------------------
(* Mutants: what a plausible slip in the code would make of an action.  No *)
(* action uses them; each breaks the property named with it.               *)

(* The reachable lock is always looked for in the directory                *)
(* (ResidueFinished).                                                      *)
OpenLockInDirectory ==
    LET i == clean.lk IN
    /\ pc[Cli] = "lockpath"
    /\ IF i = None THEN End("torn")
       ELSE fd' = [fd EXCEPT ![Cli] = i] /\ Goto(Cli, "cleanuplock")
            /\ UNCHANGED <<holder, cli>>
    /\ UNCHANGED <<disk, alive, intent, leased>>

(* The lock is unlinked in the directory, not renamed to the marker        *)
(* (ResidueExact).                                                         *)
DropLock(p) ==
    /\ pc[p] = "movelock"
    /\ clean' = [clean EXCEPT !.lk = None]
    /\ Goto(p, "rmdir")
    /\ UNCHANGED <<canon, marker, made, locks, alive, intent, leased, cli>>

(* Only the canonical directory is proof of a runtime (StopProved).        *)
QuiescedCanonical ==
    /\ \/ pc[Cli] = "q1" /\ Move(IF Published THEN "control" ELSE "finish")
       \/ pc[Cli] \in {"q2", "q3"} /\ Move("finish")
    /\ UNCHANGED <<disk, alive, intent, leased>>

(* An existing serial subtree is adopted (OneRuntime).                     *)
KidSerialAdopts(k) ==
    /\ pc[k] = "admitted"
    /\ Published
    /\ canon' = [canon EXCEPT !.art = k]
    /\ Goto(k, "serial")
    /\ UNCHANGED <<clean, marker, made, locks, alive, intent, leased, cli>>

(* The retained lock is not compared with the one at the path              *)
(* (OwnedIntact).                                                          *)
KidCheckAny(k) ==
    /\ pc[k] = "reaped"
    /\ IF Published /\ canon.art = None /\ ~clean.ex /\ marker = None
       THEN Goto(k, "checked") /\ UNCHANGED locks
       ELSE Leave(k)
    /\ UNCHANGED <<disk, alive, intent, leased, cli>>

-----------------------------------------------------------------------------
(* Looking at the namespace: pathExists of the canonical directory, then   *)
(* admitExactCleanupResidue, which looks at the cleanup directory, the     *)
(* marker and the directory's entries, in this order.                      *)

StartBegin ==
    /\ pc[Cli] = "idle" /\ intent = "starting"
    /\ Goto(Cli, "canon") /\ back' = "loop" /\ verdict' = "none"
    /\ UNCHANGED <<disk, locks, alive, intent, leased, seen, mine>>

SeeCanonical ==
    /\ pc[Cli] = "canon"
    /\ seen' = [canon |-> Published, dir |-> FALSE, mark |-> FALSE]
    /\ Goto(Cli, "dir")
    /\ UNCHANGED <<disk, locks, alive, intent, leased, back, mine, verdict>>

SeeDirectory ==
    /\ pc[Cli] = "dir"
    /\ seen' = [seen EXCEPT !.dir = clean.ex]
    /\ Goto(Cli, "mark")
    /\ UNCHANGED <<disk, locks, alive, intent, leased, back, mine, verdict>>

SeeMarker ==
    /\ pc[Cli] = "mark"
    /\ seen' = [seen EXCEPT !.mark = (marker # None)]
    /\ Goto(Cli, IF seen.dir THEN "entries" ELSE "probed")
    /\ UNCHANGED <<disk, locks, alive, intent, leased, back, mine, verdict>>

(* A directory that is gone by now, or that has no lock in it although no  *)
(* marker was there, is an error; so is anything but request and lock.     *)
SeeEntries ==
    /\ pc[Cli] = "entries"
    /\ IF ~clean.ex \/ (clean.lk = None /\ ~seen.mark) THEN Refuse("torn")
       ELSE IF clean.art # None THEN Refuse("foreign")
       ELSE Move("probed")
    /\ UNCHANGED <<disk, alive, intent, leased>>

Residue == seen.dir \/ seen.mark

(* What classifyExactGeneration returned decides what the command does     *)
(* next, by where it was called: startExact's loop, publishOrAdmitRequest, *)
(* Launch, the live wait, or Launch after its child has exited.            *)
Classified(state) ==
    CASE state = "live" /\ back # "published" -> Move("snapshot")
      [] back = "loop" -> Probe("publish")
      [] back = "published" /\ state = "absent" -> Move("publish")
      [] back = "published" -> Probe("launch")
      [] back = "launch" /\ state = "resumable" -> Move("spawn")
      [] back = "launch" -> End("torn")     \* the child's directory is gone
      [] back = "await" -> Probe("loop")    \* errExactGenerationTransition
      [] OTHER -> End("child")

Probed ==
    /\ pc[Cli] = "probed"
    /\ IF seen.canon /\ Residue /\ back # "resume"
       THEN Refuse("coexist")
       ELSE CASE back = "publish" /\ Residue -> Probe("cleanup")
              [] back = "publish" /\ ~Residue -> Probe("published")
              [] back = "cleanup" /\ Residue -> Move("lockpath")
              [] back = "resume" /\ Residue -> Move("unrequest")
              [] back \in {"cleanup", "resume"} /\ ~Residue -> Probe("published")
              [] OTHER -> IF seen.canon THEN Move("generation")
                          ELSE Classified("absent")
    /\ UNCHANGED <<disk, alive, intent, leased>>

(* admitGeneration, then the open of acquireGenerationLock.                *)
SeeGeneration ==
    /\ pc[Cli] = "generation"
    /\ IF Published
       THEN /\ fd' = [fd EXCEPT ![Cli] = canon.lk]
            /\ seen' = [seen EXCEPT !.mark = (canon.art # None)]  \* later
            /\ Goto(Cli, "flock")
            /\ UNCHANGED <<holder, back, mine, verdict>>
       ELSE Refuse("torn")
    /\ UNCHANGED <<disk, alive, intent, leased>>

(* The lock is taken and given back at once.                               *)
TryGeneration ==
    /\ pc[Cli] = "flock"
    /\ IF holder[fd[Cli]] # None THEN Classified("live")
       ELSE IF seen.mark THEN Refuse("stale")
       ELSE Classified("resumable")
    /\ UNCHANGED <<disk, alive, intent, leased>>

-----------------------------------------------------------------------------
(* Launch: publish, spawn, and wait for a snapshot.                        *)

(* The staged directory with request and lock appears by one rename.       *)
Publish(i) ==
    /\ pc[Cli] = "publish"
    /\ ~Published /\ i \notin made /\ IsFresh(Inodes \ made, i)
    /\ canon' = [lk |-> i, art |-> None]
    /\ made' = made \cup {i}
    /\ Probe("launch")
    /\ UNCHANGED <<clean, marker, alive, intent, leased>>

(* The child starts in the canonical directory.                            *)
Spawn(k) ==
    /\ pc[Cli] = "spawn" /\ Published
    /\ k \in Unborn /\ IsFresh(Unborn, k)
    /\ pc' = [pc EXCEPT ![Cli] = "watch", ![k] = "spawned"]
    /\ mine' = k
    /\ UNCHANGED <<disk, locks, alive, intent, leased, back, seen, verdict>>

SpawnFails ==
    /\ pc[Cli] = "spawn" /\ ~Published
    /\ End("torn")
    /\ UNCHANGED <<disk, alive, intent, leased>>

Watch ==
    /\ pc[Cli] = "watch"
    /\ \/ \E k \in Kids : Serving(k) /\ Probe("await")
       \/ pc[mine] = "gone" /\ Probe("claimed")
    /\ UNCHANGED <<disk, alive, intent, leased>>

Snapshot ==
    /\ pc[Cli] = "snapshot"
    /\ \/ \E k \in Kids : Serving(k) /\ End("started")
       \/ Probe("await")
    /\ UNCHANGED <<disk, alive, intent, leased>>

(* finishExactGenerationCleanup by a retry: it opens the reachable lock,   *)
(* contends for it, and looks at the residue again before it goes on.      *)
OpenCleanupLock ==
    LET i == IF seen.mark THEN marker ELSE clean.lk IN
    /\ pc[Cli] = "lockpath"
    /\ IF i = None THEN End("torn")
       ELSE fd' = [fd EXCEPT ![Cli] = i] /\ Goto(Cli, "cleanuplock")
            /\ UNCHANGED <<holder, cli>>
    /\ UNCHANGED <<disk, alive, intent, leased>>

TryCleanupLock ==
    LET i == fd[Cli] IN
    /\ pc[Cli] = "cleanuplock"
    /\ IF holder[i] # None THEN Probe("loop")
       ELSE /\ holder' = [holder EXCEPT ![i] = Cli]
            /\ seen' = NothingSeen
            /\ Goto(Cli, "dir") /\ back' = "resume"
            /\ UNCHANGED <<fd, mine, verdict>>
    /\ UNCHANGED <<disk, alive, intent, leased>>

-----------------------------------------------------------------------------
(* The cleanup stages, by the owner or by a retry that holds the lock.     *)

RemoveRequest(p) ==
    /\ pc[p] = "unrequest"
    /\ clean' = [clean EXCEPT !.req = FALSE]
    /\ Goto(p, "movelock")
    /\ UNCHANGED <<canon, marker, made, locks, alive, intent, leased, cli>>

MoveLock(p) ==
    /\ pc[p] = "movelock"
    /\ marker' = IF clean.lk # None THEN clean.lk ELSE marker
    /\ clean' = [clean EXCEPT !.lk = None]
    /\ Goto(p, "rmdir")
    /\ UNCHANGED <<canon, made, locks, alive, intent, leased, cli>>

RemoveDirectory(p) ==
    /\ pc[p] = "rmdir"
    /\ clean' = NoCleanup
    /\ Goto(p, "unmark")
    /\ UNCHANGED <<canon, marker, made, locks, alive, intent, leased, cli>>

RemoveMarker(p) ==
    /\ pc[p] = "unmark"
    /\ marker = fd[p]
    /\ marker' = None
    /\ IF p = Cli THEN Probe("published") ELSE Leave(p) /\ UNCHANGED cli
    /\ UNCHANGED <<canon, clean, made, alive, intent, leased>>

-----------------------------------------------------------------------------
(* Stop.  Quiesced looks at the three paths one after the other.           *)

StopBegin ==
    /\ pc[Cli] = "idle" /\ intent \in {"starting", "stopping"}
    /\ intent' = "stopping"
    /\ verdict' = "none"
    /\ \E label \in {"q1"} \cup {l \in {"control"} : alive # {}} : Goto(Cli, label)
    /\ UNCHANGED <<disk, locks, alive, leased, back, seen, mine>>

Quiesced ==
    /\ \/ pc[Cli] = "q1" /\ Move(IF Published THEN "control" ELSE "q2")
       \/ pc[Cli] = "q2" /\ Move(IF clean.ex THEN "control" ELSE "q3")
       \/ pc[Cli] = "q3" /\ Move(IF marker # None THEN "control" ELSE "finish")
    /\ UNCHANGED <<disk, alive, intent, leased>>

ControlStop ==
    /\ pc[Cli] = "control"
    /\ \/ \E k \in Kids :
            /\ Serving(k)
            /\ mine' = k
            /\ Goto(Cli, "awaitStop")
            /\ UNCHANGED <<locks, back, seen, verdict>>
       \/ (\A k \in Kids : ~Serving(k)) /\ End("unreachable")
    /\ UNCHANGED <<disk, alive, intent, leased>>

StopFinish ==
    /\ pc[Cli] = "finish" /\ LeaseFree
    /\ intent' = "stopped"
    /\ End("stopped")
    /\ UNCHANGED <<disk, alive, leased>>

(* Deadline, error or kill of the command.                                 *)
Abort ==
    /\ pc[Cli] # "idle"
    /\ End("none")
    /\ UNCHANGED <<disk, alive, intent, leased>>

-----------------------------------------------------------------------------
(* The detached supervisor.                                                *)

(* Run reads the request and looks whether there are later entries, then   *)
(* opens the lock, each by path.                                           *)
KidRead(k) ==
    /\ pc[k] = "spawned" /\ Published
    /\ Goto(k, IF canon.art = None THEN "read" ELSE "late")
    /\ UNCHANGED <<disk, locks, alive, intent, leased, cli>>

KidOpen(k) ==
    /\ pc[k] \in {"read", "late"} /\ Published
    /\ fd' = [fd EXCEPT ![k] = canon.lk]
    /\ Goto(k, IF pc[k] = "read" THEN "opened" ELSE "lateOpened")
    /\ UNCHANGED <<disk, holder, alive, intent, leased, cli>>

(* flock on the descriptor; the path is not looked at again.               *)
KidClaim(k) ==
    /\ pc[k] \in {"opened", "lateOpened"} /\ holder[fd[k]] = None
    /\ holder' = [holder EXCEPT ![fd[k]] = k]
    /\ Goto(k, IF pc[k] = "opened" THEN "owned" ELSE "doomed")
    /\ UNCHANGED <<disk, fd, alive, intent, leased, cli>>

(* The request is gone, the lock is held, or there are stale artifacts.    *)
KidGivesUp(k) ==
    /\ pc[k] \in Admitting
    /\ Leave(k)
    /\ UNCHANGED <<disk, alive, intent, leased, cli>>

KidAdmit(k) ==
    /\ pc[k] = "owned" /\ intent = "starting" /\ LeaseFree
    /\ Goto(k, "admitted")
    /\ UNCHANGED <<disk, locks, alive, intent, leased, cli>>

KidRefuse(k) ==
    /\ pc[k] \in {"owned", "admitted"}
    /\ Goto(k, "reaped")
    /\ UNCHANGED <<disk, locks, alive, intent, leased, cli>>

(* Mkdir of the serial subtree is exclusive and needs its parent.          *)
KidSerial(k) ==
    /\ pc[k] = "admitted"
    /\ Published /\ canon.art = None
    /\ canon' = [canon EXCEPT !.art = k]
    /\ Goto(k, "serial")
    /\ UNCHANGED <<clean, marker, made, locks, alive, intent, leased, cli>>

KidLaunch(k) ==
    /\ pc[k] = "serial"
    /\ alive' = alive \cup {k}
    /\ Goto(k, "live")
    /\ UNCHANGED <<disk, locks, intent, leased, cli>>

MachineEnds(k) ==
    /\ k \in alive
    /\ alive' = alive \ {k}
    /\ UNCHANGED <<disk, locks, intent, leased, pc, cli>>

(* The serial subtree is closed by its path: after the reap, or when the   *)
(* machine could not be launched.  A stop call that waits is answered.     *)
KidReap(k) ==
    /\ pc[k] \in {"serial", "live"} /\ k \notin alive
    /\ canon' = [canon EXCEPT !.art = IF @ = k THEN None ELSE @]
    /\ pc' = [pc EXCEPT
                ![k] = "reaped",
                ![Cli] = IF @ = "awaitStop" /\ mine = k THEN "finish" ELSE @]
    /\ UNCHANGED <<clean, marker, made, locks, alive, intent, leased, cli>>

(* removeExactGeneration: only request and lock, the lock is the retained  *)
(* one, and there is no residue.                                           *)
KidCheck(k) ==
    /\ pc[k] = "reaped"
    /\ IF canon = [lk |-> fd[k], art |-> None] /\ ~clean.ex /\ marker = None
       THEN Goto(k, "checked") /\ UNCHANGED locks
       ELSE Leave(k)
    /\ UNCHANGED <<disk, alive, intent, leased, cli>>

KidRename(k) ==
    /\ pc[k] = "checked"
    /\ clean' = [ex |-> TRUE, req |-> TRUE, lk |-> canon.lk, art |-> canon.art]
    /\ canon' = NoCanonical
    /\ Goto(k, "renamed")
    /\ UNCHANGED <<marker, made, locks, alive, intent, leased, cli>>

(* A canonical directory that is there again, or anything but request and  *)
(* lock in the residue, ends the cleanup here.                             *)
KidFinish(k) ==
    /\ pc[k] = "renamed"
    /\ IF ~Published /\ clean.art = None
       THEN Goto(k, "unrequest") /\ UNCHANGED locks
       ELSE Leave(k)
    /\ UNCHANGED <<disk, alive, intent, leased, cli>>

(* The supervisor is killed or ends without a proof; its machine goes on.  *)
KidLost(k) ==
    /\ pc[k] \notin {"unborn", "gone"}
    /\ Leave(k)
    /\ UNCHANGED <<disk, alive, intent, leased, cli>>

-----------------------------------------------------------------------------
CliStep ==
    \/ StartBegin \/ SeeCanonical \/ SeeDirectory \/ SeeMarker \/ SeeEntries
    \/ Probed \/ SeeGeneration \/ TryGeneration
    \/ \E i \in Inodes : Publish(i)
    \/ \E k \in Kids : Spawn(k)
    \/ SpawnFails \/ Watch \/ Snapshot \/ OpenCleanupLock \/ TryCleanupLock
    \/ StopBegin \/ Quiesced \/ ControlStop \/ StopFinish

Cleanup(p) ==
    RemoveRequest(p) \/ MoveLock(p) \/ RemoveDirectory(p) \/ RemoveMarker(p)

KidStep(k) ==
    \/ KidRead(k) \/ KidOpen(k) \/ KidClaim(k) \/ KidGivesUp(k)
    \/ KidAdmit(k) \/ KidRefuse(k)
    \/ KidSerial(k) \/ KidLaunch(k) \/ MachineEnds(k) \/ KidReap(k) \/ KidCheck(k)
    \/ KidRename(k) \/ KidFinish(k)

Next ==
    \/ CliStep \/ Abort
    \/ \E p \in Procs : Cleanup(p)
    \/ \E k \in Kids : KidStep(k) \/ KidLost(k)

Spec == Init /\ [][Next]_vars

-----------------------------------------------------------------------------
(* Safety.                                                                 *)

(* However many supervisors believe they own the generation, at most one   *)
(* virtual machine of it runs, with or without its supervisor.             *)
OneRuntime == \A j, k \in alive : j = k

(* A session with volumes is published as stopped only when nothing of the *)
(* generation runs or can still be launched, although Quiesced reads three *)
(* paths at three moments and supervisors left over from an earlier        *)
(* publication of the generation may still be about to start.              *)
StopProved ==
    leased /\ intent = "stopped" =>
        alive = {} /\ \A k \in Kids : pc[k] # "serial"

(* A namespace that a working supervisor holds by the lock inode in it is  *)
(* not taken apart by anyone: not by a retry of the start, and not by a    *)
(* supervisor left over from an earlier publication of the generation.     *)
OwnedIntact ==
    [][\A k \in Kids :
         Published /\ canon.lk = fd[k] /\ holder[fd[k]] = k /\ pc[k] \in Owning
           => canon'.lk = canon.lk]_vars

(* Wherever a cleanup is interrupted, what is left of it is exact: its lock*)
(* is reachable at exactly one path, in the directory or at the marker,    *)
(* and the request never outlives the lock in the directory.               *)
ResidueExact ==
    clean.ex =>
        /\ clean.lk = None <=> marker # None
        /\ clean.req => clean.lk # None

(* A directory that is gone has nothing in it, and artifacts exist in one  *)
(* directory at most.  Every machine, and every supervisor that has        *)
(* launched or is about to, has its artifacts there.                       *)
ArtifactsExact ==
    /\ canon.lk = None => canon.art = None
    /\ ~clean.ex => clean = NoCleanup
    /\ clean.art # None => canon.lk = None
    /\ \A k \in Kids : k \in alive \/ pc[k] \in {"serial", "live"} =>
          k \in {canon.art, clean.art}

(* A supervisor between its claim and its end holds the lock it opened; in *)
(* its cleanup that is the lock of the namespace it takes apart.           *)
KidExact(k) ==
    /\ pc[k] \in KidPCs \cup CleanupPCs
    /\ pc[k] \in {"opened", "lateOpened"} => fd[k] # None
    /\ pc[k] \in Owning \cup CleanupPCs \cup {"doomed", "reaped", "checked", "renamed"} =>
          fd[k] # None /\ holder[fd[k]] = k
    /\ pc[k] = "checked" => canon.lk = fd[k] /\ ~clean.ex /\ marker = None
    /\ pc[k] \in {"renamed", "unrequest", "movelock"} => clean.ex /\ clean.lk = fd[k]
    /\ pc[k] \in {"rmdir", "unmark"} => marker = fd[k]

(* A cleanup by anyone has removed what its stage says, and there are no   *)
(* artifacts in the residue.                                               *)
CleanerExact(p) ==
    /\ pc[p] \in CleanupPCs => clean.art = None
    /\ pc[p] = "movelock" => ~clean.req
    /\ pc[p] = "rmdir" => clean.lk = None
    /\ pc[p] = "unmark" => ~clean.ex

(* The command's own cleanup has the lock of whatever residue is left.     *)
ResidueLock == IF marker # None THEN marker ELSE clean.lk
CliHolds == (back = "resume" /\ pc[Cli] \in {"dir", "mark", "entries", "probed"})
            \/ pc[Cli] \in CleanupPCs

(* What the command has seen stays true while it needs it: only it         *)
(* publishes, so an absent canonical directory stays absent, and without   *)
(* one no new residue appears.                                             *)
CliExact ==
    /\ pc[Cli] \in CliPCs \cup CleanupPCs
    /\ back = "resume" => pc[Cli] # "canon" /\ ~seen.canon
    /\ pc[Cli] \in {"dir", "mark", "entries", "probed"} /\ ~seen.canon => ~Published
    /\ pc[Cli] \in {"lockpath", "cleanuplock", "publish", "q2", "q3"} \cup CleanupPCs =>
          ~Published
    /\ pc[Cli] = "mark" /\ ~seen.canon /\ ~seen.dir => ~clean.ex
    /\ pc[Cli] = "probed" /\ ~seen.canon => clean.art = None
    /\ pc[Cli] = "publish" => clean.art = None
    /\ pc[Cli] = "q3" => ~clean.ex
    /\ CliHolds => fd[Cli] # None /\ holder[fd[Cli]] = Cli
    /\ CliHolds \/ pc[Cli] = "cleanuplock" =>
          fd[Cli] # None /\ (clean.ex \/ marker # None => ResidueLock = fd[Cli])

(* The launch that holds the volume locks is alone, and once the command   *)
(* is about to publish the stop nothing runs or can be launched.           *)
StopExact ==
    /\ leased => \A j, k \in Kids :
          pc[j] \in {"admitted", "serial", "live"} /\ pc[k] \in {"admitted", "serial", "live"}
             => j = k
    /\ pc[Cli] \in {"awaitStop", "finish"} \cup {"q1", "q2", "q3", "control"} =>
          intent = "stopping"
    /\ leased /\ pc[Cli] = "finish" =>
          /\ alive = {} /\ \A k \in Kids : pc[k] \notin {"serial", "live"}
          /\ Published => \A k \in Kids : pc[k] # "admitted"
    /\ leased /\ intent = "stopped" =>
          alive = {} /\ \A k \in Kids : pc[k] \notin {"admitted", "serial", "live"}

(* Well typed; an interrupted cleanup leaves exact residue; and what each  *)
(* process relies on between two looks at the paths holds (generation.go   *)
(* removeExactGeneration, finishExactGenerationCleanup, launcher.go).      *)
NamespaceInv ==
    /\ TypeOK /\ ResidueExact /\ ArtifactsExact
    /\ \A k \in Kids : KidExact(k)
    /\ \A p \in Procs : CleanerExact(p)
    /\ CliExact /\ StopExact

(* What the launcher's comment says: only one child can own the generation.*)
OneOwner == \A j, k \in Kids : pc[j] \in Owning /\ pc[k] \in Owning => j = k

-----------------------------------------------------------------------------
(* Liveness: commands are repeated and in the end not interrupted; the     *)
(* supervisors that are scheduled proceed.                                 *)
Patience == <>[][~Abort]_vars

LiveSpec ==
    /\ Spec
    /\ WF_vars(CliStep)
    /\ \A p \in Procs : WF_vars(Cleanup(p))
    /\ \A k \in Kids : WF_vars(KidStep(k))
    /\ Patience

(* Interrupted cleanup is completed by a repeated start and the generation *)
(* published again, whatever stage the cleanup was left in, unless an      *)
(* operator stops the session instead or the residue holds live artifacts. *)
ResidueFinished ==
    (clean.ex \/ marker # None) /\ clean.art = None
        ~> \/ Published \/ intent # "starting"
           \/ made = Inodes \/ Unborn = {}  \* bounds
=============================================================================
