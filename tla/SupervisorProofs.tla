-------------------------- MODULE SupervisorProofs --------------------------
(***************************************************************************)
(* Proofs about the detached supervisor: the generation namespace it owns  *)
(* (GenerationNamespace), and the threads and control socket inside it     *)
(* (RuntimeControl, ClipboardTransfer).  They hold for any number of       *)
(* supervisors, publications of the generation and connections, and for    *)
(* either kind of session, with and without volumes.                       *)
(*                                                                         *)
(* NamespaceInv is inductive. ResidueExact alone is not: that a cleanup    *)
(* finds its lock where its stage says needs the flock (KidExact,          *)
(* CleanerExact), and that a retry of the start may take the residue over  *)
(* needs that what it has seen of the paths stays true between its looks   *)
(* (CliExact), which rests on only the command publishing. OneRuntime      *)
(* follows from ArtifactsExact: every machine has its artifacts in one of  *)
(* the two directories, and only one of them can hold any. StopProved      *)
(* follows from StopExact, and OwnedIntact from KidExact: the supervisor   *)
(* that renames a namespace holds the flock of the lock in it.             *)
(*                                                                         *)
(* The threads of the supervisor satisfy ThreadsInv whatever the clipboard *)
(* transfer does, because a step of the transfer changes the control       *)
(* variables only as a dialled call, a hangup or the machine's exit would. *)
(* The parties of the transfer satisfy TransferExact, whatever the threads *)
(* do, because it depends on them only through the machine being alive.    *)
(* ControlInv is the conjunction; what the threads promise (StopHonest,    *)
(* ReleasedQuiet, NoCyclicWait) and what the command reports               *)
(* (HonestOutcome) follow from it.                                         *)
(***************************************************************************)
EXTENDS GenerationNamespace, ClipboardTransfer, TLAPS

-----------------------------------------------------------------------------
(* The generation namespace.                                               *)

(* What a step of the command may change of the types.                     *)
CommandTyped ==
    /\ holder \in [Inodes -> Procs \cup {None}]
    /\ fd \in [Procs -> Inodes \cup {None}]
    /\ pc \in [Procs -> CliPCs \cup KidPCs \cup CleanupPCs]
    /\ back \in Purposes
    /\ seen \in [canon : BOOLEAN, dir : BOOLEAN, mark : BOOLEAN]
    /\ mine \in Kids \cup {None}
    /\ verdict \in Verdicts

(* A process that closes its descriptor leaves well-typed locks.           *)
LEMMA UnlockTyped ==
    ASSUME TypeOK, NEW p \in Procs, Unlock(p)
    PROVE  /\ holder' \in [Inodes -> Procs \cup {None}]
           /\ fd' \in [Procs -> Inodes \cup {None}]
  <1> USE DEF TypeOK, Unlock
  <1>1. fd' \in [Procs -> Inodes \cup {None}]
    OBVIOUS
  <1>2. \A i \in Inodes : (IF holder[i] = p THEN None ELSE holder[i]) \in Procs \cup {None}
    OBVIOUS
  <1> QED
    BY <1>1, <1>2

(* A command that has looked at nothing yet has a typed view.              *)
LEMMA SeenTyped ==
    NothingSeen \in [canon : BOOLEAN, dir : BOOLEAN, mark : BOOLEAN]
  <1> FALSE \in BOOLEAN
    BY Zenon
  <1> QED
    BY DEF NothingSeen

(* However a step of the command ends, by giving up, looking again, or *)
(* going on, the types are kept.                                           *)
LEMMA CommandEnds ==
    ASSUME TypeOK
    PROVE  /\ \A v \in Verdicts : End(v) => CommandTyped'
           /\ \A b \in Purposes : Probe(b) => CommandTyped'
           /\ \A l \in CliPCs \cup CleanupPCs : Move(l) => CommandTyped'
           /\ UNCHANGED <<locks, pc, cli>> => CommandTyped'
  <1> USE DEF CommandTyped, Goto, Procs
  <1>1. ASSUME NEW v \in Verdicts, End(v)
        PROVE  CommandTyped'
    BY <1>1, UnlockTyped, SeenTyped DEF End, TypeOK, Purposes, CliPCs
  <1>2. ASSUME NEW b \in Purposes, Probe(b)
        PROVE  CommandTyped'
    BY <1>2, UnlockTyped DEF Probe, TypeOK, CliPCs
  <1>3. ASSUME NEW l \in CliPCs \cup CleanupPCs, Move(l)
        PROVE  CommandTyped'
    BY <1>3 DEF Move, TypeOK, locks, cli
  <1>4. ASSUME UNCHANGED <<locks, pc, cli>>
        PROVE  CommandTyped'
    BY <1>4 DEF TypeOK, locks, cli
  <1> QED
    BY <1>1, <1>2, <1>3, <1>4

(* Every step keeps the types. The lock files and descriptors are typed    *)
(* because a supervisor that takes a flock has opened the lock before      *)
(* (KidExact, admitGeneration and acquireGenerationLock).                  *)
LEMMA TypeStep ==
    NamespaceInv /\ [Next]_vars => TypeOK'
  <1> SUFFICES ASSUME NamespaceInv, [Next]_vars
               PROVE  TypeOK'
    OBVIOUS
  <1>1. CASE StartBegin
    BY <1>1
       DEF StartBegin, NamespaceInv, TypeOK, Procs, disk, locks, cli, Goto,
           CliPCs, Purposes, Verdicts
  <1>2. CASE SeeCanonical
    <2>1. Published \in BOOLEAN /\ FALSE \in BOOLEAN
      BY Zenon DEF Published
    <2>2. seen' \in [canon : BOOLEAN, dir : BOOLEAN, mark : BOOLEAN]
      BY <1>2, <2>1 DEF SeeCanonical, NamespaceInv, TypeOK
    <2> QED
      BY <1>2, <2>2
         DEF SeeCanonical, Goto, NamespaceInv, TypeOK, Procs, CliPCs, disk,
             locks
  <1>3. CASE SeeDirectory
    BY <1>3
       DEF SeeDirectory, NamespaceInv, TypeOK, Procs, disk, locks, cli, Goto,
           CliPCs, CleanupDir
  <1>4. CASE SeeMarker
    <2>1. (marker # None) \in BOOLEAN /\ FALSE \in BOOLEAN
      BY Zenon DEF Published
    <2>2. seen' \in [canon : BOOLEAN, dir : BOOLEAN, mark : BOOLEAN]
      BY <1>4, <2>1 DEF SeeMarker, NamespaceInv, TypeOK
    <2> QED
      BY <1>4, <2>2
         DEF SeeMarker, Goto, NamespaceInv, TypeOK, Procs, CliPCs, disk,
             locks
  <1>5. CASE SeeEntries
    <2> UNCHANGED <<disk, alive, intent, leased>> /\ TypeOK
      BY <1>5 DEF SeeEntries, NamespaceInv
    <2> CommandTyped'
      BY <1>5, CommandEnds
         DEF SeeEntries, Refuse, Verdicts, Purposes, CliPCs, CleanupPCs
    <2> QED
      BY DEF TypeOK, CommandTyped, disk
  <1>6. CASE Probed
    <2> UNCHANGED <<disk, alive, intent, leased>> /\ TypeOK
      BY <1>6 DEF Probed, NamespaceInv
    <2> CommandTyped'
      BY <1>6, CommandEnds
         DEF Probed, Refuse, Classified, Verdicts, Purposes, CliPCs,
             CleanupPCs
    <2> QED
      BY DEF TypeOK, CommandTyped, disk
  <1>7. CASE SeeGeneration
    <2> UNCHANGED <<disk, alive, intent, leased>> /\ TypeOK
      BY <1>7 DEF SeeGeneration, NamespaceInv
    <2>1. ASSUME Published, SeeGeneration
          PROVE  CommandTyped'
      <3>1. (canon.art # None) \in BOOLEAN
        BY Zenon
      <3>2. seen' \in [canon : BOOLEAN, dir : BOOLEAN, mark : BOOLEAN]
        BY <2>1, <3>1 DEF SeeGeneration, TypeOK
      <3> QED
        BY <2>1, <3>2
           DEF SeeGeneration, TypeOK, CommandTyped, Goto, Procs, CliPCs,
               Canonical
    <2> CommandTyped'
      BY <1>7, <2>1, CommandEnds
         DEF SeeGeneration, Refuse, Verdicts, Purposes, CliPCs, CleanupPCs
    <2> QED
      BY DEF TypeOK, CommandTyped, disk
  <1>8. CASE TryGeneration
    <2> UNCHANGED <<disk, alive, intent, leased>> /\ TypeOK
      BY <1>8 DEF TryGeneration, NamespaceInv
    <2> CommandTyped'
      BY <1>8, CommandEnds
         DEF TryGeneration, Refuse, Classified, Verdicts, Purposes, CliPCs,
             CleanupPCs
    <2> QED
      BY DEF TypeOK, CommandTyped, disk
  <1>9. ASSUME NEW i \in Inodes, Publish(i)
         PROVE  TypeOK'
    <2>1. CommandTyped'
      BY <1>9, CommandEnds DEF Publish, Purposes, NamespaceInv
    <2> QED
      BY <1>9, <2>1
         DEF Publish, TypeOK, CommandTyped, Canonical, NamespaceInv
  <1>10. ASSUME NEW k \in Kids, Spawn(k)
          PROVE  TypeOK'
    BY <1>10
       DEF Spawn, NamespaceInv, TypeOK, Procs, disk, locks, cli, Unborn,
           CliPCs, KidPCs, Admitting
  <1>11. CASE SpawnFails
    <2> UNCHANGED <<disk, alive, intent, leased>> /\ TypeOK
      BY <1>11 DEF SpawnFails, NamespaceInv
    <2> CommandTyped'
      BY <1>11, CommandEnds
         DEF SpawnFails, Verdicts, Purposes, CliPCs, CleanupPCs
    <2> QED
      BY DEF TypeOK, CommandTyped, disk
  <1>12. CASE Watch
    <2> UNCHANGED <<disk, alive, intent, leased>> /\ TypeOK
      BY <1>12 DEF Watch, NamespaceInv
    <2> CommandTyped'
      BY <1>12, CommandEnds DEF Watch, Verdicts, Purposes, CliPCs, CleanupPCs
    <2> QED
      BY DEF TypeOK, CommandTyped, disk
  <1>13. CASE Snapshot
    <2> UNCHANGED <<disk, alive, intent, leased>> /\ TypeOK
      BY <1>13 DEF Snapshot, NamespaceInv
    <2> CommandTyped'
      BY <1>13, CommandEnds
         DEF Snapshot, Verdicts, Purposes, CliPCs, CleanupPCs
    <2> QED
      BY DEF TypeOK, CommandTyped, disk
  <1>14. CASE OpenCleanupLock
    <2> UNCHANGED <<disk, alive, intent, leased>> /\ TypeOK
      BY <1>14 DEF OpenCleanupLock, NamespaceInv
    <2>1. ASSUME (IF seen.mark THEN marker ELSE clean.lk) # None,
       OpenCleanupLock
          PROVE  CommandTyped'
      BY <2>1
         DEF OpenCleanupLock, TypeOK, CommandTyped, Goto, Procs, CliPCs,
             CleanupDir, cli
    <2> CommandTyped'
      BY <1>14, <2>1, CommandEnds
         DEF OpenCleanupLock, Verdicts, Purposes, CliPCs, CleanupPCs
    <2> QED
      BY DEF TypeOK, CommandTyped, disk
  <1>15. CASE TryCleanupLock
    <2> UNCHANGED <<disk, alive, intent, leased>> /\ TypeOK
      BY <1>15 DEF TryCleanupLock, NamespaceInv
    <2>1. ASSUME holder[fd[Cli]] = None, TryCleanupLock
          PROVE  CommandTyped'
      BY <2>1, SeenTyped
         DEF TryCleanupLock, TypeOK, CommandTyped, Goto, Procs, CliPCs,
             Purposes
    <2> CommandTyped'
      BY <1>15, <2>1, CommandEnds
         DEF TryCleanupLock, Verdicts, Purposes, CliPCs, CleanupPCs
    <2> QED
      BY DEF TypeOK, CommandTyped, disk
  <1>16. CASE StopBegin
    BY <1>16
       DEF StopBegin, NamespaceInv, TypeOK, Procs, disk, locks, cli, Goto,
           CliPCs, Verdicts
  <1>17. CASE Quiesced
    <2> UNCHANGED <<disk, alive, intent, leased>> /\ TypeOK
      BY <1>17 DEF Quiesced, NamespaceInv
    <2> CommandTyped'
      BY <1>17, CommandEnds
         DEF Quiesced, Verdicts, Purposes, CliPCs, CleanupPCs
    <2> QED
      BY DEF TypeOK, CommandTyped, disk
  <1>18. CASE ControlStop
    <2> UNCHANGED <<disk, alive, intent, leased>> /\ TypeOK
      BY <1>18 DEF ControlStop, NamespaceInv
    <2>1. ASSUME ControlStop, ~End("unreachable")
          PROVE  CommandTyped'
      BY <2>1
         DEF ControlStop, TypeOK, CommandTyped, Goto, Procs, CliPCs, locks
    <2> CommandTyped'
      BY <1>18, <2>1, CommandEnds
         DEF ControlStop, Verdicts, Purposes, CliPCs, CleanupPCs
    <2> QED
      BY DEF TypeOK, CommandTyped, disk
  <1>19. CASE StopFinish
    <2>1. CommandTyped'
      BY <1>19, CommandEnds DEF StopFinish, Verdicts, NamespaceInv
    <2> QED
      BY <1>19, <2>1 DEF StopFinish, TypeOK, CommandTyped, disk, NamespaceInv
  <1>20. CASE Abort
    <2> UNCHANGED <<disk, alive, intent, leased>> /\ TypeOK
      BY <1>20 DEF Abort, NamespaceInv
    <2> CommandTyped'
      BY <1>20, CommandEnds DEF Abort, Verdicts, Purposes, CliPCs, CleanupPCs
    <2> QED
      BY DEF TypeOK, CommandTyped, disk
  <1>21. ASSUME NEW p \in Procs, RemoveRequest(p)
          PROVE  TypeOK'
    <2>1. FALSE \in BOOLEAN
      BY Zenon
    <2>2. clean' \in CleanupDir
      BY <1>21, <2>1 DEF RemoveRequest, NamespaceInv, TypeOK, CleanupDir
    <2> QED
      BY <1>21, <2>2
         DEF RemoveRequest, Goto, NamespaceInv, TypeOK, CleanupPCs, locks,
             cli
  <1>22. ASSUME NEW p \in Procs, MoveLock(p)
          PROVE  TypeOK'
    BY <1>22
       DEF MoveLock, NamespaceInv, TypeOK, Procs, disk, locks, cli, Goto,
           CleanupPCs, CleanupDir
  <1>23. ASSUME NEW p \in Procs, RemoveDirectory(p)
          PROVE  TypeOK'
    BY <1>23
       DEF RemoveDirectory, NamespaceInv, TypeOK, Procs, disk, locks, cli,
           Goto, CleanupPCs, CleanupDir, NoCleanup
  <1>24. ASSUME NEW p \in Procs, RemoveMarker(p)
          PROVE  TypeOK'
    <2>1. CASE p = Cli
      <3>1. CommandTyped'
        BY <1>24, <2>1, CommandEnds DEF RemoveMarker, Purposes, NamespaceInv
      <3> QED
        BY <1>24, <3>1 DEF RemoveMarker, TypeOK, CommandTyped, NamespaceInv
    <2>2. CASE p # Cli
      <3> Unlock(p) /\ Goto(p, "gone") /\ UNCHANGED cli
        BY <1>24, <2>2 DEF RemoveMarker, Leave
      <3> QED
        BY <1>24, UnlockTyped
           DEF RemoveMarker, Goto, cli, NamespaceInv, TypeOK, KidPCs
    <2> QED
      BY <2>1, <2>2
  <1>25. ASSUME NEW k \in Kids, KidRead(k)
          PROVE  TypeOK'
    BY <1>25
       DEF KidRead, NamespaceInv, TypeOK, Procs, disk, locks, cli, Goto,
           KidPCs, Owning, Admitting
  <1>26. ASSUME NEW k \in Kids, KidOpen(k)
          PROVE  TypeOK'
    BY <1>26
       DEF KidOpen, NamespaceInv, TypeOK, Procs, disk, locks, cli, Goto,
           Canonical, KidPCs, Owning, Admitting
  <1>27. ASSUME NEW k \in Kids, KidClaim(k)
          PROVE  TypeOK'
    <2>1. fd[k] # None
      BY <1>27 DEF KidClaim, NamespaceInv, KidExact
    <2>2. fd[k] \in Inodes
      BY <2>1 DEF NamespaceInv, TypeOK, Procs
    <2> QED
      BY <1>27, <2>2
         DEF KidClaim, Goto, disk, cli, NamespaceInv, TypeOK, KidPCs, Owning,
             Admitting, CleanupPCs, Procs
  <1>28. ASSUME NEW k \in Kids, KidGivesUp(k)
          PROVE  TypeOK'
    <2>1. Unlock(k) /\ Goto(k, "gone") /\ k \in Procs
      BY <1>28 DEF KidGivesUp, Leave, Procs
    <2> QED
      BY <1>28, <2>1, UnlockTyped
         DEF KidGivesUp, Goto, disk, cli, NamespaceInv, TypeOK, KidPCs
  <1>29. ASSUME NEW k \in Kids, KidAdmit(k)
          PROVE  TypeOK'
    BY <1>29
       DEF KidAdmit, NamespaceInv, TypeOK, Procs, disk, locks, cli, Goto,
           LeaseFree, KidPCs, Owning, Admitting
  <1>30. ASSUME NEW k \in Kids, KidRefuse(k)
          PROVE  TypeOK'
    BY <1>30
       DEF KidRefuse, NamespaceInv, TypeOK, Procs, disk, locks, cli, Goto,
           KidPCs, Owning, Admitting
  <1>31. ASSUME NEW k \in Kids, KidSerial(k)
          PROVE  TypeOK'
    BY <1>31
       DEF KidSerial, NamespaceInv, TypeOK, Procs, disk, locks, cli, Goto,
           Canonical, KidPCs, Owning, Admitting
  <1>32. ASSUME NEW k \in Kids, KidLaunch(k)
          PROVE  TypeOK'
    BY <1>32
       DEF KidLaunch, NamespaceInv, TypeOK, Procs, disk, locks, cli, Goto,
           KidPCs, Owning, Admitting
  <1>33. ASSUME NEW k \in Kids, MachineEnds(k)
          PROVE  TypeOK'
    BY <1>33 DEF MachineEnds, NamespaceInv, TypeOK, Procs, disk, locks, cli
  <1>34. ASSUME NEW k \in Kids, KidReap(k)
          PROVE  TypeOK'
    BY <1>34
       DEF KidReap, NamespaceInv, TypeOK, Procs, disk, locks, cli, Canonical,
           CliPCs, KidPCs, Owning, Admitting
  <1>35. ASSUME NEW k \in Kids, KidCheck(k)
          PROVE  TypeOK'
    <2>1. CASE Leave(k)
      <3> Unlock(k) /\ Goto(k, "gone") /\ k \in Procs
        BY <2>1 DEF Leave, Procs
      <3> QED
        BY <1>35, UnlockTyped
           DEF KidCheck, Goto, disk, cli, NamespaceInv, TypeOK, KidPCs
    <2>2. CASE UNCHANGED locks
      BY <1>35, <2>2
         DEF KidCheck, Goto, Leave, disk, cli, locks, Unlock, NamespaceInv,
             TypeOK, KidPCs, Owning, Admitting, CleanupPCs, Procs
    <2> QED
      BY <1>35, <2>1, <2>2 DEF KidCheck
  <1>36. ASSUME NEW k \in Kids, KidRename(k)
          PROVE  TypeOK'
    BY <1>36
       DEF KidRename, NamespaceInv, TypeOK, Procs, disk, locks, cli, Goto,
           Canonical, NoCanonical, CleanupDir, KidPCs, Owning, Admitting
  <1>37. ASSUME NEW k \in Kids, KidFinish(k)
          PROVE  TypeOK'
    <2>1. CASE Leave(k)
      <3> Unlock(k) /\ Goto(k, "gone") /\ k \in Procs
        BY <2>1 DEF Leave, Procs
      <3> QED
        BY <1>37, UnlockTyped
           DEF KidFinish, Goto, disk, cli, NamespaceInv, TypeOK, KidPCs
    <2>2. CASE UNCHANGED locks
      BY <1>37, <2>2
         DEF KidFinish, Goto, Leave, disk, cli, locks, Unlock, NamespaceInv,
             TypeOK, KidPCs, Owning, Admitting, CleanupPCs, Procs
    <2> QED
      BY <1>37, <2>1, <2>2 DEF KidFinish
  <1>38. ASSUME NEW k \in Kids, KidLost(k)
          PROVE  TypeOK'
    <2>1. Unlock(k) /\ Goto(k, "gone") /\ k \in Procs
      BY <1>38 DEF KidLost, Leave, Procs
    <2> QED
      BY <1>38, <2>1, UnlockTyped
         DEF KidLost, Goto, disk, cli, NamespaceInv, TypeOK, KidPCs
  <1>39. CASE UNCHANGED vars
    BY <1>39 DEF vars, disk, locks, cli, NamespaceInv, TypeOK
  <1> QED
    BY <1>1, <1>2, <1>3, <1>4, <1>5, <1>6, <1>7, <1>8, <1>9, <1>10, <1>11,
       <1>12, <1>13, <1>14, <1>15, <1>16, <1>17, <1>18, <1>19, <1>20, <1>21,
       <1>22, <1>23, <1>24, <1>25, <1>26, <1>27, <1>28, <1>29, <1>30, <1>31,
       <1>32, <1>33, <1>34, <1>35, <1>36, <1>37, <1>38, <1>39
       DEF Next, CliStep, Cleanup, KidStep

(* Every step of every process leaves exact residue and exact artifacts:   *)
(* the supervisor renames the namespace whole, the cleanup removes         *)
(* request, lock, directory and marker in this order, and a launch makes   *)
(* its serial subtree before its machine (generation.go                    *)
(* removeExactGeneration, finishExactGenerationCleanup, serial runtime).   *)
LEMMA PathStep ==
    NamespaceInv /\ [Next]_vars => (ResidueExact /\ ArtifactsExact)'
  <1> SUFFICES ASSUME NamespaceInv, [Next]_vars
               PROVE  (ResidueExact /\ ArtifactsExact)'
    OBVIOUS
  <1> USE DEF NamespaceInv, TypeOK, Canonical, CleanupDir, Purposes,
              Verdicts, ResidueExact, ArtifactsExact, KidExact, CleanerExact,
              CliExact, ResidueLock, CliHolds, CliPCs, Owning, Admitting,
              KidPCs, CleanupPCs, disk, locks, cli, Procs, Published,
              NoCanonical, NoCleanup, NothingSeen
  <1>1. CASE StartBegin
    BY <1>1, CliAssumption DEF StartBegin, Goto
  <1>2. CASE SeeCanonical
    BY <1>2, CliAssumption DEF SeeCanonical, Goto
  <1>3. CASE SeeDirectory
    BY <1>3, CliAssumption DEF SeeDirectory, Goto
  <1>4. CASE SeeMarker
    BY <1>4, CliAssumption DEF SeeMarker, Goto
  <1>5. CASE SeeEntries
    BY <1>5, CliAssumption
       DEF SeeEntries, Probe, End, Refuse, Move, Goto, Unlock
  <1>6. CASE Probed
    BY <1>6, CliAssumption
       DEF Probed, Probe, End, Refuse, Move, Goto, Unlock, Classified,
           Residue
  <1>7. CASE SeeGeneration
    BY <1>7, CliAssumption
       DEF SeeGeneration, Probe, End, Refuse, Move, Goto, Unlock
  <1>8. CASE TryGeneration
    BY <1>8, CliAssumption
       DEF TryGeneration, Probe, End, Refuse, Move, Goto, Unlock, Classified
  <1>9. ASSUME NEW i \in Inodes, Publish(i)
         PROVE  (ResidueExact /\ ArtifactsExact)'
    BY <1>9, CliAssumption DEF Publish, Probe, Goto, Unlock
  <1>10. ASSUME NEW k \in Kids, Spawn(k)
          PROVE  (ResidueExact /\ ArtifactsExact)'
    BY <1>10, CliAssumption DEF Spawn, Unborn
  <1>11. CASE SpawnFails
    BY <1>11, CliAssumption
       DEF SpawnFails, Probe, End, Refuse, Move, Goto, Unlock
  <1>12. CASE Watch
    BY <1>12, CliAssumption DEF Watch, Probe, End, Refuse, Move, Goto, Unlock
  <1>13. CASE Snapshot
    BY <1>13, CliAssumption
       DEF Snapshot, Probe, End, Refuse, Move, Goto, Unlock
  <1>14. CASE OpenCleanupLock
    BY <1>14, CliAssumption
       DEF OpenCleanupLock, Probe, End, Refuse, Move, Goto, Unlock
  <1>15. CASE TryCleanupLock
    BY <1>15, CliAssumption
       DEF TryCleanupLock, Probe, End, Refuse, Move, Goto, Unlock
  <1>16. CASE StopBegin
    BY <1>16, CliAssumption DEF StopBegin, Goto
  <1>17. CASE Quiesced
    BY <1>17, CliAssumption DEF Quiesced, Move, Goto
  <1>18. CASE ControlStop
    BY <1>18, CliAssumption
       DEF ControlStop, Probe, End, Refuse, Move, Goto, Unlock
  <1>19. CASE StopFinish
    BY <1>19, CliAssumption
       DEF StopFinish, Probe, End, Refuse, Move, Goto, Unlock, LeaseFree
  <1>20. CASE Abort
    BY <1>20, CliAssumption DEF Abort, Probe, End, Refuse, Move, Goto, Unlock
  <1>21. ASSUME NEW p \in Procs, RemoveRequest(p)
          PROVE  (ResidueExact /\ ArtifactsExact)'
    <2>1. clean' = [clean EXCEPT !.req = FALSE] /\ clean \in CleanupDir
      BY <1>21 DEF RemoveRequest
    <2>2. clean'.ex = clean.ex /\ clean'.lk = clean.lk /\ clean'.art = clean.art
      BY <2>1
    <2>3. ~clean'.req
      BY <2>1
    <2>4. ~clean.ex => clean' = clean
      BY <2>1
    <2>5. ResidueExact'
      BY <1>21, <2>2, <2>3 DEF RemoveRequest
    <2>6. ArtifactsExact'
      BY <1>21, <2>2, <2>4, CliAssumption DEF RemoveRequest, Goto
    <2> QED
      BY <2>5, <2>6
  <1>22. ASSUME NEW p \in Procs, MoveLock(p)
          PROVE  (ResidueExact /\ ArtifactsExact)'
    BY <1>22, CliAssumption DEF MoveLock, Goto
  <1>23. ASSUME NEW p \in Procs, RemoveDirectory(p)
          PROVE  (ResidueExact /\ ArtifactsExact)'
    BY <1>23, CliAssumption DEF RemoveDirectory, Goto
  <1>24. ASSUME NEW p \in Procs, RemoveMarker(p)
          PROVE  (ResidueExact /\ ArtifactsExact)'
    BY <1>24, CliAssumption DEF RemoveMarker, Goto, Probe, Leave, Unlock
  <1>25. ASSUME NEW k \in Kids, KidRead(k)
          PROVE  (ResidueExact /\ ArtifactsExact)'
    BY <1>25, CliAssumption DEF KidRead, Goto
  <1>26. ASSUME NEW k \in Kids, KidOpen(k)
          PROVE  (ResidueExact /\ ArtifactsExact)'
    BY <1>26, CliAssumption DEF KidOpen, Goto
  <1>27. ASSUME NEW k \in Kids, KidClaim(k)
          PROVE  (ResidueExact /\ ArtifactsExact)'
    BY <1>27, CliAssumption DEF KidClaim, Goto
  <1>28. ASSUME NEW k \in Kids, KidGivesUp(k)
          PROVE  (ResidueExact /\ ArtifactsExact)'
    BY <1>28, CliAssumption DEF KidGivesUp, Leave, Goto, Unlock
  <1>29. ASSUME NEW k \in Kids, KidAdmit(k)
          PROVE  (ResidueExact /\ ArtifactsExact)'
    BY <1>29, CliAssumption DEF KidAdmit, Goto, LeaseFree
  <1>30. ASSUME NEW k \in Kids, KidRefuse(k)
          PROVE  (ResidueExact /\ ArtifactsExact)'
    BY <1>30, CliAssumption DEF KidRefuse, Goto
  <1>31. ASSUME NEW k \in Kids, KidSerial(k)
          PROVE  (ResidueExact /\ ArtifactsExact)'
    BY <1>31, CliAssumption DEF KidSerial, Goto
  <1>32. ASSUME NEW k \in Kids, KidLaunch(k)
          PROVE  (ResidueExact /\ ArtifactsExact)'
    BY <1>32, CliAssumption DEF KidLaunch, Goto
  <1>33. ASSUME NEW k \in Kids, MachineEnds(k)
          PROVE  (ResidueExact /\ ArtifactsExact)'
    BY <1>33, CliAssumption DEF MachineEnds
  <1>34. ASSUME NEW k \in Kids, KidReap(k)
          PROVE  (ResidueExact /\ ArtifactsExact)'
    BY <1>34, CliAssumption DEF KidReap
  <1>35. ASSUME NEW k \in Kids, KidCheck(k)
          PROVE  (ResidueExact /\ ArtifactsExact)'
    BY <1>35, CliAssumption DEF KidCheck, Leave, Goto, Unlock
  <1>36. ASSUME NEW k \in Kids, KidRename(k)
          PROVE  (ResidueExact /\ ArtifactsExact)'
    BY <1>36, CliAssumption DEF KidRename, Goto
  <1>37. ASSUME NEW k \in Kids, KidFinish(k)
          PROVE  (ResidueExact /\ ArtifactsExact)'
    BY <1>37, CliAssumption DEF KidFinish, Leave, Goto, Unlock
  <1>38. ASSUME NEW k \in Kids, KidLost(k)
          PROVE  (ResidueExact /\ ArtifactsExact)'
    BY <1>38, CliAssumption DEF KidLost, Leave, Goto, Unlock
  <1>39. CASE UNCHANGED vars
    BY <1>39 DEF vars
  <1> QED
    BY <1>1, <1>2, <1>3, <1>4, <1>5, <1>6, <1>7, <1>8, <1>9, <1>10, <1>11,
       <1>12, <1>13, <1>14, <1>15, <1>16, <1>17, <1>18, <1>19, <1>20, <1>21,
       <1>22, <1>23, <1>24, <1>25, <1>26, <1>27, <1>28, <1>29, <1>30, <1>31,
       <1>32, <1>33, <1>34, <1>35, <1>36, <1>37, <1>38, <1>39
       DEF Next, CliStep, Cleanup, KidStep

(* No step, its own or another's, takes from a supervisor what it relies   *)
(* on: the flock it holds until it leaves, the namespace it has checked,   *)
(* and the residue it is taking apart.                                     *)
LEMMA KidsStep ==
    ASSUME NamespaceInv, NEW q \in Kids, [Next]_vars
    PROVE  KidExact(q)'
  <1> USE DEF NamespaceInv, TypeOK, Canonical, CleanupDir, Purposes,
              Verdicts, ResidueExact, ArtifactsExact, KidExact, CleanerExact,
              CliExact, ResidueLock, CliHolds, CliPCs, Owning, Admitting,
              KidPCs, CleanupPCs, disk, locks, cli, Procs, Published,
              NoCanonical, NoCleanup, NothingSeen
  <1>1. CASE StartBegin
    BY <1>1, CliAssumption DEF StartBegin, Goto
  <1>2. CASE SeeCanonical
    BY <1>2, CliAssumption DEF SeeCanonical, Goto
  <1>3. CASE SeeDirectory
    BY <1>3, CliAssumption DEF SeeDirectory, Goto
  <1>4. CASE SeeMarker
    BY <1>4, CliAssumption DEF SeeMarker, Goto
  <1>5. CASE SeeEntries
    BY <1>5, CliAssumption
       DEF SeeEntries, Probe, End, Refuse, Move, Goto, Unlock
  <1>6. CASE Probed
    BY <1>6, CliAssumption
       DEF Probed, Probe, End, Refuse, Move, Goto, Unlock, Classified,
           Residue
  <1>7. CASE SeeGeneration
    BY <1>7, CliAssumption
       DEF SeeGeneration, Probe, End, Refuse, Move, Goto, Unlock
  <1>8. CASE TryGeneration
    BY <1>8, CliAssumption
       DEF TryGeneration, Probe, End, Refuse, Move, Goto, Unlock, Classified
  <1>9. ASSUME NEW i \in Inodes, Publish(i)
         PROVE  KidExact(q)'
    BY <1>9, CliAssumption DEF Publish, Probe, Goto, Unlock
  <1>10. ASSUME NEW k \in Kids, Spawn(k)
          PROVE  KidExact(q)'
    BY <1>10, CliAssumption DEF Spawn, Unborn
  <1>11. CASE SpawnFails
    BY <1>11, CliAssumption
       DEF SpawnFails, Probe, End, Refuse, Move, Goto, Unlock
  <1>12. CASE Watch
    BY <1>12, CliAssumption DEF Watch, Probe, End, Refuse, Move, Goto, Unlock
  <1>13. CASE Snapshot
    BY <1>13, CliAssumption
       DEF Snapshot, Probe, End, Refuse, Move, Goto, Unlock
  <1>14. CASE OpenCleanupLock
    BY <1>14, CliAssumption
       DEF OpenCleanupLock, Probe, End, Refuse, Move, Goto, Unlock
  <1>15. CASE TryCleanupLock
    BY <1>15, CliAssumption
       DEF TryCleanupLock, Probe, End, Refuse, Move, Goto, Unlock
  <1>16. CASE StopBegin
    BY <1>16, CliAssumption DEF StopBegin, Goto
  <1>17. CASE Quiesced
    BY <1>17, CliAssumption DEF Quiesced, Move, Goto
  <1>18. CASE ControlStop
    BY <1>18, CliAssumption
       DEF ControlStop, Probe, End, Refuse, Move, Goto, Unlock
  <1>19. CASE StopFinish
    BY <1>19, CliAssumption
       DEF StopFinish, Probe, End, Refuse, Move, Goto, Unlock, LeaseFree
  <1>20. CASE Abort
    BY <1>20, CliAssumption DEF Abort, Probe, End, Refuse, Move, Goto, Unlock
  <1>21. ASSUME NEW p \in Procs, RemoveRequest(p)
          PROVE  KidExact(q)'
    BY <1>21, CliAssumption DEF RemoveRequest, Goto
  <1>22. ASSUME NEW p \in Procs, MoveLock(p)
          PROVE  KidExact(q)'
    BY <1>22, CliAssumption DEF MoveLock, Goto
  <1>23. ASSUME NEW p \in Procs, RemoveDirectory(p)
          PROVE  KidExact(q)'
    BY <1>23, CliAssumption DEF RemoveDirectory, Goto
  <1>24. ASSUME NEW p \in Procs, RemoveMarker(p)
          PROVE  KidExact(q)'
    BY <1>24, CliAssumption DEF RemoveMarker, Goto, Probe, Leave, Unlock
  <1>25. ASSUME NEW k \in Kids, KidRead(k)
          PROVE  KidExact(q)'
    BY <1>25, CliAssumption DEF KidRead, Goto
  <1>26. ASSUME NEW k \in Kids, KidOpen(k)
          PROVE  KidExact(q)'
    BY <1>26, CliAssumption DEF KidOpen, Goto
  <1>27. ASSUME NEW k \in Kids, KidClaim(k)
          PROVE  KidExact(q)'
    BY <1>27, CliAssumption DEF KidClaim, Goto
  <1>28. ASSUME NEW k \in Kids, KidGivesUp(k)
          PROVE  KidExact(q)'
    BY <1>28, CliAssumption DEF KidGivesUp, Leave, Goto, Unlock
  <1>29. ASSUME NEW k \in Kids, KidAdmit(k)
          PROVE  KidExact(q)'
    BY <1>29, CliAssumption DEF KidAdmit, Goto, LeaseFree
  <1>30. ASSUME NEW k \in Kids, KidRefuse(k)
          PROVE  KidExact(q)'
    BY <1>30, CliAssumption DEF KidRefuse, Goto
  <1>31. ASSUME NEW k \in Kids, KidSerial(k)
          PROVE  KidExact(q)'
    BY <1>31, CliAssumption DEF KidSerial, Goto
  <1>32. ASSUME NEW k \in Kids, KidLaunch(k)
          PROVE  KidExact(q)'
    BY <1>32, CliAssumption DEF KidLaunch, Goto
  <1>33. ASSUME NEW k \in Kids, MachineEnds(k)
          PROVE  KidExact(q)'
    BY <1>33, CliAssumption DEF MachineEnds
  <1>34. ASSUME NEW k \in Kids, KidReap(k)
          PROVE  KidExact(q)'
    BY <1>34, CliAssumption DEF KidReap
  <1>35. ASSUME NEW k \in Kids, KidCheck(k)
          PROVE  KidExact(q)'
    BY <1>35, CliAssumption DEF KidCheck, Leave, Goto, Unlock
  <1>36. ASSUME NEW k \in Kids, KidRename(k)
          PROVE  KidExact(q)'
    BY <1>36, CliAssumption DEF KidRename, Goto
  <1>37. ASSUME NEW k \in Kids, KidFinish(k)
          PROVE  KidExact(q)'
    BY <1>37, CliAssumption DEF KidFinish, Leave, Goto, Unlock
  <1>38. ASSUME NEW k \in Kids, KidLost(k)
          PROVE  KidExact(q)'
    BY <1>38, CliAssumption DEF KidLost, Leave, Goto, Unlock
  <1>39. CASE UNCHANGED vars
    BY <1>39 DEF vars
  <1> QED
    BY <1>1, <1>2, <1>3, <1>4, <1>5, <1>6, <1>7, <1>8, <1>9, <1>10, <1>11,
       <1>12, <1>13, <1>14, <1>15, <1>16, <1>17, <1>18, <1>19, <1>20, <1>21,
       <1>22, <1>23, <1>24, <1>25, <1>26, <1>27, <1>28, <1>29, <1>30, <1>31,
       <1>32, <1>33, <1>34, <1>35, <1>36, <1>37, <1>38, <1>39
       DEF Next, CliStep, Cleanup, KidStep

(* A cleanup's progress is not undone by anyone: there is one cleaner at a *)
(* time because each holds the flock of the one lock of the residue.       *)
LEMMA CleanersStep ==
    ASSUME NamespaceInv, NEW q \in Procs, [Next]_vars
    PROVE  CleanerExact(q)'
  <1> USE DEF NamespaceInv, TypeOK, Canonical, CleanupDir, Purposes,
              Verdicts, ResidueExact, ArtifactsExact, KidExact, CleanerExact,
              CliExact, ResidueLock, CliHolds, CliPCs, Owning, Admitting,
              KidPCs, CleanupPCs, disk, locks, cli, Procs, Published,
              NoCanonical, NoCleanup, NothingSeen
  <1>1. CASE StartBegin
    BY <1>1, CliAssumption DEF StartBegin, Goto
  <1>2. CASE SeeCanonical
    BY <1>2, CliAssumption DEF SeeCanonical, Goto
  <1>3. CASE SeeDirectory
    BY <1>3, CliAssumption DEF SeeDirectory, Goto
  <1>4. CASE SeeMarker
    BY <1>4, CliAssumption DEF SeeMarker, Goto
  <1>5. CASE SeeEntries
    BY <1>5, CliAssumption
       DEF SeeEntries, Probe, End, Refuse, Move, Goto, Unlock
  <1>6. CASE Probed
    BY <1>6, CliAssumption
       DEF Probed, Probe, End, Refuse, Move, Goto, Unlock, Classified,
           Residue
  <1>7. CASE SeeGeneration
    BY <1>7, CliAssumption
       DEF SeeGeneration, Probe, End, Refuse, Move, Goto, Unlock
  <1>8. CASE TryGeneration
    BY <1>8, CliAssumption
       DEF TryGeneration, Probe, End, Refuse, Move, Goto, Unlock, Classified
  <1>9. ASSUME NEW i \in Inodes, Publish(i)
         PROVE  CleanerExact(q)'
    BY <1>9, CliAssumption DEF Publish, Probe, Goto, Unlock
  <1>10. ASSUME NEW k \in Kids, Spawn(k)
          PROVE  CleanerExact(q)'
    BY <1>10, CliAssumption DEF Spawn, Unborn
  <1>11. CASE SpawnFails
    BY <1>11, CliAssumption
       DEF SpawnFails, Probe, End, Refuse, Move, Goto, Unlock
  <1>12. CASE Watch
    BY <1>12, CliAssumption DEF Watch, Probe, End, Refuse, Move, Goto, Unlock
  <1>13. CASE Snapshot
    BY <1>13, CliAssumption
       DEF Snapshot, Probe, End, Refuse, Move, Goto, Unlock
  <1>14. CASE OpenCleanupLock
    BY <1>14, CliAssumption
       DEF OpenCleanupLock, Probe, End, Refuse, Move, Goto, Unlock
  <1>15. CASE TryCleanupLock
    BY <1>15, CliAssumption
       DEF TryCleanupLock, Probe, End, Refuse, Move, Goto, Unlock
  <1>16. CASE StopBegin
    BY <1>16, CliAssumption DEF StopBegin, Goto
  <1>17. CASE Quiesced
    BY <1>17, CliAssumption DEF Quiesced, Move, Goto
  <1>18. CASE ControlStop
    BY <1>18, CliAssumption
       DEF ControlStop, Probe, End, Refuse, Move, Goto, Unlock
  <1>19. CASE StopFinish
    BY <1>19, CliAssumption
       DEF StopFinish, Probe, End, Refuse, Move, Goto, Unlock, LeaseFree
  <1>20. CASE Abort
    BY <1>20, CliAssumption DEF Abort, Probe, End, Refuse, Move, Goto, Unlock
  <1>21. ASSUME NEW p \in Procs, RemoveRequest(p)
          PROVE  CleanerExact(q)'
    BY <1>21, CliAssumption DEF RemoveRequest, Goto
  <1>22. ASSUME NEW p \in Procs, MoveLock(p)
          PROVE  CleanerExact(q)'
    BY <1>22, CliAssumption DEF MoveLock, Goto
  <1>23. ASSUME NEW p \in Procs, RemoveDirectory(p)
          PROVE  CleanerExact(q)'
    BY <1>23, CliAssumption DEF RemoveDirectory, Goto
  <1>24. ASSUME NEW p \in Procs, RemoveMarker(p)
          PROVE  CleanerExact(q)'
    BY <1>24, CliAssumption DEF RemoveMarker, Goto, Probe, Leave, Unlock
  <1>25. ASSUME NEW k \in Kids, KidRead(k)
          PROVE  CleanerExact(q)'
    BY <1>25, CliAssumption DEF KidRead, Goto
  <1>26. ASSUME NEW k \in Kids, KidOpen(k)
          PROVE  CleanerExact(q)'
    BY <1>26, CliAssumption DEF KidOpen, Goto
  <1>27. ASSUME NEW k \in Kids, KidClaim(k)
          PROVE  CleanerExact(q)'
    BY <1>27, CliAssumption DEF KidClaim, Goto
  <1>28. ASSUME NEW k \in Kids, KidGivesUp(k)
          PROVE  CleanerExact(q)'
    BY <1>28, CliAssumption DEF KidGivesUp, Leave, Goto, Unlock
  <1>29. ASSUME NEW k \in Kids, KidAdmit(k)
          PROVE  CleanerExact(q)'
    BY <1>29, CliAssumption DEF KidAdmit, Goto, LeaseFree
  <1>30. ASSUME NEW k \in Kids, KidRefuse(k)
          PROVE  CleanerExact(q)'
    BY <1>30, CliAssumption DEF KidRefuse, Goto
  <1>31. ASSUME NEW k \in Kids, KidSerial(k)
          PROVE  CleanerExact(q)'
    BY <1>31, CliAssumption DEF KidSerial, Goto
  <1>32. ASSUME NEW k \in Kids, KidLaunch(k)
          PROVE  CleanerExact(q)'
    BY <1>32, CliAssumption DEF KidLaunch, Goto
  <1>33. ASSUME NEW k \in Kids, MachineEnds(k)
          PROVE  CleanerExact(q)'
    BY <1>33, CliAssumption DEF MachineEnds
  <1>34. ASSUME NEW k \in Kids, KidReap(k)
          PROVE  CleanerExact(q)'
    BY <1>34, CliAssumption DEF KidReap
  <1>35. ASSUME NEW k \in Kids, KidCheck(k)
          PROVE  CleanerExact(q)'
    BY <1>35, CliAssumption DEF KidCheck, Leave, Goto, Unlock
  <1>36. ASSUME NEW k \in Kids, KidRename(k)
          PROVE  CleanerExact(q)'
    BY <1>36, CliAssumption DEF KidRename, Goto
  <1>37. ASSUME NEW k \in Kids, KidFinish(k)
          PROVE  CleanerExact(q)'
    BY <1>37, CliAssumption DEF KidFinish, Leave, Goto, Unlock
  <1>38. ASSUME NEW k \in Kids, KidLost(k)
          PROVE  CleanerExact(q)'
    BY <1>38, CliAssumption DEF KidLost, Leave, Goto, Unlock
  <1>39. CASE UNCHANGED vars
    BY <1>39 DEF vars
  <1> QED
    BY <1>1, <1>2, <1>3, <1>4, <1>5, <1>6, <1>7, <1>8, <1>9, <1>10, <1>11,
       <1>12, <1>13, <1>14, <1>15, <1>16, <1>17, <1>18, <1>19, <1>20, <1>21,
       <1>22, <1>23, <1>24, <1>25, <1>26, <1>27, <1>28, <1>29, <1>30, <1>31,
       <1>32, <1>33, <1>34, <1>35, <1>36, <1>37, <1>38, <1>39
       DEF Next, CliStep, Cleanup, KidStep

(* What the command has seen of the paths stays true while it needs it     *)
(* (launcher.go classifyExactGeneration, publishOrAdmitRequest; session    *)
(* stop's Quiesced).                                                       *)
LEMMA CliExactStep ==
    NamespaceInv /\ [Next]_vars => CliExact'
  <1> SUFFICES ASSUME NamespaceInv, [Next]_vars
               PROVE  CliExact'
    OBVIOUS
  <1> USE DEF NamespaceInv, TypeOK, Canonical, CleanupDir, Purposes,
              Verdicts, ResidueExact, ArtifactsExact, KidExact, CleanerExact,
              CliExact, ResidueLock, CliHolds, CliPCs, Owning, Admitting,
              KidPCs, CleanupPCs, disk, locks, cli, Procs, Published,
              NoCanonical, NoCleanup, NothingSeen
  <1>1. CASE StartBegin
    BY <1>1, CliAssumption DEF StartBegin, Goto
  <1>2. CASE SeeCanonical
    BY <1>2, CliAssumption DEF SeeCanonical, Goto
  <1>3. CASE SeeDirectory
    BY <1>3, CliAssumption DEF SeeDirectory, Goto
  <1>4. CASE SeeMarker
    BY <1>4, CliAssumption DEF SeeMarker, Goto
  <1>5. CASE SeeEntries
    BY <1>5, CliAssumption
       DEF SeeEntries, Probe, End, Refuse, Move, Goto, Unlock
  <1>6. CASE Probed
    BY <1>6, CliAssumption
       DEF Probed, Probe, End, Refuse, Move, Goto, Unlock, Classified,
           Residue
  <1>7. CASE SeeGeneration
    BY <1>7, CliAssumption
       DEF SeeGeneration, Probe, End, Refuse, Move, Goto, Unlock
  <1>8. CASE TryGeneration
    BY <1>8, CliAssumption
       DEF TryGeneration, Probe, End, Refuse, Move, Goto, Unlock, Classified
  <1>9. ASSUME NEW i \in Inodes, Publish(i)
         PROVE  CliExact'
    BY <1>9, CliAssumption DEF Publish, Probe, Goto, Unlock
  <1>10. ASSUME NEW k \in Kids, Spawn(k)
          PROVE  CliExact'
    BY <1>10, CliAssumption DEF Spawn, Unborn
  <1>11. CASE SpawnFails
    BY <1>11, CliAssumption
       DEF SpawnFails, Probe, End, Refuse, Move, Goto, Unlock
  <1>12. CASE Watch
    BY <1>12, CliAssumption DEF Watch, Probe, End, Refuse, Move, Goto, Unlock
  <1>13. CASE Snapshot
    BY <1>13, CliAssumption
       DEF Snapshot, Probe, End, Refuse, Move, Goto, Unlock
  <1>14. CASE OpenCleanupLock
    BY <1>14, CliAssumption
       DEF OpenCleanupLock, Probe, End, Refuse, Move, Goto, Unlock
  <1>15. CASE TryCleanupLock
    BY <1>15, CliAssumption
       DEF TryCleanupLock, Probe, End, Refuse, Move, Goto, Unlock
  <1>16. CASE StopBegin
    BY <1>16, CliAssumption DEF StopBegin, Goto
  <1>17. CASE Quiesced
    BY <1>17, CliAssumption DEF Quiesced, Move, Goto
  <1>18. CASE ControlStop
    BY <1>18, CliAssumption
       DEF ControlStop, Probe, End, Refuse, Move, Goto, Unlock
  <1>19. CASE StopFinish
    BY <1>19, CliAssumption
       DEF StopFinish, Probe, End, Refuse, Move, Goto, Unlock, LeaseFree
  <1>20. CASE Abort
    BY <1>20, CliAssumption DEF Abort, Probe, End, Refuse, Move, Goto, Unlock
  <1>21. ASSUME NEW p \in Procs, RemoveRequest(p)
          PROVE  CliExact'
    BY <1>21, CliAssumption DEF RemoveRequest, Goto
  <1>22. ASSUME NEW p \in Procs, MoveLock(p)
          PROVE  CliExact'
    BY <1>22, CliAssumption DEF MoveLock, Goto
  <1>23. ASSUME NEW p \in Procs, RemoveDirectory(p)
          PROVE  CliExact'
    BY <1>23, CliAssumption DEF RemoveDirectory, Goto
  <1>24. ASSUME NEW p \in Procs, RemoveMarker(p)
          PROVE  CliExact'
    BY <1>24, CliAssumption DEF RemoveMarker, Goto, Probe, Leave, Unlock
  <1>25. ASSUME NEW k \in Kids, KidRead(k)
          PROVE  CliExact'
    BY <1>25, CliAssumption DEF KidRead, Goto
  <1>26. ASSUME NEW k \in Kids, KidOpen(k)
          PROVE  CliExact'
    BY <1>26, CliAssumption DEF KidOpen, Goto
  <1>27. ASSUME NEW k \in Kids, KidClaim(k)
          PROVE  CliExact'
    BY <1>27, CliAssumption DEF KidClaim, Goto
  <1>28. ASSUME NEW k \in Kids, KidGivesUp(k)
          PROVE  CliExact'
    BY <1>28, CliAssumption DEF KidGivesUp, Leave, Goto, Unlock
  <1>29. ASSUME NEW k \in Kids, KidAdmit(k)
          PROVE  CliExact'
    BY <1>29, CliAssumption DEF KidAdmit, Goto, LeaseFree
  <1>30. ASSUME NEW k \in Kids, KidRefuse(k)
          PROVE  CliExact'
    BY <1>30, CliAssumption DEF KidRefuse, Goto
  <1>31. ASSUME NEW k \in Kids, KidSerial(k)
          PROVE  CliExact'
    BY <1>31, CliAssumption DEF KidSerial, Goto
  <1>32. ASSUME NEW k \in Kids, KidLaunch(k)
          PROVE  CliExact'
    BY <1>32, CliAssumption DEF KidLaunch, Goto
  <1>33. ASSUME NEW k \in Kids, MachineEnds(k)
          PROVE  CliExact'
    BY <1>33, CliAssumption DEF MachineEnds
  <1>34. ASSUME NEW k \in Kids, KidReap(k)
          PROVE  CliExact'
    BY <1>34, CliAssumption DEF KidReap
  <1>35. ASSUME NEW k \in Kids, KidCheck(k)
          PROVE  CliExact'
    BY <1>35, CliAssumption DEF KidCheck, Leave, Goto, Unlock
  <1>36. ASSUME NEW k \in Kids, KidRename(k)
          PROVE  CliExact'
    BY <1>36, CliAssumption DEF KidRename, Goto
  <1>37. ASSUME NEW k \in Kids, KidFinish(k)
          PROVE  CliExact'
    BY <1>37, CliAssumption DEF KidFinish, Leave, Goto, Unlock
  <1>38. ASSUME NEW k \in Kids, KidLost(k)
          PROVE  CliExact'
    BY <1>38, CliAssumption DEF KidLost, Leave, Goto, Unlock
  <1>39. CASE UNCHANGED vars
    BY <1>39 DEF vars
  <1> QED
    BY <1>1, <1>2, <1>3, <1>4, <1>5, <1>6, <1>7, <1>8, <1>9, <1>10, <1>11,
       <1>12, <1>13, <1>14, <1>15, <1>16, <1>17, <1>18, <1>19, <1>20, <1>21,
       <1>22, <1>23, <1>24, <1>25, <1>26, <1>27, <1>28, <1>29, <1>30, <1>31,
       <1>32, <1>33, <1>34, <1>35, <1>36, <1>37, <1>38, <1>39
       DEF Next, CliStep, Cleanup, KidStep

(* The launch that holds the volume locks is alone, and a stop is about to *)
(* be published only when that launch has been reaped and no other can     *)
(* begin.                                                                  *)
LEMMA StopStep ==
    NamespaceInv /\ [Next]_vars => StopExact'
  <1> SUFFICES ASSUME NamespaceInv, [Next]_vars
               PROVE  StopExact'
    OBVIOUS
  <1> USE DEF NamespaceInv, TypeOK, Canonical, CleanupDir, Purposes,
              Verdicts, ResidueExact, ArtifactsExact, KidExact, CleanerExact,
              CliExact, ResidueLock, CliHolds, StopExact, CliPCs, Owning,
              Admitting, KidPCs, CleanupPCs, disk, locks, cli, Procs,
              Published, NoCanonical, NoCleanup, NothingSeen
  <1>1. CASE StartBegin
    BY <1>1, CliAssumption DEF StartBegin, Goto
  <1>2. CASE SeeCanonical
    BY <1>2, CliAssumption DEF SeeCanonical, Goto
  <1>3. CASE SeeDirectory
    BY <1>3, CliAssumption DEF SeeDirectory, Goto
  <1>4. CASE SeeMarker
    BY <1>4, CliAssumption DEF SeeMarker, Goto
  <1>5. CASE SeeEntries
    BY <1>5, CliAssumption
       DEF SeeEntries, Probe, End, Refuse, Move, Goto, Unlock
  <1>6. CASE Probed
    BY <1>6, CliAssumption
       DEF Probed, Probe, End, Refuse, Move, Goto, Unlock, Classified,
           Residue
  <1>7. CASE SeeGeneration
    BY <1>7, CliAssumption
       DEF SeeGeneration, Probe, End, Refuse, Move, Goto, Unlock
  <1>8. CASE TryGeneration
    BY <1>8, CliAssumption
       DEF TryGeneration, Probe, End, Refuse, Move, Goto, Unlock, Classified
  <1>9. ASSUME NEW i \in Inodes, Publish(i)
         PROVE  StopExact'
    BY <1>9, CliAssumption DEF Publish, Probe, Goto, Unlock
  <1>10. ASSUME NEW k \in Kids, Spawn(k)
          PROVE  StopExact'
    BY <1>10, CliAssumption DEF Spawn, Unborn
  <1>11. CASE SpawnFails
    BY <1>11, CliAssumption
       DEF SpawnFails, Probe, End, Refuse, Move, Goto, Unlock
  <1>12. CASE Watch
    BY <1>12, CliAssumption DEF Watch, Probe, End, Refuse, Move, Goto, Unlock
  <1>13. CASE Snapshot
    BY <1>13, CliAssumption
       DEF Snapshot, Probe, End, Refuse, Move, Goto, Unlock
  <1>14. CASE OpenCleanupLock
    BY <1>14, CliAssumption
       DEF OpenCleanupLock, Probe, End, Refuse, Move, Goto, Unlock
  <1>15. CASE TryCleanupLock
    BY <1>15, CliAssumption
       DEF TryCleanupLock, Probe, End, Refuse, Move, Goto, Unlock
  <1>16. CASE StopBegin
    BY <1>16, CliAssumption DEF StopBegin, Goto
  <1>17. CASE Quiesced
    BY <1>17, CliAssumption DEF Quiesced, Move, Goto
  <1>18. CASE ControlStop
    BY <1>18, CliAssumption
       DEF ControlStop, Probe, End, Refuse, Move, Goto, Unlock
  <1>19. CASE StopFinish
    BY <1>19, CliAssumption
       DEF StopFinish, Probe, End, Refuse, Move, Goto, Unlock, LeaseFree
  <1>20. CASE Abort
    BY <1>20, CliAssumption DEF Abort, Probe, End, Refuse, Move, Goto, Unlock
  <1>21. ASSUME NEW p \in Procs, RemoveRequest(p)
          PROVE  StopExact'
    BY <1>21, CliAssumption DEF RemoveRequest, Goto
  <1>22. ASSUME NEW p \in Procs, MoveLock(p)
          PROVE  StopExact'
    BY <1>22, CliAssumption DEF MoveLock, Goto
  <1>23. ASSUME NEW p \in Procs, RemoveDirectory(p)
          PROVE  StopExact'
    BY <1>23, CliAssumption DEF RemoveDirectory, Goto
  <1>24. ASSUME NEW p \in Procs, RemoveMarker(p)
          PROVE  StopExact'
    BY <1>24, CliAssumption DEF RemoveMarker, Goto, Probe, Leave, Unlock
  <1>25. ASSUME NEW k \in Kids, KidRead(k)
          PROVE  StopExact'
    BY <1>25, CliAssumption DEF KidRead, Goto
  <1>26. ASSUME NEW k \in Kids, KidOpen(k)
          PROVE  StopExact'
    BY <1>26, CliAssumption DEF KidOpen, Goto
  <1>27. ASSUME NEW k \in Kids, KidClaim(k)
          PROVE  StopExact'
    BY <1>27, CliAssumption DEF KidClaim, Goto
  <1>28. ASSUME NEW k \in Kids, KidGivesUp(k)
          PROVE  StopExact'
    BY <1>28, CliAssumption DEF KidGivesUp, Leave, Goto, Unlock
  <1>29. ASSUME NEW k \in Kids, KidAdmit(k)
          PROVE  StopExact'
    BY <1>29, CliAssumption DEF KidAdmit, Goto, LeaseFree
  <1>30. ASSUME NEW k \in Kids, KidRefuse(k)
          PROVE  StopExact'
    BY <1>30, CliAssumption DEF KidRefuse, Goto
  <1>31. ASSUME NEW k \in Kids, KidSerial(k)
          PROVE  StopExact'
    BY <1>31, CliAssumption DEF KidSerial, Goto
  <1>32. ASSUME NEW k \in Kids, KidLaunch(k)
          PROVE  StopExact'
    BY <1>32, CliAssumption DEF KidLaunch, Goto
  <1>33. ASSUME NEW k \in Kids, MachineEnds(k)
          PROVE  StopExact'
    BY <1>33, CliAssumption DEF MachineEnds
  <1>34. ASSUME NEW k \in Kids, KidReap(k)
          PROVE  StopExact'
    BY <1>34, CliAssumption DEF KidReap
  <1>35. ASSUME NEW k \in Kids, KidCheck(k)
          PROVE  StopExact'
    BY <1>35, CliAssumption DEF KidCheck, Leave, Goto, Unlock
  <1>36. ASSUME NEW k \in Kids, KidRename(k)
          PROVE  StopExact'
    BY <1>36, CliAssumption DEF KidRename, Goto
  <1>37. ASSUME NEW k \in Kids, KidFinish(k)
          PROVE  StopExact'
    BY <1>37, CliAssumption DEF KidFinish, Leave, Goto, Unlock
  <1>38. ASSUME NEW k \in Kids, KidLost(k)
          PROVE  StopExact'
    BY <1>38, CliAssumption DEF KidLost, Leave, Goto, Unlock
  <1>39. CASE UNCHANGED vars
    BY <1>39 DEF vars
  <1> QED
    BY <1>1, <1>2, <1>3, <1>4, <1>5, <1>6, <1>7, <1>8, <1>9, <1>10, <1>11,
       <1>12, <1>13, <1>14, <1>15, <1>16, <1>17, <1>18, <1>19, <1>20, <1>21,
       <1>22, <1>23, <1>24, <1>25, <1>26, <1>27, <1>28, <1>29, <1>30, <1>31,
       <1>32, <1>33, <1>34, <1>35, <1>36, <1>37, <1>38, <1>39
       DEF Next, CliStep, Cleanup, KidStep

-----------------------------------------------------------------------------
(* A generation that has just been made durable is exact: nothing of it is *)
(* on disk and nobody works on it.                                         *)
LEMMA InvInit == Init => NamespaceInv
  <1> SUFFICES ASSUME Init
               PROVE  NamespaceInv
    OBVIOUS
  <1> USE DEF Init, NoCanonical, NoCleanup, Procs, CliPCs, KidPCs, CleanupPCs, Owning, Admitting
  <1>1. TypeOK
    <2>1. FALSE \in BOOLEAN
      BY Zenon
    <2>2. clean \in CleanupDir /\ seen \in [canon : BOOLEAN, dir : BOOLEAN, mark : BOOLEAN]
      BY <2>1 DEF CleanupDir
    <2> QED
      BY <2>2 DEF TypeOK, Canonical, Purposes, Verdicts
  <1>2. ResidueExact /\ ArtifactsExact
    BY CliAssumption DEF ResidueExact, ArtifactsExact
  <1>3. \A k \in Kids : KidExact(k)
    BY CliAssumption DEF KidExact
  <1>4. \A p \in Procs : CleanerExact(p)
    BY CliAssumption DEF CleanerExact
  <1>5. CliExact
    BY CliAssumption DEF CliExact, CliHolds, Published
  <1>6. StopExact
    BY CliAssumption DEF StopExact
  <1> QED
    BY <1>1, <1>2, <1>3, <1>4, <1>5, <1>6 DEF NamespaceInv

(* NamespaceInv: however the commands and the supervisors of a generation  *)
(* interleave, and wherever one of them is killed, the namespace on disk   *)
(* is exact and what each process relies on between two looks holds.       *)
THEOREM NamespaceInvariance == Spec => []NamespaceInv
  <1>1. NamespaceInv /\ [Next]_vars => NamespaceInv'
    <2> SUFFICES ASSUME NamespaceInv, [Next]_vars
                 PROVE  NamespaceInv'
      OBVIOUS
    <2>1. TypeOK'
      BY TypeStep
    <2>2. ResidueExact' /\ ArtifactsExact'
      BY PathStep
    <2>3. \A k \in Kids : KidExact(k)'
      BY KidsStep
    <2>4. \A p \in Procs : CleanerExact(p)'
      BY CleanersStep
    <2>5. CliExact' /\ StopExact'
      BY CliExactStep, StopStep
    <2> QED
      BY <2>1, <2>2, <2>3, <2>4, <2>5 DEF NamespaceInv, Procs
  <1> QED
    BY <1>1, InvInit, PTL DEF Spec

(* OneRuntime: however many supervisors believe they own the generation,   *)
(* at most one virtual machine of it runs (the exclusive serial subtree).  *)
THEOREM OneMachine == Spec => []OneRuntime
  <1>1. NamespaceInv => OneRuntime
    BY CliAssumption DEF NamespaceInv, TypeOK, ArtifactsExact, OneRuntime, NoCleanup
  <1> QED
    BY <1>1, NamespaceInvariance, PTL

(* StopProved: a session with volumes is recorded as stopped only when     *)
(* nothing of the generation runs or can still be launched.                *)
THEOREM StopIsProved == Spec => []StopProved
  <1>1. NamespaceInv => StopProved
    BY DEF NamespaceInv, StopExact, StopProved
  <1> QED
    BY <1>1, NamespaceInvariance, PTL

(* OwnedIntact: nobody renames or replaces a namespace whose lock a        *)
(* working supervisor holds (removeExactGeneration compares the lock).     *)
THEOREM OwnedKept == Spec => OwnedIntact
  <1> DEFINE Kept == \A k \in Kids :
                Published /\ canon.lk = fd[k] /\ holder[fd[k]] = k /\ pc[k] \in Owning
                  => canon'.lk = canon.lk
  <1>1. ASSUME NamespaceInv, [Next]_vars
        PROVE  Kept
    <2> SUFFICES ASSUME NEW k \in Kids, canon.lk # None, canon.lk = fd[k],
                        holder[fd[k]] = k, pc[k] \in Owning
                 PROVE  canon'.lk = canon.lk
      BY DEF Published
    <2>1. ASSUME NEW i \in Inodes, Publish(i)
          PROVE  canon'.lk = canon.lk
      BY <2>1 DEF Publish, Published
    <2>2. ASSUME NEW j \in Kids, KidSerial(j) \/ KidReap(j)
          PROVE  canon'.lk = canon.lk
      BY <1>1, <2>2 DEF KidSerial, KidReap, NamespaceInv, TypeOK, Canonical
    <2>3. ASSUME NEW j \in Kids, KidRename(j)
          PROVE  canon'.lk = canon.lk
      <3>1. fd[j] = fd[k] /\ holder[fd[j]] = j /\ pc[j] = "checked"
        BY <1>1, <2>3 DEF KidRename, NamespaceInv, KidExact
      <3> QED
        BY <3>1 DEF Owning
    <2>4. CASE UNCHANGED canon
      BY <2>4
    <2>5. \/ UNCHANGED canon
          \/ \E i \in Inodes : Publish(i)
          \/ \E j \in Kids : KidSerial(j) \/ KidReap(j) \/ KidRename(j)
      BY <1>1
         DEF Next, CliStep, Cleanup, KidStep, vars, disk, StartBegin,
             SeeCanonical, SeeDirectory, SeeMarker, SeeEntries, Probed,
             SeeGeneration, TryGeneration, Spawn, SpawnFails, Watch, Snapshot,
             OpenCleanupLock, TryCleanupLock, StopBegin, Quiesced, ControlStop,
             StopFinish, Abort, RemoveRequest, MoveLock, RemoveDirectory,
             RemoveMarker, KidRead, KidOpen, KidClaim, KidGivesUp, KidAdmit,
             KidRefuse, KidLaunch, MachineEnds, KidCheck, KidFinish, KidLost
    <2> QED
      BY <2>1, <2>2, <2>3, <2>4, <2>5
  <1>2. NamespaceInv /\ [Next]_vars => [Kept]_vars
    BY <1>1
  <1>3. [][Kept]_vars => OwnedIntact
    BY PTL DEF OwnedIntact
  <1> QED
    BY <1>2, <1>3, NamespaceInvariance, PTL DEF Spec

-----------------------------------------------------------------------------
(* The threads of the supervisor and the clipboard transfer.               *)

(* The clipboard handler returns and its connection is closed.             *)
HandlerReturns ==
    /\ server = "clipboard" /\ Hangup
    /\ UNCHANGED <<stopSeen, ownerVars, waitVars, main, stop>>

(* What a step does to the threads of the supervisor.                      *)
ControlEffect ==
    \/ ControlNext
    \/ \E c \in Calls : Dial(c, "clipboard")
    \/ ChildExits \/ HandlerReturns
    \/ UNCHANGED controlVars

ThreadsInv ==
    ControlTypeOK /\ MutexExact /\ ServerExact /\ WaitExact /\ CredentialsGone

(* The type of the transfer's own variables.                               *)
TransferTypeOK ==
    /\ client \in {"idle", "handshake", "source", "await", "done"}
    /\ outcome \in Outcomes \cup {"none"}
    /\ sent \in BOOLEAN
    /\ reply \in Outcomes \cup {"none", "ready"}
    /\ clip \in {"hello", "payload", "admit", "dispatch", "ssh", "after",
                 "done"}
    /\ result \in Outcomes
    /\ helper \in {"none", "run", "forked", "done"}
    /\ answer \in Statuses \cup {"none", "lost"}
    /\ desk \in {"none", "armed", "leased", "claimed", "done"}
    /\ lease \in BOOLEAN
    /\ receipt \in Statuses \cup {"none"}
    /\ claimed \in BOOLEAN

-----------------------------------------------------------------------------
(* Types of the threads' state.                                            *)

(* A call with another deadline, result or kind is a call.                 *)
LEMMA CallTyped ==
    ASSUME NEW f \in [Calls -> Call], NEW x
    PROVE  /\ \A b \in BOOLEAN : [f EXCEPT ![x].ok = b] \in [Calls -> Call]
           /\ \A b \in BOOLEAN : [f EXCEPT ![x].late = b] \in [Calls -> Call]
           /\ \A k \in Kinds : [f EXCEPT ![x].kind = k] \in [Calls -> Call]
           /\ [f EXCEPT ![x] = NoRequest] \in [Calls -> Call]
           /\ [c \in Calls |-> NoRequest] \in [Calls -> Call]
  <1>1. NoRequest \in Call
    <2>1. FALSE \in BOOLEAN
      BY Zenon
    <2> QED
      BY <2>1 DEF NoRequest, Call
  <1>2. ASSUME NEW r \in Call
        PROVE  /\ \A b \in BOOLEAN : [r EXCEPT !.ok = b] \in Call
               /\ \A b \in BOOLEAN : [r EXCEPT !.late = b] \in Call
               /\ \A k \in Kinds : [r EXCEPT !.kind = k] \in Call
    BY DEF Call
  <1> HIDE DEF Call, NoRequest
  <1> QED
    BY <1>1, <1>2

(* The server finished an operation, with some result; the stop closure    *)
(* returned, to Run or to the server.                                      *)
Finishes ==
    /\ server' = "answer"
    /\ \E b \in BOOLEAN : call' = [call EXCEPT ![serving].ok = b]
    /\ UNCHANGED <<serving, stopSeen>>

StopReturns ==
    \/ main = "stop" /\ main' = "reap" /\ UNCHANGED serverVars
    \/ UNCHANGED main /\ Finishes

(* A finished operation leaves a call.                                     *)
LEMMA FinishTyped ==
    ASSUME ControlTypeOK, Finishes
    PROVE  /\ server' \in {"accept", "frame", "op", "using", "answer",
                           "clipboard", "exited"}
           /\ serving' \in Calls \cup {NoCall}
           /\ call' \in [Calls -> Call] /\ stopSeen' \in BOOLEAN
  <1>1. call' \in [Calls -> Call]
    BY CallTyped DEF Finishes, ControlTypeOK
  <1> QED
    BY <1>1 DEF Finishes, ControlTypeOK

(* So does a stop that returns.                                           *)
LEMMA StopTyped ==
    ASSUME ControlTypeOK, StopReturns
    PROVE  /\ main' \in {"serve", "join", "stop", "reap", "ended"}
           /\ server' \in {"accept", "frame", "op", "using", "answer",
                           "clipboard", "exited"}
           /\ serving' \in Calls \cup {NoCall}
           /\ call' \in [Calls -> Call] /\ stopSeen' \in BOOLEAN
  <1>1. CASE main = "stop" /\ main' = "reap" /\ UNCHANGED serverVars
    BY <1>1 DEF serverVars, ControlTypeOK
  <1>2. CASE UNCHANGED main /\ Finishes
    BY <1>2, FinishTyped DEF ControlTypeOK
  <1> QED
    BY <1>1, <1>2 DEF StopReturns

(* Every step keeps the types of the threads' state.                       *)
LEMMA ControlTypeStep ==
    ThreadsInv /\ ControlEffect => ControlTypeOK'
  <1> SUFFICES ASSUME ThreadsInv, ControlEffect
               PROVE  ControlTypeOK'
    OBVIOUS
  <1> USE DEF ThreadsInv, ControlTypeOK, Threads, ReadySteps, ownerVars,
              waitVars, serverVars, reaped
  <1>1. CASE RenewalRequired
    BY <1>1 DEF RenewalRequired
  <1>2. ASSUME NEW c \in Calls, DeadlinePasses(c)
         PROVE  ControlTypeOK'
    <2>1. call' \in [Calls -> Call]
      <3>1. TRUE \in BOOLEAN
        BY Zenon
      <3> QED
        BY <1>2, <3>1, CallTyped DEF DeadlinePasses
    <2> QED
      BY <1>2, <2>1 DEF DeadlinePasses
  <1>3. ASSUME NEW c \in Calls, NEW k \in Kinds, Dial(c, k)
         PROVE  ControlTypeOK'
    <2>1. call' \in [Calls -> Call]
      BY <1>3, CallTyped DEF Dial
    <2> QED
      BY <1>3, <2>1 DEF Dial
  <1>4. ASSUME NEW t \in Threads, ReadyLock(t)
         PROVE  ControlTypeOK'
    BY <1>4 DEF ReadyLock
  <1>5. ASSUME NEW t \in Threads, ReadyBegin(t)
         PROVE  ControlTypeOK'
    BY <1>5 DEF ReadyBegin
  <1>6. ASSUME NEW t \in Threads, ReadyWrite(t)
         PROVE  ControlTypeOK'
    BY <1>6 DEF ReadyWrite
  <1>7. ASSUME NEW t \in Threads, ReadyProbe(t)
         PROVE  ControlTypeOK'
    BY <1>7 DEF ReadyProbe
  <1>8. ASSUME NEW t \in Threads, ReadyPublish(t)
         PROVE  ControlTypeOK'
    <2>1. TRUE \in BOOLEAN /\ FALSE \in BOOLEAN
      BY Zenon
    <2>2. owner' \in [active : BOOLEAN, pinned : BOOLEAN,
                      established : BOOLEAN]
      BY <1>8, <2>1 DEF ReadyPublish
    <2>3. due' \in BOOLEAN
      BY <1>8, Zenon DEF ReadyPublish
    <2>4. CASE t = "server"
      <3>1. Finishes
        BY <1>8, <2>4, Zenon DEF ReadyPublish, ReadyReturn, Finish, Finishes
      <3> QED
        BY <1>8, <2>1, <2>2, <2>3, <3>1, FinishTyped
           DEF ReadyPublish, ReadyReturn
    <2>5. CASE t = "maint"
      BY <1>8, <2>2, <2>3, <2>5 DEF ReadyPublish, ReadyReturn
    <2> QED
      BY <2>4, <2>5
  <1>9. ASSUME NEW t \in Threads, ReadyFails(t)
         PROVE  ControlTypeOK'
    <2>1. TRUE \in BOOLEAN /\ FALSE \in BOOLEAN
      BY Zenon
    <2>2. creds' \in BOOLEAN
      BY <1>9, <2>1 DEF ReadyFails
    <2>4. CASE t = "server"
      <3>1. Finishes
        BY <1>9, <2>4, Zenon DEF ReadyFails, ReadyReturn, Finish, Finishes
      <3> QED
        BY <1>9, <2>1, <2>2, <3>1, FinishTyped DEF ReadyFails, ReadyReturn
    <2>5. CASE t = "maint"
      BY <1>9, <2>2, <2>5 DEF ReadyFails, ReadyReturn
    <2> QED
      BY <2>4, <2>5
  <1>10. CASE MaintainTick
    BY <1>10 DEF MaintainTick
  <1>11. CASE MaintainReturn
    BY <1>11 DEF MaintainReturn
  <1>12. CASE WaitReap
    BY <1>12 DEF WaitReap
  <1>13. CASE WaitDeactivate
    <2>1. owner' \in [active : BOOLEAN, pinned : BOOLEAN,
                      established : BOOLEAN]
      <3>1. FALSE \in BOOLEAN
        BY Zenon
      <3> QED
        BY <1>13, <3>1 DEF WaitDeactivate
    <2>2. canceled' \in BOOLEAN
      BY <1>13, Zenon DEF WaitDeactivate
    <2> QED
      BY <1>13, <2>1, <2>2 DEF WaitDeactivate
  <1>14. CASE WaitJoin
    BY <1>14 DEF WaitJoin
  <1>15. CASE WaitClean
    <2>1. creds' \in BOOLEAN /\ waitErr' \in BOOLEAN
      BY <1>15, Zenon DEF WaitClean
    <2> QED
      BY <1>15, <2>1 DEF WaitClean
  <1>16. ASSUME NEW c \in Calls, ServeAccept(c)
          PROVE  ControlTypeOK'
    BY <1>16 DEF ServeAccept
  <1>17. CASE ServeExit
    <2>1. call' \in [Calls -> Call]
      BY <1>17, CallTyped DEF ServeExit
    <2> QED
      BY <1>17, <2>1 DEF ServeExit
  <1>18. CASE ServeDrop
    <2>1. call' \in [Calls -> Call]
      BY <1>18, CallTyped DEF ServeDrop, Hangup
    <2>2. stopSeen' \in BOOLEAN
      BY <1>18, Zenon DEF ServeDrop, Hangup
    <2> QED
      BY <1>18, <2>1, <2>2 DEF ServeDrop, Hangup
  <1>19. CASE ServeAdmit
    BY <1>19 DEF ServeAdmit
  <1>20. CASE ServeBootstrap
    <2>1. TRUE \in BOOLEAN /\ FALSE \in BOOLEAN
      BY Zenon
    <2>2. owner' \in [active : BOOLEAN, pinned : BOOLEAN,
                      established : BOOLEAN]
      BY <1>20, <2>1 DEF ServeBootstrap
    <2>3. Finishes
      BY <1>20, Zenon DEF ServeBootstrap, Finish, Finishes
    <2> QED
      BY <1>20, <2>1, <2>2, <2>3, FinishTyped DEF ServeBootstrap
  <1>21. CASE ServeOperation
    <2>1. readyMu' \in {"free", "waiter"} \cup Threads
      BY <1>21 DEF ServeOperation
    <2>2. CASE Finishes
      BY <1>21, <2>1, <2>2, FinishTyped DEF ServeOperation
    <2>3. CASE UNCHANGED <<serving, call, stopSeen>>
      BY <1>21, <2>3 DEF ServeOperation, Finish
    <2>4. Finishes \/ UNCHANGED <<serving, call, stopSeen>>
      BY <1>21, Zenon DEF ServeOperation, Finish, Finishes
    <2> QED
      BY <2>2, <2>3, <2>4
  <1>22. CASE ServeResult
    <2>1. TRUE \in BOOLEAN /\ FALSE \in BOOLEAN
      BY Zenon
    <2>2. Finishes
      BY <1>22, Zenon DEF ServeResult, Finish, Finishes
    <2> QED
      BY <1>22, <2>1, <2>2, FinishTyped DEF ServeResult
  <1>23. CASE ServeAnswer
    <2>1. call' \in [Calls -> Call]
      BY <1>23, CallTyped DEF ServeAnswer, Hangup
    <2>2. stopSeen' \in BOOLEAN
      BY <1>23, Zenon DEF ServeAnswer, Hangup
    <2> QED
      BY <1>23, <2>1, <2>2 DEF ServeAnswer, Hangup
  <1>24. CASE StopEnter
    <2>1. TRUE \in BOOLEAN /\ FALSE \in BOOLEAN /\ (~waitErr) \in BOOLEAN
          /\ (~stop.failed /\ ~waitErr) \in BOOLEAN
      BY Zenon
    <2>2. stop' \in [pc : {"idle", "enter", "window", "force", "await"},
                     sent : BOOLEAN, grace : BOOLEAN, failed : BOOLEAN]
      BY <1>24, <2>1 DEF StopEnter
    <2>3. StopReturns \/ UNCHANGED <<main, serverVars>>
      BY <1>24, Zenon
         DEF StopEnter, StopReturn, StopReturns, Finish, Finishes
    <2>4. /\ main' \in {"serve", "join", "stop", "reap", "ended"}
          /\ server' \in {"accept", "frame", "op", "using", "answer",
                          "clipboard", "exited"}
          /\ serving' \in Calls \cup {NoCall}
          /\ call' \in [Calls -> Call] /\ stopSeen' \in BOOLEAN
      <3>1. CASE UNCHANGED <<main, serverVars>>
        BY <3>1
      <3> HIDE DEF ControlTypeOK
      <3> QED
        BY <2>1, <2>3, <3>1, StopTyped DEF ThreadsInv
    <2>5. canceled' \in BOOLEAN
      BY <1>24, Zenon DEF StopEnter
    <2> QED
      BY <1>24, <2>2, <2>4, <2>5 DEF StopEnter
  <1>25. CASE StopWindow
    <2>1. TRUE \in BOOLEAN /\ FALSE \in BOOLEAN /\ (~waitErr) \in BOOLEAN
          /\ (~stop.failed /\ ~waitErr) \in BOOLEAN
      BY Zenon
    <2>2. stop' \in [pc : {"idle", "enter", "window", "force", "await"},
                     sent : BOOLEAN, grace : BOOLEAN, failed : BOOLEAN]
      BY <1>25, <2>1 DEF StopWindow
    <2>3. StopReturns \/ UNCHANGED <<main, serverVars>>
      BY <1>25, Zenon
         DEF StopWindow, StopReturn, StopReturns, Finish, Finishes
    <2>4. /\ main' \in {"serve", "join", "stop", "reap", "ended"}
          /\ server' \in {"accept", "frame", "op", "using", "answer",
                          "clipboard", "exited"}
          /\ serving' \in Calls \cup {NoCall}
          /\ call' \in [Calls -> Call] /\ stopSeen' \in BOOLEAN
      <3>1. CASE UNCHANGED <<main, serverVars>>
        BY <3>1
      <3> HIDE DEF ControlTypeOK
      <3> QED
        BY <2>1, <2>3, <3>1, StopTyped DEF ThreadsInv
    <2>5. canceled' \in BOOLEAN
      BY <1>25, Zenon DEF StopWindow
    <2> QED
      BY <1>25, <2>2, <2>4, <2>5 DEF StopWindow
  <1>26. CASE StopForce
    <2>1. TRUE \in BOOLEAN /\ FALSE \in BOOLEAN /\ (~waitErr) \in BOOLEAN
          /\ (~stop.failed /\ ~waitErr) \in BOOLEAN
      BY Zenon
    <2>2. stop' \in [pc : {"idle", "enter", "window", "force", "await"},
                     sent : BOOLEAN, grace : BOOLEAN, failed : BOOLEAN]
      BY <1>26, <2>1 DEF StopForce
    <2>3. StopReturns \/ UNCHANGED <<main, serverVars>>
      BY <1>26, Zenon
         DEF StopForce, StopReturn, StopReturns, Finish, Finishes
    <2>4. /\ main' \in {"serve", "join", "stop", "reap", "ended"}
          /\ server' \in {"accept", "frame", "op", "using", "answer",
                          "clipboard", "exited"}
          /\ serving' \in Calls \cup {NoCall}
          /\ call' \in [Calls -> Call] /\ stopSeen' \in BOOLEAN
      <3>1. CASE UNCHANGED <<main, serverVars>>
        BY <3>1
      <3> HIDE DEF ControlTypeOK
      <3> QED
        BY <2>1, <2>3, <3>1, StopTyped DEF ThreadsInv
    <2>5. canceled' \in BOOLEAN
      BY <1>26, Zenon DEF StopForce
    <2> QED
      BY <1>26, <2>2, <2>4, <2>5 DEF StopForce
  <1>27. CASE StopAwait
    <2>1. TRUE \in BOOLEAN /\ FALSE \in BOOLEAN /\ (~waitErr) \in BOOLEAN
          /\ (~stop.failed /\ ~waitErr) \in BOOLEAN
      BY Zenon
    <2>2. stop' \in [pc : {"idle", "enter", "window", "force", "await"},
                     sent : BOOLEAN, grace : BOOLEAN, failed : BOOLEAN]
      BY <1>27, <2>1 DEF StopAwait
    <2>3. StopReturns \/ UNCHANGED <<main, serverVars>>
      BY <1>27, Zenon
         DEF StopAwait, StopReturn, StopReturns, Finish, Finishes
    <2>4. /\ main' \in {"serve", "join", "stop", "reap", "ended"}
          /\ server' \in {"accept", "frame", "op", "using", "answer",
                          "clipboard", "exited"}
          /\ serving' \in Calls \cup {NoCall}
          /\ call' \in [Calls -> Call] /\ stopSeen' \in BOOLEAN
      <3>1. CASE UNCHANGED <<main, serverVars>>
        BY <3>1
      <3> HIDE DEF ControlTypeOK
      <3> QED
        BY <2>1, <2>3, <3>1, StopTyped DEF ThreadsInv
    <2>5. canceled' \in BOOLEAN
      BY <1>27, Zenon DEF StopAwait
    <2> QED
      BY <1>27, <2>2, <2>4, <2>5 DEF StopAwait
  <1>28. CASE RunLeaves
    BY <1>28 DEF RunLeaves
  <1>29. CASE RunJoins
    BY <1>29 DEF RunJoins
  <1>30. CASE RunEnds
    BY <1>30 DEF RunEnds
  <1>31. CASE ChildExits
    BY <1>31 DEF ChildExits
  <1>32. CASE HandlerReturns
    <2>1. call' \in [Calls -> Call]
      BY <1>32, CallTyped DEF HandlerReturns, Hangup
    <2>2. stopSeen' \in BOOLEAN
      BY <1>32, Zenon DEF HandlerReturns, Hangup
    <2> QED
      BY <1>32, <2>1, <2>2 DEF HandlerReturns, Hangup
  <1>33. CASE UNCHANGED controlVars
    BY <1>33 DEF controlVars
  <1> QED
    BY <1>1, <1>2, <1>3, <1>4, <1>5, <1>6, <1>7, <1>8, <1>9, <1>10, <1>11,
       <1>12, <1>13, <1>14, <1>15, <1>16, <1>17, <1>18, <1>19, <1>20, <1>21,
       <1>22, <1>23, <1>24, <1>25, <1>26, <1>27, <1>28, <1>29, <1>30, <1>31,
       <1>32, <1>33
      
       DEF ControlEffect, ControlNext, OwnerNext, ServerNext, RunNext,
           ReadyStep, Kinds

(* The readiness mutex is held by exactly the thread whose step needs it:  *)
(* the step that takes it finds it free, and the only steps of another     *)
(* thread that change it are refused meanwhile (owner.go readyMu).         *)
LEMMA MutexStep ==
    ThreadsInv /\ ControlEffect => MutexExact'
  <1> SUFFICES ASSUME ThreadsInv, ControlEffect
               PROVE  MutexExact'
    OBVIOUS
  <1> USE DEF ThreadsInv, MutexExact, ServerExact, WaitExact, Holding,
              ControlTypeOK, Call, Kinds, Threads, ReadySteps, NoRequest,
              ownerVars, waitVars, serverVars, reaped
  <1>1. CASE RenewalRequired
    BY <1>1 DEF RenewalRequired
  <1>2. ASSUME NEW c \in Calls, DeadlinePasses(c)
         PROVE  MutexExact'
    BY <1>2 DEF DeadlinePasses
  <1>3. ASSUME NEW c \in Calls, NEW k \in Kinds, Dial(c, k)
         PROVE  MutexExact'
    BY <1>3 DEF Dial
  <1>4. ASSUME NEW t \in Threads, ReadyLock(t)
         PROVE  MutexExact'
    BY <1>4 DEF ReadyLock
  <1>5. ASSUME NEW t \in Threads, ReadyBegin(t)
         PROVE  MutexExact'
    BY <1>5 DEF ReadyBegin
  <1>6. ASSUME NEW t \in Threads, ReadyWrite(t)
         PROVE  MutexExact'
    BY <1>6 DEF ReadyWrite
  <1>7. ASSUME NEW t \in Threads, ReadyProbe(t)
         PROVE  MutexExact'
    BY <1>7 DEF ReadyProbe
  <1>8. ASSUME NEW t \in Threads, ReadyPublish(t)
         PROVE  MutexExact'
    BY <1>8 DEF ReadyPublish, ReadyReturn, Finish
  <1>9. ASSUME NEW t \in Threads, ReadyFails(t)
         PROVE  MutexExact'
    BY <1>9 DEF ReadyFails, ReadyReturn, Finish
  <1>10. CASE MaintainTick
    BY <1>10 DEF MaintainTick
  <1>11. CASE MaintainReturn
    BY <1>11 DEF MaintainReturn
  <1>12. CASE WaitReap
    BY <1>12 DEF WaitReap
  <1>13. CASE WaitDeactivate
    BY <1>13 DEF WaitDeactivate
  <1>14. CASE WaitJoin
    BY <1>14 DEF WaitJoin
  <1>15. CASE WaitClean
    BY <1>15 DEF WaitClean
  <1>16. ASSUME NEW c \in Calls, ServeAccept(c)
          PROVE  MutexExact'
    BY <1>16 DEF ServeAccept
  <1>17. CASE ServeExit
    BY <1>17 DEF ServeExit
  <1>18. CASE ServeDrop
    BY <1>18 DEF ServeDrop, Hangup
  <1>19. CASE ServeAdmit
    BY <1>19 DEF ServeAdmit
  <1>20. CASE ServeBootstrap
    BY <1>20 DEF ServeBootstrap, Finish
  <1>21. CASE ServeOperation
    BY <1>21 DEF ServeOperation, Finish
  <1>22. CASE ServeResult
    BY <1>22 DEF ServeResult, Finish
  <1>23. CASE ServeAnswer
    BY <1>23 DEF ServeAnswer, Hangup
  <1>24. CASE StopEnter
    BY <1>24 DEF StopEnter, StopReturn, Finish
  <1>25. CASE StopWindow
    BY <1>25 DEF StopWindow, StopReturn, Finish
  <1>26. CASE StopForce
    BY <1>26 DEF StopForce, StopReturn, Finish
  <1>27. CASE StopAwait
    BY <1>27 DEF StopAwait, StopReturn, Finish
  <1>28. CASE RunLeaves
    BY <1>28 DEF RunLeaves
  <1>29. CASE RunJoins
    BY <1>29 DEF RunJoins
  <1>30. CASE RunEnds
    BY <1>30 DEF RunEnds
  <1>31. CASE ChildExits
    BY <1>31 DEF ChildExits
  <1>32. CASE HandlerReturns
    BY <1>32 DEF HandlerReturns, Hangup
  <1>33. CASE UNCHANGED controlVars
    BY <1>33 DEF controlVars
  <1> QED
    BY <1>1, <1>2, <1>3, <1>4, <1>5, <1>6, <1>7, <1>8, <1>9, <1>10, <1>11,
       <1>12, <1>13, <1>14, <1>15, <1>16, <1>17, <1>18, <1>19, <1>20, <1>21,
       <1>22, <1>23, <1>24, <1>25, <1>26, <1>27, <1>28, <1>29, <1>30, <1>31,
       <1>32, <1>33
      
       DEF ControlEffect, ControlNext, OwnerNext, ServerNext, RunNext,
           ReadyStep, Kinds

(* The server runs one operation, for the call it serves; the stop closure *)
(* is entered by the server for a stop call, or by Run after the server    *)
(* has exited; a stop succeeds only after the reap (supervisor.go stop,    *)
(* control.go serve).                                                      *)
LEMMA ServerStep ==
    ThreadsInv /\ ControlEffect => ServerExact'
  <1> SUFFICES ASSUME ThreadsInv, ControlEffect
               PROVE  ServerExact'
    OBVIOUS
  <1> USE DEF ThreadsInv, ServerExact, ControlTypeOK, Call, Kinds, Threads,
              ReadySteps, NoRequest, ownerVars, waitVars, serverVars, reaped
  <1>1. CASE RenewalRequired
    BY <1>1, ControlAssumption DEF RenewalRequired
  <1>2. ASSUME NEW c \in Calls, DeadlinePasses(c)
         PROVE  ServerExact'
    BY <1>2, ControlAssumption DEF DeadlinePasses
  <1>3. ASSUME NEW c \in Calls, NEW k \in Kinds, Dial(c, k)
         PROVE  ServerExact'
    BY <1>3, ControlAssumption DEF Dial
  <1>4. ASSUME NEW t \in Threads, ReadyLock(t)
         PROVE  ServerExact'
    BY <1>4, ControlAssumption DEF ReadyLock
  <1>5. ASSUME NEW t \in Threads, ReadyBegin(t)
         PROVE  ServerExact'
    BY <1>5, ControlAssumption DEF ReadyBegin
  <1>6. ASSUME NEW t \in Threads, ReadyWrite(t)
         PROVE  ServerExact'
    BY <1>6, ControlAssumption DEF ReadyWrite
  <1>7. ASSUME NEW t \in Threads, ReadyProbe(t)
         PROVE  ServerExact'
    BY <1>7, ControlAssumption DEF ReadyProbe
  <1>8. ASSUME NEW t \in Threads, ReadyPublish(t)
         PROVE  ServerExact'
    BY <1>8, ControlAssumption DEF ReadyPublish, ReadyReturn, Finish
  <1>9. ASSUME NEW t \in Threads, ReadyFails(t)
         PROVE  ServerExact'
    BY <1>9, ControlAssumption DEF ReadyFails, ReadyReturn, Finish
  <1>10. CASE MaintainTick
    BY <1>10, ControlAssumption DEF MaintainTick
  <1>11. CASE MaintainReturn
    BY <1>11, ControlAssumption DEF MaintainReturn
  <1>12. CASE WaitReap
    BY <1>12, ControlAssumption DEF WaitReap
  <1>13. CASE WaitDeactivate
    BY <1>13, ControlAssumption DEF WaitDeactivate
  <1>14. CASE WaitJoin
    BY <1>14, ControlAssumption DEF WaitJoin
  <1>15. CASE WaitClean
    BY <1>15, ControlAssumption DEF WaitClean
  <1>16. ASSUME NEW c \in Calls, ServeAccept(c)
          PROVE  ServerExact'
    BY <1>16, ControlAssumption DEF ServeAccept
  <1>17. CASE ServeExit
    BY <1>17, ControlAssumption DEF ServeExit
  <1>18. CASE ServeDrop
    BY <1>18, ControlAssumption DEF ServeDrop, Hangup
  <1>19. CASE ServeAdmit
    BY <1>19, ControlAssumption DEF ServeAdmit
  <1>20. CASE ServeBootstrap
    BY <1>20, ControlAssumption DEF ServeBootstrap, Finish
  <1>21. CASE ServeOperation
    BY <1>21, ControlAssumption DEF ServeOperation, Finish
  <1>22. CASE ServeResult
    BY <1>22, ControlAssumption DEF ServeResult, Finish
  <1>23. CASE ServeAnswer
    BY <1>23, ControlAssumption DEF ServeAnswer, Hangup
  <1>24. CASE StopEnter
    BY <1>24, ControlAssumption DEF StopEnter, StopReturn, Finish
  <1>25. CASE StopWindow
    BY <1>25, ControlAssumption DEF StopWindow, StopReturn, Finish
  <1>26. CASE StopForce
    <2>1. CASE reaped /\ StopReturn(~waitErr) /\ stop' = [stop EXCEPT !.pc = "idle"]
      BY <1>26, <2>1, ControlAssumption DEF StopForce, StopReturn, Finish
    <2>2. CASE UNCHANGED <<main, serverVars>>
      BY <1>26, <2>2, ControlAssumption DEF StopForce
    <2>3. CASE StopReturn(FALSE) /\ stop' = [stop EXCEPT !.pc = "idle",
                                             !.failed = TRUE]
      BY <1>26, <2>3, ControlAssumption DEF StopForce, StopReturn, Finish
    <2> QED
      BY <1>26, <2>1, <2>2, <2>3 DEF StopForce
  <1>27. CASE StopAwait
    BY <1>27, ControlAssumption DEF StopAwait, StopReturn, Finish
  <1>28. CASE RunLeaves
    BY <1>28, ControlAssumption DEF RunLeaves
  <1>29. CASE RunJoins
    BY <1>29, ControlAssumption DEF RunJoins
  <1>30. CASE RunEnds
    BY <1>30, ControlAssumption DEF RunEnds
  <1>31. CASE ChildExits
    BY <1>31, ControlAssumption DEF ChildExits
  <1>32. CASE HandlerReturns
    BY <1>32, ControlAssumption DEF HandlerReturns, Hangup
  <1>33. CASE UNCHANGED controlVars
    BY <1>33 DEF controlVars
  <1> QED
    BY <1>1, <1>2, <1>3, <1>4, <1>5, <1>6, <1>7, <1>8, <1>9, <1>10, <1>11,
       <1>12, <1>13, <1>14, <1>15, <1>16, <1>17, <1>18, <1>19, <1>20, <1>21,
       <1>22, <1>23, <1>24, <1>25, <1>26, <1>27, <1>28, <1>29, <1>30, <1>31,
       <1>32, <1>33
      
       DEF ControlEffect, ControlNext, OwnerNext, ServerNext, RunNext,
           ReadyStep, Kinds

(* What Wait relies on: it deactivates the owner while nobody holds the    *)
(* mutex, so nobody passes the check of Ready afterwards; it cleans up     *)
(* after maintenance has returned (owner.go Wait).                         *)
LEMMA WaitStep ==
    ThreadsInv /\ ControlEffect => (WaitExact /\ CredentialsGone)'
  <1> SUFFICES ASSUME ThreadsInv, ControlEffect
               PROVE  (WaitExact /\ CredentialsGone)'
    OBVIOUS
  <1> USE DEF ThreadsInv, MutexExact, WaitExact, CredentialsGone, Holding,
              ControlTypeOK, Call, Kinds, Threads, ReadySteps, NoRequest,
              ownerVars, waitVars, serverVars, reaped
  <1>1. CASE RenewalRequired
    BY <1>1 DEF RenewalRequired
  <1>2. ASSUME NEW c \in Calls, DeadlinePasses(c)
         PROVE  (WaitExact /\ CredentialsGone)'
    BY <1>2 DEF DeadlinePasses
  <1>3. ASSUME NEW c \in Calls, NEW k \in Kinds, Dial(c, k)
         PROVE  (WaitExact /\ CredentialsGone)'
    BY <1>3 DEF Dial
  <1>4. ASSUME NEW t \in Threads, ReadyLock(t)
         PROVE  (WaitExact /\ CredentialsGone)'
    BY <1>4 DEF ReadyLock
  <1>5. ASSUME NEW t \in Threads, ReadyBegin(t)
         PROVE  (WaitExact /\ CredentialsGone)'
    BY <1>5 DEF ReadyBegin
  <1>6. ASSUME NEW t \in Threads, ReadyWrite(t)
         PROVE  (WaitExact /\ CredentialsGone)'
    BY <1>6 DEF ReadyWrite
  <1>7. ASSUME NEW t \in Threads, ReadyProbe(t)
         PROVE  (WaitExact /\ CredentialsGone)'
    BY <1>7 DEF ReadyProbe
  <1>8. ASSUME NEW t \in Threads, ReadyPublish(t)
         PROVE  (WaitExact /\ CredentialsGone)'
    BY <1>8 DEF ReadyPublish, ReadyReturn, Finish
  <1>9. ASSUME NEW t \in Threads, ReadyFails(t)
         PROVE  (WaitExact /\ CredentialsGone)'
    BY <1>9 DEF ReadyFails, ReadyReturn, Finish
  <1>10. CASE MaintainTick
    BY <1>10 DEF MaintainTick
  <1>11. CASE MaintainReturn
    BY <1>11 DEF MaintainReturn
  <1>12. CASE WaitReap
    BY <1>12 DEF WaitReap
  <1>13. CASE WaitDeactivate
    BY <1>13 DEF WaitDeactivate
  <1>14. CASE WaitJoin
    BY <1>14 DEF WaitJoin
  <1>15. CASE WaitClean
    BY <1>15 DEF WaitClean
  <1>16. ASSUME NEW c \in Calls, ServeAccept(c)
          PROVE  (WaitExact /\ CredentialsGone)'
    BY <1>16 DEF ServeAccept
  <1>17. CASE ServeExit
    BY <1>17 DEF ServeExit
  <1>18. CASE ServeDrop
    BY <1>18 DEF ServeDrop, Hangup
  <1>19. CASE ServeAdmit
    BY <1>19 DEF ServeAdmit
  <1>20. CASE ServeBootstrap
    BY <1>20 DEF ServeBootstrap, Finish
  <1>21. CASE ServeOperation
    BY <1>21 DEF ServeOperation, Finish
  <1>22. CASE ServeResult
    BY <1>22 DEF ServeResult, Finish
  <1>23. CASE ServeAnswer
    BY <1>23 DEF ServeAnswer, Hangup
  <1>24. CASE StopEnter
    BY <1>24 DEF StopEnter, StopReturn, Finish
  <1>25. CASE StopWindow
    BY <1>25 DEF StopWindow, StopReturn, Finish
  <1>26. CASE StopForce
    BY <1>26 DEF StopForce, StopReturn, Finish
  <1>27. CASE StopAwait
    BY <1>27 DEF StopAwait, StopReturn, Finish
  <1>28. CASE RunLeaves
    BY <1>28 DEF RunLeaves
  <1>29. CASE RunJoins
    BY <1>29 DEF RunJoins
  <1>30. CASE RunEnds
    BY <1>30 DEF RunEnds
  <1>31. CASE ChildExits
    BY <1>31 DEF ChildExits
  <1>32. CASE HandlerReturns
    BY <1>32 DEF HandlerReturns, Hangup
  <1>33. CASE UNCHANGED controlVars
    BY <1>33 DEF controlVars
  <1> QED
    BY <1>1, <1>2, <1>3, <1>4, <1>5, <1>6, <1>7, <1>8, <1>9, <1>10, <1>11,
       <1>12, <1>13, <1>14, <1>15, <1>16, <1>17, <1>18, <1>19, <1>20, <1>21,
       <1>22, <1>23, <1>24, <1>25, <1>26, <1>27, <1>28, <1>29, <1>30, <1>31,
       <1>32, <1>33
      
       DEF ControlEffect, ControlNext, OwnerNext, ServerNext, RunNext,
           ReadyStep, Kinds

-----------------------------------------------------------------------------
(* The transfer.                                                           *)

(* Only the machine itself exits; no thread of the supervisor changes it.  *)
LEMMA ChildStays == ControlNext => child' = child
  BY DEF ControlNext, RenewalRequired, DeadlinePasses, Dial, OwnerNext,
     ServerNext, RunNext, ReadyStep, ReadyLock, ReadyBegin, ReadyWrite,
     ReadyProbe, ReadyPublish, ReadyFails, MaintainTick, MaintainReturn,
     WaitReap, WaitDeactivate, WaitJoin, WaitClean, ServeAccept, ServeExit,
     ServeDrop, ServeAdmit, ServeBootstrap, ServeOperation, ServeResult,
     ServeAnswer, StopEnter, StopWindow, StopForce, StopAwait, RunLeaves,
     RunJoins, RunEnds, waitVars

(* Every step keeps the types of the transfer's state.                     *)
LEMMA TransferTypeStep ==
    TransferTypeOK /\ TransferExact /\ [ClipboardNext]_supervisorVars => TransferTypeOK'
  <1> SUFFICES ASSUME TransferTypeOK, TransferExact, [ClipboardNext]_supervisorVars
               PROVE  TransferTypeOK'
    OBVIOUS
  <1> USE DEF TransferTypeOK, Outcomes, Statuses, commandVars, handlerVars,
              guestVars, controlVars, waitVars
  <1>1. CASE MachineExits
    <2>1. lease' \in BOOLEAN
      BY <1>1, Zenon DEF MachineExits, ChildExits
    <2> QED
      BY <1>1, <2>1 DEF MachineExits, ChildExits
  <1>2. ASSUME NEW c \in Calls, beginClipboard(c)
         PROVE  TransferTypeOK'
    BY <1>2 DEF beginClipboard, Dial, controlVars
  <1>3. CASE ReadSource
    BY <1>3 DEF ReadSource
  <1>4. CASE Abandon
    BY <1>4 DEF Abandon, Report
  <1>5. CASE Write
    <2>1. sent' \in BOOLEAN
      BY <1>5, Zenon DEF Write, Report
    <2> QED
      BY <1>5, <2>1 DEF Write, Report
  <1>6. CASE readReply
    BY <1>6 DEF readReply, Report
  <1>7. CASE Hello
    BY <1>7 DEF Hello, At, StillReady, Return
  <1>8. CASE Payload
    BY <1>8 DEF Payload, At, Return
  <1>9. CASE Admit
    BY <1>9 DEF Admit, At, StillReady, Return
  <1>10. CASE Dispatch
    BY <1>10 DEF Dispatch, At, StillReady, snapshotReady
  <1>11. CASE WriteClipboard
    BY <1>11 DEF WriteClipboard, At
  <1>12. CASE After
    BY <1>12 DEF After, At, Return
  <1>13. CASE HelperRefuses
    <2>1. lease' \in BOOLEAN
      BY <1>13, Zenon DEF HelperRefuses, Guest, Elsewhere, Answers
    <2> QED
      BY <1>13, <2>1 DEF HelperRefuses, Guest, Elsewhere, Answers
  <1>14. CASE owner_write
    <2>1. lease' \in BOOLEAN
      BY <1>14, Zenon DEF owner_write, Guest, Elsewhere
    <2> QED
      BY <1>14, <2>1 DEF owner_write, Guest, Elsewhere
  <1>15. CASE HelperReceipt
    <2>1. lease' \in BOOLEAN
      BY <1>15, Zenon DEF HelperReceipt, Guest, Elsewhere, Answers
    <2> QED
      BY <1>15, <2>1 DEF HelperReceipt, Guest, Elsewhere, Answers
  <1>16. CASE HelperGivesUp
    <2>1. lease' \in BOOLEAN
      BY <1>16, Zenon DEF HelperGivesUp, Guest, Elsewhere, Answers
    <2> QED
      BY <1>16, <2>1 DEF HelperGivesUp, Guest, Elsewhere, Answers
  <1>17. CASE before_claim
    BY <1>17 DEF before_claim, Guest, Elsewhere, DeskEnds, Receipt
  <1>18. CASE claim_value
    <2>1. claimed' \in BOOLEAN
      BY <1>18, Zenon DEF claim_value, Guest, Elsewhere, DeskEnds, Receipt
    <2> QED
      BY <1>18, <2>1 DEF claim_value, Guest, Elsewhere, DeskEnds, Receipt
  <1>19. CASE acknowledge
    BY <1>19 DEF acknowledge, Guest, Elsewhere, DeskEnds, Receipt
  <1>20. CASE (ControlNext /\ UNCHANGED clipboardVars) \/ UNCHANGED supervisorVars
    BY <1>20, ChildStays DEF supervisorVars, clipboardVars
  <1> QED
    BY <1>1, <1>2, <1>3, <1>4, <1>5, <1>6, <1>7, <1>8, <1>9, <1>10, <1>11,
       <1>12, <1>13, <1>14, <1>15, <1>16, <1>17, <1>18, <1>19, <1>20
       DEF ClipboardNext, CommandNext, ClipboardServer, GuestNext

(* Every party keeps what it knows of the guest selection: before the      *)
(* dispatch nothing runs in the guest, an error is answered only by a      *)
(* helper whose desktop owner ended without a claim, and an ok only after  *)
(* the claim (clipboard.py owner_write, clipboard.go WriteClipboard).      *)
LEMMA TransferStep ==
    TransferTypeOK /\ TransferExact /\ [ClipboardNext]_supervisorVars => TransferExact'
  <1> SUFFICES ASSUME TransferTypeOK, TransferExact, [ClipboardNext]_supervisorVars
               PROVE  TransferExact'
    OBVIOUS
  <1> USE DEF TransferTypeOK, TransferExact, Quiet, Outcomes, Statuses,
              commandVars, handlerVars, guestVars, controlVars, waitVars
  <1>1. CASE MachineExits
    BY <1>1 DEF MachineExits, ChildExits
  <1>2. ASSUME NEW c \in Calls, beginClipboard(c)
         PROVE  TransferExact'
    BY <1>2 DEF beginClipboard, Dial, controlVars
  <1>3. CASE ReadSource
    BY <1>3 DEF ReadSource
  <1>4. CASE Abandon
    BY <1>4 DEF Abandon, Report
  <1>5. CASE Write
    BY <1>5 DEF Write, Report
  <1>6. CASE readReply
    BY <1>6 DEF readReply, Report
  <1>7. CASE Hello
    BY <1>7 DEF Hello, At, StillReady, Return
  <1>8. CASE Payload
    BY <1>8 DEF Payload, At, Return
  <1>9. CASE Admit
    BY <1>9 DEF Admit, At, StillReady, Return
  <1>10. CASE Dispatch
    BY <1>10 DEF Dispatch, At, StillReady, snapshotReady
  <1>11. CASE WriteClipboard
    BY <1>11 DEF WriteClipboard, At
  <1>12. CASE After
    BY <1>12 DEF After, At, Return
  <1>13. CASE HelperRefuses
    BY <1>13 DEF HelperRefuses, Guest, Elsewhere, Answers
  <1>14. CASE owner_write
    BY <1>14 DEF owner_write, Guest, Elsewhere
  <1>15. CASE HelperReceipt
    BY <1>15 DEF HelperReceipt, Guest, Elsewhere, Answers
  <1>16. CASE HelperGivesUp
    BY <1>16 DEF HelperGivesUp, Guest, Elsewhere, Answers
  <1>17. CASE before_claim
    BY <1>17 DEF before_claim, Guest, Elsewhere, DeskEnds, Receipt
  <1>18. CASE claim_value
    BY <1>18 DEF claim_value, Guest, Elsewhere, DeskEnds, Receipt
  <1>19. CASE acknowledge
    BY <1>19 DEF acknowledge, Guest, Elsewhere, DeskEnds, Receipt
  <1>20. CASE (ControlNext /\ UNCHANGED clipboardVars) \/ UNCHANGED supervisorVars
    BY <1>20, ChildStays DEF supervisorVars, clipboardVars
  <1> QED
    BY <1>1, <1>2, <1>3, <1>4, <1>5, <1>6, <1>7, <1>8, <1>9, <1>10, <1>11,
       <1>12, <1>13, <1>14, <1>15, <1>16, <1>17, <1>18, <1>19, <1>20
       DEF ClipboardNext, CommandNext, ClipboardServer, GuestNext

-----------------------------------------------------------------------------
(* Both together.                                                          *)

(* A step of the command, the handler or the guest changes the threads'    *)
(* state only in the ways ControlEffect lists.                             *)
LEMMA StepEffect == [ClipboardNext]_supervisorVars => ControlEffect
  <1> SUFFICES ASSUME [ClipboardNext]_supervisorVars
               PROVE  ControlEffect
    OBVIOUS
  <1> USE DEF ControlEffect
  <1>1. CASE UNCHANGED supervisorVars
    BY <1>1 DEF supervisorVars
  <1>2. CASE ControlNext
    BY <1>2
  <1>3. CASE MachineExits
    BY <1>3 DEF MachineExits
  <1>4. CASE CommandNext
    BY <1>4 DEF CommandNext, beginClipboard, ReadSource, Abandon, Write,
                readReply
  <1>5. CASE ClipboardServer
    BY <1>5 DEF ClipboardServer, Hello, Payload, Admit, Dispatch,
                WriteClipboard, After, Return, At, HandlerReturns
  <1>6. CASE GuestNext
    BY <1>6 DEF GuestNext, HelperRefuses, owner_write, HelperReceipt,
                HelperGivesUp, before_claim, claim_value, acknowledge,
                Elsewhere
  <1> QED
    BY <1>1, <1>2, <1>3, <1>4, <1>5, <1>6 DEF ClipboardNext

(* The type invariant in its two parts.                                    *)
LEMMA TypeParts == ClipboardTypeOK <=> ControlTypeOK /\ TransferTypeOK
  BY DEF ClipboardTypeOK, TransferTypeOK

(* Right after owner.Start, with no call and no transfer.                  *)
LEMMA ControlInvInit == ClipboardInit => ThreadsInv /\ TransferTypeOK /\ TransferExact
  <1> SUFFICES ASSUME ClipboardInit
               PROVE  ThreadsInv /\ TransferTypeOK /\ TransferExact
    OBVIOUS
  <1> USE DEF ClipboardInit, ControlInit
  <1>1. TRUE \in BOOLEAN /\ FALSE \in BOOLEAN
    BY Zenon
  <1>2. call \in [Calls -> Call]
    BY <1>1 DEF Call, NoRequest
  <1>3. /\ creds \in BOOLEAN /\ due \in BOOLEAN /\ canceled \in BOOLEAN
        /\ waitErr \in BOOLEAN /\ stopSeen \in BOOLEAN
    BY Zenon
  <1>4. ControlTypeOK
    BY <1>1, <1>2, <1>3 DEF ControlTypeOK, Threads, ReadySteps
  <1>5. MutexExact /\ WaitExact /\ CredentialsGone
    BY DEF MutexExact, WaitExact, CredentialsGone, Holding, Threads, reaped
  <1>6. ServerExact
    BY DEF ServerExact, Threads, NoRequest
  <1>7. TransferTypeOK
    <2>1. sent \in BOOLEAN /\ lease \in BOOLEAN /\ claimed \in BOOLEAN
      BY Zenon
    <2> QED
      BY <2>1 DEF TransferTypeOK, Outcomes, Statuses
  <1>8. TransferExact
    BY DEF TransferExact, Quiet, Outcomes
  <1> QED
    BY <1>4, <1>5, <1>6, <1>7, <1>8 DEF ThreadsInv

(* The threads' part holds in every reachable state.                       *)
LEMMA ThreadsInvariance == ClipboardSpec => []ThreadsInv
  <1>1. ThreadsInv /\ [ClipboardNext]_supervisorVars => ThreadsInv'
    BY StepEffect, ControlTypeStep, MutexStep, ServerStep, WaitStep DEF ThreadsInv
  <1> QED
    BY ControlInvInit, <1>1, PTL DEF ClipboardSpec

(* The transfer's part holds in every reachable state.                     *)
LEMMA TransferInvariance == ClipboardSpec => [](TransferTypeOK /\ TransferExact)
  BY ControlInvInit, TransferTypeStep, TransferStep, PTL DEF ClipboardSpec

(* Credentials are gone once Wait has returned without an error, a stop    *)
(* that was seen to succeed means that the machine is gone, and Run lets   *)
(* go of a generation that no thread can touch any more.                   *)
THEOREM ControlInvariance == ClipboardSpec => []ControlInv
  <1>1. ASSUME ThreadsInv
        PROVE  StopHonest /\ ReleasedQuiet
    <2>1. StopHonest
      BY <1>1 DEF ThreadsInv, ServerExact, WaitExact, CredentialsGone,
                  StopHonest, reaped
    <2>2. ReleasedQuiet
      BY <1>1 DEF ThreadsInv, ServerExact, WaitExact, ReleasedQuiet, reaped,
                  Threads
    <2> QED
      BY <2>1, <2>2
  <1>2. ThreadsInv /\ TransferTypeOK /\ TransferExact => ControlInv
    BY <1>1, TypeParts DEF ThreadsInv, ControlInv
  <1> QED
    BY <1>2, ThreadsInvariance, TransferInvariance, PTL

(* No threads wait on each other in a circle: whoever holds readyMu waits  *)
(* for nobody, so that every chain of waiting threads ends there.          *)
THEOREM NoDeadlock == ClipboardSpec => []NoCyclicWait
  <1>1. ASSUME ThreadsInv
        PROVE  NoCyclicWait
    <2> USE DEF Threads
    <2>1. WaitsFor("free") = "free"
      BY DEF WaitsFor
    <2>2. readyMu \in {"free", "server", "maint"}
      BY <1>1 DEF ThreadsInv, ControlTypeOK, MutexExact
    <2>3. WaitsFor(readyMu) = "free"
      <3>1. CASE readyMu = "server"
        <4>1. ready["server"] # "lock"
          BY <1>1, <3>1 DEF ThreadsInv, MutexExact, ServerExact, Holding
        <4>2. ~(server = "op" /\ call[serving].kind = "use")
          BY <1>1, <3>1 DEF ThreadsInv, MutexExact, ServerExact, Holding
        <4> QED
          BY <3>1, <4>1, <4>2 DEF WaitsFor
      <3>2. CASE readyMu = "maint"
        <4>1. ready["maint"] # "lock"
          BY <1>1, <3>2 DEF ThreadsInv, MutexExact, Holding
        <4> QED
          BY <3>2, <4>1 DEF WaitsFor
      <3> QED
        BY <2>1, <2>2, <3>1, <3>2
    <2>4. /\ WaitsFor("server") \in {"free", readyMu}
          /\ WaitsFor("maint") \in {"free", readyMu}
      BY DEF WaitsFor
    <2>5. WaitsFor("waiter") \in {"free", "maint", readyMu}
      BY DEF WaitsFor
    <2>6. WaitsFor("main") \in {"free", "server", "waiter"}
      BY DEF WaitsFor
    <2> QED
      BY <2>1, <2>2, <2>3, <2>4, <2>5, <2>6 DEF NoCyclicWait
  <1> QED
    BY <1>1, ThreadsInvariance, PTL

(* A command that reports unchanged or committed tells the truth about the *)
(* guest selection, then and later, wherever connection, process, machine  *)
(* or deadline gave out.                                                   *)
THEOREM OutcomeHonest == ClipboardSpec => []HonestOutcome
  <1>1. TransferExact => HonestOutcome
    BY DEF TransferExact, Quiet, HonestOutcome
  <1> QED
    BY <1>1, TransferInvariance, PTL

=============================================================================
