---------------------- MODULE SessionLifecycleProofs ----------------------
(***************************************************************************)
(* Proofs about SessionLifecycle, for every number of sessions, volumes,   *)
(* commands, identities, generations and supervisors.                      *)
(*                                                                         *)
(* Type correctness is not inductive on its own: that a command's target,  *)
(* identity and generation are not None follows from CommandsExact and     *)
(* RecordsExact.  Inv collects the type invariant and IndInv; each of its  *)
(* conjuncts has a lemma that shows which actions can disturb it and why   *)
(* none does.                                                              *)
(***************************************************************************)
EXTENDS SessionLifecycle, TLAPS

Inv == TypeOK /\ IndInv

(* What a command at work knows: it holds a session, the record it loaded  *)
(* is the record on disk, and that record names an identity and, once the  *)
(* start is committed, a generation.                                       *)
LEMMA CommandTyped ==
    ASSUME TypeOK, RecordsExact, CommandsExact, NEW c \in Commands,
           pc[c] # "idle"
    PROVE  /\ tgt[c] \in Sessions
           /\ rec[tgt[c]] = exp[c]
           /\ exp[c] \in Record
           /\ exp[c].id \in Ids
           /\ exp[c].st \in {"starting", "running", "stopping"} =>
                exp[c].gen \in Gens
           /\ exp[c].st \in StatesAt(pc[c])
  <1>1. /\ tgt[c] \in Sessions /\ rec[tgt[c]] = exp[c]
        /\ exp[c].st \in StatesAt(pc[c])
    BY DEF CommandsExact
  <1>2. exp[c] \in Record /\ pc[c] \in PCs
    BY DEF TypeOK
  <1>3. exp[c].st # "none"
    BY <1>1 DEF StatesAt
  <1>4. exp[c].id # None
    BY <1>1, <1>3 DEF RecordsExact
  <1>5. exp[c].st \in {"starting", "running", "stopping"} => exp[c].gen # None
    BY <1>1 DEF RecordsExact
  <1> QED
    BY <1>1, <1>2, <1>4, <1>5 DEF Record

(* The initial state has the declared types.                               *)
LEMMA TypeInit == Init => TypeOK
  BY DEF Init, TypeOK, NoRec, Rec, Record, States, Namespace, Phases, PCs

(* A record with another state is a record.                                *)
LEMMA RecordWithState ==
    ASSUME NEW r \in Record, NEW st \in States
    PROVE  [r EXCEPT !.st = st] \in Record
  BY DEF Record

(* Every action keeps the types, given that a working command has a target *)
(* session with an identity and a generation where its step needs one.     *)
LEMMA TypeStep ==
    TypeOK /\ RecordsExact /\ CommandsExact /\ [Next]_vars => TypeOK'
  <1> SUFFICES ASSUME TypeOK, RecordsExact, CommandsExact, [Next]_vars
               PROVE  TypeOK'
    OBVIOUS
  <1> USE DEF TypeOK, Record, Rec, NoRec, States, Namespace, Phases, PCs,
              TransitionPCs, SessionPCs, Done, Begin, Advance, Goto, Save,
              durable, runtime, command
  <1>1. ASSUME NEW c \in Commands, NEW s \in Sessions, NEW id \in Ids,
                CreateReserve(c, s, id)
        PROVE  TypeOK'
    BY <1>1 DEF CreateReserve
  <1>2. ASSUME NEW c \in Commands, NEW s \in Sessions, CreateResume(c, s)
        PROVE  TypeOK'
    BY <1>2 DEF CreateResume
  <1>3. ASSUME NEW c \in Commands, CreateClone(c)
        PROVE  TypeOK'
    BY <1>3, CommandTyped DEF CreateClone, StatesAt
  <1>4. ASSUME NEW c \in Commands, CreateFinish(c)
        PROVE  TypeOK'
    BY <1>4 DEF CreateFinish
  <1>5. ASSUME NEW s \in Sessions, NEW v \in Volumes, Attach(s, v)
        PROVE  TypeOK'
    BY <1>5 DEF Attach
  <1>6. ASSUME NEW s \in Sessions, NEW v \in Volumes, Detach(s, v)
        PROVE  TypeOK'
    BY <1>6 DEF Detach
  <1>7. ASSUME NEW c \in Commands, NEW s \in Sessions, StartStopped(c, s)
        PROVE  TypeOK'
    BY <1>7 DEF StartStopped
  <1>8. ASSUME NEW c \in Commands, NEW W \in SUBSET Volumes,
                StartRelease(c, W)
        PROVE  TypeOK'
    <2>1. use' \in [Volumes -> Gens \cup {None}]
      BY <1>8 DEF StartRelease, ReleaseUses
    <2>2. CASE Goto(c, "prepare") /\ UNCHANGED <<tgt, exp>>
      BY <1>8, <2>1, <2>2 DEF StartRelease
    <2>3. CASE Done(c)
      BY <1>8, <2>1, <2>3 DEF StartRelease
    <2> QED
      BY <1>8, <2>2, <2>3 DEF StartRelease
  <1>9. ASSUME NEW c \in Commands, NEW g \in Gens, NEW W \in SUBSET Volumes,
                StartPrepare(c, g, W)
        PROVE  TypeOK'
    <2>1. exp[c].id \in Ids
      BY <1>9, CommandTyped DEF StartPrepare
    <2>2. /\ use' \in [Volumes -> Gens \cup {None}]
          /\ bound' \in [Gens -> Ids \cup {None}]
      BY <1>9, <2>1 DEF StartPrepare
    <2>3. CASE UNCHANGED rec /\ Done(c)
      BY <1>9, <2>2, <2>3 DEF StartPrepare
    <2>4. CASE /\ Save(tgt[c], Rec("starting", exp[c].id, g))
               /\ Advance(c, Rec("starting", exp[c].id, g), "launch")
      BY <1>9, <2>1, <2>2, <2>4 DEF StartPrepare
    <2> QED
      BY <1>9, <2>3, <2>4 DEF StartPrepare
  <1>10. ASSUME NEW c \in Commands, NEW s \in Sessions, StartRetryLaunch(c, s)
         PROVE  TypeOK'
    BY <1>10 DEF StartRetryLaunch, Retry
  <1>11. ASSUME NEW c \in Commands, NEW s \in Sessions, StartRetryReady(c, s)
         PROVE  TypeOK'
    BY <1>11 DEF StartRetryReady, Retry
  <1>12. ASSUME NEW c \in Commands, NEW s \in Sessions,
                 StartRetryPoisoned(c, s)
         PROVE  TypeOK'
    BY <1>12 DEF StartRetryPoisoned, Retry
  <1>13. ASSUME NEW c \in Commands, NEW s \in Sessions, StartRunning(c, s)
         PROVE  TypeOK'
    BY <1>13 DEF StartRunning, Retry
  <1>14. ASSUME NEW c \in Commands, StartPersist(c)
         PROVE  TypeOK'
    <2>1. [exp[c] EXCEPT !.st = "running"] \in Record
      <3>1. exp[c] \in Record /\ "running" \in States
        OBVIOUS
      <3> HIDE DEF Record, States, TypeOK
      <3> QED
        BY <3>1, RecordWithState
    <2>2. rec' \in [Sessions -> Record]
      <3>1. rec \in [Sessions -> Record] /\ tgt[c] \in Sessions
        BY <1>14, CommandTyped DEF StartPersist
      <3> HIDE DEF Record, TypeOK
      <3> QED
        BY <1>14, <2>1, <3>1 DEF StartPersist
    <2> QED
      BY <1>14, <2>2 DEF StartPersist
  <1>15. ASSUME NEW c \in Commands, StartRelaunch(c)
         PROVE  TypeOK'
    BY <1>15 DEF StartRelaunch
  <1>16. ASSUME NEW c \in Commands, StartPublish(c)
         PROVE  TypeOK'
    BY <1>16 DEF StartPublish
  <1>17. ASSUME NEW c \in Commands, NEW k \in Supervisors, StartSpawn(c, k)
         PROVE  TypeOK'
    <2>1. exp[c].gen \in Gens
      BY <1>17, CommandTyped DEF StartSpawn, StatesAt
    <2>2. /\ sup' \in [Supervisors -> Phases] /\ pc' \in [Commands -> PCs]
          /\ serves' \in [Supervisors -> Gens \cup {None}]
      BY <1>17, <2>1 DEF StartSpawn
    <2> QED
      BY <1>17, <2>2 DEF StartSpawn
  <1>18. ASSUME NEW c \in Commands, StartWatch(c)
         PROVE  TypeOK'
    BY <1>18 DEF StartWatch
  <1>19. ASSUME NEW c \in Commands, StartAccept(c)
         PROVE  TypeOK'
    <2>1. rec' \in [Sessions -> Record]
      BY <1>19, CommandTyped DEF StartAccept, StatesAt
    <2> QED
      BY <1>19, <2>1 DEF StartAccept
  <1>20. ASSUME NEW c \in Commands, NEW s \in Sessions, StopStopped(c, s)
         PROVE  TypeOK'
    BY <1>20 DEF StopStopped
  <1>21. ASSUME NEW c \in Commands, NEW s \in Sessions, NEW o \in {"running", "stopped"},
                 StopBegin(c, s, o)
         PROVE  TypeOK'
    <2>1. [rec[s] EXCEPT !.st = "stopping"] \in Record
      <3>1. rec[s] \in Record /\ "stopping" \in States
        OBVIOUS
      <3> HIDE DEF Record, States, TypeOK
      <3> QED
        BY <3>1, RecordWithState
    <2>2. rec' \in [Sessions -> Record] /\ exp' \in [Commands -> Record]
      <3>1. rec \in [Sessions -> Record] /\ exp \in [Commands -> Record]
        OBVIOUS
      <3> HIDE DEF Record, TypeOK
      <3> QED
        BY <1>21, <2>1, <3>1 DEF StopBegin
    <2> QED
      BY <1>21, <2>2 DEF StopBegin
  <1>22. ASSUME NEW c \in Commands, StopProve(c)
         PROVE  TypeOK'
    BY <1>22 DEF StopProve
  <1>23. ASSUME NEW c \in Commands, NEW k \in Supervisors, ControlStop(c, k)
         PROVE  TypeOK'
    BY <1>23 DEF ControlStop
  <1>24. ASSUME NEW c \in Commands, NEW W \in SUBSET Volumes,
                 StopRelease(c, W)
         PROVE  TypeOK'
    <2>1. use' \in [Volumes -> Gens \cup {None}]
      BY <1>24 DEF StopRelease, ReleaseUses
    <2>2. CASE Goto(c, "publish") /\ UNCHANGED <<tgt, exp>>
      BY <1>24, <2>1, <2>2 DEF StopRelease
    <2>3. CASE Done(c)
      BY <1>24, <2>1, <2>3 DEF StopRelease
    <2> QED
      BY <1>24, <2>2, <2>3 DEF StopRelease
  <1>25. ASSUME NEW c \in Commands, StopPublish(c)
         PROVE  TypeOK'
    BY <1>25 DEF StopPublish
  <1>26. ASSUME NEW c \in Commands, NEW s \in Sessions, DeleteReserve(c, s)
         PROVE  TypeOK'
    <2>1. [rec[s] EXCEPT !.st = "deleting"] \in Record
      <3>1. rec[s] \in Record /\ "deleting" \in States
        OBVIOUS
      <3> HIDE DEF Record, States, TypeOK
      <3> QED
        BY <3>1, RecordWithState
    <2>2. /\ rec' \in [Sessions -> Record] /\ exp' \in [Commands -> Record]
          /\ pc' \in [Commands -> PCs] /\ tgt' \in [Commands -> Sessions \cup {None}]
      BY <1>26, <2>1 DEF DeleteReserve
    <2> QED
      BY <1>26, <2>2 DEF DeleteReserve
  <1>27. ASSUME NEW c \in Commands, NEW s \in Sessions, DeleteRetry(c, s)
         PROVE  TypeOK'
    BY <1>27 DEF DeleteRetry
  <1>28. ASSUME NEW c \in Commands, DeleteBackend(c)
         PROVE  TypeOK'
    BY <1>28 DEF DeleteBackend
  <1>29. ASSUME NEW c \in Commands, NEW W \in SUBSET Volumes,
                 DeleteFinal(c, W)
         PROVE  TypeOK'
    <2>1. att' \in [Volumes -> Ids \cup {None}] /\ rec' \in [Sessions -> Record]
      BY <1>29 DEF DeleteFinal
    <2> QED
      BY <1>29, <2>1 DEF DeleteFinal
  <1>30. ASSUME NEW c \in Commands, Abort(c)
         PROVE  TypeOK'
    BY <1>30 DEF Abort
  <1>31. ASSUME NEW k \in Supervisors, OwnerOpen(k)
         PROVE  TypeOK'
    BY <1>31 DEF OwnerOpen
  <1>32. ASSUME NEW k \in Supervisors, OwnerClaim(k)
         PROVE  TypeOK'
    BY <1>32 DEF OwnerClaim
  <1>33. ASSUME NEW k \in Supervisors, ChildExit(k)
         PROVE  TypeOK'
    BY <1>33 DEF ChildExit, Gone
  <1>34. ASSUME NEW k \in Supervisors, OwnerAdmit(k)
         PROVE  TypeOK'
    BY <1>34 DEF OwnerAdmit, Attached
  <1>35. ASSUME NEW k \in Supervisors, OwnerRefuse(k)
         PROVE  TypeOK'
    BY <1>35 DEF OwnerRefuse
  <1>36. ASSUME NEW k \in Supervisors, OwnerLaunch(k)
         PROVE  TypeOK'
    BY <1>36 DEF OwnerLaunch
  <1>37. ASSUME NEW k \in Supervisors, OwnerQuit(k)
         PROVE  TypeOK'
    BY <1>37 DEF OwnerQuit
  <1>38. ASSUME NEW k \in Supervisors, MachineEnds(k)
         PROVE  TypeOK'
    BY <1>38 DEF MachineEnds
  <1>39. ASSUME NEW k \in Supervisors, OwnerReap(k)
         PROVE  TypeOK'
    BY <1>39 DEF OwnerReap, Answered
  <1>40. ASSUME NEW k \in Supervisors, OwnerCheck(k)
         PROVE  TypeOK'
    BY <1>40 DEF OwnerCheck, Gone
  <1>41. ASSUME NEW k \in Supervisors, OwnerClean(k)
         PROVE  TypeOK'
    BY <1>41 DEF OwnerClean, Gone
  <1>42. ASSUME NEW k \in Supervisors, NEW left \in Namespace, OwnerLost(k, left)
         PROVE  TypeOK'
    BY <1>42 DEF OwnerLost, Gone
  <1>43. CASE UNCHANGED vars
    BY <1>43 DEF vars
  <1> HIDE DEF TypeOK, Record, Rec, NoRec, States, Namespace, Phases, PCs,
              TransitionPCs, SessionPCs, Done, Begin, Advance, Goto, Save,
              durable, runtime, command
  <1> QED
    BY <1>1, <1>2, <1>3, <1>4, <1>5, <1>6, <1>7, <1>8, <1>9, <1>10, <1>11, 
       <1>12, <1>13, <1>14, <1>15, <1>16, <1>17, <1>18, <1>19, <1>20, <1>21, <1>22, <1>23, 
       <1>24, <1>25, <1>26, <1>27, <1>28, <1>29, <1>30, <1>31, <1>32, <1>33, <1>34, <1>35, 
       <1>36, <1>37, <1>38, <1>39, <1>40, <1>41, <1>42, <1>43
    DEF Next, CommandStep, CommandBegin, SupervisorStep

-----------------------------------------------------------------------------
(* Which actions write which part of the state.                            *)

RecordWrite ==
    \/ \E c \in Commands :
        CreateFinish(c) \/ StartPersist(c) \/ StartAccept(c) \/ StopPublish(c)
    \/ \E c \in Commands, W \in SUBSET Volumes : DeleteFinal(c, W)
    \/ \E c \in Commands, g \in Gens, W \in SUBSET Volumes : StartPrepare(c, g, W)
    \/ \E c \in Commands, s \in Sessions : DeleteReserve(c, s)
    \/ \E c \in Commands, s \in Sessions, id \in Ids : CreateReserve(c, s, id)
    \/ \E c \in Commands, s \in Sessions, o \in {"running", "stopped"} :
        StopBegin(c, s, o)

VolumeWrite ==
    \/ \E c \in Commands, W \in SUBSET Volumes :
        StartRelease(c, W) \/ StopRelease(c, W) \/ DeleteFinal(c, W)
    \/ \E c \in Commands, g \in Gens, W \in SUBSET Volumes : StartPrepare(c, g, W)
    \/ \E s \in Sessions, v \in Volumes : Attach(s, v) \/ Detach(s, v)

RuntimeWrite ==
    \/ \E k \in Supervisors : SupervisorStep(k)
    \/ \E c \in Commands : StartPublish(c)
    \/ \E c \in Commands, k \in Supervisors : StartSpawn(c, k) \/ ControlStop(c, k)

(* Session records, identities and generation bindings are written by the  *)
(* actions of RecordWrite only.                                            *)
LEMMA RecordFrame == Next => RecordWrite \/ UNCHANGED <<rec, used, bound>>
  <1>1. ASSUME NEW c \in Commands, CommandStep(c)
        PROVE  RecordWrite \/ UNCHANGED <<rec, used, bound>>
    BY <1>1
    DEF CommandStep, RecordWrite, CreateClone, StartRelaunch, StartPublish,
        StartSpawn, StartWatch, StopProve, ControlStop, DeleteBackend, Abort,
        StartRelease, StopRelease, durable, runtime, command
  <1>2. ASSUME NEW c \in Commands, NEW s \in Sessions, CommandBegin(c, s)
        PROVE  RecordWrite \/ UNCHANGED <<rec, used, bound>>
    BY <1>2
    DEF CommandBegin, RecordWrite, CreateResume, StartStopped, StartRunning,
        StartRetryLaunch, StartRetryReady, StartRetryPoisoned, StopStopped,
        DeleteRetry, Retry, durable, runtime, command
  <1>3. ASSUME NEW s \in Sessions, NEW v \in Volumes, Attach(s, v) \/ Detach(s, v)
        PROVE  RecordWrite \/ UNCHANGED <<rec, used, bound>>
    BY <1>3 DEF RecordWrite, Attach, Detach, durable, runtime, command
  <1>4. ASSUME NEW k \in Supervisors, SupervisorStep(k)
        PROVE  RecordWrite \/ UNCHANGED <<rec, used, bound>>
    BY <1>4
    DEF SupervisorStep, RecordWrite, OwnerOpen, OwnerClaim, ChildExit,
        OwnerAdmit, OwnerRefuse, OwnerLaunch, OwnerQuit, MachineEnds, OwnerReap,
        OwnerCheck, OwnerClean, OwnerLost, durable, runtime, command
  <1> QED
    BY <1>1, <1>2, <1>3, <1>4 DEF Next

(* Attachments and Uses are written by the actions of VolumeWrite only.    *)
LEMMA VolumeFrame == Next => VolumeWrite \/ UNCHANGED <<att, use>>
  <1>1. ASSUME NEW c \in Commands, CommandStep(c)
        PROVE  VolumeWrite \/ UNCHANGED <<att, use>>
    BY <1>1
    DEF CommandStep, VolumeWrite, CreateClone, CreateFinish, StartPersist,
        StartRelaunch, StartPublish, StartSpawn, StartWatch, StartAccept,
        StopProve, ControlStop, StopPublish, DeleteBackend, Abort, durable,
        runtime, command
  <1>2. ASSUME NEW c \in Commands, NEW s \in Sessions, CommandBegin(c, s)
        PROVE  VolumeWrite \/ UNCHANGED <<att, use>>
    BY <1>2
    DEF CommandBegin, VolumeWrite, CreateResume, StartStopped, StartRunning,
        StartRetryLaunch, StartRetryReady, StartRetryPoisoned, StopStopped,
        DeleteReserve, DeleteRetry, CreateReserve, StopBegin, Retry, durable,
        runtime, command
  <1>3. ASSUME NEW s \in Sessions, NEW v \in Volumes, Attach(s, v) \/ Detach(s, v)
        PROVE  VolumeWrite \/ UNCHANGED <<att, use>>
    BY <1>3 DEF VolumeWrite, durable, runtime, command
  <1>4. ASSUME NEW k \in Supervisors, SupervisorStep(k)
        PROVE  VolumeWrite \/ UNCHANGED <<att, use>>
    BY <1>4
    DEF SupervisorStep, VolumeWrite, OwnerOpen, OwnerClaim, ChildExit,
        OwnerAdmit, OwnerRefuse, OwnerLaunch, OwnerQuit, MachineEnds, OwnerReap,
        OwnerCheck, OwnerClean, OwnerLost, durable, runtime, command
  <1> QED
    BY <1>1, <1>2, <1>3, <1>4 DEF Next

(* Namespaces, supervisors, leases and machines change by the actions of   *)
(* RuntimeWrite only.                                                      *)
LEMMA RuntimeFrame ==
    Next => RuntimeWrite \/ UNCHANGED runtime
  <1>1. ASSUME NEW c \in Commands, CommandStep(c)
        PROVE  RuntimeWrite \/ UNCHANGED runtime
    BY <1>1
    DEF CommandStep, RuntimeWrite, CreateClone, CreateFinish, StartPersist,
        StartRelaunch, StartWatch, StartAccept, StopProve, StopPublish,
        DeleteBackend, Abort, StartRelease, StopRelease, DeleteFinal,
        StartPrepare
  <1>2. ASSUME NEW c \in Commands, NEW s \in Sessions, CommandBegin(c, s)
        PROVE  RuntimeWrite \/ UNCHANGED runtime
    BY <1>2
    DEF CommandBegin, RuntimeWrite, CreateResume, StartStopped, StartRunning,
        StartRetryLaunch, StartRetryReady, StartRetryPoisoned, StopStopped,
        DeleteReserve, DeleteRetry, CreateReserve, StopBegin, Retry, durable,
        runtime, command
  <1>3. ASSUME NEW s \in Sessions, NEW v \in Volumes, Attach(s, v) \/ Detach(s, v)
        PROVE  RuntimeWrite \/ UNCHANGED runtime
    BY <1>3 DEF RuntimeWrite, Attach, Detach, durable, runtime, command
  <1>4. ASSUME NEW k \in Supervisors, SupervisorStep(k)
        PROVE  RuntimeWrite \/ UNCHANGED runtime
    BY <1>4
    DEF RuntimeWrite, durable, runtime, command
  <1> QED
    BY <1>1, <1>2, <1>3, <1>4 DEF Next

-----------------------------------------------------------------------------
(* Records.                                                                *)

(* Writing one well-formed record that keeps its session's identity, or    *)
(* takes a fresh one, keeps the records exact.                             *)
LEMMA SaveExact ==
    ASSUME TypeOK, RecordsExact, NEW s \in Sessions, NEW r \in Record,
           rec' = [rec EXCEPT ![s] = r],
           used \subseteq used',
           \A t \in Sessions :
               rec[t].gen # None => bound'[rec[t].gen] = bound[rec[t].gen],
           r.st = "none" <=> r.id = None,
           r.gen # None <=> r.st \in {"starting", "running", "stopping"},
           r.id # None => r.id \in used',
           r.gen # None => bound'[r.gen] = r.id,
           r.id = None \/ r.id = rec[s].id \/ r.id \notin used
    PROVE  RecordsExact'
  <1>1. \A t \in Sessions : rec'[t] = IF t = s THEN r ELSE rec[t]
    BY DEF TypeOK
  <1>2. ASSUME NEW t \in Sessions
        PROVE  /\ rec'[t].st = "none" <=> rec'[t].id = None
               /\ rec'[t].gen # None <=> rec'[t].st \in {"starting", "running", "stopping"}
               /\ rec'[t].id # None => rec'[t].id \in used'
               /\ rec'[t].gen # None => bound'[rec'[t].gen] = rec'[t].id
    BY <1>1 DEF RecordsExact
  <1>3. ASSUME NEW t \in Sessions, NEW u \in Sessions,
               rec'[t].id = rec'[u].id, rec'[t].id # None
        PROVE  t = u
    BY <1>1, <1>3 DEF RecordsExact
  <1> QED
    BY <1>2, <1>3 DEF RecordsExact

(* Each record write keeps one record per identity and the generation      *)
(* exactly between the committed start and the published stop.             *)
LEMMA RecordsStep ==
    TypeOK /\ RecordsExact /\ CommandsExact /\ [Next]_vars => RecordsExact'
  <1> SUFFICES ASSUME TypeOK, RecordsExact, CommandsExact, [Next]_vars
               PROVE  RecordsExact'
    OBVIOUS
  <1> USE DEF Save, Rec, Record, States
  <1>1. ASSUME NEW c \in Commands, NEW s \in Sessions, NEW id \in Ids,
               CreateReserve(c, s, id)
        PROVE  RecordsExact'
    <2> DEFINE r == Rec("creating", id, None)
    <2>1. r \in Record /\ rec' = [rec EXCEPT ![s] = r]
      BY <1>1 DEF CreateReserve
    <2> QED
      BY <1>1, <2>1, SaveExact, NoneAssumption DEF CreateReserve
  <1>2. ASSUME NEW c \in Commands, CreateFinish(c)
        PROVE  RecordsExact'
    <2> DEFINE r == Rec("stopped", exp[c].id, None)
    <2>1. tgt[c] \in Sessions /\ rec[tgt[c]] = exp[c] /\ exp[c].id \in Ids
      BY <1>2, CommandTyped DEF CreateFinish
    <2>2. r \in Record /\ rec' = [rec EXCEPT ![tgt[c]] = r]
      BY <1>2, <2>1 DEF CreateFinish
    <2>3. exp[c].id \in used
      BY <2>1, NoneAssumption DEF RecordsExact
    <2> QED
      BY <1>2, <2>1, <2>2, <2>3, SaveExact, NoneAssumption DEF CreateFinish
  <1>3. ASSUME NEW c \in Commands, NEW g \in Gens, NEW W \in SUBSET Volumes,
               StartPrepare(c, g, W)
        PROVE  RecordsExact'
    <2> DEFINE r == Rec("starting", exp[c].id, g)
    <2>1. /\ tgt[c] \in Sessions /\ rec[tgt[c]] = exp[c] /\ exp[c].id \in Ids
          /\ exp[c].st = "stopped"
      BY <1>3, CommandTyped DEF StartPrepare, StatesAt
    <2>2. exp[c].id \in used
      BY <2>1, NoneAssumption DEF RecordsExact
    <2>3. bound' = [bound EXCEPT ![g] = exp[c].id] /\ bound[g] = None
      BY <1>3 DEF StartPrepare
    <2>4. \A t \in Sessions :
            rec[t].gen # None => bound'[rec[t].gen] = bound[rec[t].gen]
      BY <2>3 DEF RecordsExact, TypeOK
    <2>5. CASE UNCHANGED rec
      BY <1>3, <2>4, <2>5 DEF StartPrepare, RecordsExact
    <2>6. CASE rec' = [rec EXCEPT ![tgt[c]] = r]
      <3>1. r \in Record /\ used' = used /\ bound'[g] = exp[c].id
        BY <1>3, <2>1, <2>3 DEF StartPrepare, TypeOK
      <3> QED
        BY <2>1, <2>2, <2>4, <2>6, <3>1, SaveExact, NoneAssumption
    <2> QED
      BY <1>3, <2>5, <2>6 DEF StartPrepare
  <1>4. ASSUME NEW c \in Commands, StartPersist(c)
        PROVE  RecordsExact'
    <2> DEFINE r == [exp[c] EXCEPT !.st = "running"]
    <2>1. /\ tgt[c] \in Sessions /\ rec[tgt[c]] = exp[c] /\ exp[c] \in Record
          /\ exp[c].st \in {"starting", "running"}
      BY <1>4, CommandTyped DEF StartPersist, StatesAt
    <2>2. /\ r \in Record /\ rec' = [rec EXCEPT ![tgt[c]] = r]
          /\ r.st = "running" /\ r.id = exp[c].id /\ r.gen = exp[c].gen
      BY <1>4, <2>1 DEF StartPersist
    <2>3. /\ exp[c].id # None /\ exp[c].id \in used
          /\ exp[c].gen # None /\ bound[exp[c].gen] = exp[c].id
      BY <2>1 DEF RecordsExact
    <2> QED
      BY <1>4, <2>1, <2>2, <2>3, SaveExact DEF StartPersist
  <1>5. ASSUME NEW c \in Commands, StartAccept(c)
        PROVE  RecordsExact'
    <2> DEFINE r == [rec[tgt[c]] EXCEPT !.st = "running"]
    <2>1. /\ tgt[c] \in Sessions /\ rec[tgt[c]] \in Record
          /\ rec[tgt[c]].st \in {"starting", "running"}
      BY <1>5, CommandTyped DEF StartAccept, TypeOK
    <2>2. /\ r \in Record /\ rec' = [rec EXCEPT ![tgt[c]] = r]
          /\ r.st = "running" /\ r.id = rec[tgt[c]].id
          /\ r.gen = rec[tgt[c]].gen
      BY <1>5, <2>1 DEF StartAccept
    <2>3. /\ rec[tgt[c]].id # None /\ rec[tgt[c]].id \in used
          /\ rec[tgt[c]].gen # None /\ bound[rec[tgt[c]].gen] = rec[tgt[c]].id
      BY <2>1 DEF RecordsExact
    <2> QED
      BY <1>5, <2>1, <2>2, <2>3, SaveExact DEF StartAccept
  <1>6. ASSUME NEW c \in Commands, NEW s \in Sessions,
               NEW o \in {"running", "stopped"}, StopBegin(c, s, o)
        PROVE  RecordsExact'
    <2> DEFINE r == [rec[s] EXCEPT !.st = "stopping"]
    <2>1. rec[s] \in Record /\ rec[s].st \in {"starting", "running", "stopping"}
      BY <1>6 DEF StopBegin, TypeOK
    <2>2. /\ r \in Record /\ rec' = [rec EXCEPT ![s] = r]
          /\ r.st = "stopping" /\ r.id = rec[s].id /\ r.gen = rec[s].gen
      BY <1>6, <2>1 DEF StopBegin
    <2>3. /\ rec[s].id # None /\ rec[s].id \in used
          /\ rec[s].gen # None /\ bound[rec[s].gen] = rec[s].id
      BY <2>1 DEF RecordsExact
    <2> QED
      BY <1>6, <2>1, <2>2, <2>3, SaveExact DEF StopBegin
  <1>7. ASSUME NEW c \in Commands, StopPublish(c)
        PROVE  RecordsExact'
    <2> DEFINE r == Rec("stopped", exp[c].id, None)
    <2>1. tgt[c] \in Sessions /\ rec[tgt[c]] = exp[c] /\ exp[c].id \in Ids
      BY <1>7, CommandTyped DEF StopPublish
    <2>2. r \in Record /\ rec' = [rec EXCEPT ![tgt[c]] = r]
      BY <1>7, <2>1 DEF StopPublish
    <2>3. exp[c].id \in used
      BY <2>1, NoneAssumption DEF RecordsExact
    <2> QED
      BY <1>7, <2>1, <2>2, <2>3, SaveExact, NoneAssumption DEF StopPublish
  <1>8. ASSUME NEW c \in Commands, NEW s \in Sessions, DeleteReserve(c, s)
        PROVE  RecordsExact'
    <2> DEFINE r == [rec[s] EXCEPT !.st = "deleting"]
    <2>1. rec[s] \in Record /\ rec[s].st = "stopped"
      BY <1>8 DEF DeleteReserve, TypeOK
    <2>2. /\ r \in Record /\ rec' = [rec EXCEPT ![s] = r]
          /\ r.st = "deleting" /\ r.id = rec[s].id /\ r.gen = rec[s].gen
      BY <1>8, <2>1 DEF DeleteReserve
    <2>3. rec[s].id # None /\ rec[s].id \in used /\ rec[s].gen = None
      BY <2>1 DEF RecordsExact
    <2> QED
      BY <1>8, <2>1, <2>2, <2>3, SaveExact DEF DeleteReserve
  <1>9. ASSUME NEW c \in Commands, NEW W \in SUBSET Volumes, DeleteFinal(c, W)
        PROVE  RecordsExact'
    <2>1. tgt[c] \in Sessions
      BY <1>9, CommandTyped DEF DeleteFinal
    <2>2. CASE UNCHANGED rec
      BY <1>9, <2>2 DEF DeleteFinal, RecordsExact
    <2>3. CASE rec' = [rec EXCEPT ![tgt[c]] = NoRec]
      BY <1>9, <2>1, <2>3, SaveExact DEF DeleteFinal, NoRec
    <2> QED
      BY <1>9, <2>2, <2>3 DEF DeleteFinal
  <1>10. CASE UNCHANGED <<rec, used, bound>>
    BY <1>10 DEF RecordsExact
  <1> HIDE DEF Save, Rec, Record, States
  <1>11. CASE UNCHANGED vars
    BY <1>10, <1>11 DEF vars, durable
  <1> QED
    BY <1>1, <1>2, <1>3, <1>4, <1>5, <1>6, <1>7, <1>8, <1>9, <1>10, <1>11,
       RecordFrame DEF RecordWrite

-----------------------------------------------------------------------------
(* Commands and the two locks.                                             *)

(* With both locks of a session free no command is at work on it.          *)
LEMMA NobodyAt ==
    ASSUME TypeOK, NEW s \in Sessions, TransitionFree(s), SessionFree(s),
           NEW d \in Commands, pc[d] # "idle"
    PROVE  tgt[d] # s
  BY DEF TypeOK, PCs, TransitionFree, SessionFree

(* Create takes the session lock only; the record's state keeps the        *)
(* holders of the transition lock away.                                    *)
LEMMA NobodyCreates ==
    ASSUME TypeOK, CommandsExact, NEW s \in Sessions, SessionFree(s),
           rec[s].st \in {"none", "creating"},
           NEW d \in Commands, pc[d] # "idle"
    PROVE  tgt[d] # s
  <1>1. CASE pc[d] \in SessionPCs
    BY <1>1 DEF SessionFree
  <1>2. CASE pc[d] \in TransitionPCs \ SessionPCs
    <2>1. exp[d].st \in StatesAt(pc[d]) /\ rec[tgt[d]] = exp[d]
      BY DEF CommandsExact
    <2>2. exp[d].st \notin {"none", "creating"}
      BY <1>2, <2>1 DEF StatesAt, TransitionPCs, SessionPCs
    <2> QED
      BY <2>1, <2>2
  <1> QED
    BY <1>1, <1>2 DEF TypeOK, PCs

(* A command that begins on a session nobody works on, with the record it  *)
(* loads or saves, keeps the commands exact.                               *)
LEMMA BeginExact ==
    ASSUME TypeOK, CommandsExact, NEW c \in Commands, NEW s \in Sessions,
           NEW r, NEW label,
           Begin(c, s, r, label), r.st \in StatesAt(label),
           rec'[s] = r, \A t \in Sessions \ {s} : rec'[t] = rec[t],
           \A d \in Commands : pc[d] # "idle" => tgt[d] # s
    PROVE  CommandsExact'
  <1>1. \A d \in Commands :
          /\ pc'[d] = IF d = c THEN label ELSE pc[d]
          /\ tgt'[d] = IF d = c THEN s ELSE tgt[d]
          /\ exp'[d] = IF d = c THEN r ELSE exp[d]
    BY DEF Begin, TypeOK
  <1>2. ASSUME NEW d \in Commands, pc'[d] # "idle"
        PROVE  /\ tgt'[d] \in Sessions
               /\ rec'[tgt'[d]] = exp'[d]
               /\ exp'[d].st \in StatesAt(pc'[d])
    BY <1>1, <1>2 DEF CommandsExact
  <1>3. ASSUME NEW d \in Commands, NEW e \in Commands,
               pc'[d] # "idle", pc'[e] # "idle", tgt'[d] = tgt'[e]
        PROVE  d = e
    BY <1>1, <1>3 DEF CommandsExact
  <1> QED
    BY <1>2, <1>3 DEF CommandsExact, StatesAt

(* A command that ends may have saved its own session only.                *)
LEMMA DoneExact ==
    ASSUME TypeOK, CommandsExact, NEW c \in Commands, pc[c] # "idle", Done(c),
           \A t \in Sessions \ {tgt[c]} : rec'[t] = rec[t]
    PROVE  CommandsExact'
  <1>1. \A d \in Commands :
          /\ pc'[d] = IF d = c THEN "idle" ELSE pc[d]
          /\ d # c => tgt'[d] = tgt[d] /\ exp'[d] = exp[d]
    BY DEF Done, TypeOK
  <1>2. \A d \in Commands : d # c /\ pc[d] # "idle" =>
          tgt[d] \in Sessions \ {tgt[c]}
    BY DEF CommandsExact
  <1> QED
    BY <1>1, <1>2 DEF CommandsExact, StatesAt

(* A command that moves on without touching its record stays exact when    *)
(* the record state fits the next step.                                    *)
LEMMA GotoExact ==
    ASSUME TypeOK, CommandsExact, NEW c \in Commands, pc[c] # "idle",
           NEW label, Goto(c, label), UNCHANGED <<tgt, exp, rec>>,
           exp[c].st \in StatesAt(label)
    PROVE  CommandsExact'
  <1>1. \A d \in Commands : pc'[d] = IF d = c THEN label ELSE pc[d]
    BY DEF Goto, TypeOK
  <1> QED
    BY <1>1 DEF CommandsExact, StatesAt

(* The two locks keep commands of one session apart, so the record a       *)
(* command loaded stays the record on disk.                                *)
LEMMA CommandsStep ==
    TypeOK /\ RecordsExact /\ CommandsExact /\ [Next]_vars => CommandsExact'
  <1> SUFFICES ASSUME TypeOK, RecordsExact, CommandsExact, [Next]_vars
               PROVE  CommandsExact'
    OBVIOUS
  <1>1. ASSUME NEW c \in Commands, NEW s \in Sessions, NEW id \in Ids,
               CreateReserve(c, s, id)
        PROVE  CommandsExact'
    <2> DEFINE r == Rec("creating", id, None)
    <2>1. rec'[s] = r /\ \A t \in Sessions \ {s} : rec'[t] = rec[t]
      BY <1>1 DEF CreateReserve, Save, TypeOK
    <2>2. \A d \in Commands : pc[d] # "idle" => tgt[d] # s
      BY <1>1, NobodyCreates DEF CreateReserve, NoRec, Rec
    <2>3. r.st \in StatesAt("clone")
      BY DEF Rec, StatesAt
    <2> QED
      BY <1>1, <2>1, <2>2, <2>3, BeginExact DEF CreateReserve
  <1>2. ASSUME NEW c \in Commands, NEW s \in Sessions, CreateResume(c, s)
        PROVE  CommandsExact'
    <2>1. \A d \in Commands : pc[d] # "idle" => tgt[d] # s
      BY <1>2, NobodyCreates DEF CreateResume
    <2>2. rec[s].st \in StatesAt("clone")
      BY <1>2 DEF CreateResume, StatesAt
    <2> QED
      BY <1>2, <2>1, <2>2, BeginExact DEF CreateResume, durable
  <1>3. ASSUME NEW c \in Commands, NEW s \in Sessions,
               \/ StartStopped(c, s) \/ StopStopped(c, s) \/ DeleteRetry(c, s)
               \/ StartRetryLaunch(c, s) \/ StartRetryReady(c, s)
               \/ StartRetryPoisoned(c, s) \/ StartRunning(c, s)
        PROVE  CommandsExact'
    <2>1. \E label \in PCs : Begin(c, s, rec[s], label) /\ rec[s].st \in StatesAt(label)
      BY <1>3 DEF StartStopped, StopStopped, DeleteRetry, StartRetryLaunch,
         StartRetryReady, StartRetryPoisoned, StartRunning, Retry, StatesAt,
         PCs, TransitionPCs
    <2>2. TransitionFree(s) /\ SessionFree(s) /\ UNCHANGED rec
      BY <1>3 DEF StartStopped, StopStopped, DeleteRetry, StartRetryLaunch,
         StartRetryReady, StartRetryPoisoned, StartRunning, Retry, durable
    <2>3. \A d \in Commands : pc[d] # "idle" => tgt[d] # s
      BY <2>2, NobodyAt
    <2> QED
      BY <2>1, <2>2, <2>3, BeginExact
  <1>4. ASSUME NEW c \in Commands, NEW s \in Sessions,
               NEW o \in {"running", "stopped"}, StopBegin(c, s, o)
        PROVE  CommandsExact'
    <2> DEFINE r == [rec[s] EXCEPT !.st = "stopping"]
               label == IF o = "stopped" THEN "prove" ELSE "control"
    <2>1. rec'[s] = r /\ \A t \in Sessions \ {s} : rec'[t] = rec[t]
      BY <1>4 DEF StopBegin, Save, TypeOK
    <2>2. r.st \in StatesAt(label)
      BY DEF StatesAt, TypeOK, Record
    <2>3. \A d \in Commands : pc[d] # "idle" => tgt[d] # s
      BY <1>4, NobodyAt DEF StopBegin
    <2>4. Begin(c, s, r, label)
      BY <1>4 DEF StopBegin
    <2> HIDE DEF r, label
    <2> QED
      BY <2>1, <2>2, <2>3, <2>4, BeginExact
  <1>5. ASSUME NEW c \in Commands, NEW s \in Sessions, DeleteReserve(c, s)
        PROVE  CommandsExact'
    <2> DEFINE r == [rec[s] EXCEPT !.st = "deleting"]
    <2>1. rec'[s] = r /\ \A t \in Sessions \ {s} : rec'[t] = rec[t]
      BY <1>5 DEF DeleteReserve, Save, TypeOK
    <2>2. r.st \in StatesAt("delete")
      BY DEF StatesAt, TypeOK, Record
    <2>3. \A d \in Commands : pc[d] # "idle" => tgt[d] # s
      BY <1>5, NobodyAt DEF DeleteReserve
    <2>4. Begin(c, s, r, "delete")
      BY <1>5 DEF DeleteReserve
    <2> HIDE DEF r
    <2> QED
      BY <2>1, <2>2, <2>3, <2>4, BeginExact
  <1>6. ASSUME NEW c \in Commands,
               CreateFinish(c) \/ StartPersist(c) \/ StartAccept(c) \/ StopPublish(c)
        PROVE  CommandsExact'
    <2>1. pc[c] # "idle" /\ Done(c)
      BY <1>6 DEF CreateFinish, StartPersist, StartAccept, StopPublish
    <2>2. \A t \in Sessions \ {tgt[c]} : rec'[t] = rec[t]
      BY <1>6 DEF CreateFinish, StartPersist, StartAccept, StopPublish, Save, TypeOK
    <2> QED
      BY <2>1, <2>2, DoneExact
  <1>7. ASSUME NEW c \in Commands, NEW W \in SUBSET Volumes, DeleteFinal(c, W)
        PROVE  CommandsExact'
    <2>1. \A t \in Sessions \ {tgt[c]} : rec'[t] = rec[t]
      BY <1>7 DEF DeleteFinal, Save, TypeOK
    <2> QED
      BY <1>7, <2>1, DoneExact DEF DeleteFinal
  <1>8. ASSUME NEW c \in Commands, Abort(c)
        PROVE  CommandsExact'
    BY <1>8, DoneExact DEF Abort, durable
  <1>9. ASSUME NEW c \in Commands, NEW W \in SUBSET Volumes,
               StartRelease(c, W) \/ StopRelease(c, W)
        PROVE  CommandsExact'
    <2>1. CASE Done(c)
      BY <1>9, <2>1, DoneExact DEF StartRelease, StopRelease
    <2>2. CASE UNCHANGED <<tgt, exp>> /\ pc[c] = "release" /\ Goto(c, "prepare")
      <3>1. exp[c].st \in StatesAt("prepare") /\ UNCHANGED rec
        BY <1>9, <2>2, CommandTyped DEF StartRelease, StopRelease, StatesAt
      <3> QED
        BY <2>2, <3>1, GotoExact
    <2>3. CASE UNCHANGED <<tgt, exp>> /\ pc[c] = "finish" /\ Goto(c, "publish")
      <3>1. exp[c].st \in StatesAt("publish") /\ UNCHANGED rec
        BY <1>9, <2>3, CommandTyped DEF StartRelease, StopRelease, StatesAt
      <3> QED
        BY <2>3, <3>1, GotoExact
    <2> QED
      BY <1>9, <2>1, <2>2, <2>3 DEF StartRelease, StopRelease
  <1>10. ASSUME NEW c \in Commands, NEW g \in Gens, NEW W \in SUBSET Volumes,
                StartPrepare(c, g, W)
         PROVE  CommandsExact'
    <2>1. CASE UNCHANGED rec /\ Done(c)
      BY <1>10, <2>1, DoneExact DEF StartPrepare
    <2>2. CASE /\ Save(tgt[c], Rec("starting", exp[c].id, g))
               /\ Advance(c, Rec("starting", exp[c].id, g), "launch")
      <3> DEFINE r == Rec("starting", exp[c].id, g)
      <3>1. tgt[c] \in Sessions /\ pc[c] # "idle"
        BY <1>10, CommandTyped DEF StartPrepare
      <3>2. /\ rec'[tgt[c]] = r
            /\ \A t \in Sessions \ {tgt[c]} : rec'[t] = rec[t]
        BY <2>2, <3>1 DEF Save, TypeOK
      <3>3. \A d \in Commands :
              /\ pc'[d] = IF d = c THEN "launch" ELSE pc[d]
              /\ exp'[d] = IF d = c THEN r ELSE exp[d]
              /\ tgt'[d] = tgt[d]
        BY <2>2 DEF Advance, TypeOK
      <3>4. r.st \in StatesAt("launch")
        BY DEF Rec, StatesAt
      <3>5. \A d \in Commands : d # c /\ pc[d] # "idle" =>
              tgt[d] \in Sessions \ {tgt[c]}
        BY <3>1 DEF CommandsExact
      <3> QED
        BY <3>1, <3>2, <3>3, <3>4, <3>5 DEF CommandsExact, StatesAt
    <2> QED
      BY <1>10, <2>1, <2>2 DEF StartPrepare
  <1>11. ASSUME NEW c \in Commands,
                \/ CreateClone(c) \/ StartRelaunch(c) \/ StartPublish(c)
                \/ \E k \in Supervisors : StartSpawn(c, k) \/ ControlStop(c, k)
                \/ StartWatch(c) \/ StopProve(c) \/ DeleteBackend(c)
         PROVE  CommandsExact'
    <2>1. pc[c] # "idle" /\ UNCHANGED <<tgt, exp, rec>>
      BY <1>11 DEF CreateClone, StartRelaunch, StartPublish, StartSpawn,
         StartWatch, StopProve, ControlStop, DeleteBackend, durable
    <2>2. exp[c].st \in StatesAt(pc[c])
      BY <2>1 DEF CommandsExact
    <2>3. \E label \in PCs : Goto(c, label) /\ exp[c].st \in StatesAt(label)
      BY <1>11, <2>2 DEF CreateClone, StartRelaunch, StartPublish, StartSpawn,
         StartWatch, StopProve, ControlStop, DeleteBackend, StatesAt,
         PCs, TransitionPCs, SessionPCs
    <2> QED
      BY <2>1, <2>3, GotoExact
  <1>12. ASSUME NEW k \in Supervisors, OwnerReap(k)
         PROVE  CommandsExact'
    <2>1. UNCHANGED <<tgt, exp, rec>>
      BY <1>12 DEF OwnerReap, durable
    <2>2. \A c \in Commands :
            \/ pc'[c] = pc[c]
            \/ pc[c] = "awaitStop" /\ pc'[c] = "finish"
            \/ pc[c] = "awaitPoison" /\ pc'[c] = "relaunch"
      BY <1>12 DEF OwnerReap, Answered
    <2> QED
      BY <2>1, <2>2 DEF CommandsExact, StatesAt
  <1>13. CASE UNCHANGED <<rec, pc, tgt, exp>>
    BY <1>13 DEF CommandsExact, StatesAt
  <1>14. ASSUME NEW k \in Supervisors, SupervisorStep(k)
         PROVE  CommandsExact'
    BY <1>12, <1>13, <1>14 DEF SupervisorStep, OwnerOpen, OwnerClaim,
       ChildExit, OwnerAdmit, OwnerRefuse, OwnerLaunch, OwnerQuit, MachineEnds,
       OwnerCheck, OwnerClean, OwnerLost, durable, command
  <1>15. ASSUME NEW s \in Sessions, NEW v \in Volumes, Attach(s, v) \/ Detach(s, v)
         PROVE  CommandsExact'
    BY <1>13, <1>15 DEF Attach, Detach, command
  <1>16. CASE UNCHANGED vars
    BY <1>13, <1>16 DEF vars, durable, command
  <1> QED
    BY <1>1, <1>2, <1>3, <1>4, <1>5, <1>6, <1>7, <1>8, <1>9, <1>10, <1>11,
       <1>14, <1>15, <1>16 DEF Next, CommandStep, CommandBegin

-----------------------------------------------------------------------------
(* Generations: what a step may do to the binding of a committed start.    *)

(* A generation is named by the record of one session.                     *)
LEMMA GensUnique ==
    ASSUME RecordsExact, NEW s \in Sessions, NEW t \in Sessions,
           rec[s].gen = rec[t].gen, rec[s].gen # None
    PROVE  s = t
  BY DEF RecordsExact

(* A generation stays bound to the identity it was generated for.          *)
LEMMA BoundStep ==
    ASSUME TypeOK, [Next]_vars, NEW g \in Gens, bound[g] # None
    PROVE  bound'[g] = bound[g]
  <1>1. CASE UNCHANGED bound
    BY <1>1
  <1>2. ASSUME NEW c \in Commands, NEW h \in Gens, NEW W \in SUBSET Volumes,
               StartPrepare(c, h, W)
        PROVE  bound'[g] = bound[g]
    BY <1>2 DEF StartPrepare, TypeOK
  <1>3. CASE RecordWrite
    BY <1>1, <1>2, <1>3 DEF RecordWrite, CreateFinish, StartPersist,
       StartAccept, StopPublish, DeleteFinal, DeleteReserve, CreateReserve,
       StopBegin
  <1> QED
    BY <1>1, <1>3, RecordFrame DEF vars, durable

(* Only publishing a stop ends a generation.                               *)
LEMMA GenerationStep ==
    ASSUME TypeOK, RecordsExact, CommandsExact, [Next]_vars,
           NEW s \in Sessions, rec[s].gen # None
    PROVE  \/ rec'[s].gen = rec[s].gen /\ rec'[s].id = rec[s].id
           \/ \E c \in Commands :
                /\ StopPublish(c) /\ tgt[c] = s /\ exp[c] = rec[s]
                /\ rec[s].st = "stopping"
                /\ rec'[s] = Rec("stopped", rec[s].id, None)
  <1> DEFINE Kept == rec'[s].gen = rec[s].gen /\ rec'[s].id = rec[s].id
  <1>0. rec[s] \in Record /\ rec[s].st \in {"starting", "running", "stopping"}
    BY DEF RecordsExact, TypeOK
  <1> USE DEF Save
  <1>1. CASE UNCHANGED rec
    BY <1>1
  <1>2. ASSUME NEW c \in Commands, NEW t \in Sessions, NEW id \in Ids,
               CreateReserve(c, t, id)
        PROVE  Kept
    BY <1>0, <1>2 DEF CreateReserve, NoRec, Rec, TypeOK
  <1>3. ASSUME NEW c \in Commands, CreateFinish(c)
        PROVE  Kept
    BY <1>0, <1>3, CommandTyped DEF CreateFinish, StatesAt, TypeOK
  <1>4. ASSUME NEW c \in Commands, NEW g \in Gens, NEW W \in SUBSET Volumes,
               StartPrepare(c, g, W)
        PROVE  Kept
    <2>1. exp[c].st = "stopped" /\ rec[tgt[c]] = exp[c] /\ tgt[c] \in Sessions
      BY <1>4, CommandTyped DEF StartPrepare, StatesAt
    <2>2. \A t \in Sessions : t # tgt[c] => rec'[t] = rec[t]
      BY <1>4 DEF StartPrepare, TypeOK
    <2> QED
      BY <1>0, <2>1, <2>2
  <1>5. ASSUME NEW c \in Commands, StartPersist(c)
        PROVE  Kept
    <2>1. rec[tgt[c]] = exp[c] /\ tgt[c] \in Sessions /\ exp[c] \in Record
      BY <1>5, CommandTyped DEF StartPersist
    <2> QED
      BY <1>5, <2>1 DEF StartPersist, TypeOK, Record
  <1>6. ASSUME NEW c \in Commands, StartAccept(c)
        PROVE  Kept
    <2>1. tgt[c] \in Sessions /\ rec[tgt[c]] \in Record
      BY <1>6, CommandTyped DEF StartAccept, TypeOK
    <2> QED
      BY <1>6, <2>1 DEF StartAccept, TypeOK, Record
  <1>7. ASSUME NEW c \in Commands, NEW t \in Sessions,
               NEW o \in {"running", "stopped"}, StopBegin(c, t, o)
        PROVE  Kept
    BY <1>7 DEF StopBegin, TypeOK, Record
  <1>8. ASSUME NEW c \in Commands, NEW t \in Sessions, DeleteReserve(c, t)
        PROVE  Kept
    BY <1>0, <1>8 DEF DeleteReserve, TypeOK
  <1>9. ASSUME NEW c \in Commands, NEW W \in SUBSET Volumes, DeleteFinal(c, W)
        PROVE  Kept
    <2>1. exp[c].st = "deleting" /\ rec[tgt[c]] = exp[c] /\ tgt[c] \in Sessions
      BY <1>9, CommandTyped DEF DeleteFinal, StatesAt
    <2>2. \A t \in Sessions : t # tgt[c] => rec'[t] = rec[t]
      BY <1>9 DEF DeleteFinal, TypeOK
    <2> QED
      BY <1>0, <2>1, <2>2
  <1>10. ASSUME NEW c \in Commands, StopPublish(c), ~Kept
         PROVE  /\ tgt[c] = s /\ exp[c] = rec[s]
                /\ rec[s].st = "stopping"
                /\ rec'[s] = Rec("stopped", rec[s].id, None)
    <2>1. /\ exp[c].st \in {"stopped", "stopping"} /\ rec[tgt[c]] = exp[c]
          /\ tgt[c] \in Sessions
      BY <1>10, CommandTyped DEF StopPublish, StatesAt
    <2>2. tgt[c] = s
      BY <1>10 DEF StopPublish, TypeOK
    <2> QED
      BY <1>0, <1>10, <2>1, <2>2 DEF StopPublish, TypeOK
  <1> HIDE DEF Kept, Save
  <1>11. CASE RecordWrite
    BY <1>2, <1>3, <1>4, <1>5, <1>6, <1>7, <1>8, <1>9, <1>10, <1>11
    DEF RecordWrite, Kept
  <1> QED
    BY <1>1, <1>11, RecordFrame DEF vars, durable

(* What a step that leaves a launch active keeps of it, unless it is the   *)
(* admission; a launch admitted goes on only from a published namespace.   *)
Kept(k) ==
    /\ Active(k)
    /\ serves'[k] = serves[k] /\ disks'[k] = disks[k]
    /\ sup'[k] \in Leasing => sup[k] \in Leasing
    /\ sup[k] = "admitted" => sup'[k] = "admitted" \/ ns[serves[k]] = "published"

(* A launch becomes possible only by admission under the session lock.     *)
LEMMA ActiveStep ==
    ASSUME TypeOK, NamespaceExact, [Next]_vars, NEW k \in Supervisors, Active(k)'
    PROVE  Kept(k) \/ OwnerAdmit(k)
  <1> USE DEF Kept, Active, Leasing, TypeOK, NamespaceExact
  <1>1. CASE UNCHANGED runtime
    BY <1>1 DEF runtime
  <1>2. ASSUME NEW c \in Commands,
               \/ StartPublish(c)
               \/ \E j \in Supervisors : StartSpawn(c, j) \/ ControlStop(c, j)
        PROVE  Kept(k)
    <2>1. CASE StartPublish(c)
      BY <2>1 DEF StartPublish
    <2>2. ASSUME NEW j \in Supervisors, StartSpawn(c, j)
          PROVE  Kept(k)
      BY <2>2 DEF StartSpawn
    <2>3. ASSUME NEW j \in Supervisors, ControlStop(c, j)
          PROVE  Kept(k)
      BY <2>3 DEF ControlStop
    <2> HIDE DEF Kept, Active
    <2> QED
      BY <1>2, <2>1, <2>2, <2>3
  <1>3. ASSUME NEW j \in Supervisors, SupervisorStep(j)
        PROVE  Kept(k) \/ OwnerAdmit(k)
    <2>1. CASE OwnerOpen(j)
      BY <2>1 DEF OwnerOpen
    <2>2. CASE OwnerClaim(j)
      BY <2>2 DEF OwnerClaim
    <2>3. CASE ChildExit(j)
      BY <2>3 DEF ChildExit, Gone
    <2>4. CASE OwnerAdmit(j)
      <3>1. CASE j = k
        BY <2>4, <3>1
      <3>2. CASE j # k
        BY <2>4, <3>2 DEF OwnerAdmit
      <3> QED
        BY <3>1, <3>2
    <2>5. CASE OwnerRefuse(j)
      BY <2>5 DEF OwnerRefuse
    <2>6. CASE OwnerLaunch(j)
      BY <2>6 DEF OwnerLaunch
    <2>7. CASE OwnerQuit(j)
      BY <2>7 DEF OwnerQuit
    <2>8. CASE MachineEnds(j)
      BY <2>8 DEF MachineEnds
    <2>9. CASE OwnerReap(j)
      BY <2>9 DEF OwnerReap
    <2>10. CASE OwnerCheck(j)
      BY <2>10 DEF OwnerCheck, Gone
    <2>11. CASE OwnerClean(j)
      BY <2>11 DEF OwnerClean, Gone
    <2>12. ASSUME NEW left \in Namespace, OwnerLost(j, left)
           PROVE  Kept(k)
      BY <2>12 DEF OwnerLost, Gone
    <2> HIDE DEF Kept, Active
    <2> QED
      BY <1>3, <2>1, <2>2, <2>3, <2>4, <2>5, <2>6, <2>7, <2>8, <2>9, <2>10,
         <2>11, <2>12 DEF SupervisorStep
  <1> HIDE DEF Kept, Active
  <1> QED
    BY <1>1, <1>2, <1>3, RuntimeFrame DEF RuntimeWrite, vars

(* Whatever is active with volumes stays named by a record: the only step  *)
(* that drops a generation follows its proof of quiescence.                *)
LEMMA ActiveRecordedStep ==
    ASSUME TypeOK, RecordsExact, CommandsExact, NamespaceExact, ActiveRecorded,
           FinishProved, [Next]_vars
    PROVE  ActiveRecorded'
  <1> SUFFICES ASSUME NEW k \in Supervisors, Active(k)', WithVolumes(k)'
               PROVE  \E s \in Sessions :
                        rec'[s].gen = serves'[k] /\ rec'[s].id = bound'[serves'[k]]
    BY DEF ActiveRecorded
  <1>1. CASE Kept(k)
    <2>1. /\ Active(k) /\ WithVolumes(k) /\ serves'[k] = serves[k]
          /\ serves[k] \in Gens /\ bound[serves[k]] # None
      BY <1>1 DEF Kept, WithVolumes, NamespaceExact, Active, Leasing
    <2>2. PICK s \in Sessions :
            rec[s].gen = serves[k] /\ rec[s].id = bound[serves[k]]
      BY <2>1 DEF ActiveRecorded
    <2>3. bound'[serves[k]] = bound[serves[k]]
      BY <2>1, BoundStep
    <2>4. rec[s].gen # None
      BY <2>1, <2>2, NoneAssumption
    <2>5. ASSUME NEW c \in Commands, StopPublish(c), exp[c] = rec[s]
          PROVE  FALSE
      BY <2>1, <2>2, <2>4, <2>5 DEF StopPublish, FinishProved
    <2> QED
      BY <2>1, <2>2, <2>3, <2>4, <2>5, GenerationStep
  <1>2. CASE OwnerAdmit(k)
    BY <1>2 DEF OwnerAdmit, Rec, durable
  <1> QED
    BY <1>1, <1>2, ActiveStep

-----------------------------------------------------------------------------
(* Supervisors, leases and volumes.                                        *)

(* Machines keep the live artifacts that Quiesced sees, one at a time.     *)
LEMMA NamespaceStep ==
    ASSUME TypeOK, RecordsExact, CommandsExact, NamespaceExact, LockExact,
           [Next]_vars
    PROVE  NamespaceExact'
  <1> DEFINE Serves(k) == sup'[k] # "gone" \/ k \in running' =>
                 serves'[k] \in Gens /\ bound'[serves'[k]] # None
             Phase(k) == k \in running' => sup'[k] \in {"gone", "live", "stopping"}
             Art(k) == Launched(k)' => ns'[serves'[k]] \in {"artifacts", "stranded"}
             One(k, l) == Launched(k)' /\ Launched(l)' /\ serves'[k] = serves'[l] => k = l
             Goal == \A k \in Supervisors :
                       /\ Serves(k) /\ Phase(k) /\ Art(k)
                       /\ \A l \in Supervisors : One(k, l)
  <1> SUFFICES Goal
    BY DEF NamespaceExact, Launched
  <1>0. \A g \in Gens : bound[g] # None => bound'[g] # None
    BY BoundStep
  <1> USE <1>0 DEF TypeOK, NamespaceExact, Launched
  <1>1. CASE UNCHANGED runtime
    BY <1>1 DEF runtime
  <1>2. ASSUME NEW c \in Commands,
               \/ StartPublish(c)
               \/ \E j \in Supervisors : StartSpawn(c, j) \/ ControlStop(c, j)
        PROVE  Goal
    <2>1. CASE StartPublish(c)
      BY <2>1 DEF StartPublish
    <2>2. ASSUME NEW j \in Supervisors, StartSpawn(c, j)
          PROVE  Goal
      <3>1. exp[c].gen \in Gens /\ bound[exp[c].gen] # None
        <4>1. exp[c].st = "starting" /\ exp[c].gen \in Gens
          BY <2>2, CommandTyped DEF StartSpawn, StatesAt
        <4>2. exp[c].id \in Ids /\ rec[tgt[c]] = exp[c] /\ tgt[c] \in Sessions
          BY <2>2, CommandTyped DEF StartSpawn
        <4> QED
          BY <4>1, <4>2, NoneAssumption DEF RecordsExact
      <3> QED
        BY <2>2, <3>1 DEF StartSpawn
    <2>3. ASSUME NEW j \in Supervisors, ControlStop(c, j)
          PROVE  Goal
      BY <2>3 DEF ControlStop
    <2> HIDE DEF Goal
    <2> QED
      BY <1>2, <2>1, <2>2, <2>3
  <1>3. ASSUME NEW j \in Supervisors, SupervisorStep(j)
        PROVE  Goal
    <2>1. CASE OwnerOpen(j)
      BY <2>1 DEF OwnerOpen
    <2>2. CASE OwnerClaim(j)
      BY <2>2 DEF OwnerClaim
    <2>3. CASE ChildExit(j)
      BY <2>3 DEF ChildExit, Gone
    <2>4. CASE OwnerAdmit(j)
      BY <2>4 DEF OwnerAdmit
    <2>5. CASE OwnerRefuse(j)
      BY <2>5 DEF OwnerRefuse
    <2>6. CASE OwnerLaunch(j)
      BY <2>6 DEF OwnerLaunch
    <2>7. CASE OwnerQuit(j)
      BY <2>7 DEF OwnerQuit
    <2>8. CASE MachineEnds(j)
      BY <2>8 DEF MachineEnds
    <2>9. CASE OwnerReap(j)
      BY <2>9 DEF OwnerReap
    <2>10. CASE OwnerCheck(j)
      BY <2>10 DEF OwnerCheck, Gone
    <2>11. CASE OwnerClean(j)
      BY <2>11 DEF OwnerClean, Gone, LockExact
    <2>12. ASSUME NEW left \in Namespace, OwnerLost(j, left)
           PROVE  Goal
      BY <2>12 DEF OwnerLost, Gone, Leftover, LockExact, Holding
    <2> HIDE DEF Goal
    <2> QED
      BY <1>3, <2>1, <2>2, <2>3, <2>4, <2>5, <2>6, <2>7, <2>8, <2>9, <2>10,
         <2>11, <2>12 DEF SupervisorStep
  <1> HIDE DEF Goal
  <1> QED
    BY <1>1, <1>2, <1>3, RuntimeFrame DEF RuntimeWrite, vars

(* The lock at the canonical path keeps at most one holder, and a cleanup  *)
(* past its check keeps it until the path is gone.                         *)
LEMMA LockStep ==
    ASSUME TypeOK, NamespaceExact, LockExact, [Next]_vars
    PROVE  LockExact'
  <1> DEFINE There(k) == k \in atpath' =>
                 sup'[k] # "gone" /\ ns'[serves'[k]] \in {"published", "artifacts"}
             Retained(k) == sup'[k] = "checked" => k \in atpath'
             One(k, l) == /\ k \in atpath' /\ l \in atpath'
                          /\ sup'[k] \in Holding /\ sup'[l] \in Holding
                          /\ serves'[k] = serves'[l]
                          => k = l
             Goal == \A k \in Supervisors :
                       /\ There(k) /\ Retained(k)
                       /\ \A l \in Supervisors : One(k, l)
  <1> SUFFICES Goal
    <2>1. atpath' \subseteq Supervisors
      BY RuntimeFrame DEF TypeOK, RuntimeWrite, SupervisorStep, StartPublish,
         StartSpawn, ControlStop, OwnerOpen, OwnerClaim, ChildExit, OwnerAdmit,
         OwnerRefuse, OwnerLaunch, OwnerQuit, MachineEnds, OwnerReap,
         OwnerCheck, OwnerClean, OwnerLost, vars, runtime
    <2> QED
      BY <2>1 DEF LockExact
  <1> USE DEF TypeOK, LockExact, Holding
  <1>1. CASE UNCHANGED runtime
    BY <1>1 DEF runtime
  <1>2. ASSUME NEW c \in Commands,
               \/ StartPublish(c)
               \/ \E j \in Supervisors : StartSpawn(c, j) \/ ControlStop(c, j)
        PROVE  Goal
    <2>1. CASE StartPublish(c)
      BY <2>1 DEF StartPublish
    <2>2. ASSUME NEW j \in Supervisors, StartSpawn(c, j)
          PROVE  Goal
      BY <2>2 DEF StartSpawn
    <2>3. ASSUME NEW j \in Supervisors, ControlStop(c, j)
          PROVE  Goal
      BY <2>3 DEF ControlStop
    <2> HIDE DEF Goal
    <2> QED
      BY <1>2, <2>1, <2>2, <2>3
  <1>3. ASSUME NEW j \in Supervisors, SupervisorStep(j)
        PROVE  Goal
    <2>1. CASE OwnerOpen(j)
      BY <2>1 DEF OwnerOpen, NamespaceExact
    <2>2. CASE OwnerClaim(j)
      BY <2>2 DEF OwnerClaim, Of
    <2>3. CASE ChildExit(j)
      BY <2>3 DEF ChildExit, Gone
    <2>4. CASE OwnerAdmit(j)
      BY <2>4 DEF OwnerAdmit
    <2>5. CASE OwnerRefuse(j)
      BY <2>5 DEF OwnerRefuse
    <2>6. CASE OwnerLaunch(j)
      BY <2>6 DEF OwnerLaunch
    <2>7. CASE OwnerQuit(j)
      BY <2>7 DEF OwnerQuit
    <2>8. CASE MachineEnds(j)
      BY <2>8 DEF MachineEnds
    <2>9. CASE OwnerReap(j)
      BY <2>9 DEF OwnerReap
    <2>10. CASE OwnerCheck(j)
      BY <2>10 DEF OwnerCheck, Gone
    <2>11. CASE OwnerClean(j)
      BY <2>11 DEF OwnerClean, Gone, Of
    <2>12. ASSUME NEW left \in Namespace, OwnerLost(j, left)
           PROVE  Goal
      BY <2>12 DEF OwnerLost, Gone, Leftover, Of
    <2> HIDE DEF Goal
    <2> QED
      BY <1>3, <2>1, <2>2, <2>3, <2>4, <2>5, <2>6, <2>7, <2>8, <2>9, <2>10,
         <2>11, <2>12 DEF SupervisorStep
  <1> HIDE DEF Goal
  <1> QED
    BY <1>1, <1>2, <1>3, RuntimeFrame DEF RuntimeWrite, vars

(* An absent namespace is made again by a start only.                      *)
LEMMA AbsentStep ==
    ASSUME TypeOK, LockExact, NamespaceExact, [Next]_vars, NEW g \in Gens,
           ns[g] = "absent", ns'[g] # "absent"
    PROVE  \E c \in Commands : StartPublish(c) /\ exp[c].gen = g
  <1> USE DEF TypeOK, NamespaceExact, LockExact
  <1>1. ASSUME UNCHANGED ns
        PROVE  FALSE
    BY <1>1
  <1>2. ASSUME NEW c \in Commands, StartPublish(c)
        PROVE  exp[c].gen = g
    BY <1>2 DEF StartPublish
  <1>3. ASSUME NEW j \in Supervisors, SupervisorStep(j)
        PROVE  FALSE
    <2>1. CASE OwnerLaunch(j)
      BY <2>1 DEF OwnerLaunch
    <2>2. CASE OwnerReap(j)
      BY <2>2 DEF OwnerReap
    <2>3. CASE OwnerClean(j)
      BY <2>3 DEF OwnerClean
    <2>4. ASSUME NEW left \in Namespace, OwnerLost(j, left)
          PROVE  FALSE
      BY <2>4 DEF OwnerLost, Leftover
    <2>5. CASE \/ OwnerOpen(j) \/ OwnerClaim(j) \/ ChildExit(j) \/ OwnerAdmit(j)
               \/ OwnerRefuse(j) \/ OwnerQuit(j) \/ MachineEnds(j) \/ OwnerCheck(j)
      BY <1>1, <2>5 DEF OwnerOpen, OwnerClaim, ChildExit, OwnerAdmit,
         OwnerRefuse, OwnerQuit, MachineEnds, OwnerCheck
    <2> QED
      BY <1>3, <2>1, <2>2, <2>3, <2>4, <2>5 DEF SupervisorStep
  <1>4. ASSUME NEW c \in Commands, NEW j \in Supervisors,
               StartSpawn(c, j) \/ ControlStop(c, j)
        PROVE  FALSE
    BY <1>1, <1>4 DEF StartSpawn, ControlStop
  <1> QED
    BY <1>1, <1>2, <1>3, <1>4, RuntimeFrame DEF RuntimeWrite, vars, runtime

(* How a command comes to the two steps after the proof of quiescence.     *)
LEMMA FinishCases ==
    ASSUME TypeOK, RecordsExact, CommandsExact, [Next]_vars, NEW c \in Commands,
           pc'[c] \in {"finish", "publish"}, exp'[c].gen # None
    PROVE  \/ pc'[c] = pc[c] /\ exp'[c] = exp[c]
           \/ /\ \E W \in SUBSET Volumes : StopRelease(c, W)
              /\ pc'[c] = "publish" /\ exp'[c] = exp[c]
           \/ /\ Quiesced(exp[c].gen) /\ StopProve(c)
              /\ pc'[c] = "finish" /\ exp'[c] = exp[c]
           \/ /\ \E k \in Supervisors : OwnerReap(k) /\ serves[k] = exp[c].gen
              /\ exp'[c] = exp[c]
  <1> DEFINE Goal ==
        \/ pc'[c] = pc[c] /\ exp'[c] = exp[c]
        \/ /\ \E W \in SUBSET Volumes : StopRelease(c, W)
           /\ pc'[c] = "publish" /\ exp'[c] = exp[c]
        \/ /\ Quiesced(exp[c].gen) /\ StopProve(c)
           /\ pc'[c] = "finish" /\ exp'[c] = exp[c]
        \/ /\ \E k \in Supervisors : OwnerReap(k) /\ serves[k] = exp[c].gen
           /\ exp'[c] = exp[c]
  <1>1. ASSUME UNCHANGED <<pc, exp>>
        PROVE  Goal
    BY <1>1
  <1>2. ASSUME NEW d \in Commands, NEW s \in Sessions, StopStopped(d, s)
        PROVE  Goal
    <2>1. rec[s].gen = None
      BY <1>2 DEF StopStopped, RecordsExact
    <2> QED
      BY <1>2, <2>1 DEF StopStopped, Begin, TypeOK
  <1>3. ASSUME NEW d \in Commands, NEW s \in Sessions, CommandBegin(d, s)
        PROVE  Goal
    <2>1. ASSUME NEW r, NEW label, Begin(d, s, r, label),
                 label \notin {"finish", "publish"}
          PROVE  Goal
      BY <2>1 DEF Begin, TypeOK
    <2> HIDE DEF Goal
    <2> QED
      BY <1>2, <1>3, <2>1 DEF CommandBegin, CreateReserve, CreateResume,
         StartStopped, StartRunning, StartRetryLaunch, StartRetryReady,
         StartRetryPoisoned, Retry, StopBegin, DeleteReserve, DeleteRetry
  <1>4. ASSUME NEW d \in Commands, Done(d)
        PROVE  Goal
    BY <1>4 DEF Done, TypeOK
  <1>5. ASSUME NEW d \in Commands, NEW label, Goto(d, label), UNCHANGED exp,
               label \notin {"finish", "publish"}
        PROVE  Goal
    BY <1>5 DEF Goto, TypeOK
  <1>6. ASSUME NEW d \in Commands, StopProve(d)
        PROVE  Goal
    <2>1. CASE d = c
      BY <1>6, <2>1 DEF StopProve, Goto, TypeOK
    <2>2. CASE d # c
      BY <1>6, <2>2 DEF StopProve, Goto, TypeOK
    <2> QED
      BY <2>1, <2>2
  <1>7. ASSUME NEW d \in Commands, NEW W \in SUBSET Volumes,
               StartRelease(d, W) \/ StopRelease(d, W)
        PROVE  Goal
    <2>1. CASE Done(d)
      BY <1>4, <2>1
    <2>2. CASE UNCHANGED exp /\ pc[d] = "release" /\ Goto(d, "prepare")
      BY <1>5, <2>2
    <2>3. CASE UNCHANGED exp /\ StopRelease(d, W) /\ Goto(d, "publish")
      <3>1. CASE d = c
        BY <2>3, <3>1 DEF Goto, TypeOK
      <3>2. CASE d # c
        BY <2>3, <3>2 DEF Goto, TypeOK
      <3> QED
        BY <3>1, <3>2
    <2> HIDE DEF Goal
    <2> QED
      BY <1>7, <2>1, <2>2, <2>3 DEF StartRelease, StopRelease
  <1>8. ASSUME NEW d \in Commands, NEW g \in Gens, NEW W \in SUBSET Volumes,
               StartPrepare(d, g, W)
        PROVE  Goal
    <2>1. CASE Done(d)
      BY <1>4, <2>1
    <2>2. CASE Advance(d, Rec("starting", exp[d].id, g), "launch")
      BY <2>2 DEF Advance, TypeOK
    <2> HIDE DEF Goal
    <2> QED
      BY <1>8, <2>1, <2>2 DEF StartPrepare
  <1>9. ASSUME NEW k \in Supervisors, OwnerReap(k)
        PROVE  Goal
    <2>1. UNCHANGED exp
      BY <1>9 DEF OwnerReap
    <2>2. pc'[c] = pc[c] \/ exp[c].gen = serves[k]
      BY <1>9 DEF OwnerReap, Answered
    <2> QED
      BY <1>9, <2>1, <2>2
  <1> HIDE DEF Goal
  <1>10. ASSUME NEW d \in Commands, CommandStep(d)
         PROVE  Goal
    <2>1. CASE \/ CreateFinish(d) \/ StartPersist(d) \/ StartAccept(d)
               \/ StopPublish(d) \/ Abort(d)
               \/ \E W \in SUBSET Volumes : DeleteFinal(d, W)
      BY <1>4, <2>1 DEF CreateFinish, StartPersist, StartAccept, StopPublish,
         Abort, DeleteFinal
    <2>2. CASE \/ CreateClone(d) \/ StartRelaunch(d) \/ StartPublish(d)
               \/ \E k \in Supervisors : StartSpawn(d, k) \/ ControlStop(d, k)
               \/ StartWatch(d) \/ DeleteBackend(d)
      BY <1>5, <2>2 DEF CreateClone, StartRelaunch, StartPublish, StartSpawn,
         StartWatch, ControlStop, DeleteBackend
    <2> QED
      BY <1>6, <1>7, <1>8, <1>10, <2>1, <2>2 DEF CommandStep
  <1>11. ASSUME NEW k \in Supervisors, SupervisorStep(k)
         PROVE  Goal
    BY <1>1, <1>9, <1>11 DEF SupervisorStep, OwnerOpen, OwnerClaim, ChildExit,
       OwnerAdmit, OwnerRefuse, OwnerLaunch, OwnerQuit, MachineEnds, OwnerCheck,
       OwnerClean, OwnerLost, command
  <1>12. ASSUME NEW s \in Sessions, NEW v \in Volumes, Attach(s, v) \/ Detach(s, v)
         PROVE  Goal
    BY <1>1, <1>12 DEF Attach, Detach, command
  <1>13. CASE UNCHANGED vars
    BY <1>1, <1>13 DEF vars, command
  <1> QED
    BY <1>3, <1>10, <1>11, <1>12, <1>13 DEF Next, Goal

(* A stop keeps its proof of quiescence: nothing re-admits a launch of a   *)
(* generation whose record says stopping, the one that may be left has no  *)
(* namespace to launch from, and its leases keep the Uses from release.    *)
LEMMA FinishStep ==
    ASSUME TypeOK, RecordsExact, CommandsExact, NamespaceExact, LockExact,
           LeasesReserved, FinishProved, [Next]_vars
    PROVE  FinishProved'
  <1> SUFFICES ASSUME NEW c \in Commands, NEW k \in Supervisors,
                      pc'[c] \in {"finish", "publish"}, exp'[c].gen # None,
                      serves'[k] = exp'[c].gen, Active(k)', WithVolumes(k)'
               PROVE  /\ pc'[c] = "finish" /\ sup'[k] = "admitted"
                      /\ ns'[serves'[k]] = "absent"
    BY DEF FinishProved
  <1>1. exp'[c] = exp[c]
    BY FinishCases
  <1>2. pc[c] # "idle"
    BY FinishCases DEF StopRelease, StopProve, OwnerReap, Answered
  <1>3. /\ tgt[c] \in Sessions /\ rec[tgt[c]] = exp[c]
        /\ exp[c].st \in StatesAt(pc[c])
    BY <1>2, CommandTyped
  <1>4. exp[c].st = "stopping"
    <2>1. /\ CommandsExact' /\ RecordsExact'
      BY CommandsStep, RecordsStep
    <2>2. /\ exp'[c].st \in StatesAt(pc'[c]) /\ tgt'[c] \in Sessions
          /\ rec'[tgt'[c]] = exp'[c]
      BY <2>1 DEF CommandsExact, StatesAt
    <2> QED
      BY <1>1, <2>1, <2>2 DEF RecordsExact, StatesAt
  <1>5. ~OwnerAdmit(k)
    <2> SUFFICES ASSUME OwnerAdmit(k) PROVE FALSE
      OBVIOUS
    <2>1. serves[k] = exp[c].gen
      BY <1>1 DEF OwnerAdmit
    <2>2. PICK s \in Sessions :
            rec[s] = Rec("starting", bound[serves[k]], serves[k])
      BY DEF OwnerAdmit
    <2>3. s = tgt[c]
      BY <1>1, <1>3, <2>1, <2>2, GensUnique DEF Rec
    <2> QED
      BY <1>3, <1>4, <2>2, <2>3 DEF Rec
  <1>6. /\ Active(k) /\ WithVolumes(k) /\ serves'[k] = serves[k]
        /\ serves[k] = exp[c].gen /\ serves[k] \in Gens
        /\ sup[k] = "admitted" => sup'[k] = "admitted" \/ ns[serves[k]] = "published"
    <2>1. Kept(k)
      BY <1>5, ActiveStep
    <2> QED
      BY <1>1, <2>1 DEF Kept, WithVolumes, NamespaceExact, Active, Leasing
  <1>7. ASSUME sup[k] = "admitted", ns[serves[k]] = "absent"
        PROVE  sup'[k] = "admitted" /\ ns'[serves'[k]] = "absent"
    <2>1. ASSUME NEW d \in Commands, StartPublish(d), exp[d].gen = serves[k]
          PROVE  FALSE
      <3>1. /\ tgt[d] \in Sessions /\ rec[tgt[d]] = exp[d]
            /\ exp[d].st = "starting"
        BY <2>1, CommandTyped DEF StartPublish, StatesAt
      <3>2. tgt[d] = tgt[c]
        BY <1>1, <1>3, <1>6, <2>1, <3>1, GensUnique
      <3> QED
        BY <1>3, <1>4, <3>1, <3>2
    <2> QED
      BY <1>6, <1>7, <2>1, AbsentStep
  <1>8. CASE pc'[c] = pc[c]
    BY <1>1, <1>6, <1>7, <1>8 DEF FinishProved
  <1>9. ASSUME NEW W \in SUBSET Volumes, StopRelease(c, W)
        PROVE  FALSE
    <2>1. sup[k] = "admitted"
      BY <1>1, <1>6, <1>9 DEF FinishProved, StopRelease
    <2>2. PICK v \in disks[k] : v \in Volumes /\ att[v] = bound[serves[k]]
      BY <1>6 DEF LeasesReserved, WithVolumes, TypeOK
    <2>3. v \in Attached(exp[c].id)
      BY <1>1, <1>3, <1>6, <2>2 DEF RecordsExact, Attached
    <2>4. VolumeFree(v)
      BY <1>9, <2>3 DEF StopRelease, ReleaseUses
    <2> QED
      BY <2>1, <2>2, <2>4 DEF VolumeFree, Leasing
  <1>10. CASE Quiesced(exp[c].gen) /\ StopProve(c) /\ pc'[c] = "finish"
    <2>1. ns[serves[k]] = "absent"
      BY <1>6, <1>10 DEF Quiesced
    <2>2. sup[k] = "admitted"
      BY <1>6, <2>1 DEF NamespaceExact, Launched, Active, Leasing
    <2> QED
      BY <1>7, <1>10, <2>1, <2>2
  <1>11. ASSUME NEW j \in Supervisors, OwnerReap(j), serves[j] = exp[c].gen
         PROVE  FALSE
    <2>1. sup[j] \in Leasing /\ j # k
      <3>1. sup'[j] = "cleaning" /\ j \notin running'
        BY <1>11 DEF OwnerReap, TypeOK
      <3> QED
        BY <1>11, <3>1 DEF Active, Leasing, OwnerReap
    <2>2. sup[k] \in Leasing
      BY <1>6, <1>11, <2>1 DEF NamespaceExact, Launched, Active, OwnerReap
    <2>3. PICK v \in disks[k] : v \in Volumes /\ use[v] = serves[k]
      BY <1>6 DEF LeasesReserved, WithVolumes, TypeOK
    <2>4. v \in disks[j]
      BY <1>6, <1>11, <2>1, <2>3 DEF LeasesReserved, Active
    <2> QED
      BY <2>1, <2>2, <2>3, <2>4 DEF LeasesReserved
  <1> QED
    BY <1>8, <1>9, <1>10, <1>11, FinishCases

(* The promise of a quiet record, from the invariant.                      *)
LEMMA QuietRecord ==
    ASSUME RecordsExact, NamespaceExact, ActiveRecorded, NEW s \in Sessions,
           rec[s].st \in {"creating", "stopped", "deleting"},
           NEW k \in Supervisors, WithVolumes(k), bound[serves[k]] = rec[s].id
    PROVE  ~Active(k)
  <1> SUFFICES ASSUME Active(k) PROVE FALSE
    OBVIOUS
  <1>1. PICK t \in Sessions : rec[t].gen = serves[k] /\ rec[t].id = bound[serves[k]]
    BY DEF ActiveRecorded
  <1>2. serves[k] \in Gens
    BY DEF NamespaceExact, Active, Leasing
  <1>3. rec[s].id # None /\ rec[s].gen = None
    BY DEF RecordsExact
  <1>4. s = t
    BY <1>1, <1>3 DEF RecordsExact
  <1> QED
    BY <1>1, <1>2, <1>3, <1>4, NoneAssumption

(* A Use is taken away only from a generation that has no active launch.   *)
LEMMA UseStep ==
    ASSUME TypeOK, RecordsExact, CommandsExact, NamespaceExact, ActiveRecorded,
           FinishProved, LeasesReserved, [Next]_vars,
           NEW v \in Volumes, use[v] # None, use'[v] # use[v]
    PROVE  /\ \A k \in Supervisors : serves[k] = use[v] => ~Active(k)
           /\ UNCHANGED runtime
  <1>1. ASSUME NEW c \in Commands, NEW W \in SUBSET Volumes,
               StartRelease(c, W) \/ StopRelease(c, W)
        PROVE  /\ \A k \in Supervisors : serves[k] = use[v] => ~Active(k)
               /\ UNCHANGED runtime
    <2>1. /\ ReleaseUses(c, W) /\ pc[c] \in {"release", "finish"}
          /\ UNCHANGED runtime
      BY <1>1 DEF StartRelease, StopRelease
    <2>2. v \in InUse(exp[c].id) /\ use[v] \in Gens
      BY <2>1 DEF ReleaseUses, TypeOK
    <2>3. /\ bound[use[v]] = exp[c].id /\ VolumeFree(v)
          /\ exp[c].st = "stopping" => use[v] = exp[c].gen
      BY <2>1, <2>2 DEF ReleaseUses, InUse
    <2>4. /\ tgt[c] \in Sessions /\ rec[tgt[c]] = exp[c]
          /\ exp[c].st \in {"stopped", "stopping"}
          /\ exp[c].st = "stopping" => pc[c] = "finish"
      BY <2>1, CommandTyped DEF StatesAt
    <2>5. ASSUME NEW k \in Supervisors, serves[k] = use[v], Active(k)
          PROVE  FALSE
      <3>1. v \in disks[k] /\ WithVolumes(k)
        BY <2>5 DEF LeasesReserved, WithVolumes
      <3>2. sup[k] \notin Leasing
        BY <2>3, <3>1 DEF VolumeFree
      <3>3. CASE exp[c].st = "stopped"
        BY <2>3, <2>4, <2>5, <3>1, <3>3, QuietRecord
      <3>4. CASE exp[c].st = "stopping"
        BY <2>2, <2>3, <2>4, <2>5, <3>1, <3>2, <3>4, NoneAssumption
        DEF FinishProved, Leasing
      <3> QED
        BY <2>4, <3>3, <3>4
    <2> QED
      BY <2>1, <2>5
  <1>2. ASSUME NEW c \in Commands, NEW g \in Gens, NEW W \in SUBSET Volumes,
               StartPrepare(c, g, W)
        PROVE  use'[v] = use[v]
    BY <1>2 DEF StartPrepare, TypeOK
  <1>3. ASSUME \/ \E c \in Commands, W \in SUBSET Volumes : DeleteFinal(c, W)
               \/ \E s \in Sessions, w \in Volumes : Attach(s, w) \/ Detach(s, w)
        PROVE  use'[v] = use[v]
    BY <1>3 DEF DeleteFinal, Attach, Detach
  <1>4. VolumeWrite
    BY VolumeFrame DEF vars, durable
  <1> QED
    BY <1>1, <1>2, <1>3, <1>4 DEF VolumeWrite

(* Attachments change only while no Use stands on the volume.              *)
LEMMA AttStep ==
    ASSUME TypeOK, [Next]_vars, NEW v \in Volumes, att'[v] # att[v]
    PROVE  /\ use[v] = None /\ UNCHANGED use
           /\ att'[v] # None => \E s \in Sessions : Attach(s, v) /\ att'[v] = rec[s].id
  <1>1. ASSUME NEW c \in Commands, NEW W \in SUBSET Volumes, DeleteFinal(c, W)
        PROVE  use[v] = None /\ UNCHANGED use /\ att'[v] = None
    BY <1>1 DEF DeleteFinal, Attached
  <1>2. ASSUME NEW s \in Sessions, NEW w \in Volumes, Attach(s, w)
        PROVE  /\ use[v] = None /\ UNCHANGED use
               /\ Attach(s, v) /\ att'[v] = rec[s].id
    <2>1. w = v
      BY <1>2 DEF Attach, TypeOK
    <2> QED
      BY <1>2, <2>1 DEF Attach, TypeOK
  <1>3. ASSUME NEW s \in Sessions, NEW w \in Volumes, Detach(s, w)
        PROVE  use[v] = None /\ UNCHANGED use /\ att'[v] = None
    BY <1>3 DEF Detach, TypeOK
  <1>4. ASSUME \/ \E c \in Commands, W \in SUBSET Volumes :
                    StartRelease(c, W) \/ StopRelease(c, W)
               \/ \E c \in Commands, g \in Gens, W \in SUBSET Volumes :
                    StartPrepare(c, g, W)
        PROVE  FALSE
    BY <1>4 DEF StartRelease, StopRelease, StartPrepare
  <1>5. VolumeWrite
    BY VolumeFrame DEF vars, durable
  <1> QED
    BY <1>1, <1>2, <1>3, <1>4, <1>5 DEF VolumeWrite

(* Uses change only by a release under stopped or stopping intent and by   *)
(* the reservation of a start.                                             *)
LEMMA UseCases ==
    ASSUME TypeOK, RecordsExact, CommandsExact, [Next]_vars,
           NEW v \in Volumes, use'[v] # use[v]
    PROVE  /\ UNCHANGED att
           /\ \/ /\ UNCHANGED rec /\ use'[v] = None
                 /\ \E s \in Sessions :
                      rec[s].st \in {"stopped", "stopping"} /\ att[v] = rec[s].id
              \/ \E c \in Commands, g \in Gens, W \in SUBSET Volumes :
                   StartPrepare(c, g, W) /\ v \in W /\ use'[v] = g
  <1>1. ASSUME NEW c \in Commands, NEW W \in SUBSET Volumes,
               StartRelease(c, W) \/ StopRelease(c, W)
        PROVE  /\ UNCHANGED <<att, rec>> /\ use'[v] = None
               /\ tgt[c] \in Sessions
               /\ rec[tgt[c]].st \in {"stopped", "stopping"}
               /\ att[v] = rec[tgt[c]].id
    <2>1. /\ ReleaseUses(c, W) /\ pc[c] \in {"release", "finish"}
          /\ UNCHANGED <<att, rec>>
      BY <1>1 DEF StartRelease, StopRelease
    <2>2. v \in W /\ use'[v] = None
      BY <2>1 DEF ReleaseUses
    <2>3. /\ tgt[c] \in Sessions /\ rec[tgt[c]] = exp[c]
          /\ exp[c].st \in {"stopped", "stopping"}
      BY <2>1, CommandTyped DEF StatesAt
    <2> QED
      BY <2>1, <2>2, <2>3 DEF ReleaseUses, InUse, Attached
  <1>2. ASSUME NEW c \in Commands, NEW g \in Gens, NEW W \in SUBSET Volumes,
               StartPrepare(c, g, W)
        PROVE  UNCHANGED att /\ v \in W /\ use'[v] = g
    BY <1>2 DEF StartPrepare
  <1>3. ASSUME \/ \E c \in Commands, W \in SUBSET Volumes : DeleteFinal(c, W)
               \/ \E s \in Sessions, w \in Volumes : Attach(s, w) \/ Detach(s, w)
        PROVE  FALSE
    BY <1>3 DEF DeleteFinal, Attach, Detach
  <1>4. VolumeWrite
    BY VolumeFrame DEF vars, durable
  <1> QED
    BY <1>1, <1>2, <1>3, <1>4 DEF VolumeWrite

(* An identity leaves the records only when its volumes are detached and   *)
(* its backend object is gone.                                             *)
LEMMA IdStep ==
    ASSUME TypeOK, RecordsExact, CommandsExact, [Next]_vars,
           NEW s \in Sessions, rec[s].id # None, rec'[s].id # rec[s].id
    PROVE  /\ rec[s].id \notin vm' /\ \A v \in Volumes : att'[v] # rec[s].id
           /\ UNCHANGED <<use, bound>>
  <1> USE DEF Save
  <1>1. ASSUME NEW c \in Commands, NEW W \in SUBSET Volumes, DeleteFinal(c, W)
        PROVE  /\ rec[s].id \notin vm'
               /\ \A v \in Volumes : att'[v] # rec[s].id
               /\ UNCHANGED <<use, bound>>
    <2>1. tgt[c] \in Sessions /\ rec[tgt[c]] = exp[c]
      BY <1>1, CommandTyped DEF DeleteFinal
    <2>2. s = tgt[c] /\ W = Attached(exp[c].id)
      BY <1>1 DEF DeleteFinal, TypeOK
    <2> QED
      BY <1>1, <2>1, <2>2 DEF DeleteFinal, Attached
  <1>2. ASSUME NEW c \in Commands, NEW t \in Sessions, NEW id \in Ids,
               CreateReserve(c, t, id)
        PROVE  FALSE
    BY <1>2 DEF CreateReserve, NoRec, Rec, TypeOK
  <1>3. ASSUME NEW c \in Commands, CreateFinish(c) \/ StopPublish(c)
        PROVE  FALSE
    <2>1. tgt[c] \in Sessions /\ rec[tgt[c]] = exp[c]
      BY <1>3, CommandTyped DEF CreateFinish, StopPublish
    <2> QED
      BY <1>3, <2>1 DEF CreateFinish, StopPublish, Rec, TypeOK
  <1>4. ASSUME NEW c \in Commands, StartPersist(c)
        PROVE  FALSE
    <2>1. /\ tgt[c] \in Sessions /\ rec[tgt[c]] = exp[c]
          /\ exp[c] \in Record
      BY <1>4, CommandTyped DEF StartPersist
    <2> QED
      BY <1>4, <2>1 DEF StartPersist, TypeOK, Record
  <1>5. ASSUME NEW c \in Commands, StartAccept(c)
         PROVE  FALSE
    <2>1. tgt[c] \in Sessions /\ rec[tgt[c]] \in Record
      BY <1>5, CommandTyped DEF StartAccept, TypeOK
    <2> QED
      BY <1>5, <2>1 DEF StartAccept, TypeOK, Record
  <1>6. ASSUME NEW c \in Commands, NEW g \in Gens, NEW W \in SUBSET Volumes,
               StartPrepare(c, g, W)
        PROVE  FALSE
    <2>1. tgt[c] \in Sessions /\ rec[tgt[c]] = exp[c]
      BY <1>6, CommandTyped DEF StartPrepare
    <2> QED
      BY <1>6, <2>1 DEF StartPrepare, Rec, TypeOK
  <1>7. ASSUME NEW c \in Commands, NEW t \in Sessions, DeleteReserve(c, t)
        PROVE  FALSE
    BY <1>7 DEF DeleteReserve, TypeOK, Record
  <1>8. ASSUME NEW c \in Commands, NEW t \in Sessions,
                NEW o \in {"running", "stopped"}, StopBegin(c, t, o)
         PROVE  FALSE
    BY <1>8 DEF StopBegin, TypeOK, Record
  <1>9. RecordWrite
    BY RecordFrame DEF vars, durable
  <1> QED
    BY <1>1, <1>2, <1>3, <1>4, <1>5, <1>6, <1>7, <1>8, <1>9 DEF RecordWrite

(* A record becomes starting only as the commit marker of a full batch.    *)
LEMMA StartedStep ==
    ASSUME TypeOK, RecordsExact, CommandsExact, [Next]_vars,
           NEW s \in Sessions, rec'[s].st \in {"starting", "running"},
           rec[s].st \notin {"starting", "running"}
    PROVE  \E c \in Commands, g \in Gens :
             /\ StartPrepare(c, g, Attached(exp[c].id))
             /\ rec'[s] = Rec("starting", exp[c].id, g)
  <1> USE DEF Save
  <1>1. ASSUME NEW c \in Commands, NEW g \in Gens, NEW W \in SUBSET Volumes,
               StartPrepare(c, g, W)
        PROVE  /\ W = Attached(exp[c].id)
               /\ rec'[s] = Rec("starting", exp[c].id, g)
    <2>1. tgt[c] \in Sessions
      BY <1>1, CommandTyped DEF StartPrepare
    <2> QED
      BY <1>1, <2>1 DEF StartPrepare, TypeOK
  <1>2. ASSUME NEW c \in Commands, NEW t \in Sessions, NEW id \in Ids,
               CreateReserve(c, t, id)
        PROVE  FALSE
    BY <1>2 DEF CreateReserve, Rec, TypeOK
  <1>3. ASSUME NEW c \in Commands, CreateFinish(c) \/ StopPublish(c)
        PROVE  FALSE
    BY <1>3 DEF CreateFinish, StopPublish, Rec, TypeOK
  <1>4. ASSUME NEW c \in Commands, StartPersist(c) \/ StartAccept(c)
        PROVE  FALSE
    <2>1. /\ tgt[c] \in Sessions /\ rec[tgt[c]] = exp[c]
          /\ exp[c].st \in {"starting", "running"}
      BY <1>4, CommandTyped DEF StartPersist, StartAccept, StatesAt
    <2> QED
      BY <1>4, <2>1 DEF StartPersist, StartAccept, TypeOK
  <1>5. ASSUME NEW c \in Commands, NEW W \in SUBSET Volumes, DeleteFinal(c, W)
        PROVE  FALSE
    BY <1>5 DEF DeleteFinal, NoRec, Rec, TypeOK
  <1>6. ASSUME NEW c \in Commands, NEW t \in Sessions,
               \/ DeleteReserve(c, t)
               \/ \E o \in {"running", "stopped"} : StopBegin(c, t, o)
        PROVE  FALSE
    <2>1. rec[t] \in Record
      BY DEF TypeOK
    <2> QED
      BY <1>6, <2>1 DEF DeleteReserve, StopBegin, TypeOK, Record
  <1>7. RecordWrite
    BY RecordFrame DEF vars, durable
  <1> QED
    BY <1>1, <1>2, <1>3, <1>4, <1>5, <1>6, <1>7 DEF RecordWrite

(* Leases keep naming volumes reserved for exactly their generation, all   *)
(* of them, and no volume is leased twice.                                 *)
LEMMA LeasesStep ==
    ASSUME TypeOK, RecordsExact, CommandsExact, NamespaceExact, ActiveRecorded,
           FinishProved, LeasesReserved, NothingOrphaned, UsesBound, [Next]_vars
    PROVE  LeasesReserved'
  <1>1. ASSUME NEW k \in Supervisors, Active(k)'
        PROVE  /\ \A v \in disks'[k] :
                    use'[v] = serves'[k] /\ att'[v] = bound'[serves'[k]]
               /\ \A v \in Volumes : use'[v] = serves'[k] => v \in disks'[k]
    <2>1. CASE OwnerAdmit(k)
      <3>1. /\ disks'[k] = Attached(bound[serves[k]])
            /\ \A v \in Attached(bound[serves[k]]) : use[v] = serves[k]
            /\ UNCHANGED <<use, att, bound, serves>>
        BY <2>1 DEF OwnerAdmit, TypeOK, durable
      <3>2. serves[k] \in Gens
        BY <2>1 DEF OwnerAdmit, NamespaceExact
      <3>3. \A v \in Volumes : use[v] = serves[k] => att[v] = bound[serves[k]]
        BY <3>2, NoneAssumption DEF NothingOrphaned
      <3> QED
        BY <3>1, <3>3 DEF Attached
    <2>2. CASE Kept(k)
      <3>1. /\ Active(k) /\ serves'[k] = serves[k] /\ disks'[k] = disks[k]
            /\ disks[k] \subseteq Volumes
            /\ serves[k] \in Gens /\ bound[serves[k]] # None
        BY <2>2 DEF Kept, NamespaceExact, Active, Leasing, TypeOK
      <3>2. bound'[serves[k]] = bound[serves[k]]
        BY <3>1, BoundStep
      <3>3. ASSUME NEW v \in disks[k]
            PROVE  use'[v] = serves[k] /\ att'[v] = bound[serves[k]]
        <4>1. v \in Volumes /\ use[v] = serves[k] /\ att[v] = bound[serves[k]]
          BY <3>1 DEF LeasesReserved
        <4>2. use'[v] = use[v]
          BY <3>1, <4>1, UseStep, NoneAssumption
        <4>3. att'[v] = att[v]
          BY <3>1, <4>1, AttStep, NoneAssumption
        <4> QED
          BY <4>1, <4>2, <4>3
      <3>4. ASSUME NEW v \in Volumes, use'[v] = serves[k]
            PROVE  v \in disks[k]
        <4>1. ASSUME NEW c \in Commands, NEW g \in Gens, NEW W \in SUBSET Volumes,
                     StartPrepare(c, g, W), use'[v] = g
              PROVE  FALSE
          BY <3>1, <3>4, <4>1 DEF StartPrepare
        <4>2. use'[v] = use[v]
          BY <3>1, <3>4, <4>1, UseCases, NoneAssumption
        <4> QED
          BY <3>1, <3>4, <4>2 DEF LeasesReserved
      <3> QED
        BY <3>1, <3>2, <3>3, <3>4
    <2> QED
      BY <1>1, <2>1, <2>2, ActiveStep
  <1>2. ASSUME NEW j \in Supervisors, NEW k \in Supervisors,
               sup[k] \in Leasing, NEW v \in disks[k], OwnerAdmit(j)
        PROVE  v \notin disks'[j]
    BY <1>2 DEF OwnerAdmit, VolumeFree, TypeOK
  <1>3. ASSUME NEW j \in Supervisors, NEW k \in Supervisors,
               sup'[j] \in Leasing, sup'[k] \in Leasing, j # k,
               NEW v \in disks'[j], v \in disks'[k]
        PROVE  FALSE
    <2>1. /\ Kept(j) \/ OwnerAdmit(j)
          /\ Kept(k) \/ OwnerAdmit(k)
      BY <1>3, ActiveStep DEF Active
    <2>2. ASSUME NEW i \in Supervisors, NEW l \in Supervisors, i # l,
                 OwnerAdmit(i), sup'[l] \in Leasing
          PROVE  sup[l] \in Leasing /\ disks'[l] = disks[l]
      BY <2>2 DEF OwnerAdmit, TypeOK
    <2>3. CASE OwnerAdmit(j)
      BY <1>2, <1>3, <2>2, <2>3
    <2>4. CASE OwnerAdmit(k)
      BY <1>2, <1>3, <2>2, <2>4
    <2>5. CASE Kept(j) /\ Kept(k)
      BY <1>3, <2>5 DEF Kept, LeasesReserved
    <2> QED
      BY <2>1, <2>3, <2>4, <2>5
  <1> QED
    BY <1>1, <1>3 DEF LeasesReserved

(* Objects appear only by the clone of a recorded creation.                *)
LEMMA VmStep ==
    ASSUME TypeOK, RecordsExact, CommandsExact, [Next]_vars,
           NEW id \in vm', id \notin vm
    PROVE  UNCHANGED rec /\ \E s \in Sessions : rec[s].id = id
  <1> DEFINE Goal == UNCHANGED rec /\ \E s \in Sessions : rec[s].id = id
  <1>1. ASSUME NEW c \in Commands, CreateClone(c)
        PROVE  Goal
    <2>1. tgt[c] \in Sessions /\ rec[tgt[c]] = exp[c]
      BY <1>1, CommandTyped DEF CreateClone
    <2> QED
      BY <1>1, <2>1 DEF CreateClone
  <1>2. ASSUME NEW c \in Commands, DeleteBackend(c)
        PROVE  FALSE
    BY <1>2 DEF DeleteBackend
  <1>3. CASE UNCHANGED vm
    BY <1>3
  <1> HIDE DEF Goal
  <1>4. ASSUME NEW c \in Commands, CommandStep(c)
        PROVE  Goal
    BY <1>1, <1>2, <1>3, <1>4 DEF CommandStep, CreateFinish, StartRelease,
       StopRelease, DeleteFinal, StartPrepare, StartPersist, StartRelaunch,
       StartPublish, StartSpawn, StartWatch, StartAccept, StopProve,
       ControlStop, StopPublish, Abort, durable
  <1>5. ASSUME NEW c \in Commands, NEW s \in Sessions, CommandBegin(c, s)
        PROVE  Goal
    BY <1>3, <1>5 DEF CommandBegin, CreateReserve, CreateResume, StartStopped,
       StartRunning, StartRetryLaunch, StartRetryReady, StartRetryPoisoned,
       Retry, StopStopped, StopBegin, DeleteReserve, DeleteRetry, durable
  <1>6. ASSUME NEW s \in Sessions, NEW v \in Volumes, Attach(s, v) \/ Detach(s, v)
        PROVE  Goal
    BY <1>3, <1>6 DEF Attach, Detach
  <1>7. ASSUME NEW k \in Supervisors, SupervisorStep(k)
        PROVE  Goal
    BY <1>3, <1>7 DEF SupervisorStep, OwnerOpen, OwnerClaim, ChildExit,
       OwnerAdmit, OwnerRefuse, OwnerLaunch, OwnerQuit, MachineEnds, OwnerReap,
       OwnerCheck, OwnerClean, OwnerLost, durable
  <1>8. CASE UNCHANGED vars
    BY <1>3, <1>8 DEF vars, durable
  <1> QED
    BY <1>4, <1>5, <1>6, <1>7, <1>8 DEF Next, Goal

(* Uses keep naming generations that were really generated.                *)
LEMMA UsesBoundStep ==
    ASSUME TypeOK, RecordsExact, CommandsExact, UsesBound, [Next]_vars
    PROVE  UsesBound'
  <1> SUFFICES ASSUME NEW v \in Volumes, use'[v] # None
               PROVE  bound'[use'[v]] # None
    BY DEF UsesBound
  <1>1. CASE use'[v] = use[v]
    <2>1. use[v] \in Gens /\ bound[use[v]] # None
      BY <1>1 DEF UsesBound, TypeOK
    <2> QED
      BY <1>1, <2>1, BoundStep
  <1>2. CASE use'[v] # use[v]
    <2>1. PICK c \in Commands, g \in Gens, W \in SUBSET Volumes :
            StartPrepare(c, g, W) /\ use'[v] = g
      BY <1>2, UseCases
    <2>2. exp[c].id \in Ids
      BY <2>1, CommandTyped DEF StartPrepare
    <2>3. bound'[g] = exp[c].id
      BY <2>1 DEF StartPrepare, TypeOK
    <2> QED
      BY <2>1, <2>2, <2>3, NoneAssumption
  <1> QED
    BY <1>1, <1>2

(* Nothing loses the record it is found by.                                *)
LEMMA OrphanStep ==
    ASSUME TypeOK, RecordsExact, CommandsExact, UsesBound, NothingOrphaned,
           [Next]_vars
    PROVE  NothingOrphaned'
  <1>1. ASSUME NEW id, id # None, NEW s \in Sessions, rec[s].id = id,
               id \in vm' \/ \E v \in Volumes : att'[v] = id
        PROVE  \E t \in Sessions : rec'[t].id = id
    BY <1>1, IdStep
  <1>2. ASSUME NEW id \in vm'
        PROVE  \E t \in Sessions : rec'[t].id = id
    <2>1. id # None
      <3>1. vm' \subseteq Ids
        BY TypeStep DEF TypeOK
      <3> QED
        BY <3>1, NoneAssumption
    <2>2. CASE id \in vm
      BY <1>1, <2>1, <2>2 DEF NothingOrphaned
    <2>3. CASE id \notin vm
      BY <2>3, VmStep
    <2> QED
      BY <2>2, <2>3
  <1>3. ASSUME NEW v \in Volumes, att'[v] # None
        PROVE  \E t \in Sessions : rec'[t].id = att'[v]
    <2>1. CASE att'[v] = att[v]
      BY <1>1, <1>3, <2>1 DEF NothingOrphaned
    <2>2. CASE att'[v] # att[v]
      <3>1. PICK s \in Sessions : Attach(s, v) /\ att'[v] = rec[s].id
        BY <1>3, <2>2, AttStep
      <3> QED
        BY <3>1 DEF Attach
    <2> QED
      BY <2>1, <2>2
  <1>4. ASSUME NEW v \in Volumes, use'[v] # None
        PROVE  att'[v] = bound'[use'[v]]
    <2>1. CASE use'[v] = use[v]
      <3>1. /\ use[v] \in Gens /\ bound[use[v]] # None
            /\ att[v] = bound[use[v]]
        BY <1>4, <2>1 DEF UsesBound, NothingOrphaned, TypeOK
      <3>2. att'[v] = att[v]
        BY <1>4, <2>1, AttStep
      <3> QED
        BY <2>1, <3>1, <3>2, BoundStep
    <2>2. CASE use'[v] # use[v]
      <3>1. PICK c \in Commands, g \in Gens, W \in SUBSET Volumes :
              StartPrepare(c, g, W) /\ v \in W /\ use'[v] = g
        BY <1>4, <2>2, UseCases
      <3>2. bound'[g] = exp[c].id /\ att'[v] = exp[c].id
        BY <3>1 DEF StartPrepare, TypeOK, Attached
      <3> QED
        BY <3>1, <3>2
    <2> QED
      BY <2>1, <2>2
  <1>5. None \notin vm'
    <2>1. TypeOK'
      BY TypeStep
    <2> QED
      BY <2>1, NoneAssumption DEF TypeOK
  <1> QED
    BY <1>2, <1>3, <1>4, <1>5 DEF NothingOrphaned

(* The starting record stays the commit marker of a complete batch.        *)
LEMMA StartedUsesStep ==
    ASSUME TypeOK, RecordsExact, CommandsExact, StartedUsesComplete, [Next]_vars
    PROVE  StartedUsesComplete'
  <1> SUFFICES ASSUME NEW s \in Sessions,
                      rec'[s].st \in {"starting", "running"},
                      NEW v \in Volumes, att'[v] = rec'[s].id
               PROVE  use'[v] = rec'[s].gen
    BY DEF StartedUsesComplete, VerifyUses, Attached
  <1>1. CASE rec[s].st \in {"starting", "running"}
    <2>1. rec[s].gen # None
      BY <1>1 DEF RecordsExact
    <2>2. rec'[s].gen = rec[s].gen /\ rec'[s].id = rec[s].id
      <3>1. rec'[s] # Rec("stopped", rec[s].id, None)
        BY DEF Rec
      <3> QED
        BY <2>1, <3>1, GenerationStep
    <2>3. CASE att'[v] = att[v]
      <3>1. use[v] = rec[s].gen
        BY <1>1, <2>2, <2>3 DEF StartedUsesComplete, VerifyUses, Attached
      <3>2. ASSUME use'[v] # use[v]
            PROVE  FALSE
        <4>1. use[v] # None
          BY <2>1, <3>1
        <4>2. ASSUME NEW t \in Sessions, rec[t].st \in {"stopped", "stopping"},
                     att[v] = rec[t].id
              PROVE  FALSE
          BY <1>1, <2>2, <2>3, <4>2 DEF RecordsExact
        <4>3. ASSUME NEW c \in Commands, NEW g \in Gens, NEW W \in SUBSET Volumes,
                     StartPrepare(c, g, W), v \in W
              PROVE  use[v] = None
          BY <4>3 DEF StartPrepare
        <4> QED
          BY <3>2, <4>1, <4>2, <4>3, UseCases
      <3> QED
        BY <2>2, <3>1, <3>2
    <2>4. CASE att'[v] # att[v]
      <3>1. rec'[s].id # None
        BY <1>1, <2>2 DEF RecordsExact
      <3>2. PICK t \in Sessions : Attach(t, v) /\ att'[v] = rec[t].id
        BY <2>4, <3>1, AttStep
      <3>3. t = s
        BY <2>2, <3>1, <3>2 DEF RecordsExact
      <3> QED
        BY <1>1, <3>2, <3>3 DEF Attach, StoppedSession
    <2> QED
      BY <2>3, <2>4
  <1>2. CASE rec[s].st \notin {"starting", "running"}
    <2>1. PICK c \in Commands, g \in Gens :
            /\ StartPrepare(c, g, Attached(exp[c].id))
            /\ rec'[s] = Rec("starting", exp[c].id, g)
      BY <1>2, StartedStep
    <2>2. v \in Attached(exp[c].id)
      BY <2>1 DEF StartPrepare, Rec, Attached
    <2> QED
      BY <2>1, <2>2 DEF StartPrepare, Rec
  <1> QED
    BY <1>1, <1>2

-----------------------------------------------------------------------------
(* The invariant and the theorems.                                         *)

(* Nothing exists initially, so the invariant holds.                       *)
LEMMA InvInit == Init => Inv
  <1> SUFFICES ASSUME Init PROVE IndInv
    BY TypeInit DEF Inv
  <1>1. RecordsExact /\ CommandsExact
    BY DEF Init, RecordsExact, CommandsExact, NoRec, Rec
  <1>2. NamespaceExact /\ LockExact /\ UsesBound
    BY DEF Init, NamespaceExact, LockExact, Launched, UsesBound
  <1>3. \A k \in Supervisors : ~Active(k) /\ sup[k] \notin Leasing
    BY DEF Init, Active, Leasing
  <1>4. ActiveRecorded /\ LeasesReserved
    BY <1>3 DEF ActiveRecorded, LeasesReserved
  <1>5. FinishProved
    BY <1>3 DEF FinishProved
  <1>6. NothingOrphaned
    BY DEF Init, NothingOrphaned
  <1>7. StartedUsesComplete
    BY DEF Init, StartedUsesComplete, NoRec, Rec
  <1> QED
    BY <1>1, <1>2, <1>4, <1>5, <1>6, <1>7 DEF IndInv

(* Every step of every command and supervisor preserves the invariant.     *)
LEMMA InvStep == Inv /\ [Next]_vars => Inv'
  <1> SUFFICES ASSUME Inv, [Next]_vars PROVE Inv'
    OBVIOUS
  <1> USE DEF Inv, IndInv
  <1>1. TypeOK' /\ RecordsExact' /\ CommandsExact'
    BY TypeStep, RecordsStep, CommandsStep
  <1>2. NamespaceExact' /\ LockExact'
    BY NamespaceStep, LockStep
  <1>3. ActiveRecorded' /\ FinishProved'
    BY ActiveRecordedStep, FinishStep
  <1>4. LeasesReserved' /\ NothingOrphaned'
    BY LeasesStep, OrphanStep
  <1>5. UsesBound' /\ StartedUsesComplete'
    BY UsesBoundStep, StartedUsesStep
  <1> QED
    BY <1>1, <1>2, <1>3, <1>4, <1>5

(* The inductive invariant holds in every reachable state, for any number  *)
(* of sessions, volumes, commands, identities, generations and             *)
(* supervisors, two or more of which may believe they own one generation.  *)
THEOREM Invariance == Spec => []Inv
  BY InvInit, InvStep, PTL DEF Spec

(* Records, volumes, runtime and commands always have their types.         *)
THEOREM TypeCorrect == Spec => []TypeOK
  <1>1. Inv => TypeOK
    BY DEF Inv
  <1> QED
    BY <1>1, Invariance, PTL

(* The inductive strengthening itself, as the runs check it.               *)
THEOREM Inductive == Spec => []IndInv
  <1>1. Inv => IndInv
    BY DEF Inv
  <1> QED
    BY <1>1, Invariance, PTL

(* A running machine's volumes stay reserved for exactly its launch.       *)
THEOREM DisksReserved == Spec => []RunningDisksReserved
  <1>1. Inv => RunningDisksReserved
    BY DEF Inv, IndInv, LeasesReserved, Active, RunningDisksReserved, TypeOK
  <1> QED
    BY <1>1, Invariance, PTL

(* A durably stopped, creating or deleting record means that no machine of *)
(* the session that was given volumes runs and that no supervisor of it    *)
(* holds volume leases, although two supervisors may serve a generation.   *)
THEOREM StoppedQuiet == Spec => []StoppedMeansQuiet
  <1>1. Inv => StoppedMeansQuiet
    BY QuietRecord DEF Inv, IndInv, StoppedMeansQuiet, Active
  <1> QED
    BY <1>1, Invariance, PTL

(* Two machines with volumes never run on one backend object, whichever    *)
(* supervisors, of one generation or of two, launched them.                *)
THEOREM OneLaunch == Spec => []OneLaunchPerObject
  <1>1. ASSUME Inv, NEW j \in running, NEW k \in running,
               WithVolumes(j), WithVolumes(k), bound[serves[j]] = bound[serves[k]]
        PROVE  j = k
    <2>0. j \in Supervisors /\ k \in Supervisors
      BY <1>1 DEF Inv, TypeOK
    <2>1. PICK s \in Sessions : rec[s].gen = serves[j] /\ rec[s].id = bound[serves[j]]
      BY <1>1, <2>0 DEF Inv, IndInv, ActiveRecorded, Active
    <2>2. PICK t \in Sessions : rec[t].gen = serves[k] /\ rec[t].id = bound[serves[k]]
      BY <1>1, <2>0 DEF Inv, IndInv, ActiveRecorded, Active
    <2>3. rec[s].id # None
      BY <1>1, <2>0, <2>1 DEF Inv, IndInv, NamespaceExact
    <2>4. serves[j] = serves[k]
      BY <1>1, <2>1, <2>2, <2>3 DEF Inv, IndInv, RecordsExact
    <2> QED
      BY <1>1, <2>0, <2>4 DEF Inv, IndInv, NamespaceExact, Launched
  <1>2. Inv => OneLaunchPerObject
    BY <1>1 DEF OneLaunchPerObject
  <1> QED
    BY <1>2, Invariance, PTL

(* Every object, attachment and Use belongs to a session with a record.    *)
THEOREM NoOrphans == Spec => []NothingOrphaned
  <1>1. Inv => NothingOrphaned
    BY DEF Inv, IndInv
  <1> QED
    BY <1>1, Invariance, PTL

(* A started session's attached volumes all carry its exact generation, so *)
(* that a retried start is never refused by VerifySessionUses.             *)
THEOREM StartedComplete == Spec => []StartedUsesComplete
  <1>1. Inv => StartedUsesComplete
    BY DEF Inv, IndInv
  <1> QED
    BY <1>1, Invariance, PTL

(* A Use is taken away only from a launch that has been reaped.            *)
THEOREM ReleasedAfterReap == Spec => UseReleasedAfterReap
  <1>1. ASSUME Inv, [Next]_vars, NEW v \in Volumes, use[v] # None,
               use'[v] # use[v], NEW k \in Supervisors, serves[k] = use[v]
        PROVE  k \notin running \cup running' /\ sup[k] \notin Leasing
    BY <1>1, UseStep DEF Inv, IndInv, Active, runtime
  <1>2. Inv /\ [Next]_vars =>
          [\A v \in Volumes : use[v] # None /\ use'[v] # use[v] =>
              \A k \in Supervisors : serves[k] = use[v] =>
                  k \notin running \cup running' /\ sup[k] \notin Leasing]_vars
    BY <1>1
  <1> QED
    BY <1>2, Invariance, PTL DEF Spec, UseReleasedAfterReap

(* A committed generation ends only by the published stop.                 *)
THEOREM StableGeneration == Spec => GenerationStable
  <1>1. ASSUME Inv, [Next]_vars, NEW s \in Sessions, rec[s].gen # None
        PROVE  \/ rec'[s].gen = rec[s].gen /\ rec'[s].id = rec[s].id
               \/ rec'[s] = Rec("stopped", rec[s].id, None)
                     /\ rec[s].st = "stopping"
    BY <1>1, GenerationStep DEF Inv, IndInv
  <1>2. Inv /\ [Next]_vars =>
          [\A s \in Sessions : rec[s].gen # None =>
              \/ rec'[s].gen = rec[s].gen /\ rec'[s].id = rec[s].id
              \/ rec'[s] = Rec("stopped", rec[s].id, None)
                    /\ rec[s].st = "stopping"]_vars
    BY <1>1
  <1> QED
    BY <1>2, Invariance, PTL DEF Spec, GenerationStable
=============================================================================
