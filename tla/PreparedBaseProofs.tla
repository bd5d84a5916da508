------------------------- MODULE PreparedBaseProofs -------------------------
(***************************************************************************)
(* What PreparedBase promises holds for any number of attempts and keys    *)
(* and any number of faults, edits and registrations.                      *)
(*                                                                         *)
(* CacheQualified is not inductive by itself. A record enters the cache    *)
(* from the journal, so what the journal says of an admission must be true *)
(* (PendingQualified), and it is written by a call that has to know what   *)
(* it built and proved (AttemptExact, AdmissionExact).  That nothing is    *)
(* taken from a qualified candidate later rests on one fact: only a Build  *)
(* or qualification spoils a candidate, and it works on an attempt nothing *)
(* was admitted from (Unadmitted), because Reserve refuses an attempt      *)
(* whose candidate exists.                                                 *)
(***************************************************************************)
EXTENDS PreparedBase, TLAPS

(* The type of the running Prepare.                                        *)
Call == [pc : PCs, att : Attempt \cup {None}, key : Key \cup {None},
         bkey : Key \cup {None}, seen : 0..3, unproven : BOOLEAN]

(* TypeOK in parts that the actions write together.                        *)
JournalTyped == journal \in [Attempt -> Pair(Journal \cup {None})]
CacheTyped ==
    /\ cache \in [Key -> Pair(Prepared \cup {None})]
    /\ tmp \in [Key -> {"none", "scratch", "linked"}]
FilesTyped ==
    /\ dir \subseteq Attempt /\ next \subseteq Attempt
    /\ seed \subseteq Attempt /\ script \subseteq Attempt
    /\ ev \in [Attempt -> {"none", "bom", "passed", "failed"}]
ObjectTyped ==
    /\ vm \in [Attempt -> {"absent", "stopped", "running"}]
    /\ ver \in [Attempt -> 0..3]
    /\ clone \in [Attempt -> {"none", "stopped", "running"}]
HistoryTyped ==
    /\ src \in Key /\ built \in [Attempt -> Key \cup {None}]
    /\ proved \subseteq Attempt /\ failed \subseteq Attempt
RecordTyped ==
    /\ rec \in [Attempt -> Pair(BOOLEAN)] /\ torn \subseteq Attempt
PointerTyped ==
    /\ cur \in Pair(Attempt \cup {None})
    /\ glock \in {None, "prepare", "operator"}
    /\ reg \in [rev : Attempt \cup {None}, pc : {"idle", "record", "pointer"}]
ResultTyped == result \in [att : Attempt, key : Key, seen : 0..3] \cup {None}
BoundsTyped == faults \in 0..MaxFault /\ acts \in 0..MaxActs

(* TypeOK is the conjunction of its parts.                                 *)
LEMMA TypeParts ==
    TypeOK <=> /\ JournalTyped /\ CacheTyped /\ FilesTyped /\ ObjectTyped
               /\ HistoryTyped /\ RecordTyped /\ PointerTyped
               /\ op \in Call /\ ResultTyped /\ BoundsTyped
  BY Zenon DEF TypeOK, JournalTyped, CacheTyped, FilesTyped, ObjectTyped,
     HistoryTyped, RecordTyped, PointerTyped, Call, ResultTyped, BoundsTyped

(* A call goes to another step, or ends.                                   *)
LEMMA CallMoves ==
    ASSUME NEW c \in Call
    PROVE  /\ \A p \in PCs : /\ [c EXCEPT !.pc = p] \in Call
                              /\ [c EXCEPT !.pc = p].pc = p
                              /\ [c EXCEPT !.pc = p].att = c.att
                              /\ [c EXCEPT !.pc = p].key = c.key
                              /\ [c EXCEPT !.pc = p].bkey = c.bkey
                              /\ [c EXCEPT !.pc = p].seen = c.seen
                              /\ [c EXCEPT !.pc = p].unproven = c.unproven
           /\ NoOp \in Call /\ NoOp.pc = "idle"
  BY DEF Call, NoOp, PCs

(* A state of the journal that records no admission.                       *)
LEMMA StateTyped ==
    ASSUME NEW ph \in Phases, NEW k \in Key
    PROVE  /\ State(ph, k) \in Journal
           /\ State(ph, k).phase = ph /\ State(ph, k).key = k
  BY DEF State, Journal

(* What writeAttempt does to the journal of its attempt, to the call and   *)
(* to the history.                                                         *)
LEMMA WriteEffect ==
    ASSUME JournalTyped, op \in Call, BoundsTyped,
           NEW a \in Attempt, NEW state \in Journal, NEW ok \in PCs,
           NEW bad \in PCs, writeAttempt(a, state, ok, bad)
    PROVE  /\ journal' \in [Attempt -> Pair(Journal \cup {None})]
           /\ \A b \in Attempt : b # a => journal'[b] = journal[b]
           /\ journal'[a].mem \in {journal[a].mem, state}
           /\ journal'[a].dur \in {journal[a].dur, state}
           /\ \/ op' = [op EXCEPT !.pc = ok] /\ journal'[a] = Both(state)
              \/ op' = [op EXCEPT !.pc = bad]
           /\ failed' \subseteq failed \cup {a} /\ failed \subseteq failed'
           /\ state.phase # "failed" => failed' = failed
           /\ faults' \in 0..MaxFault /\ acts' \in 0..MaxActs
  <1> USE DEF JournalTyped, writeAttempt, Goto
  <1>1. journal' \in [Attempt -> Pair(Journal \cup {None})]
    <2>1. CASE journal' = [journal EXCEPT ![a] = Both(state)]
      BY <2>1 DEF Pair, Both
    <2>2. CASE journal' = [journal EXCEPT ![a].mem = state]
      <3>1. [journal[a] EXCEPT !.mem = state] \in Pair(Journal \cup {None})
        BY DEF Pair
      <3> QED
        BY <2>2, <3>1
    <2> QED
      BY <2>1, <2>2
  <1>2. /\ \A b \in Attempt : b # a => journal'[b] = journal[b]
        /\ journal'[a].mem \in {journal[a].mem, state}
        /\ journal'[a].dur \in {journal[a].dur, state}
    BY DEF Pair, Both
  <1>3. \/ op' = [op EXCEPT !.pc = ok] /\ journal'[a] = Both(state)
        \/ op' = [op EXCEPT !.pc = bad]
    OBVIOUS
  <1>4. faults' \in 0..MaxFault /\ acts' \in 0..MaxActs
    BY PreparedAssumption DEF BoundsTyped, NoFault, Fault, bounds
  <1>5. /\ failed' \subseteq failed \cup {a} /\ failed \subseteq failed'
        /\ state.phase # "failed" => failed' = failed
    OBVIOUS
  <1> QED
    BY <1>1, <1>2, <1>3, <1>4, <1>5

-----------------------------------------------------------------------------
(* What a step does to the journals, the cache and the call.               *)

(* A state the running Prepare may write into its attempt's journal.       *)
Written(x) ==
    /\ x \in Journal
    /\ \/ op.pc \in Working /\ x.phase \notin Admission
       \/ /\ op.pc = "pending"
          /\ x = [phase |-> "admission-pending", key |-> op.key, receipt |-> TRUE,
                  ident |-> op.seen]
       \/ op.pc = "complete" /\ x = [journal[att].mem EXCEPT !.phase = "admitted"]

JournalEffect ==
    /\ JournalTyped'
    /\ \A a \in Attempt : \A x \in {journal'[a].mem, journal'[a].dur} :
           x \in {journal[a].mem, journal[a].dur, None} \/ (a = att /\ Written(x))

(* A journal write of a Build or qualification, or of a pending admission. *)
LEMMA WriteWritten ==
    ASSUME JournalTyped, op \in Call, BoundsTyped, att \in Attempt,
           NEW state \in Journal, NEW ok \in PCs, NEW bad \in PCs, Written(state),
           writeAttempt(att, state, ok, bad)
    PROVE  JournalEffect
  BY WriteEffect DEF JournalEffect, JournalTyped, att

(* A journal holds what it held, nothing, or what the running Prepare      *)
(* wrote into its own attempt's journal.                                   *)
LEMMA JournalStep ==
    TypeOK /\ AttemptExact /\ AdmissionExact /\ CallExact /\ [Next]_vars => JournalEffect
  <1> SUFFICES ASSUME TypeOK, AttemptExact, AdmissionExact, CallExact,
                      [Next]_vars
               PROVE  JournalEffect
    OBVIOUS
  <1>1. JournalTyped /\ op \in Call /\ BoundsTyped
    BY TypeParts
  <1>2. CASE completeAdmission
    <2> DEFINE new == [journal[att].mem EXCEPT !.phase = "admitted"]
    <2>1. att \in Attempt /\ op.pc = "complete" /\ ReadAttempt(att) = journal[att].mem
      BY <1>2 DEF completeAdmission, CallExact, AdmissionExact, ReadAttempt
    <2>2. journal[att].mem \in Journal
      BY <1>2 DEF completeAdmission, AdmissionExact
    <2>3. new \in Journal /\ Written(new)
      BY <2>1, <2>2 DEF Written, Journal, Phases
    <2>4. journal' \in {journal, [journal EXCEPT ![att] = Both(new)],
                        [journal EXCEPT ![att].mem = new]}
      BY <1>2, <2>1 DEF completeAdmission
    <2> HIDE DEF new
    <2>5. CASE journal' = [journal EXCEPT ![att] = Both(new)]
      BY <2>1, <2>3, <2>5, <1>1 DEF JournalEffect, JournalTyped, Pair, Both
    <2>6. CASE journal' = [journal EXCEPT ![att].mem = new]
      <3>1. [journal[att] EXCEPT !.mem = new] = [mem |-> new, dur |-> journal[att].dur]
        BY <2>1, <1>1 DEF JournalTyped, Pair
      <3>2. journal' = [journal EXCEPT ![att] = [mem |-> new, dur |-> journal[att].dur]]
        BY <2>6, <3>1
      <3> QED
        BY <2>1, <2>3, <3>2, <1>1 DEF JournalEffect, JournalTyped, Pair
    <2> QED
      BY <2>4, <2>5, <2>6, <1>1 DEF JournalEffect, JournalTyped
  <1>3. CASE FirstJournal
    <2>1. /\ att \in Attempt /\ op.bkey \in Key /\ "reserved" \in Phases \ Admission
          /\ op.pc \in Working /\ "stage" \in PCs /\ "idle" \in PCs
      BY <1>3
         DEF FirstJournal, AttemptExact, CallExact, Working, BuildPCs,
             QualifyPCs, Phases, Admission, PCs
    <2>2. Written(State("reserved", op.bkey))
      BY <2>1, StateTyped DEF Written
    <2>3. writeAttempt(att, State("reserved", op.bkey), "stage", "idle")
      BY <1>3 DEF FirstJournal
    <2> QED
      BY <2>1, <2>2, <2>3, StateTyped, WriteWritten, <1>1
  <1>4. CASE RunOwned
    <2>1. /\ att \in Attempt /\ op.bkey \in Key /\ "rendered" \in Phases \ Admission
          /\ op.pc \in Working /\ "create" \in PCs /\ "fail" \in PCs
      BY <1>4
         DEF RunOwned, AttemptExact, CallExact, Working, BuildPCs,
             QualifyPCs, Phases, Admission, PCs
    <2>2. Written(State("rendered", op.bkey))
      BY <2>1, StateTyped DEF Written
    <2>3. CASE UNCHANGED journal
      BY <2>3, <1>1 DEF JournalEffect, JournalTyped
    <2>4. CASE writeAttempt(att, State("rendered", op.bkey), "create", "fail")
      BY <2>1, <2>2, <2>4, StateTyped, WriteWritten, <1>1
    <2> QED
      BY <1>4, <2>3, <2>4 DEF RunOwned
  <1>5. CASE Create
    <2>1. /\ att \in Attempt /\ op.bkey \in Key /\ "created" \in Phases \ Admission
          /\ op.pc \in Working /\ "configure" \in PCs /\ "fail" \in PCs
      BY <1>5
         DEF Create, AttemptExact, CallExact, Working, BuildPCs, QualifyPCs,
             Phases, Admission, PCs
    <2>2. Written(State("created", op.bkey))
      BY <2>1, StateTyped DEF Written
    <2>3. writeAttempt(att, State("created", op.bkey), "configure", "fail")
      BY <1>5 DEF Create
    <2> QED
      BY <2>1, <2>2, <2>3, StateTyped, WriteWritten, <1>1
  <1>6. CASE Configure
    <2>1. /\ att \in Attempt /\ op.bkey \in Key /\ "installer-running" \in Phases \ Admission
          /\ op.pc \in Working /\ "launch" \in PCs /\ "fail" \in PCs
      BY <1>6
         DEF Configure, AttemptExact, CallExact, Working, BuildPCs,
             QualifyPCs, Phases, Admission, PCs
    <2>2. Written(State("installer-running", op.bkey))
      BY <2>1, StateTyped DEF Written
    <2>3. writeAttempt(att, State("installer-running", op.bkey), "launch", "fail")
      BY <1>6 DEF Configure
    <2> QED
      BY <2>1, <2>2, <2>3, StateTyped, WriteWritten, <1>1
  <1>7. CASE WaitFor
    <2>1. /\ att \in Attempt /\ op.bkey \in Key /\ Following[op.pc] \in Phases \ Admission
          /\ op.pc \in Working /\ Following[op.pc] \in PCs /\ "fail" \in PCs
      BY <1>7
         DEF WaitFor, AttemptExact, CallExact, Working, BuildPCs, QualifyPCs,
             Phases, Admission, PCs, Following
    <2>2. Written(State(Following[op.pc], op.bkey))
      BY <2>1, StateTyped DEF Written
    <2>3. writeAttempt(att, State(Following[op.pc], op.bkey), Following[op.pc], "fail")
      BY <1>7 DEF WaitFor
    <2> QED
      BY <2>1, <2>2, <2>3, StateTyped, WriteWritten, <1>1
  <1>8. CASE CandidateStopped
    <2>1. /\ att \in Attempt /\ op.bkey \in Key /\ "candidate-stopped" \in Phases \ Admission
          /\ op.pc \in Working /\ "written" \in PCs /\ "fail" \in PCs
      BY <1>8
         DEF CandidateStopped, AttemptExact, CallExact, Working, BuildPCs,
             QualifyPCs, Phases, Admission, PCs
    <2>2. Written(State("candidate-stopped", op.bkey))
      BY <2>1, StateTyped DEF Written
    <2>3. writeAttempt(att, State("candidate-stopped", op.bkey), "written", "fail")
      BY <1>8 DEF CandidateStopped
    <2> QED
      BY <2>1, <2>2, <2>3, StateTyped, WriteWritten, <1>1
  <1>9. CASE BuildFails
    <2>1. /\ att \in Attempt /\ op.bkey \in Key /\ "failed" \in Phases \ Admission
          /\ op.pc \in Working /\ "idle" \in PCs /\ "idle" \in PCs
      BY <1>9
         DEF BuildFails, AttemptExact, CallExact, Working, BuildPCs,
             QualifyPCs, Phases, Admission, PCs
    <2>2. Written(State("failed", op.bkey))
      BY <2>1, StateTyped DEF Written
    <2>3. writeAttempt(att, State("failed", op.bkey), "idle", "idle")
      BY <1>9 DEF BuildFails
    <2> QED
      BY <2>1, <2>2, <2>3, StateTyped, WriteWritten, <1>1
  <1>10. CASE BuildDone
    <2>1. /\ att \in Attempt /\ op.key \in Key /\ "qualifying" \in Phases \ Admission
          /\ op.pc \in Working /\ "register" \in PCs /\ "idle" \in PCs
      BY <1>10
         DEF BuildDone, AttemptExact, CallExact, Working, BuildPCs,
             QualifyPCs, Phases, Admission, PCs
    <2>2. Written(State("qualifying", op.key))
      BY <2>1, StateTyped DEF Written
    <2>3. CASE UNCHANGED journal
      BY <2>3, <1>1 DEF JournalEffect, JournalTyped
    <2>4. CASE writeAttempt(att, State("qualifying", op.key), "register", "idle")
      BY <2>1, <2>2, <2>4, StateTyped, WriteWritten, <1>1
    <2> QED
      BY <1>10, <2>3, <2>4 DEF BuildDone
  <1>11. CASE AdmissionPending
    <2> DEFINE state == [phase |-> "admission-pending", key |-> op.key,
                         receipt |-> TRUE, ident |-> op.seen]
    <2>1. att \in Attempt /\ op.key \in Key /\ op.seen \in 0..3 /\ op.pc = "pending"
      BY <1>11, <1>1 DEF AdmissionPending, CallExact, Call
    <2>2. state \in Journal
      BY <2>1 DEF Journal, Phases
    <2>3. Written(state)
      BY <2>1, <2>2 DEF Written
    <2>4. writeAttempt(att, state, "store", "idle")
      BY <1>11 DEF AdmissionPending
    <2>5. "store" \in PCs /\ "idle" \in PCs
      BY DEF PCs
    <2> HIDE DEF state
    <2> QED
      BY <2>1, <2>2, <2>3, <2>4, <2>5, WriteWritten, <1>1
  <1>12. CASE QualificationFails
    <2>1. /\ att \in Attempt /\ op.key \in Key /\ "failed" \in Phases \ Admission
          /\ op.pc \in Working /\ "idle" \in PCs /\ "idle" \in PCs
      BY <1>12
         DEF QualificationFails, AttemptExact, CallExact, Working, BuildPCs,
             QualifyPCs, Phases, Admission, PCs
    <2>2. Written(State("failed", op.key))
      BY <2>1, StateTyped DEF Written
    <2>3. writeAttempt(att, State("failed", op.key), "idle", "idle")
      BY <1>12 DEF QualificationFails
    <2> QED
      BY <2>1, <2>2, <2>3, StateTyped, WriteWritten, <1>1
  <1>13. CASE PowerLoss
    <2>1. PICK lost \in SUBSET dir :
              journal' \in {[a \in Attempt |-> IF a \in lost THEN Both(None)
                                              ELSE Both(journal[a].mem)],
                           [a \in Attempt |-> IF a \in lost THEN Both(None)
                                              ELSE Both(journal[a].dur)]}
      BY <1>13 DEF PowerLoss
    <2>2. \A a \in Attempt : /\ journal[a].mem \in Journal \cup {None}
                             /\ journal[a].dur \in Journal \cup {None}
      BY <1>1 DEF JournalTyped, Pair
    <2>3. JournalTyped'
      BY <2>1, <2>2, <1>1 DEF JournalTyped, Pair, Both
    <2> QED
      BY <2>1, <2>3 DEF JournalEffect, Both
  <1>14. CASE UNCHANGED journal
    BY <1>14, <1>1 DEF JournalEffect, JournalTyped
  <1> QED
    BY <1>2, <1>3, <1>4, <1>5, <1>6, <1>7, <1>8, <1>9, <1>10, <1>11, <1>12,
       <1>13, <1>14, ZenonT(60)
       DEF Next, PrepareStep, BuildStep, QualifyStep, finishPublishedRecord,
           LoadFound, resumePendingAdmission, storePrepared, StoreFinish,
           PrepareFails, Reserve, Stage, BuilderVerifier, RunInstaller,
           Poweroff, BuildStepFails, RegisterRevision,
           CreateFreshFromRevision, StartClone, Inspect, StopClone,
           writePrivate, Recheck, QualifyStepFails, PersistRecord,
           replaceAtomically, EditSource, Prepare, Register, InstallerExits,
           ScriptEnds, CandidateAltered, Killed, vars, store, object, host,
           history, golden, bounds, stageBuildInputs

CacheEffect ==
    /\ CacheTyped'
    /\ \A k \in Key : \A x \in {cache'[k].mem, cache'[k].dur} :
           \/ x \in {cache[k].mem, cache[k].dur}
           \/ op.pc = "store" /\ k = op.key /\ x = [att |-> att, ident |-> 2]

(* A cache record appears only when the record of a recorded admission is  *)
(* stored.                                                                 *)
LEMMA CacheStep ==
    TypeOK /\ AdmissionExact /\ CallExact /\ [Next]_vars => CacheEffect
  <1> SUFFICES ASSUME TypeOK, AdmissionExact, CallExact, [Next]_vars
               PROVE  CacheEffect
    OBVIOUS
  <1>1. CacheTyped
    BY TypeParts
  <1>2. CASE finishPublishedRecord
    <2>1. op.key \in Key
      BY <1>2 DEF finishPublishedRecord, CallExact
    <2>2. cache' \in {cache, Synced(cache)} /\ tmp' = [tmp EXCEPT ![op.key] = "none"]
      BY <1>2 DEF finishPublishedRecord
    <2> QED
      BY <1>1, <2>1, <2>2 DEF CacheEffect, CacheTyped, Pair, Both, Synced
  <1>3. CASE storePrepared
    <2>1. op.key \in Key /\ att \in Attempt /\ op.pc = "store" /\ journal[att].mem.ident = 2
      BY <1>3 DEF storePrepared, CallExact, AdmissionExact
    <2> DEFINE new == [att |-> att, ident |-> 2]
    <2>2. new \in Prepared
      BY <2>1 DEF Prepared
    <2>3. [cache[op.key] EXCEPT !.mem = new] = [mem |-> new, dur |-> cache[op.key].dur]
      BY <1>1, <2>1 DEF CacheTyped, Pair
    <2>4. cache' = [cache EXCEPT ![op.key] = [mem |-> new, dur |-> cache[op.key].dur]]
      BY <1>3, <2>1, <2>3 DEF storePrepared
    <2>5. tmp' = [tmp EXCEPT ![op.key] = "linked"]
      BY <1>3 DEF storePrepared
    <2> HIDE DEF new
    <2>6. CacheTyped'
      BY <1>1, <2>1, <2>2, <2>4, <2>5 DEF CacheTyped, Pair
    <2>7. \A k \in Key : \A x \in {cache'[k].mem, cache'[k].dur} :
              \/ x \in {cache[k].mem, cache[k].dur}
              \/ k = op.key /\ x = new
      BY <1>1, <2>1, <2>4 DEF CacheTyped, Pair
    <2> QED
      BY <2>1, <2>6, <2>7 DEF CacheEffect, new
  <1>4. CASE StoreFinish
    <2>1. op.key \in Key
      BY <1>4 DEF StoreFinish, CallExact
    <2>2. cache' \in {cache, Synced(cache)} /\ tmp' = [tmp EXCEPT ![op.key] = "none"]
      BY <1>4 DEF StoreFinish
    <2> QED
      BY <1>1, <2>1, <2>2 DEF CacheEffect, CacheTyped, Pair, Both, Synced
  <1>5. CASE Killed
    <2>1. cache' = cache /\ op.key \in Key
      BY <1>5 DEF Killed, CallExact
    <2>2. tmp' \in {tmp, [tmp EXCEPT ![op.key] = "scratch"]}
      BY <1>5 DEF Killed
    <2> QED
      BY <1>1, <2>1, <2>2 DEF CacheEffect, CacheTyped
  <1>6. CASE PowerLoss
    <2>1. PICK keep \in SUBSET Key :
            /\ cache' = [k \in Key |-> Both(IF k \in keep THEN cache[k].mem ELSE cache[k].dur)]
            /\ tmp' = [k \in Key |-> IF tmp[k] = "linked" /\ cache'[k].mem = None
                                     THEN "scratch" ELSE tmp[k]]
      BY <1>6 DEF PowerLoss
    <2> QED
      BY <1>1, <2>1 DEF CacheEffect, CacheTyped, Pair, Both
  <1>7. CASE UNCHANGED <<cache, tmp>>
    BY <1>7, <1>1 DEF CacheEffect, CacheTyped
  <1> QED
    BY <1>2, <1>3, <1>4, <1>5, <1>6, <1>7, ZenonT(60)
       DEF Next, PrepareStep, BuildStep, QualifyStep, LoadFound,
           resumePendingAdmission, completeAdmission, PrepareFails, Reserve,
           FirstJournal, Stage, BuilderVerifier, RunOwned, Create, Configure,
           RunInstaller, WaitFor, Poweroff, CandidateStopped, BuildStepFails,
           BuildFails, BuildDone, RegisterRevision, CreateFreshFromRevision,
           StartClone, Inspect, StopClone, writePrivate, Recheck,
           AdmissionPending, QualifyStepFails, QualificationFails,
           PersistRecord, replaceAtomically, EditSource, Prepare, Register,
           InstallerExits, ScriptEnds, CandidateAltered, vars, store, object,
           host, history, golden, bounds, stageBuildInputs

(* The attempt directories and their files keep their types.               *)
LEMMA FilesStep ==
    TypeOK /\ CallExact /\ [Next]_vars => FilesTyped'
  <1> SUFFICES ASSUME TypeOK, CallExact, [Next]_vars
               PROVE  FilesTyped'
    OBVIOUS
  <1>1. FilesTyped
    BY TypeParts
  <1>2. CASE completeAdmission
    <2>1. att \in Attempt
      BY <1>2 DEF completeAdmission, CallExact
    <2> QED
      BY <1>2, <1>1, <2>1 DEF completeAdmission, FilesTyped, host
  <1>3. CASE Reserve
    <2>1. att \in Attempt
      BY <1>3 DEF Reserve, CallExact
    <2> QED
      BY <1>3, <1>1, <2>1 DEF Reserve, FilesTyped, host
  <1>4. CASE BuilderVerifier
    <2>1. att \in Attempt
      BY <1>4 DEF BuilderVerifier, CallExact
    <2> QED
      BY <1>4, <1>1, <2>1 DEF BuilderVerifier, FilesTyped, store
  <1>5. CASE RunOwned
    <2>1. att \in Attempt
      BY <1>5 DEF RunOwned, CallExact
    <2> QED
      BY <1>5, <1>1, <2>1 DEF RunOwned, FilesTyped
  <1>6. CASE CandidateStopped
    <2>1. seed' \in {seed, seed \ {att}}
      BY <1>6 DEF CandidateStopped, removeVerifier
    <2> QED
      BY <1>6, <1>1, <2>1 DEF CandidateStopped, FilesTyped
  <1>7. CASE BuildFails
    <2>1. att \in Attempt
      BY <1>7 DEF BuildFails, CallExact
    <2> QED
      BY <1>7, <1>1, <2>1 DEF BuildFails, FilesTyped, removeVerifier
  <1>8. CASE writePrivate
    <2>1. att \in Attempt
      BY <1>8 DEF writePrivate, CallExact
    <2> QED
      BY <1>8, <1>1, <2>1 DEF writePrivate, FilesTyped, store
  <1>9. CASE QualificationFails
    <2>1. att \in Attempt
      BY <1>9 DEF QualificationFails, CallExact
    <2> QED
      BY <1>9, <1>1, <2>1 DEF QualificationFails, FilesTyped
  <1>10. ASSUME NEW a \in Attempt, ScriptEnds(a)
         PROVE  FilesTyped'
    BY <1>10, <1>1 DEF ScriptEnds, FilesTyped, store
  <1>11. CASE Killed
    <2>1. att \in Attempt
      BY <1>11 DEF Killed, CallExact
    <2> QED
      BY <1>11, <1>1, <2>1 DEF Killed, FilesTyped, host
  <1>12. CASE PowerLoss
    BY <1>12, <1>1 DEF PowerLoss, FilesTyped
  <1>13. CASE UNCHANGED <<dir, next, host>>
    BY <1>13, <1>1 DEF FilesTyped, host
  <1> QED
    BY <1>2, <1>3, <1>4, <1>5, <1>6, <1>7, <1>8, <1>9, <1>10, <1>11, <1>12,
       <1>13, ZenonT(60)
       DEF Next, PrepareStep, BuildStep, QualifyStep, finishPublishedRecord,
           LoadFound, resumePendingAdmission, storePrepared, StoreFinish,
           PrepareFails, FirstJournal, Stage, Create, Configure,
           RunInstaller, WaitFor, Poweroff, BuildStepFails, BuildDone,
           RegisterRevision, CreateFreshFromRevision, StartClone, Inspect,
           StopClone, Recheck, AdmissionPending, QualifyStepFails,
           PersistRecord, replaceAtomically, EditSource, Prepare, Register,
           InstallerExits, CandidateAltered, vars, store, object, host,
           history, golden, bounds, stageBuildInputs

(* Candidates and clones keep their types.                                 *)
LEMMA ObjectStep ==
    TypeOK /\ CallExact /\ [Next]_vars => ObjectTyped'
  <1> SUFFICES ASSUME TypeOK, CallExact, [Next]_vars
               PROVE  ObjectTyped'
    OBVIOUS
  <1>1. ObjectTyped
    BY TypeParts
  <1>2. CASE Create
    <2>1. att \in Attempt
      BY <1>2 DEF Create, CallExact
    <2> QED
      BY <1>2, <1>1, <2>1 DEF Create, ObjectTyped
  <1>3. CASE RunInstaller
    <2>1. att \in Attempt
      BY <1>3 DEF RunInstaller, CallExact
    <2> QED
      BY <1>3, <1>1, <2>1 DEF RunInstaller, ObjectTyped
  <1>4. CASE Poweroff
    <2>1. att \in Attempt
      BY <1>4 DEF Poweroff, CallExact
    <2> QED
      BY <1>4, <1>1, <2>1 DEF Poweroff, ObjectTyped
  <1>5. CASE BuildFails
    <2>1. att \in Attempt
      BY <1>5 DEF BuildFails, CallExact
    <2> QED
      BY <1>5, <1>1, <2>1 DEF BuildFails, ObjectTyped
  <1>6. CASE CreateFreshFromRevision
    <2>1. att \in Attempt
      BY <1>6 DEF CreateFreshFromRevision, CallExact
    <2> QED
      BY <1>6, <1>1, <2>1 DEF CreateFreshFromRevision, ObjectTyped
  <1>7. CASE StartClone
    <2>1. att \in Attempt
      BY <1>7 DEF StartClone, CallExact
    <2> QED
      BY <1>7, <1>1, <2>1 DEF StartClone, ObjectTyped
  <1>8. CASE StopClone
    <2>1. att \in Attempt
      BY <1>8 DEF StopClone, CallExact
    <2> QED
      BY <1>8, <1>1, <2>1 DEF StopClone, ObjectTyped
  <1>9. CASE QualificationFails
    <2>1. att \in Attempt
      BY <1>9 DEF QualificationFails, CallExact
    <2> QED
      BY <1>9, <1>1, <2>1 DEF QualificationFails, ObjectTyped
  <1>10. ASSUME NEW a \in Attempt, InstallerExits(a)
         PROVE  ObjectTyped'
    BY <1>10, <1>1 DEF InstallerExits, ObjectTyped
  <1>11. ASSUME NEW a \in Attempt, CandidateAltered(a)
          PROVE  ObjectTyped'
    BY <1>11, <1>1 DEF CandidateAltered, ObjectTyped
  <1>12. CASE PowerLoss
    BY <1>12, <1>1 DEF PowerLoss, ObjectTyped
  <1>13. CASE UNCHANGED object
    BY <1>13, <1>1 DEF ObjectTyped, object
  <1> QED
    BY <1>2, <1>3, <1>4, <1>5, <1>6, <1>7, <1>8, <1>9, <1>10, <1>11, <1>12,
       <1>13, ZenonT(60)
       DEF Next, PrepareStep, BuildStep, QualifyStep, finishPublishedRecord,
           LoadFound, resumePendingAdmission, storePrepared, StoreFinish,
           completeAdmission, PrepareFails, Reserve, FirstJournal, Stage,
           BuilderVerifier, RunOwned, Configure, WaitFor, CandidateStopped,
           BuildStepFails, BuildDone, RegisterRevision, Inspect,
           writePrivate, Recheck, AdmissionPending, QualifyStepFails,
           PersistRecord, replaceAtomically, EditSource, Prepare, Register,
           ScriptEnds, Killed, vars, store, host, history, golden, bounds,
           stageBuildInputs

(* The sources and the history keep their types.                           *)
LEMMA HistoryStep ==
    TypeOK /\ CallExact /\ [Next]_vars => HistoryTyped'
  <1> SUFFICES ASSUME TypeOK, CallExact, [Next]_vars
               PROVE  HistoryTyped'
    OBVIOUS
  <1>1. HistoryTyped /\ JournalTyped /\ op \in Call /\ BoundsTyped
    BY TypeParts
  <1>2. CASE Reserve
    BY <1>2, <1>1 DEF Reserve, HistoryTyped
  <1>3. CASE FirstJournal
    <2>1. src' = src /\ built' = built /\ proved' = proved
      BY <1>3 DEF FirstJournal
    <2>2. failed' \subseteq failed \cup {att} /\ att \in Attempt
      BY <1>3 DEF FirstJournal, writeAttempt, CallExact
    <2> QED
      BY <1>1, <2>1, <2>2 DEF HistoryTyped
  <1>4. CASE Stage
    <2>1. att \in Attempt
      BY <1>4 DEF Stage, CallExact
    <2> QED
      BY <1>4, <1>1, <2>1 DEF Stage, stageBuildInputs, HistoryTyped
  <1>5. CASE RunOwned
    <2>1. src' = src /\ built' = built /\ proved' = proved
      BY <1>5 DEF RunOwned
    <2>2. failed' \subseteq failed \cup {att} /\ att \in Attempt
      BY <1>5 DEF RunOwned, writeAttempt, CallExact
    <2> QED
      BY <1>1, <2>1, <2>2 DEF HistoryTyped
  <1>6. CASE Create
    <2>1. src' = src /\ built' = built /\ proved' = proved
      BY <1>6 DEF Create
    <2>2. failed' \subseteq failed \cup {att} /\ att \in Attempt
      BY <1>6 DEF Create, writeAttempt, CallExact
    <2> QED
      BY <1>1, <2>1, <2>2 DEF HistoryTyped
  <1>7. CASE Configure
    <2>1. src' = src /\ built' = built /\ proved' = proved
      BY <1>7 DEF Configure
    <2>2. failed' \subseteq failed \cup {att} /\ att \in Attempt
      BY <1>7 DEF Configure, writeAttempt, CallExact
    <2> QED
      BY <1>1, <2>1, <2>2 DEF HistoryTyped
  <1>8. CASE WaitFor
    <2>1. src' = src /\ built' = built /\ proved' = proved
      BY <1>8 DEF WaitFor
    <2>2. failed' \subseteq failed \cup {att} /\ att \in Attempt
      BY <1>8 DEF WaitFor, writeAttempt, CallExact, Following
    <2> QED
      BY <1>1, <2>1, <2>2 DEF HistoryTyped
  <1>9. CASE CandidateStopped
    <2>1. src' = src /\ built' = built /\ proved' = proved
      BY <1>9 DEF CandidateStopped
    <2>2. failed' \subseteq failed \cup {att} /\ att \in Attempt
      BY <1>9 DEF CandidateStopped, writeAttempt, CallExact
    <2> QED
      BY <1>1, <2>1, <2>2 DEF HistoryTyped
  <1>10. CASE BuildFails
    <2>1. src' = src /\ built' = built /\ proved' = proved
      BY <1>10 DEF BuildFails
    <2>2. failed' \subseteq failed \cup {att} /\ att \in Attempt
      BY <1>10 DEF BuildFails, writeAttempt, CallExact
    <2> QED
      BY <1>1, <2>1, <2>2 DEF HistoryTyped
  <1>11. CASE BuildDone
    <2>1. src' = src /\ built' = built /\ proved' = proved
      BY <1>11 DEF BuildDone
    <2>2. failed' \subseteq failed \cup {att} /\ att \in Attempt
      BY <1>11 DEF BuildDone, writeAttempt, CallExact
    <2> QED
      BY <1>1, <2>1, <2>2 DEF HistoryTyped
  <1>12. CASE StopClone
    <2>1. att \in Attempt
      BY <1>12 DEF StopClone, CallExact
    <2> QED
      BY <1>12, <1>1, <2>1 DEF StopClone, HistoryTyped
  <1>13. CASE AdmissionPending
    <2>1. src' = src /\ built' = built /\ proved' = proved
      BY <1>13 DEF AdmissionPending
    <2>2. failed' \subseteq failed \cup {att} /\ att \in Attempt
      BY <1>13 DEF AdmissionPending, writeAttempt, CallExact
    <2> QED
      BY <1>1, <2>1, <2>2 DEF HistoryTyped
  <1>14. CASE QualificationFails
    <2>1. src' = src /\ built' = built /\ proved' = proved
      BY <1>14 DEF QualificationFails
    <2>2. failed' \subseteq failed \cup {att} /\ att \in Attempt
      BY <1>14 DEF QualificationFails, writeAttempt, CallExact
    <2> QED
      BY <1>1, <2>1, <2>2 DEF HistoryTyped
  <1>15. ASSUME NEW k \in Key, EditSource(k)
          PROVE  HistoryTyped'
    BY <1>15, <1>1 DEF EditSource, HistoryTyped, history
  <1>16. CASE UNCHANGED <<src, history>>
    BY <1>16, <1>1 DEF HistoryTyped, history
  <1> QED
    BY <1>2, <1>3, <1>4, <1>5, <1>6, <1>7, <1>8, <1>9, <1>10, <1>11, <1>12,
       <1>13, <1>14, <1>15, <1>16, ZenonT(60)
       DEF Next, PrepareStep, BuildStep, QualifyStep, finishPublishedRecord,
           LoadFound, resumePendingAdmission, storePrepared, StoreFinish,
           completeAdmission, PrepareFails, BuilderVerifier, RunInstaller,
           Poweroff, BuildStepFails, RegisterRevision,
           CreateFreshFromRevision, StartClone, Inspect, writePrivate,
           Recheck, QualifyStepFails, PersistRecord, replaceAtomically,
           Prepare, Register, InstallerExits, ScriptEnds, CandidateAltered,
           Killed, PowerLoss, vars, store, object, host, history, golden,
           bounds, stageBuildInputs

-----------------------------------------------------------------------------
(* Golden records and the current pointer.                                 *)

RecordKept ==
    \A r \in Attempt :
        /\ rec[r].dur => rec[r].mem
        /\ rec[r].mem => rec[r].dur \/ r \in torn

(* One side of a pair is written.                                          *)
LEMMA SideWritten ==
    ASSUME NEW S, NEW p \in Pair(S), NEW x
    PROVE  [p EXCEPT !.mem = x] = [mem |-> x, dur |-> p.dur]
  BY DEF Pair

(* A golden record that is compared, or renamed into place and synced or   *)
(* not.                                                                    *)
LEMMA ImmutableEffect ==
    ASSUME RecordTyped, NEW r \in Attempt, RecordKept,
           \/ rec' = rec /\ torn' = torn
           \/ rec' = Synced([rec EXCEPT ![r].mem = TRUE]) /\ torn' = torn
           \/ rec' = [rec EXCEPT ![r].mem = TRUE] /\ torn' = torn \cup {r}
    PROVE  /\ RecordTyped' /\ RecordKept'
           /\ \A s \in Attempt : rec[s].mem => rec'[s].mem
           /\ rec' # rec => rec'[r].mem
           /\ rec' = Synced([rec EXCEPT ![r].mem = TRUE]) => rec'[r].mem
  <1>1. rec[r] \in Pair(BOOLEAN)
    BY DEF RecordTyped
  <1>2. [rec[r] EXCEPT !.mem = TRUE] = [mem |-> TRUE, dur |-> rec[r].dur]
    BY <1>1, SideWritten, Zenon
  <1> DEFINE new == [rec EXCEPT ![r] = [mem |-> TRUE, dur |-> rec[r].dur]]
  <1>3. [rec EXCEPT ![r].mem = TRUE] = new
    BY <1>2
  <1>4. /\ new \in [Attempt -> Pair(BOOLEAN)] /\ new[r].mem
        /\ \A s \in Attempt : /\ rec[s].mem => new[s].mem
                              /\ new[s].dur = rec[s].dur
                              /\ s # r => new[s] = rec[s]
    BY DEF RecordTyped, Pair
  <1> HIDE DEF new
  <1>5. rec' = Synced(new) => rec'[r].mem
    BY <1>4 DEF Synced, Both
  <1>6. CASE rec' = rec /\ torn' = torn
    BY <1>3, <1>6, <1>5 DEF RecordTyped, RecordKept
  <1>7. CASE rec' = Synced(new) /\ torn' = torn
    <2>1. /\ rec' = [s \in Attempt |-> [mem |-> new[s].mem, dur |-> new[s].mem]]
          /\ \A s \in Attempt : new[s].mem \in BOOLEAN
      BY <1>4, <1>7 DEF Synced, Both, Pair
    <2>2. RecordTyped'
      BY <1>7, <2>1 DEF RecordTyped, Pair
    <2>3. RecordKept' /\ rec'[r].mem
      BY <1>4, <2>1 DEF RecordKept
    <2>4. \A s \in Attempt : rec[s].mem => rec'[s].mem
      BY <1>4, <2>1
    <2> QED
      BY <2>2, <2>3, <2>4
  <1>8. CASE rec' = new /\ torn' = torn \cup {r}
    BY <1>3, <1>4, <1>8, <1>5 DEF RecordTyped, RecordKept
  <1> QED
    BY <1>3, <1>6, <1>7, <1>8

(* What holds of the golden records, the pointer and the registration.     *)
GoldenExact == RecordTyped /\ PointerTyped /\ RecordExact /\ CurrentResolves

(* Records are written before the pointer and never lost, whoever          *)
(* registers, but for those whose sync failed.                             *)
LEMMA GoldenStep ==
    TypeOK /\ CallExact /\ RecordExact /\ CurrentResolves /\ [Next]_vars => GoldenExact'
  <1> SUFFICES ASSUME TypeOK, CallExact, RecordExact, CurrentResolves,
                      [Next]_vars
               PROVE  GoldenExact'
    OBVIOUS
  <1>1. RecordTyped /\ PointerTyped
    BY TypeParts
  <1>2. RecordKept
    BY DEF RecordExact, RecordKept
  <1>3. CASE RegisterRevision
    <2>1. att \in Attempt
      BY <1>3 DEF RegisterRevision, CallExact
    <2>2. /\ RecordTyped' /\ RecordKept'
          /\ \A s \in Attempt : rec[s].mem => rec'[s].mem
          /\ rec' # rec => rec'[att].mem
          /\ rec' = Synced([rec EXCEPT ![att].mem = TRUE]) => rec'[att].mem
      BY <1>3, <1>1, <1>2, <2>1, ImmutableEffect
         DEF RegisterRevision, writeImmutable
    <2>3. torn \subseteq torn' /\ cur' = cur /\ reg' = reg /\ glock' = glock
      BY <1>3 DEF RegisterRevision, writeImmutable
    <2> QED
      BY <1>1, <2>2, <2>3
         DEF GoldenExact, PointerTyped, Pair, RecordExact, RecordKept,
             CurrentResolves
  <1>4. CASE PersistRecord
    <2>1. reg.rev \in Attempt
      BY <1>4 DEF PersistRecord, RecordExact
    <2>2. /\ RecordTyped' /\ RecordKept'
          /\ \A s \in Attempt : rec[s].mem => rec'[s].mem
          /\ rec' # rec => rec'[reg.rev].mem
          /\ rec' = Synced([rec EXCEPT ![reg.rev].mem = TRUE]) => rec'[reg.rev].mem
      BY <1>4, <1>1, <1>2, <2>1, ImmutableEffect
         DEF PersistRecord, writeImmutable
    <2>3. torn \subseteq torn' /\ cur' = cur
      BY <1>4 DEF PersistRecord, writeImmutable
    <2>4. CurrentResolves'
      BY <1>1, <2>2, <2>3 DEF PointerTyped, Pair, CurrentResolves
    <2>5. \/ /\ reg' = [reg EXCEPT !.pc = "pointer"] /\ glock' = glock
             /\ rec[reg.rev].mem \/ rec' = Synced([rec EXCEPT ![reg.rev].mem = TRUE])
          \/ RegisterReturns
      BY <1>4 DEF PersistRecord, writeImmutable
    <2>6. CASE RegisterReturns
      BY <1>1, <2>2, <2>3, <2>4, <2>6
         DEF RegisterReturns, GoldenExact, PointerTyped, RecordExact,
             RecordKept
    <2>7. CASE /\ reg' = [reg EXCEPT !.pc = "pointer"] /\ glock' = glock
               /\ rec[reg.rev].mem \/ rec' = Synced([rec EXCEPT ![reg.rev].mem = TRUE])
      <3>1. rec'[reg.rev].mem
        BY <2>1, <2>2, <2>7
      <3>2. reg'.rev = reg.rev /\ PointerTyped'
        BY <1>1, <2>3, <2>7 DEF PointerTyped
      <3> QED
        BY <2>1, <2>2, <2>4, <3>1, <3>2
           DEF GoldenExact, RecordExact, RecordKept
    <2> QED
      BY <2>5, <2>6, <2>7
  <1>5. CASE replaceAtomically
    <2>1. /\ reg.rev \in Attempt /\ rec[reg.rev].mem /\ rec' = rec /\ torn' = torn
          /\ RegisterReturns
      BY <1>5 DEF replaceAtomically, RecordExact
    <2>2. cur' \in {Both(reg.rev), [cur EXCEPT !.mem = reg.rev], cur}
      BY <1>5 DEF replaceAtomically
    <2>3. /\ cur'.mem \in {cur.mem, reg.rev} /\ cur'.dur \in {cur.dur, reg.rev}
          /\ cur' \in Pair(Attempt \cup {None})
      BY <1>1, <2>1, <2>2 DEF PointerTyped, Pair, Both
    <2> QED
      BY <1>1, <2>1, <2>3
         DEF RegisterReturns, GoldenExact, RecordTyped, PointerTyped,
             RecordExact, CurrentResolves
  <1>6. ASSUME NEW a \in Attempt, Register(a)
         PROVE  GoldenExact'
    BY <1>6, <1>1
       DEF Register, GoldenExact, RecordTyped, PointerTyped, RecordExact,
           CurrentResolves
  <1>7. CASE PowerLoss
    <2>1. /\ rec' \in {Synced(rec), [a \in Attempt |-> Both(rec[a].dur)]}
          /\ cur' \in {Both(cur.mem), Both(cur.dur)} /\ torn' = torn
          /\ glock' = None /\ reg' = [rev |-> None, pc |-> "idle"]
      BY <1>7 DEF PowerLoss, Survives
    <2>2. \A r \in Attempt : /\ rec'[r] \in {Both(rec[r].mem), Both(rec[r].dur)}
                             /\ rec[r].mem \in BOOLEAN /\ rec[r].dur \in BOOLEAN
      BY <1>1, <2>1 DEF RecordTyped, Pair, Synced
    <2>3. RecordTyped'
      BY <1>1, <2>1 DEF RecordTyped, Pair, Synced, Both
    <2>4. PointerTyped'
      BY <1>1, <2>1 DEF PointerTyped, Pair, Both
    <2>5. \A r \in Attempt : /\ rec[r].dur => rec[r].mem
                             /\ rec[r].mem => rec[r].dur \/ r \in torn
      BY DEF RecordExact
    <2>6. RecordExact'
      BY <2>1, <2>2, <2>5 DEF RecordExact, Both
    <2>7. CurrentResolves'
      <3>1. SUFFICES ASSUME NEW r \in {cur'.mem, cur'.dur} \ {None}
                     PROVE  rec'[r].mem \/ r \in torn
        BY <2>1 DEF CurrentResolves
      <3>2. r \in {cur.mem, cur.dur} \ {None} /\ r \in Attempt
        BY <1>1, <2>1 DEF Both, PointerTyped, Pair
      <3>3. rec[r].mem \/ r \in torn
        BY <3>2 DEF CurrentResolves
      <3> QED
        BY <2>2, <2>5, <3>2, <3>3 DEF Both
    <2> QED
      BY <2>3, <2>4, <2>6, <2>7 DEF GoldenExact
  <1>8. CASE UNCHANGED golden
    BY <1>8, <1>1
       DEF GoldenExact, RecordTyped, PointerTyped, RecordExact,
           CurrentResolves, golden
  <1> QED
    BY <1>3, <1>4, <1>5, <1>6, <1>7, <1>8, ZenonT(60)
       DEF Next, PrepareStep, BuildStep, QualifyStep, finishPublishedRecord,
           LoadFound, resumePendingAdmission, storePrepared, StoreFinish,
           completeAdmission, PrepareFails, Reserve, FirstJournal, Stage,
           BuilderVerifier, RunOwned, Create, Configure, RunInstaller,
           WaitFor, Poweroff, CandidateStopped, BuildStepFails, BuildFails,
           BuildDone, CreateFreshFromRevision, StartClone, Inspect,
           StopClone, writePrivate, Recheck, AdmissionPending,
           QualifyStepFails, QualificationFails, EditSource, Prepare,
           InstallerExits, ScriptEnds, CandidateAltered, Killed, vars, store,
           object, host, history, bounds, stageBuildInputs

-----------------------------------------------------------------------------
(* The running Prepare.                                                    *)

(* A running call that moves on still has its attempt, its key and no      *)
(* result.                                                                 *)
LEMMA CallGoes ==
    ASSUME op \in Call, CallExact, op.pc # "idle", result' = result,
           NEW p \in PCs, op' = [op EXCEPT !.pc = p]
    PROVE  op' \in Call /\ CallExact'
  BY CallMoves DEF CallExact, att

(* A call that ended owes nothing.                                        *)
LEMMA CallEnds ==
    ASSUME op' = NoOp
    PROVE  op' \in Call /\ CallExact'
  BY DEF CallExact, Call, NoOp, PCs

(* A running Prepare has its attempt, its key and no result yet.           *)
LEMMA CallStep ==
    TypeOK /\ CallExact /\ [Next]_vars => op' \in Call /\ CallExact'
  <1> SUFFICES ASSUME TypeOK, CallExact, [Next]_vars
               PROVE  op' \in Call /\ CallExact'
    OBVIOUS
  <1>1. op \in Call /\ CacheTyped /\ ObjectTyped /\ HistoryTyped /\ CallExact
    BY TypeParts
  <1>2. CASE finishPublishedRecord
    <2>1. op.pc # "idle" /\ result' = result
      BY <1>2 DEF finishPublishedRecord
    <2>2. op' = NoOp \/ op' = op
      BY <1>2 DEF finishPublishedRecord, Return
    <2> QED
      BY <1>1, <2>1, <2>2, CallEnds DEF CallExact, att
  <1>3. CASE LoadFound
    <2> DEFINE r == cache[op.key].mem
    <2>1. op.pc # "idle" /\ result' = result /\ r # None
      BY <1>3 DEF LoadFound
    <2>2. r \in Prepared
      BY <1>1, <2>1 DEF CallExact, CacheTyped, Pair
    <2>3. r.att \in Attempt /\ ver[r.att] \in 0..3
      BY <1>1, <2>2 DEF Prepared, ObjectTyped
    <2>4. \/ op' = [op EXCEPT !.pc = "complete", !.att = r.att, !.seen = ver[r.att]]
          \/ op' = NoOp
      BY <1>3 DEF LoadFound, Return
    <2> HIDE DEF r
    <2>5. CASE op' = [op EXCEPT !.pc = "complete", !.att = r.att, !.seen = ver[r.att]]
      BY <1>1, <2>1, <2>3, <2>5 DEF CallExact, att, Call, PCs
    <2> QED
      BY <2>4, <2>5, CallEnds
  <1>4. CASE resumePendingAdmission
    <2>1. op.pc # "idle" /\ result' = result
      BY <1>4 DEF resumePendingAdmission
    <2>2. att \in Attempt /\ ver[att] \in 0..3
      BY <1>1, <2>1 DEF CallExact, ObjectTyped
    <2>3. \/ op' = [op EXCEPT !.pc = "store", !.seen = ver[att]]
          \/ op' = [op EXCEPT !.pc = "reserve"]
          \/ op' = NoOp
      BY <1>4 DEF resumePendingAdmission, Return, Goto
    <2>4. CASE op' = [op EXCEPT !.pc = "store", !.seen = ver[att]]
      BY <1>1, <2>1, <2>2, <2>4 DEF CallExact, att, Call, PCs
    <2>5. "reserve" \in PCs
      BY DEF PCs
    <2> QED
      BY <1>1, <2>1, <2>3, <2>4, <2>5, CallEnds, CallGoes
  <1>5. CASE storePrepared
    <2>1. op.pc # "idle" /\ result' = result
      BY <1>5 DEF storePrepared
    <2>2. op' = [op EXCEPT !.pc = "unlink"]
      BY <1>5 DEF storePrepared, Goto
    <2>3. "unlink" \in PCs
      BY <1>5 DEF storePrepared, PCs, BuildPCs, QualifyPCs
    <2> QED
      BY <1>1, <2>1, <2>2, <2>3, CallGoes
  <1>6. CASE StoreFinish
    <2>1. op.pc # "idle" /\ result' = result
      BY <1>6 DEF StoreFinish
    <2>2. op' = [op EXCEPT !.pc = "complete"] \/ op' = NoOp
      BY <1>6 DEF StoreFinish, Goto, Return
    <2>3. "complete" \in PCs
      BY <1>6 DEF StoreFinish, PCs, BuildPCs, QualifyPCs
    <2> QED
      BY <1>1, <2>1, <2>2, <2>3, CallGoes, CallEnds
  <1>7. CASE completeAdmission
    BY <1>7, CallEnds DEF completeAdmission, Return
  <1>8. CASE PrepareFails
    BY <1>8, CallEnds DEF PrepareFails, Return
  <1>9. CASE Reserve
    <2>1. op.pc # "idle" /\ result' = result
      BY <1>9 DEF Reserve
    <2>2. op' = NoOp \/ op' = [op EXCEPT !.pc = "first", !.bkey = src]
      BY <1>9 DEF Reserve, Return
    <2>3. CASE op' = [op EXCEPT !.pc = "first", !.bkey = src]
      BY <1>1, <2>1, <2>3 DEF CallExact, att, Call, PCs, HistoryTyped
    <2> QED
      BY <2>2, <2>3, CallEnds
  <1>10. CASE FirstJournal
    <2>1. op.pc # "idle" /\ result' = result
      BY <1>10 DEF FirstJournal
    <2>2. \/ op' = [op EXCEPT !.pc = "stage"]
          \/ op' = [op EXCEPT !.pc = "idle"]
      BY <1>10 DEF FirstJournal, writeAttempt, Goto
    <2>3. "stage" \in PCs /\ "idle" \in PCs
      BY <1>10 DEF FirstJournal, PCs, BuildPCs, QualifyPCs
    <2> QED
      BY <1>1, <2>1, <2>2, <2>3, CallGoes
  <1>11. CASE Stage
    <2>1. op.pc # "idle" /\ result' = result
      BY <1>11 DEF Stage
    <2>2. \/ op' = [op EXCEPT !.pc = "verifier"]
          \/ op' = [op EXCEPT !.pc = "fail"]
      BY <1>11 DEF Stage, stageBuildInputs, Goto
    <2>3. "verifier" \in PCs /\ "fail" \in PCs
      BY <1>11 DEF Stage, PCs, BuildPCs, QualifyPCs
    <2> QED
      BY <1>1, <2>1, <2>2, <2>3, CallGoes
  <1>12. CASE BuilderVerifier
    <2>1. op.pc # "idle" /\ result' = result
      BY <1>12 DEF BuilderVerifier
    <2>2. op' = [op EXCEPT !.pc = "render"]
      BY <1>12 DEF BuilderVerifier, Goto
    <2>3. "render" \in PCs
      BY <1>12 DEF BuilderVerifier, PCs, BuildPCs, QualifyPCs
    <2> QED
      BY <1>1, <2>1, <2>2, <2>3, CallGoes
  <1>13. CASE RunOwned
    <2>1. op.pc # "idle" /\ result' = result
      BY <1>13 DEF RunOwned
    <2>2. \/ op' = [op EXCEPT !.pc = "create"]
          \/ op' = [op EXCEPT !.pc = "fail"]
          \/ op' = [op EXCEPT !.pc = "fail", !.unproven = TRUE]
      BY <1>13 DEF RunOwned, writeAttempt, Goto
    <2>3. "create" \in PCs /\ "fail" \in PCs
      BY DEF PCs, BuildPCs
    <2>4. CASE op' = [op EXCEPT !.pc = "fail", !.unproven = TRUE]
      BY <1>1, <2>1, <2>3, <2>4 DEF CallExact, att, Call
    <2> QED
      BY <1>1, <2>1, <2>2, <2>3, <2>4, CallGoes
  <1>14. CASE Create
    <2>1. op.pc # "idle" /\ result' = result
      BY <1>14 DEF Create
    <2>2. \/ op' = [op EXCEPT !.pc = "configure"]
          \/ op' = [op EXCEPT !.pc = "fail"]
      BY <1>14 DEF Create, writeAttempt, Goto
    <2>3. "configure" \in PCs /\ "fail" \in PCs
      BY <1>14 DEF Create, PCs, BuildPCs, QualifyPCs
    <2> QED
      BY <1>1, <2>1, <2>2, <2>3, CallGoes
  <1>15. CASE Configure
    <2>1. op.pc # "idle" /\ result' = result
      BY <1>15 DEF Configure
    <2>2. \/ op' = [op EXCEPT !.pc = "launch"]
          \/ op' = [op EXCEPT !.pc = "fail"]
      BY <1>15 DEF Configure, writeAttempt, Goto
    <2>3. "launch" \in PCs /\ "fail" \in PCs
      BY <1>15 DEF Configure, PCs, BuildPCs, QualifyPCs
    <2> QED
      BY <1>1, <2>1, <2>2, <2>3, CallGoes
  <1>16. CASE RunInstaller
    <2>1. op.pc # "idle" /\ result' = result
      BY <1>16 DEF RunInstaller
    <2>2. \/ op' = [op EXCEPT !.pc = "installer-running"]
          \/ op' = [op EXCEPT !.pc = "fail"]
      BY <1>16 DEF RunInstaller, Goto
    <2>3. "installer-running" \in PCs /\ "fail" \in PCs
      BY <1>16 DEF RunInstaller, PCs, BuildPCs, QualifyPCs
    <2> QED
      BY <1>1, <2>1, <2>2, <2>3, CallGoes
  <1>17. CASE WaitFor
    <2>1. op.pc # "idle" /\ result' = result
      BY <1>17 DEF WaitFor, Following
    <2>2. \/ op' = [op EXCEPT !.pc = Following[op.pc]]
          \/ op' = [op EXCEPT !.pc = "fail"]
      BY <1>17 DEF WaitFor, writeAttempt, Goto
    <2>3. Following[op.pc] \in PCs /\ "fail" \in PCs
      BY <1>17 DEF WaitFor, PCs, BuildPCs, QualifyPCs, Following
    <2> QED
      BY <1>1, <2>1, <2>2, <2>3, CallGoes
  <1>18. CASE Poweroff
    <2>1. op.pc # "idle" /\ result' = result
      BY <1>18 DEF Poweroff
    <2>2. op' = [op EXCEPT !.pc = "stopped"]
      BY <1>18 DEF Poweroff, Goto
    <2>3. "stopped" \in PCs
      BY <1>18 DEF Poweroff, PCs, BuildPCs, QualifyPCs
    <2> QED
      BY <1>1, <2>1, <2>2, <2>3, CallGoes
  <1>19. CASE CandidateStopped
    <2>1. op.pc # "idle" /\ result' = result
      BY <1>19 DEF CandidateStopped
    <2>2. \/ op' = [op EXCEPT !.pc = "written"]
          \/ op' = [op EXCEPT !.pc = "fail"]
      BY <1>19 DEF CandidateStopped, writeAttempt, Goto
    <2>3. "written" \in PCs /\ "fail" \in PCs
      BY <1>19 DEF CandidateStopped, PCs, BuildPCs, QualifyPCs
    <2> QED
      BY <1>1, <2>1, <2>2, <2>3, CallGoes
  <1>20. CASE BuildStepFails
    <2>1. op.pc # "idle" /\ result' = result
      BY <1>20 DEF BuildStepFails, BuildPCs
    <2>2. op' = [op EXCEPT !.pc = "fail"]
      BY <1>20 DEF BuildStepFails, Goto
    <2>3. "fail" \in PCs
      BY <1>20 DEF BuildStepFails, PCs, BuildPCs, QualifyPCs
    <2> QED
      BY <1>1, <2>1, <2>2, <2>3, CallGoes
  <1>21. CASE BuildFails
    <2>1. op.pc # "idle" /\ result' = result
      BY <1>21 DEF BuildFails
    <2>2. op' = [op EXCEPT !.pc = "idle"]
      BY <1>21 DEF BuildFails, writeAttempt, Goto
    <2>3. "idle" \in PCs
      BY <1>21 DEF BuildFails, PCs, BuildPCs, QualifyPCs
    <2> QED
      BY <1>1, <2>1, <2>2, <2>3, CallGoes
  <1>22. CASE BuildDone
    <2>1. op.pc # "idle" /\ result' = result
      BY <1>22 DEF BuildDone
    <2>2. \/ op' = [op EXCEPT !.pc = "register"]
          \/ op' = [op EXCEPT !.pc = "idle"]
          \/ op' = NoOp
      BY <1>22 DEF BuildDone, writeAttempt, Goto, Return
    <2>3. "register" \in PCs /\ "idle" \in PCs
      BY <1>22 DEF BuildDone, PCs, BuildPCs, QualifyPCs
    <2> QED
      BY <1>1, <2>1, <2>2, <2>3, CallGoes, CallEnds
  <1>23. CASE RegisterRevision
    <2>1. op.pc # "idle" /\ result' = result
      BY <1>23 DEF RegisterRevision
    <2>2. \/ op' = [op EXCEPT !.pc = "clone"]
          \/ op' = [op EXCEPT !.pc = "qfail"]
      BY <1>23 DEF RegisterRevision, writeImmutable, Goto
    <2>3. "clone" \in PCs /\ "qfail" \in PCs
      BY <1>23 DEF RegisterRevision, PCs, BuildPCs, QualifyPCs
    <2> QED
      BY <1>1, <2>1, <2>2, <2>3, CallGoes
  <1>24. CASE CreateFreshFromRevision
    <2>1. op.pc # "idle" /\ result' = result
      BY <1>24 DEF CreateFreshFromRevision
    <2>2. op' = [op EXCEPT !.pc = "start"]
      BY <1>24 DEF CreateFreshFromRevision, Goto
    <2>3. "start" \in PCs
      BY <1>24 DEF CreateFreshFromRevision, PCs, BuildPCs, QualifyPCs
    <2> QED
      BY <1>1, <2>1, <2>2, <2>3, CallGoes
  <1>25. CASE StartClone
    <2>1. op.pc # "idle" /\ result' = result
      BY <1>25 DEF StartClone
    <2>2. \/ op' = [op EXCEPT !.pc = "inspect"]
          \/ op' = [op EXCEPT !.pc = "qfail"]
      BY <1>25 DEF StartClone, Goto
    <2>3. "inspect" \in PCs /\ "qfail" \in PCs
      BY <1>25 DEF StartClone, PCs, BuildPCs, QualifyPCs
    <2> QED
      BY <1>1, <2>1, <2>2, <2>3, CallGoes
  <1>26. CASE Inspect
    <2>1. op.pc # "idle" /\ result' = result
      BY <1>26 DEF Inspect
    <2>2. op' = [op EXCEPT !.pc = "stop"]
      BY <1>26 DEF Inspect, Goto
    <2>3. "stop" \in PCs
      BY <1>26 DEF Inspect, PCs, BuildPCs, QualifyPCs
    <2> QED
      BY <1>1, <2>1, <2>2, <2>3, CallGoes
  <1>27. CASE StopClone
    <2>1. op.pc # "idle" /\ result' = result
      BY <1>27 DEF StopClone
    <2>2. op' = [op EXCEPT !.pc = "evidence"]
      BY <1>27 DEF StopClone, Goto
    <2>3. "evidence" \in PCs
      BY <1>27 DEF StopClone, PCs, BuildPCs, QualifyPCs
    <2> QED
      BY <1>1, <2>1, <2>2, <2>3, CallGoes
  <1>28. CASE writePrivate
    <2>1. op.pc # "idle" /\ result' = result
      BY <1>28 DEF writePrivate
    <2>2. op' = [op EXCEPT !.pc = "recheck"] \/ op' = op
      BY <1>28 DEF writePrivate, Goto
    <2>3. "recheck" \in PCs
      BY <1>28 DEF writePrivate, PCs, BuildPCs, QualifyPCs
    <2> QED
      BY <1>1, <2>1, <2>2, <2>3, CallGoes DEF CallExact, att
  <1>29. CASE Recheck
    <2>1. op' = [op EXCEPT !.pc = "pending", !.seen = ver[att]]
      BY <1>29 DEF Recheck
    <2>2. op.pc # "idle" /\ result' = result
      BY <1>29 DEF Recheck
    <2>3. ver[att] \in 0..3
      BY <1>1, <2>2 DEF ObjectTyped, CallExact
    <2> QED
      BY <1>1, <2>1, <2>2, <2>3 DEF CallExact, att, Call, PCs
  <1>30. CASE AdmissionPending
    <2>1. op.pc # "idle" /\ result' = result
      BY <1>30 DEF AdmissionPending
    <2>2. \/ op' = [op EXCEPT !.pc = "store"]
          \/ op' = [op EXCEPT !.pc = "idle"]
      BY <1>30 DEF AdmissionPending, writeAttempt, Goto
    <2>3. "store" \in PCs /\ "idle" \in PCs
      BY <1>30 DEF AdmissionPending, PCs, BuildPCs, QualifyPCs
    <2> QED
      BY <1>1, <2>1, <2>2, <2>3, CallGoes
  <1>31. CASE QualifyStepFails
    <2>1. op.pc # "idle" /\ result' = result
      BY <1>31 DEF QualifyStepFails, QualifyPCs
    <2>2. op' = [op EXCEPT !.pc = "qfail"]
      BY <1>31 DEF QualifyStepFails, Goto
    <2>3. "qfail" \in PCs
      BY <1>31 DEF QualifyStepFails, PCs, BuildPCs, QualifyPCs
    <2> QED
      BY <1>1, <2>1, <2>2, <2>3, CallGoes
  <1>32. CASE QualificationFails
    <2>1. op.pc # "idle" /\ result' = result
      BY <1>32 DEF QualificationFails
    <2>2. op' = [op EXCEPT !.pc = "idle"]
      BY <1>32 DEF QualificationFails, writeAttempt, Goto
    <2>3. "idle" \in PCs
      BY <1>32 DEF QualificationFails, PCs, BuildPCs, QualifyPCs
    <2> QED
      BY <1>1, <2>1, <2>2, <2>3, CallGoes
  <1>33. ASSUME NEW a \in Attempt, Prepare(a)
          PROVE  op' \in Call /\ CallExact'
    <2>1. op' = [pc |-> "load", att |-> a, key |-> src, bkey |-> None, seen |-> 0,
                 unproven |-> FALSE]
      BY <1>33 DEF Prepare, NoOp
    <2>2. src \in Key /\ "load" \in PCs /\ result' = None
      BY <1>33, <1>1 DEF Prepare, HistoryTyped, PCs
    <2>3. op' \in Call
      BY <1>33, <2>1, <2>2 DEF Call
    <2> QED
      BY <1>33, <2>1, <2>2, <2>3 DEF CallExact, att
  <1>34. CASE Killed
    BY <1>34, CallEnds DEF Killed, Return
  <1>35. CASE PowerLoss
    BY <1>35, CallEnds DEF PowerLoss, Return
  <1>36. CASE UNCHANGED <<op, result>>
    BY <1>36, <1>1 DEF CallExact, att
  <1> QED
    BY <1>2, <1>3, <1>4, <1>5, <1>6, <1>7, <1>8, <1>9, <1>10, <1>11, <1>12,
       <1>13, <1>14, <1>15, <1>16, <1>17, <1>18, <1>19, <1>20, <1>21, <1>22,
       <1>23, <1>24, <1>25, <1>26, <1>27, <1>28, <1>29, <1>30, <1>31, <1>32,
       <1>33, <1>34, <1>35, <1>36, ZenonT(60)
       DEF Next, PrepareStep, BuildStep, QualifyStep, PersistRecord,
           replaceAtomically, EditSource, Register, InstallerExits,
           ScriptEnds, CandidateAltered, vars, store, object, host, history,
           golden, bounds, stageBuildInputs

(* A result names an attempt and a key.                                    *)
LEMMA ResultStep ==
    TypeOK /\ CallExact /\ [Next]_vars => ResultTyped'
  <1> SUFFICES ASSUME TypeOK, CallExact, [Next]_vars
               PROVE  ResultTyped'
    OBVIOUS
  <1>1. op \in Call /\ ResultTyped /\ CallExact
    BY TypeParts
  <1>2. CASE completeAdmission
    <2>1. /\ result' \in {result, Success} /\ op.pc # "idle"
      BY <1>2 DEF completeAdmission
    <2>2. Success \in [att : Attempt, key : Key, seen : 0..3]
      BY <1>1, <2>1 DEF Success, CallExact, Call
    <2> QED
      BY <1>1, <2>1, <2>2 DEF ResultTyped
  <1>3. ASSUME NEW a \in Attempt, Prepare(a)
         PROVE  ResultTyped'
    BY <1>3 DEF Prepare, ResultTyped
  <1>4. CASE UNCHANGED result
    BY <1>4, <1>1 DEF ResultTyped
  <1> QED
    BY <1>2, <1>3, <1>4, ZenonT(60)
       DEF Next, PrepareStep, BuildStep, QualifyStep, finishPublishedRecord,
           LoadFound, resumePendingAdmission, storePrepared, StoreFinish,
           PrepareFails, Reserve, FirstJournal, Stage, BuilderVerifier,
           RunOwned, Create, Configure, RunInstaller, WaitFor, Poweroff,
           CandidateStopped, BuildStepFails, BuildFails, BuildDone,
           RegisterRevision, CreateFreshFromRevision, StartClone, Inspect,
           StopClone, writePrivate, Recheck, AdmissionPending,
           QualifyStepFails, QualificationFails, PersistRecord,
           replaceAtomically, EditSource, Register, InstallerExits,
           ScriptEnds, CandidateAltered, Killed, PowerLoss, vars, store,
           object, host, history, golden, bounds, stageBuildInputs

(* The counters stay within their bounds.                                  *)
LEMMA BoundsStep == TypeOK /\ [Next]_vars => BoundsTyped'
  <1> SUFFICES ASSUME TypeOK, [Next]_vars
               PROVE  BoundsTyped'
    OBVIOUS
  <1>1. UNCHANGED bounds \/ Fault \/ Act
    BY ZenonT(60)
       DEF Next, PrepareStep, BuildStep, QualifyStep, writeAttempt,
           writeImmutable, NoFault, vars, finishPublishedRecord, LoadFound,
           resumePendingAdmission, storePrepared, StoreFinish,
           completeAdmission, PrepareFails, Reserve, FirstJournal, Stage,
           BuilderVerifier, RunOwned, Create, Configure, RunInstaller,
           WaitFor, Poweroff, CandidateStopped, BuildStepFails, BuildFails,
           BuildDone, RegisterRevision, CreateFreshFromRevision, StartClone,
           Inspect, StopClone, writePrivate, Recheck, AdmissionPending,
           QualifyStepFails, QualificationFails, PersistRecord,
           replaceAtomically, EditSource, Prepare, Register, InstallerExits,
           ScriptEnds, CandidateAltered, Killed, PowerLoss
  <1>2. BoundsTyped
    BY TypeParts
  <1> QED
    BY <1>1, <1>2, PreparedAssumption DEF BoundsTyped, bounds, Fault, Act

(* Every step keeps the types.                                             *)
LEMMA TypeStep ==
    ASSUME TypeOK, AttemptExact, AdmissionExact, CallExact, RecordExact,
           CurrentResolves, [Next]_vars
    PROVE  TypeOK'
  <1>1. JournalTyped' /\ CacheTyped'
    BY JournalStep, CacheStep DEF JournalEffect, CacheEffect
  <1>2. FilesTyped' /\ ObjectTyped' /\ HistoryTyped'
    BY FilesStep, ObjectStep, HistoryStep
  <1>3. RecordTyped' /\ PointerTyped'
    BY GoldenStep DEF GoldenExact
  <1>4. op' \in Call /\ ResultTyped' /\ BoundsTyped'
    BY CallStep, ResultStep, BoundsStep
  <1>5. (/\ JournalTyped /\ CacheTyped /\ FilesTyped /\ ObjectTyped
         /\ HistoryTyped /\ RecordTyped /\ PointerTyped
         /\ op \in Call /\ ResultTyped /\ BoundsTyped)' => TypeOK'
    BY Zenon DEF TypeOK, JournalTyped, CacheTyped, FilesTyped, ObjectTyped,
       HistoryTyped, RecordTyped, PointerTyped, Call, ResultTyped, BoundsTyped
  <1> QED
    BY <1>1, <1>2, <1>3, <1>4, <1>5

-----------------------------------------------------------------------------
(* Qualified candidates.                                                   *)

(* The steps at which a Build or qualification may still spoil its         *)
(* attempt.                                                                *)
Busy == Working \ {"pending"}

(* What makes a candidate qualified is not taken from it while no Build or *)
(* qualification works on it.                                              *)
OthersKept ==
    \A a \in Attempt : (op.pc \in Busy => a # att) =>
        /\ built'[a] = built[a]
        /\ a \in proved => a \in proved'
        /\ a \notin failed => a \notin failed'
        /\ clone[a] = "stopped" => clone'[a] = "stopped"
        /\ vm[a] = "stopped" => vm'[a] = "stopped"

(* Only the attempt a Build or qualification works on can lose what        *)
(* qualifies it.                                                           *)
LEMMA OthersStep ==
    TypeOK /\ [Next]_vars => OthersKept
  <1> SUFFICES ASSUME TypeOK, [Next]_vars
               PROVE  OthersKept
    OBVIOUS
  <1>1. ObjectTyped /\ HistoryTyped
    BY TypeParts
  <1>2. CASE Reserve
    BY <1>2 DEF Reserve, OthersKept, object
  <1>3. CASE FirstJournal
    <2>1. op.pc \in Busy
      BY <1>3 DEF FirstJournal, Busy, Working, BuildPCs, QualifyPCs
    <2>2. failed' \subseteq failed \cup {att}
      BY <1>3 DEF FirstJournal, writeAttempt
    <2> QED
      BY <1>3, <1>1, <2>1, <2>2
         DEF FirstJournal, OthersKept, ObjectTyped, HistoryTyped, object,
             history
  <1>4. CASE Stage
    <2>1. op.pc \in Busy
      BY <1>4 DEF Stage, Busy, Working, BuildPCs, QualifyPCs
    <2>2. failed' \subseteq failed \cup {att}
      BY <1>4 DEF Stage, history
    <2> QED
      BY <1>4, <1>1, <2>1, <2>2
         DEF Stage, OthersKept, ObjectTyped, HistoryTyped, object, history,
             stageBuildInputs
  <1>5. CASE RunOwned
    <2>1. op.pc \in Busy
      BY <1>5 DEF RunOwned, Busy, Working, BuildPCs, QualifyPCs
    <2>2. failed' \subseteq failed \cup {att}
      BY <1>5 DEF RunOwned, writeAttempt
    <2> QED
      BY <1>5, <1>1, <2>1, <2>2
         DEF RunOwned, OthersKept, ObjectTyped, HistoryTyped, object, history
  <1>6. CASE Create
    <2>1. op.pc \in Busy
      BY <1>6 DEF Create, Busy, Working, BuildPCs, QualifyPCs
    <2>2. failed' \subseteq failed \cup {att}
      BY <1>6 DEF Create, writeAttempt
    <2> QED
      BY <1>6, <1>1, <2>1, <2>2
         DEF Create, OthersKept, ObjectTyped, HistoryTyped, object, history
  <1>7. CASE Configure
    <2>1. op.pc \in Busy
      BY <1>7 DEF Configure, Busy, Working, BuildPCs, QualifyPCs
    <2>2. failed' \subseteq failed \cup {att}
      BY <1>7 DEF Configure, writeAttempt
    <2> QED
      BY <1>7, <1>1, <2>1, <2>2
         DEF Configure, OthersKept, ObjectTyped, HistoryTyped, object,
             history
  <1>8. CASE RunInstaller
    <2>1. op.pc \in Busy
      BY <1>8 DEF RunInstaller, Busy, Working, BuildPCs, QualifyPCs
    <2>2. failed' \subseteq failed \cup {att}
      BY <1>8 DEF RunInstaller, history
    <2> QED
      BY <1>8, <1>1, <2>1, <2>2
         DEF RunInstaller, OthersKept, ObjectTyped, HistoryTyped, object,
             history
  <1>9. CASE WaitFor
    <2>1. op.pc \in Busy
      BY <1>9 DEF WaitFor, Busy, Working, BuildPCs, QualifyPCs, Following
    <2>2. failed' \subseteq failed \cup {att}
      BY <1>9 DEF WaitFor, writeAttempt
    <2> QED
      BY <1>9, <1>1, <2>1, <2>2
         DEF WaitFor, OthersKept, ObjectTyped, HistoryTyped, object, history
  <1>10. CASE Poweroff
    <2>1. op.pc \in Busy
      BY <1>10 DEF Poweroff, Busy, Working, BuildPCs, QualifyPCs
    <2>2. failed' \subseteq failed \cup {att}
      BY <1>10 DEF Poweroff, history
    <2> QED
      BY <1>10, <1>1, <2>1, <2>2
         DEF Poweroff, OthersKept, ObjectTyped, HistoryTyped, object, history
  <1>11. CASE CandidateStopped
    <2>1. op.pc \in Busy
      BY <1>11 DEF CandidateStopped, Busy, Working, BuildPCs, QualifyPCs
    <2>2. failed' \subseteq failed \cup {att}
      BY <1>11 DEF CandidateStopped, writeAttempt
    <2> QED
      BY <1>11, <1>1, <2>1, <2>2
         DEF CandidateStopped, OthersKept, ObjectTyped, HistoryTyped, object,
             history
  <1>12. CASE BuildFails
    <2>1. op.pc \in Busy
      BY <1>12 DEF BuildFails, Busy, Working, BuildPCs, QualifyPCs
    <2>2. failed' \subseteq failed \cup {att}
      BY <1>12 DEF BuildFails, writeAttempt
    <2> QED
      BY <1>12, <1>1, <2>1, <2>2
         DEF BuildFails, OthersKept, ObjectTyped, HistoryTyped, object,
             history
  <1>13. CASE BuildDone
    <2>1. op.pc \in Busy
      BY <1>13 DEF BuildDone, Busy, Working, BuildPCs, QualifyPCs
    <2>2. failed' \subseteq failed \cup {att}
      BY <1>13 DEF BuildDone, writeAttempt
    <2> QED
      BY <1>13, <1>1, <2>1, <2>2
         DEF BuildDone, OthersKept, ObjectTyped, HistoryTyped, object,
             history
  <1>14. CASE CreateFreshFromRevision
    <2>1. op.pc \in Busy
      BY <1>14
         DEF CreateFreshFromRevision, Busy, Working, BuildPCs, QualifyPCs
    <2>2. failed' \subseteq failed \cup {att}
      BY <1>14 DEF CreateFreshFromRevision, history
    <2> QED
      BY <1>14, <1>1, <2>1, <2>2
         DEF CreateFreshFromRevision, OthersKept, ObjectTyped, HistoryTyped,
             object, history
  <1>15. CASE StartClone
    <2>1. op.pc \in Busy
      BY <1>15 DEF StartClone, Busy, Working, BuildPCs, QualifyPCs
    <2>2. failed' \subseteq failed \cup {att}
      BY <1>15 DEF StartClone, history
    <2> QED
      BY <1>15, <1>1, <2>1, <2>2
         DEF StartClone, OthersKept, ObjectTyped, HistoryTyped, object,
             history
  <1>16. CASE StopClone
    <2>1. op.pc \in Busy
      BY <1>16 DEF StopClone, Busy, Working, BuildPCs, QualifyPCs
    <2>2. failed' \subseteq failed \cup {att}
      BY <1>16 DEF StopClone, history
    <2> QED
      BY <1>16, <1>1, <2>1, <2>2
         DEF StopClone, OthersKept, ObjectTyped, HistoryTyped, object,
             history
  <1>17. CASE AdmissionPending
    BY <1>17 DEF AdmissionPending, writeAttempt, OthersKept, object
  <1>18. CASE QualificationFails
    <2>1. op.pc \in Busy
      BY <1>18 DEF QualificationFails, Busy, Working, BuildPCs, QualifyPCs
    <2>2. failed' \subseteq failed \cup {att}
      BY <1>18 DEF QualificationFails, writeAttempt
    <2> QED
      BY <1>18, <1>1, <2>1, <2>2
         DEF QualificationFails, OthersKept, ObjectTyped, HistoryTyped,
             object, history
  <1>19. ASSUME NEW a \in Attempt, InstallerExits(a)
          PROVE  OthersKept
    BY <1>19, <1>1 DEF InstallerExits, OthersKept, ObjectTyped, history
  <1>20. CASE PowerLoss
    BY <1>20, <1>1 DEF PowerLoss, OthersKept, ObjectTyped, history
  <1>21. CASE UNCHANGED <<vm, clone, history>>
    BY <1>21 DEF OthersKept, history
  <1> QED
    BY <1>2, <1>3, <1>4, <1>5, <1>6, <1>7, <1>8, <1>9, <1>10, <1>11, <1>12,
       <1>13, <1>14, <1>15, <1>16, <1>17, <1>18, <1>19, <1>20, <1>21,
       ZenonT(60)
       DEF Next, PrepareStep, BuildStep, QualifyStep, finishPublishedRecord,
           LoadFound, resumePendingAdmission, storePrepared, StoreFinish,
           completeAdmission, PrepareFails, BuilderVerifier, BuildStepFails,
           RegisterRevision, Inspect, writePrivate, Recheck,
           QualifyStepFails, PersistRecord, replaceAtomically, EditSource,
           Prepare, Register, ScriptEnds, CandidateAltered, Killed, vars,
           store, object, host, history, golden, bounds, stageBuildInputs

(* A qualified candidate nobody works on stays qualified.                  *)
LEMMA QualifiedStays ==
    ASSUME OthersKept, NEW a \in Attempt, NEW k, Qualified(a, k),
           op.pc \in Busy => a # att
    PROVE  Qualified(a, k)'
  BY DEF OthersKept, Qualified

(* Cached records keep naming qualified candidates.                        *)
LEMMA CacheQualifiedStep ==
    ASSUME TypeOK, CacheQualified, AttemptExact, AdmissionExact, CallExact,
           [Next]_vars
    PROVE  CacheQualified'
  <1>1. CacheTyped /\ CacheEffect /\ OthersKept
    BY TypeParts, CacheStep, OthersStep
  <1>2. SUFFICES ASSUME NEW k \in Key,
                        NEW x \in {cache'[k].mem, cache'[k].dur} \ {None}
                 PROVE  Qualified(x.att, k)' /\ x.ident = 2
    BY DEF CacheQualified, Qualified
  <1>3. CASE x \in {cache[k].mem, cache[k].dur}
    <2>1. x \in {cache[k].mem, cache[k].dur} \ {None} /\ x \in Prepared
      BY <1>1, <1>2, <1>3 DEF CacheTyped, Pair
    <2>2. x.att \in Attempt /\ Qualified(x.att, k) /\ x.ident = 2
      BY <2>1 DEF CacheQualified, Prepared
    <2>3. op.pc \in Busy => x.att # att
      BY <2>1 DEF AttemptExact, Unadmitted, Busy
    <2> QED
      BY <1>1, <2>2, <2>3, QualifiedStays
  <1>4. CASE op.pc = "store" /\ k = op.key /\ x = [att |-> att, ident |-> 2]
    <2>1. att \in Attempt /\ Qualified(att, k) /\ x.att = att /\ x.ident = 2
      BY <1>4 DEF AdmissionExact, CallExact
    <2>2. op.pc \notin Busy
      BY <1>4 DEF Busy, Working, BuildPCs, QualifyPCs
    <2> QED
      BY <1>1, <2>1, <2>2, QualifiedStays
  <1> QED
    BY <1>1, <1>2, <1>3, <1>4 DEF CacheEffect

(* A recorded admission stays the admission of a qualified candidate.      *)
LEMMA PendingQualifiedStep ==
    ASSUME TypeOK, PendingQualified, AttemptExact, AdmissionExact, CallExact,
           [Next]_vars
    PROVE  PendingQualified'
  <1>1. JournalTyped /\ JournalEffect /\ OthersKept
    BY TypeParts, JournalStep, OthersStep
  <1>2. SUFFICES ASSUME NEW a \in Attempt,
                        NEW x \in {journal'[a].mem, journal'[a].dur} \ {None},
                        x.phase \in Admission
                 PROVE  Qualified(a, x.key)' /\ x.receipt /\ x.ident = 2
    BY DEF PendingQualified, Qualified
  <1>3. CASE x \in {journal[a].mem, journal[a].dur}
    <2>1. x \in {journal[a].mem, journal[a].dur} \ {None}
      BY <1>2, <1>3
    <2>2. Qualified(a, x.key) /\ x.receipt /\ x.ident = 2
      BY <1>2, <2>1 DEF PendingQualified
    <2>3. op.pc \in Busy => a # att
      BY <1>2, <2>1 DEF AttemptExact, Unadmitted, Busy
    <2> QED
      BY <1>1, <2>2, <2>3, QualifiedStays
  <1>4. CASE a = att /\ Written(x)
    <2>1. CASE op.pc = "pending"
      <3>1. CASE x.phase \notin Admission
        BY <1>2, <3>1
      <3>2. CASE x = [phase |-> "admission-pending", key |-> op.key, receipt |-> TRUE,
                      ident |-> op.seen]
        <4>1. /\ built[att] = op.key /\ att \in proved \ failed
              /\ clone[att] = "stopped" /\ vm[att] = "stopped" /\ op.seen = 2
          BY <2>1 DEF AttemptExact, Working
        <4>2. Qualified(a, x.key) /\ x.receipt /\ x.ident = 2
          BY <1>4, <3>2, <4>1 DEF Qualified
        <4>3. op.pc \notin Busy
          BY <2>1 DEF Busy
        <4> QED
          BY <1>1, <4>2, <4>3, QualifiedStays
      <3> QED
        BY <1>4, <2>1, <3>1, <3>2 DEF Written
    <2>2. CASE op.pc = "complete" /\ x = [journal[att].mem EXCEPT !.phase = "admitted"]
      <3> DEFINE state == journal[att].mem
      <3>1. /\ Qualified(att, op.key) /\ state \in Journal /\ state.key = op.key
            /\ state.receipt /\ state.ident = 2
        BY <2>2 DEF AdmissionExact
      <3>2. x.key = op.key /\ x.receipt /\ x.ident = 2
        BY <2>2, <3>1 DEF Journal
      <3>3. op.pc \notin Busy
        BY <2>2 DEF Busy, Working, BuildPCs, QualifyPCs
      <3> QED
        BY <1>1, <1>4, <3>1, <3>2, <3>3, QualifiedStays
    <2>3. CASE op.pc \in Working /\ x.phase \notin Admission
      BY <1>2, <2>3
    <2> QED
      BY <1>4, <2>1, <2>2, <2>3 DEF Written
  <1> QED
    BY <1>1, <1>2, <1>3, <1>4 DEF JournalEffect

(* No record is replaced, and none is taken back once it is durable.       *)
CacheStays ==
    /\ CacheExact'
    /\ \A k \in Key : cache[k].dur # None => cache'[k] = cache[k]

(* A record is linked into the cache only where there is none.             *)
LEMMA CacheStaysStep ==
    TypeOK /\ CacheExact /\ CallExact /\ [Next]_vars => CacheStays
  <1> SUFFICES ASSUME TypeOK, CacheExact, CallExact, [Next]_vars
               PROVE  CacheStays
    OBVIOUS
  <1>1. cache \in [Key -> Pair(Prepared \cup {None})]
    BY TypeParts DEF CacheTyped
  <1>2. CASE finishPublishedRecord
    <2>1. cache' \in {cache, Synced(cache)}
      BY <1>2 DEF finishPublishedRecord
    <2> QED
      BY <1>1, <2>1 DEF CacheStays, CacheExact, Pair, Both, Synced
  <1>3. CASE storePrepared
    <2>1. op.key \in Key /\ cache[op.key].mem = None
      BY <1>3 DEF storePrepared, CallExact
    <2>2. \A k \in Key : k # op.key => cache'[k] = cache[k]
      BY <1>3, <1>1 DEF storePrepared
    <2>3. cache'[op.key].dur = cache[op.key].dur
      BY <1>3, <1>1, <2>1 DEF storePrepared, Pair
    <2> QED
      BY <2>1, <2>2, <2>3 DEF CacheStays, CacheExact
  <1>4. CASE StoreFinish
    <2>1. cache' \in {cache, Synced(cache)}
      BY <1>4 DEF StoreFinish
    <2> QED
      BY <1>1, <2>1 DEF CacheStays, CacheExact, Pair, Both, Synced
  <1>5. CASE PowerLoss
    <2>1. PICK keep \in SUBSET Key :
              cache' = [k \in Key |-> Both(IF k \in keep THEN cache[k].mem
                                          ELSE cache[k].dur)]
      BY <1>5 DEF PowerLoss
    <2> QED
      BY <1>1, <2>1 DEF CacheStays, CacheExact, Pair, Both
  <1>6. CASE UNCHANGED cache
    BY <1>6 DEF CacheStays, CacheExact
  <1> QED
    BY <1>2, <1>3, <1>4, <1>5, <1>6, ZenonT(60)
       DEF Next, PrepareStep, BuildStep, QualifyStep, LoadFound,
           resumePendingAdmission, completeAdmission, PrepareFails, Reserve,
           FirstJournal, Stage, BuilderVerifier, RunOwned, Create, Configure,
           RunInstaller, WaitFor, Poweroff, CandidateStopped, BuildStepFails,
           BuildFails, BuildDone, RegisterRevision, CreateFreshFromRevision,
           StartClone, Inspect, StopClone, writePrivate, Recheck,
           AdmissionPending, QualifyStepFails, QualificationFails,
           PersistRecord, replaceAtomically, EditSource, Prepare, Register,
           InstallerExits, ScriptEnds, CandidateAltered, Killed, vars, store,
           object, host, history, golden, bounds, stageBuildInputs

-----------------------------------------------------------------------------
(* A Build or qualification and its attempt.                               *)

(* Nothing is admitted from an attempt before its admission is recorded.   *)
LEMMA UnadmittedStays ==
    ASSUME CacheEffect, JournalEffect, op.pc \in Busy, att \in Attempt,
           Unadmitted(att)
    PROVE  /\ \A k \in Key : \A x \in {cache'[k].mem, cache'[k].dur} \ {None} : x.att # att
           /\ \A x \in {journal'[att].mem, journal'[att].dur} \ {None} :
                  x.phase \notin Admission
  <1>1. op.pc \notin {"store", "pending", "complete"}
    BY DEF Busy, Working, BuildPCs, QualifyPCs
  <1>2. \A k \in Key : \A x \in {cache'[k].mem, cache'[k].dur} \ {None} : x.att # att
    BY <1>1 DEF CacheEffect, Unadmitted
  <1>3. \A x \in {journal'[att].mem, journal'[att].dur} \ {None} :
                  x.phase \notin Admission
    BY <1>1 DEF JournalEffect, Written, Unadmitted
  <1> QED
    BY <1>2, <1>3

(* A step of the call that leaves its arguments and findings alone.        *)
SameCall ==
    /\ op'.att = op.att /\ op'.bkey = op.bkey
    /\ op'.key = op.key /\ op'.seen = op.seen

(* The attempt of a Build or qualification that goes on.                   *)
Owned == att \in dir \ failed /\ op.bkey \in Key /\ Unadmitted(att)

(* It stays the attempt the Build reserved.                                *)
LEMMA OwnedStays ==
    ASSUME CacheEffect, JournalEffect, AttemptExact, CallExact, op.pc \in Busy,
           op'.att = op.att, op'.bkey = op.bkey, dir' = dir, att \notin failed'
    PROVE  Owned' /\ att' = att
  <1>1. att \in dir \ failed /\ op.bkey \in Key /\ Unadmitted(att)
    BY DEF AttemptExact, Busy
  <1>2. att \in Attempt
    BY DEF CallExact, Busy, Working, BuildPCs, QualifyPCs
  <1>3. /\ \A k \in Key : \A x \in {cache'[k].mem, cache'[k].dur} \ {None} : x.att # att
        /\ \A x \in {journal'[att].mem, journal'[att].dur} \ {None} :
                  x.phase \notin Admission
    BY <1>1, <1>2, UnadmittedStays
  <1>4. att' = att
    BY DEF att
  <1> QED
    BY <1>1, <1>3, <1>4 DEF Owned, Unadmitted

(* A Build or qualification keeps the attempt it reserved and what it      *)
(* established of it.                                                      *)
LEMMA AttemptStep ==
    ASSUME TypeOK, CacheQualified, PendingQualified, AttemptExact,
           AdmissionExact, CallExact, [Next]_vars
    PROVE  AttemptExact'
  <1> USE DEF SameCall
  <1>1. /\ op \in Call /\ FilesTyped /\ ObjectTyped /\ HistoryTyped
            /\ CacheEffect /\ JournalEffect /\ AttemptExact /\ CallExact
    BY TypeParts, CacheStep, JournalStep
  <1>2. op \in Call
    BY <1>1
  <1>3. CASE finishPublishedRecord
    <2>1. op'.pc \notin Working
      BY <1>3, <1>1
         DEF finishPublishedRecord, Return, NoOp, Call, Working, BuildPCs,
             QualifyPCs
    <2> QED
      BY <2>1 DEF AttemptExact
  <1>4. CASE LoadFound
    <2> DEFINE r == cache[op.key].mem
    <2>1. \/ op' = [op EXCEPT !.pc = "complete", !.att = r.att, !.seen = ver[r.att]]
          \/ op' = NoOp
      BY <1>4 DEF LoadFound, Return
    <2> HIDE DEF r
    <2>2. op'.pc \in {"complete", "idle"}
      <3>1. CASE op' = NoOp
        BY <3>1 DEF NoOp
      <3>2. CASE op' # NoOp
        BY <1>2, <2>1, <3>2 DEF Call
      <3> QED
        BY <3>1, <3>2
    <2> QED
      BY <2>2 DEF AttemptExact, Working, BuildPCs, QualifyPCs
  <1>5. CASE resumePendingAdmission
    <2>1. \/ op' = [op EXCEPT !.pc = "store", !.seen = ver[att]]
          \/ op' = [op EXCEPT !.pc = "reserve"]
          \/ op' = NoOp
      BY <1>5 DEF resumePendingAdmission, Return, Goto
    <2>2. op'.pc \in {"store", "reserve", "idle"}
      <3>1. CASE op' = NoOp
        BY <3>1 DEF NoOp
      <3>2. CASE op' # NoOp
        BY <1>2, <2>1, <3>2 DEF Call
      <3> QED
        BY <3>1, <3>2
    <2> QED
      BY <2>2 DEF AttemptExact, Working, BuildPCs, QualifyPCs
  <1>6. CASE storePrepared
    <2>1. op'.pc \notin Working
      BY <1>6, <1>1
         DEF storePrepared, Goto, NoOp, Call, Working, BuildPCs, QualifyPCs
    <2> QED
      BY <2>1 DEF AttemptExact
  <1>7. CASE StoreFinish
    <2>1. op'.pc \notin Working
      BY <1>7, <1>1
         DEF StoreFinish, Goto, Return, NoOp, Call, Working, BuildPCs,
             QualifyPCs
    <2> QED
      BY <2>1 DEF AttemptExact
  <1>8. CASE completeAdmission
    <2>1. op'.pc \notin Working
      BY <1>8, <1>1
         DEF completeAdmission, Return, NoOp, Call, Working, BuildPCs,
             QualifyPCs
    <2> QED
      BY <2>1 DEF AttemptExact
  <1>9. CASE PrepareFails
    <2>1. op'.pc \notin Working
      BY <1>9, <1>1
         DEF PrepareFails, Return, NoOp, Call, Working, BuildPCs, QualifyPCs
    <2> QED
      BY <2>1 DEF AttemptExact
  <1>10. CASE Reserve
    <2>1. CASE op' = NoOp
      BY <2>1 DEF NoOp, AttemptExact, Working, BuildPCs, QualifyPCs
    <2>2. CASE op' # NoOp
      <3>1. /\ vm[att] = "absent" /\ att \notin dir /\ dir' = dir \cup {att}
            /\ failed' = failed \ {att}
            /\ op' = [op EXCEPT !.pc = "first", !.bkey = src]
            /\ UNCHANGED <<cache, journal>>
        BY <1>10, <2>2 DEF Reserve, Return
      <3>2. att \in Attempt
        BY <1>10 DEF Reserve, CallExact
      <3>3. op'.pc = "first" /\ op'.att = att /\ op'.bkey \in Key
        BY <1>1, <3>1 DEF Call, att, HistoryTyped
      <3>4. Unadmitted(att)
        <4>1. \A k \in Key : \A x \in {cache[k].mem, cache[k].dur} \ {None} : x.att # att
          BY <3>1 DEF CacheQualified, Qualified
        <4>2. \A x \in {journal[att].mem, journal[att].dur} \ {None} : x.phase \notin Admission
          BY <3>1, <3>2 DEF PendingQualified, Qualified
        <4> QED
          BY <4>1, <4>2 DEF Unadmitted
      <3>5. Owned' /\ att' = att
        BY <3>1, <3>3, <3>4 DEF Owned, Unadmitted, att
      <3> QED
        BY <3>3, <3>5 DEF Owned, AttemptExact, Working, BuildPCs, QualifyPCs
    <2> QED
      BY <2>1, <2>2
  <1>11. CASE FirstJournal
    <2>1. op.pc \in Busy
      BY <1>11 DEF FirstJournal, Busy, Working, BuildPCs, QualifyPCs
    <2>2. \/ op' = [op EXCEPT !.pc = "stage"]
          \/ op' = [op EXCEPT !.pc = "idle"]
      BY <1>11 DEF FirstJournal, writeAttempt, Goto
    <2>3. /\ op'.pc \in {"stage", "idle"}
          /\ SameCall
      BY <1>2, <2>2 DEF Call
    <2>4. dir' = dir /\ att \notin failed'
      BY <1>11, <2>1
         DEF FirstJournal, writeAttempt, State, AttemptExact, Busy, store,
             history
    <2>5. Owned' /\ att' = att
      BY <1>1, <2>1, <2>3, <2>4, OwnedStays
    <2> QED
      BY <2>3, <2>5 DEF Owned, AttemptExact, Working, BuildPCs, QualifyPCs
  <1>12. CASE Stage
    <2>1. op.pc \in Busy
      BY <1>12 DEF Stage, Busy, Working, BuildPCs, QualifyPCs
    <2>2. \/ op' = [op EXCEPT !.pc = "verifier"]
          \/ op' = [op EXCEPT !.pc = "fail"]
      BY <1>12 DEF Stage, stageBuildInputs, Goto
    <2>3. /\ op'.pc \in {"verifier", "fail"}
          /\ SameCall
      BY <1>2, <2>2 DEF Call
    <2>4. dir' = dir /\ att \notin failed'
      BY <1>12, <2>1 DEF Stage, AttemptExact, Busy, store, history
    <2>5. Owned' /\ att' = att
      BY <1>1, <2>1, <2>3, <2>4, OwnedStays
    <2>6. op'.pc = "verifier" => built'[att] = op.bkey
      BY <1>12, <1>1, <2>1, <2>2, <2>3
         DEF Stage, AttemptExact, CallExact, Working, BuildPCs, QualifyPCs,
             ObjectTyped, HistoryTyped, object, history, stageBuildInputs,
             Goto
    <2> QED
      BY <2>3, <2>5, <2>6
         DEF Owned, AttemptExact, Working, BuildPCs, QualifyPCs
  <1>13. CASE BuilderVerifier
    <2>1. op.pc \in Busy
      BY <1>13 DEF BuilderVerifier, Busy, Working, BuildPCs, QualifyPCs
    <2>2. op' = [op EXCEPT !.pc = "render"]
      BY <1>13 DEF BuilderVerifier, Goto
    <2>3. /\ op'.pc \in {"render"}
          /\ SameCall
      BY <1>2, <2>2 DEF Call
    <2>4. dir' = dir /\ att \notin failed'
      BY <1>13, <2>1 DEF BuilderVerifier, AttemptExact, Busy, store, history
    <2>5. Owned' /\ att' = att
      BY <1>1, <2>1, <2>3, <2>4, OwnedStays
    <2>6. built'[att] = op.bkey
      BY <1>13, <1>1, <2>1, <2>2, <2>3
         DEF BuilderVerifier, AttemptExact, CallExact, Working, BuildPCs,
             QualifyPCs, ObjectTyped, HistoryTyped, object, history
    <2> QED
      BY <2>3, <2>5, <2>6
         DEF Owned, AttemptExact, Working, BuildPCs, QualifyPCs
  <1>14. CASE RunOwned
    <2>1. op.pc \in Busy
      BY <1>14 DEF RunOwned, Busy, Working, BuildPCs, QualifyPCs
    <2>2. \/ op' = [op EXCEPT !.pc = "create"]
          \/ op' = [op EXCEPT !.pc = "fail"]
          \/ op' = [op EXCEPT !.pc = "fail", !.unproven = TRUE]
      BY <1>14 DEF RunOwned, writeAttempt, Goto
    <2>3. /\ op'.pc \in {"create", "fail"}
          /\ SameCall
      BY <1>2, <2>2 DEF Call
    <2>4. dir' = dir /\ att \notin failed' /\ built'[att] = op.bkey
      BY <1>14
         DEF RunOwned, writeAttempt, State, AttemptExact, Working, BuildPCs,
             QualifyPCs
    <2>5. Owned' /\ att' = att
      BY <1>1, <2>1, <2>3, <2>4, OwnedStays
    <2> QED
      BY <2>3, <2>4, <2>5
         DEF Owned, AttemptExact, Working, BuildPCs, QualifyPCs
  <1>15. CASE Create
    <2>1. op.pc \in Busy
      BY <1>15 DEF Create, Busy, Working, BuildPCs, QualifyPCs
    <2>2. \/ op' = [op EXCEPT !.pc = "configure"]
          \/ op' = [op EXCEPT !.pc = "fail"]
      BY <1>15 DEF Create, writeAttempt, Goto
    <2>3. /\ op'.pc \in {"configure", "fail"}
          /\ SameCall
      BY <1>2, <2>2 DEF Call
    <2>4. dir' = dir /\ att \notin failed'
      BY <1>15, <2>1
         DEF Create, writeAttempt, State, AttemptExact, Busy, store, history
    <2>5. Owned' /\ att' = att
      BY <1>1, <2>1, <2>3, <2>4, OwnedStays
    <2>6. built'[att] = op.bkey
      BY <1>15, <1>1, <2>1, <2>2, <2>3
         DEF Create, AttemptExact, CallExact, Working, BuildPCs, QualifyPCs,
             ObjectTyped, HistoryTyped, object, history
    <2> QED
      BY <2>3, <2>5, <2>6
         DEF Owned, AttemptExact, Working, BuildPCs, QualifyPCs
  <1>16. CASE Configure
    <2>1. op.pc \in Busy
      BY <1>16 DEF Configure, Busy, Working, BuildPCs, QualifyPCs
    <2>2. \/ op' = [op EXCEPT !.pc = "launch"]
          \/ op' = [op EXCEPT !.pc = "fail"]
      BY <1>16 DEF Configure, writeAttempt, Goto
    <2>3. /\ op'.pc \in {"launch", "fail"}
          /\ SameCall
      BY <1>2, <2>2 DEF Call
    <2>4. dir' = dir /\ att \notin failed'
      BY <1>16, <2>1
         DEF Configure, writeAttempt, State, AttemptExact, Busy, store,
             history
    <2>5. Owned' /\ att' = att
      BY <1>1, <2>1, <2>3, <2>4, OwnedStays
    <2>6. built'[att] = op.bkey
      BY <1>16, <1>1, <2>1, <2>2, <2>3
         DEF Configure, AttemptExact, CallExact, Working, BuildPCs,
             QualifyPCs, ObjectTyped, HistoryTyped, object, history
    <2> QED
      BY <2>3, <2>5, <2>6
         DEF Owned, AttemptExact, Working, BuildPCs, QualifyPCs
  <1>17. CASE RunInstaller
    <2>1. op.pc \in Busy
      BY <1>17 DEF RunInstaller, Busy, Working, BuildPCs, QualifyPCs
    <2>2. \/ op' = [op EXCEPT !.pc = "installer-running"]
          \/ op' = [op EXCEPT !.pc = "fail"]
      BY <1>17 DEF RunInstaller, Goto
    <2>3. /\ op'.pc \in {"installer-running", "fail"}
          /\ SameCall
      BY <1>2, <2>2 DEF Call
    <2>4. dir' = dir /\ att \notin failed'
      BY <1>17, <2>1 DEF RunInstaller, AttemptExact, Busy, store, history
    <2>5. Owned' /\ att' = att
      BY <1>1, <2>1, <2>3, <2>4, OwnedStays
    <2>6. built'[att] = op.bkey
      BY <1>17, <1>1, <2>1, <2>2, <2>3
         DEF RunInstaller, AttemptExact, CallExact, Working, BuildPCs,
             QualifyPCs, ObjectTyped, HistoryTyped, object, history
    <2> QED
      BY <2>3, <2>5, <2>6
         DEF Owned, AttemptExact, Working, BuildPCs, QualifyPCs
  <1>18. CASE WaitFor
    <2>1. op.pc \in Busy
      BY <1>18 DEF WaitFor, Busy, Working, BuildPCs, QualifyPCs, Following
    <2>2. \/ op' = [op EXCEPT !.pc = Following[op.pc]]
          \/ op' = [op EXCEPT !.pc = "fail"]
      BY <1>18 DEF WaitFor, writeAttempt, Goto
    <2>3. Following[op.pc] \in {"preparing", "finalizing", "stopping"}
      BY <1>18 DEF WaitFor, Following
    <2>4. /\ op'.pc \in {Following[op.pc], "fail"}
          /\ SameCall
      BY <1>2, <2>2 DEF Call
    <2>5. dir' = dir /\ att \notin failed'
      BY <1>18, <2>3, <2>1
         DEF WaitFor, writeAttempt, State, Following, AttemptExact, Busy,
             store, history
    <2>6. Owned' /\ att' = att
      BY <1>1, <2>1, <2>4, <2>5, OwnedStays
    <2>7. built'[att] = op.bkey
      BY <1>18, <1>1, <2>1, <2>2, <2>4
         DEF WaitFor, AttemptExact, CallExact, Working, BuildPCs, QualifyPCs,
             ObjectTyped, HistoryTyped, object, history, Following
    <2> QED
      BY <2>3, <2>4, <2>6, <2>7
         DEF Owned, AttemptExact, Working, BuildPCs, QualifyPCs, Following
  <1>19. CASE Poweroff
    <2>1. op.pc \in Busy
      BY <1>19 DEF Poweroff, Busy, Working, BuildPCs, QualifyPCs
    <2>2. op' = [op EXCEPT !.pc = "stopped"]
      BY <1>19 DEF Poweroff, Goto
    <2>3. /\ op'.pc \in {"stopped"}
          /\ SameCall
      BY <1>2, <2>2 DEF Call
    <2>4. dir' = dir /\ att \notin failed'
      BY <1>19, <2>1 DEF Poweroff, AttemptExact, Busy, store, history
    <2>5. Owned' /\ att' = att
      BY <1>1, <2>1, <2>3, <2>4, OwnedStays
    <2>6. built'[att] = op.bkey /\ vm'[att] = "stopped" /\ ver'[att] = 2
      BY <1>19, <1>1, <2>1, <2>2, <2>3
         DEF Poweroff, AttemptExact, CallExact, Working, BuildPCs,
             QualifyPCs, ObjectTyped, HistoryTyped, object, history
    <2> QED
      BY <2>3, <2>5, <2>6
         DEF Owned, AttemptExact, Working, BuildPCs, QualifyPCs
  <1>20. CASE CandidateStopped
    <2>1. op.pc \in Busy
      BY <1>20 DEF CandidateStopped, Busy, Working, BuildPCs, QualifyPCs
    <2>2. \/ op' = [op EXCEPT !.pc = "written"]
          \/ op' = [op EXCEPT !.pc = "fail"]
      BY <1>20 DEF CandidateStopped, writeAttempt, Goto
    <2>3. /\ op'.pc \in {"written", "fail"}
          /\ SameCall
      BY <1>2, <2>2 DEF Call
    <2>4. dir' = dir /\ att \notin failed'
      BY <1>20, <2>1
         DEF CandidateStopped, writeAttempt, State, AttemptExact, Busy,
             store, history
    <2>5. Owned' /\ att' = att
      BY <1>1, <2>1, <2>3, <2>4, OwnedStays
    <2>6. built'[att] = op.bkey /\ vm'[att] = "stopped" /\ ver'[att] = 2
      BY <1>20, <1>1, <2>1, <2>2, <2>3
         DEF CandidateStopped, AttemptExact, CallExact, Working, BuildPCs,
             QualifyPCs, ObjectTyped, HistoryTyped, object, history,
             exactStopped
    <2> QED
      BY <2>3, <2>5, <2>6
         DEF Owned, AttemptExact, Working, BuildPCs, QualifyPCs
  <1>21. CASE BuildStepFails
    <2>1. op.pc \in Busy
      BY <1>21 DEF BuildStepFails, Busy, Working, BuildPCs, QualifyPCs
    <2>2. op' = [op EXCEPT !.pc = "fail"]
      BY <1>21 DEF BuildStepFails, Goto
    <2>3. /\ op'.pc \in {"fail"}
          /\ SameCall
      BY <1>2, <2>2 DEF Call
    <2>4. dir' = dir /\ att \notin failed'
      BY <1>21, <2>1 DEF BuildStepFails, AttemptExact, Busy, store, history
    <2>5. Owned' /\ att' = att
      BY <1>1, <2>1, <2>3, <2>4, OwnedStays
    <2> QED
      BY <2>3, <2>5 DEF Owned, AttemptExact, Working, BuildPCs, QualifyPCs
  <1>22. CASE BuildFails
    <2>1. op' = [op EXCEPT !.pc = "idle"]
      BY <1>22 DEF BuildFails, writeAttempt, Goto
    <2> QED
      BY <1>1, <2>1 DEF Call, AttemptExact, Working, BuildPCs, QualifyPCs
  <1>23. CASE BuildDone
    <2>1. op.pc \in Busy
      BY <1>23 DEF BuildDone, Busy, Working, BuildPCs, QualifyPCs
    <2>2. \/ op' = NoOp \/ op' = [op EXCEPT !.pc = "idle"]
          \/ op' = [op EXCEPT !.pc = "register"] /\ op.bkey = op.key
      BY <1>23 DEF BuildDone, writeAttempt, Goto, Return
    <2>3. CASE op'.pc = "idle"
      BY <2>3 DEF AttemptExact, Working, BuildPCs, QualifyPCs
    <2>4. CASE op' = [op EXCEPT !.pc = "register"] /\ op.bkey = op.key
      <3>1. /\ op'.pc = "register"
          /\ SameCall
        BY <1>1, <2>4 DEF Call
      <3>2. dir' = dir /\ att \notin failed' /\ UNCHANGED <<object, built>>
        BY <1>23
           DEF BuildDone, writeAttempt, State, AttemptExact, Working,
               BuildPCs, QualifyPCs
      <3>3. built[att] = op.key /\ vm[att] = "stopped" /\ ver[att] = 2
        BY <1>23, <2>4
           DEF BuildDone, AttemptExact, Working, BuildPCs, QualifyPCs
      <3>4. Owned' /\ att' = att
        BY <1>1, <2>1, <3>1, <3>2, OwnedStays
      <3> QED
        BY <3>1, <3>2, <3>3, <3>4
           DEF Owned, AttemptExact, object, Working, BuildPCs, QualifyPCs
    <2> QED
      BY <1>1, <2>2, <2>3, <2>4 DEF Call, NoOp
  <1>24. CASE RegisterRevision
    <2>1. op.pc \in Busy
      BY <1>24 DEF RegisterRevision, Busy, Working, BuildPCs, QualifyPCs
    <2>2. \/ op' = [op EXCEPT !.pc = "clone"]
          \/ op' = [op EXCEPT !.pc = "qfail"]
      BY <1>24 DEF RegisterRevision, writeImmutable, Goto
    <2>3. /\ op'.pc \in {"clone", "qfail"}
          /\ SameCall
      BY <1>2, <2>2 DEF Call
    <2>4. dir' = dir /\ att \notin failed'
      BY <1>24, <2>1 DEF RegisterRevision, AttemptExact, Busy, store, history
    <2>5. Owned' /\ att' = att
      BY <1>1, <2>1, <2>3, <2>4, OwnedStays
    <2>6. built'[att] = op.key /\ vm'[att] = "stopped" /\ ver'[att] = 2
      BY <1>24, <1>1, <2>1, <2>2, <2>3
         DEF RegisterRevision, AttemptExact, CallExact, Working, BuildPCs,
             QualifyPCs, ObjectTyped, HistoryTyped, object, history
    <2> QED
      BY <2>3, <2>5, <2>6
         DEF Owned, AttemptExact, Working, BuildPCs, QualifyPCs
  <1>25. CASE CreateFreshFromRevision
    <2>1. op.pc \in Busy
      BY <1>25
         DEF CreateFreshFromRevision, Busy, Working, BuildPCs, QualifyPCs
    <2>2. op' = [op EXCEPT !.pc = "start"]
      BY <1>25 DEF CreateFreshFromRevision, Goto
    <2>3. /\ op'.pc \in {"start"}
          /\ SameCall
      BY <1>2, <2>2 DEF Call
    <2>4. dir' = dir /\ att \notin failed'
      BY <1>25, <2>1
         DEF CreateFreshFromRevision, AttemptExact, Busy, store, history
    <2>5. Owned' /\ att' = att
      BY <1>1, <2>1, <2>3, <2>4, OwnedStays
    <2>6. built'[att] = op.key /\ vm'[att] = "stopped" /\ ver'[att] = 2
      BY <1>25, <1>1, <2>1, <2>2, <2>3
         DEF CreateFreshFromRevision, AttemptExact, CallExact, Working,
             BuildPCs, QualifyPCs, ObjectTyped, HistoryTyped, object, history
    <2> QED
      BY <2>3, <2>5, <2>6
         DEF Owned, AttemptExact, Working, BuildPCs, QualifyPCs
  <1>26. CASE StartClone
    <2>1. op.pc \in Busy
      BY <1>26 DEF StartClone, Busy, Working, BuildPCs, QualifyPCs
    <2>2. \/ op' = [op EXCEPT !.pc = "inspect"]
          \/ op' = [op EXCEPT !.pc = "qfail"]
      BY <1>26 DEF StartClone, Goto
    <2>3. /\ op'.pc \in {"inspect", "qfail"}
          /\ SameCall
      BY <1>2, <2>2 DEF Call
    <2>4. dir' = dir /\ att \notin failed'
      BY <1>26, <2>1 DEF StartClone, AttemptExact, Busy, store, history
    <2>5. Owned' /\ att' = att
      BY <1>1, <2>1, <2>3, <2>4, OwnedStays
    <2>6. built'[att] = op.key /\ vm'[att] = "stopped" /\ ver'[att] = 2
      BY <1>26, <1>1, <2>1, <2>2, <2>3
         DEF StartClone, AttemptExact, CallExact, Working, BuildPCs,
             QualifyPCs, ObjectTyped, HistoryTyped, object, history
    <2> QED
      BY <2>3, <2>5, <2>6
         DEF Owned, AttemptExact, Working, BuildPCs, QualifyPCs
  <1>27. CASE Inspect
    <2>1. op.pc \in Busy
      BY <1>27 DEF Inspect, Busy, Working, BuildPCs, QualifyPCs
    <2>2. op' = [op EXCEPT !.pc = "stop"]
      BY <1>27 DEF Inspect, Goto
    <2>3. /\ op'.pc \in {"stop"}
          /\ SameCall
      BY <1>2, <2>2 DEF Call
    <2>4. dir' = dir /\ att \notin failed'
      BY <1>27, <2>1 DEF Inspect, AttemptExact, Busy, store, history
    <2>5. Owned' /\ att' = att
      BY <1>1, <2>1, <2>3, <2>4, OwnedStays
    <2>6. built'[att] = op.key /\ vm'[att] = "stopped" /\ ver'[att] = 2
      BY <1>27, <1>1, <2>1, <2>2, <2>3
         DEF Inspect, AttemptExact, CallExact, Working, BuildPCs, QualifyPCs,
             ObjectTyped, HistoryTyped, object, history
    <2> QED
      BY <2>3, <2>5, <2>6
         DEF Owned, AttemptExact, Working, BuildPCs, QualifyPCs
  <1>28. CASE StopClone
    <2>1. op.pc \in Busy
      BY <1>28 DEF StopClone, Busy, Working, BuildPCs, QualifyPCs
    <2>2. op' = [op EXCEPT !.pc = "evidence"]
      BY <1>28 DEF StopClone, Goto
    <2>3. /\ op'.pc \in {"evidence"}
          /\ SameCall
      BY <1>2, <2>2 DEF Call
    <2>4. dir' = dir /\ att \notin failed'
      BY <1>28, <2>1 DEF StopClone, AttemptExact, Busy, store, history
    <2>5. Owned' /\ att' = att
      BY <1>1, <2>1, <2>3, <2>4, OwnedStays
    <2>6. /\ built'[att] = op.key /\ vm'[att] = "stopped" /\ ver'[att] = 2
          /\ att \in proved' /\ clone'[att] = "stopped"
      BY <1>28, <1>1, <2>1, <2>2, <2>3
         DEF StopClone, AttemptExact, CallExact, Working, BuildPCs,
             QualifyPCs, ObjectTyped, HistoryTyped, object, history
    <2> QED
      BY <2>3, <2>5, <2>6
         DEF Owned, AttemptExact, Working, BuildPCs, QualifyPCs
  <1>29. CASE writePrivate
    <2>1. op.pc \in Busy
      BY <1>29 DEF writePrivate, Busy, Working, BuildPCs, QualifyPCs
    <2>2. op' = op \/ op' = [op EXCEPT !.pc = "recheck"]
      BY <1>29 DEF writePrivate, Goto
    <2>3. /\ op'.pc \in {"evidence", "recheck"}
          /\ SameCall
      BY <1>29, <1>1, <2>2 DEF Call, writePrivate
    <2>4. UNCHANGED <<dir, object, history>>
      BY <1>29 DEF writePrivate, store
    <2>5. /\ att \notin failed /\ built[att] = op.key /\ vm[att] = "stopped"
          /\ ver[att] = 2 /\ att \in proved /\ clone[att] = "stopped"
      BY <1>29 DEF writePrivate, AttemptExact, Working, BuildPCs, QualifyPCs
    <2>6. Owned' /\ att' = att
      BY <1>1, <2>1, <2>3, <2>4, <2>5, OwnedStays DEF history
    <2> QED
      BY <2>3, <2>4, <2>5, <2>6
         DEF Owned, AttemptExact, object, history, Working, BuildPCs,
             QualifyPCs
  <1>30. CASE Recheck
    <2>1. op.pc \in Busy
      BY <1>30 DEF Recheck, Busy, Working, BuildPCs, QualifyPCs
    <2>2. /\ att \notin failed /\ built[att] = op.key /\ vm[att] = "stopped"
          /\ ver[att] = 2 /\ att \in proved /\ clone[att] = "stopped"
      BY <1>30 DEF Recheck, AttemptExact, Working, BuildPCs, QualifyPCs
    <2>3. /\ op'.pc = "pending" /\ op'.seen = 2
          /\ op'.att = op.att /\ op'.bkey = op.bkey /\ op'.key = op.key
      BY <1>30, <1>1, <2>2 DEF Call, Recheck
    <2>4. UNCHANGED <<dir, object, history>>
      BY <1>30 DEF Recheck, store
    <2>5. Owned' /\ att' = att
      BY <1>1, <2>1, <2>2, <2>3, <2>4, OwnedStays DEF history
    <2> QED
      BY <2>2, <2>3, <2>4, <2>5
         DEF Owned, AttemptExact, object, history, Working, BuildPCs,
             QualifyPCs
  <1>31. CASE AdmissionPending
    <2>1. op'.pc \notin Working
      BY <1>31, <1>1
         DEF AdmissionPending, writeAttempt, Goto, NoOp, Call, Working,
             BuildPCs, QualifyPCs
    <2> QED
      BY <2>1 DEF AttemptExact
  <1>32. CASE QualifyStepFails
    <2>1. op.pc \in Busy
      BY <1>32 DEF QualifyStepFails, Busy, Working, BuildPCs, QualifyPCs
    <2>2. op' = [op EXCEPT !.pc = "qfail"]
      BY <1>32 DEF QualifyStepFails, Goto
    <2>3. /\ op'.pc \in {"qfail"}
          /\ SameCall
      BY <1>2, <2>2 DEF Call
    <2>4. dir' = dir /\ att \notin failed'
      BY <1>32, <2>1 DEF QualifyStepFails, AttemptExact, Busy, store, history
    <2>5. Owned' /\ att' = att
      BY <1>1, <2>1, <2>3, <2>4, OwnedStays
    <2> QED
      BY <2>3, <2>5 DEF Owned, AttemptExact, Working, BuildPCs, QualifyPCs
  <1>33. CASE QualificationFails
    <2>1. op' = [op EXCEPT !.pc = "idle"]
      BY <1>33 DEF QualificationFails, writeAttempt, Goto
    <2> QED
      BY <1>1, <2>1 DEF Call, AttemptExact, Working, BuildPCs, QualifyPCs
  <1>34. ASSUME NEW a \in Attempt, Prepare(a)
          PROVE  AttemptExact'
    <2>1. op'.pc \notin Working
      BY <1>34 DEF Prepare, NoOp, Working, BuildPCs, QualifyPCs
    <2> QED
      BY <2>1 DEF AttemptExact
  <1>35. ASSUME NEW a \in Attempt, InstallerExits(a)
          PROVE  AttemptExact'
    <2>1. UNCHANGED <<op, dir, failed, cache, journal, built, ver, proved, clone>>
      BY <1>35 DEF InstallerExits, store, history
    <2>2. \A b \in Attempt : vm[b] = "stopped" => vm'[b] = "stopped"
      BY <1>35, <1>1 DEF InstallerExits, ObjectTyped
    <2> QED
      BY <2>1, <2>2, <1>1 DEF AttemptExact, FilesTyped, Unadmitted, att
  <1>36. ASSUME NEW a \in Attempt, CandidateAltered(a)
          PROVE  AttemptExact'
    <2>1. UNCHANGED <<op, dir, failed, cache, journal, built, vm, proved, clone>>
      BY <1>36 DEF CandidateAltered, store, history
    <2>2. op.pc \in Working => ver'[att] = ver[att]
      <3>1. op.pc \in Working => a # att
        BY <1>36 DEF CandidateAltered, AttemptExact, Unadmitted, Admission
      <3> QED
        BY <1>36, <3>1, <1>1
           DEF CandidateAltered, ObjectTyped, CallExact, Working, BuildPCs,
               QualifyPCs
    <2> QED
      BY <2>1, <2>2
         DEF AttemptExact, Unadmitted, att, Working, BuildPCs, QualifyPCs
  <1>37. CASE Killed
    <2>1. op'.pc \notin Working
      BY <1>37, <1>1
         DEF Killed, Return, NoOp, Call, Working, BuildPCs, QualifyPCs
    <2> QED
      BY <2>1 DEF AttemptExact
  <1>38. CASE PowerLoss
    <2>1. op'.pc \notin Working
      BY <1>38, <1>1
         DEF PowerLoss, Return, NoOp, Call, Working, BuildPCs, QualifyPCs
    <2> QED
      BY <2>1 DEF AttemptExact
  <1>39. CASE UNCHANGED <<op, store, object, history>>
    BY <1>39 DEF AttemptExact, Unadmitted, att, store, object, history
  <1> QED
    BY <1>3, <1>4, <1>5, <1>6, <1>7, <1>8, <1>9, <1>10, <1>11, <1>12, <1>13,
       <1>14, <1>15, <1>16, <1>17, <1>18, <1>19, <1>20, <1>21, <1>22, <1>23,
       <1>24, <1>25, <1>26, <1>27, <1>28, <1>29, <1>30, <1>31, <1>32, <1>33,
       <1>34, <1>35, <1>36, <1>37, <1>38, <1>39, ZenonT(60)
       DEF Next, PrepareStep, BuildStep, QualifyStep, PersistRecord,
           replaceAtomically, EditSource, Register, ScriptEnds, vars, store,
           object, host, history, golden, bounds, stageBuildInputs

-----------------------------------------------------------------------------
(* From the recorded admission to its completion.                          *)

Admitting == {"store", "unlink", "complete"}

(* What AdmissionExact says of the attempt.                                *)
Recorded(a, k, phases) ==
    LET state == journal[a].mem IN
    /\ a \in dir /\ Qualified(a, k)
    /\ state \in Journal /\ state.key = k /\ state.receipt /\ state.ident = 2
    /\ state.phase \in phases

(* The same after the step, of the attempt and key of before.              *)
QualifiedAfter(a, k) ==
    /\ built'[a] = k /\ a \in proved' \ failed'
    /\ clone'[a] = "stopped" /\ vm'[a] = "stopped"

RecordedAfter(a, k, phases) ==
    LET state == journal'[a].mem IN
    /\ a \in dir' /\ QualifiedAfter(a, k)
    /\ state \in Journal /\ state.key = k /\ state.receipt /\ state.ident = 2
    /\ state.phase \in phases

(* It says so of the attempt and key the call is left with.                *)
LEMMA RecordedExact ==
    ASSUME NEW a, NEW k, op'.att = a, op'.key = k, op'.seen = 2,
           op'.pc \in Admitting,
           RecordedAfter(a, k, IF op'.pc = "complete" THEN Admission
                               ELSE {"admission-pending"})
    PROVE  AdmissionExact'
  BY DEF AdmissionExact, RecordedAfter, QualifiedAfter, Qualified, Admitting, att

(* A recorded admission nobody works on stays as it is.                    *)
LEMMA RecordedStays ==
    ASSUME OthersKept, NEW a \in Attempt, NEW k, NEW phases, Recorded(a, k, phases),
           op.pc \in Busy => a # att, UNCHANGED <<journal, dir>>
    PROVE  RecordedAfter(a, k, phases)
  <1>1. QualifiedAfter(a, k)
    BY QualifiedStays DEF Recorded, Qualified, QualifiedAfter
  <1> QED
    BY <1>1 DEF Recorded, RecordedAfter

(* Between its recording and its completion an admission stays that of the *)
(* qualified candidate.                                                    *)
LEMMA AdmissionStep ==
    ASSUME TypeOK, CacheQualified, PendingQualified, AttemptExact,
           AdmissionExact, CallExact, [Next]_vars
    PROVE  AdmissionExact'
  <1>1. /\ op \in Call /\ CacheTyped /\ JournalTyped /\ BoundsTyped
            /\ OthersKept /\ AdmissionExact /\ CallExact
    BY TypeParts, OthersStep
  <1>2. op \in Call
    BY <1>1
  <1>3. CASE finishPublishedRecord
    <2>1. op'.pc \notin Admitting
      BY <1>3, <1>2
         DEF finishPublishedRecord, Return, NoOp, Call, Admitting
    <2> QED
      BY <2>1 DEF AdmissionExact, Admitting
  <1>4. CASE LoadFound
    <2> DEFINE r == cache[op.key].mem
    <2>1. CASE op' = NoOp
      BY <2>1 DEF NoOp, AdmissionExact
    <2>2. CASE op' # NoOp
      <3>1. /\ op.pc = "load" /\ r # None /\ op.key \in Key
            /\ verifyAdmittedAttempt(r, op.key) /\ ver[r.att] = r.ident
            /\ op' = [op EXCEPT !.pc = "complete", !.att = r.att, !.seen = ver[r.att]]
            /\ UNCHANGED <<journal, dir>>
        BY <1>4, <2>2
           DEF LoadFound, Return, exactCandidateIdentity, CallExact, store
      <3>2. r \in Prepared /\ r \in {cache[op.key].mem, cache[op.key].dur} \ {None}
        BY <1>1, <3>1 DEF CacheTyped, Pair
      <3>3. r.att \in Attempt /\ Qualified(r.att, op.key) /\ r.ident = 2
        <4>1. r.att \in Attempt /\ op.key \in Key
          BY <3>1, <3>2 DEF Prepared
        <4>2. Qualified(r.att, op.key) /\ r.ident = 2
          BY <3>2, <4>1, Zenon DEF CacheQualified
        <4> QED
          BY <4>1, <4>2
      <3>4. /\ r.att \in dir /\ journal[r.att].mem # None
            /\ journal[r.att].mem.phase \in Admission /\ journal[r.att].mem.key = op.key
            /\ journal[r.att].mem.receipt /\ journal[r.att].mem.ident = 2
        <4>1. verifyAdmittedAttempt(r, op.key) /\ r.ident = 2
          BY <3>1, <3>3
        <4> HIDE DEF r
        <4> QED
          BY <4>1 DEF verifyAdmittedAttempt, ReadAttempt, Admission
      <3>5. journal[r.att].mem \in Journal
        BY <1>1, <3>3, <3>4 DEF JournalTyped, Pair
      <3> HIDE DEF r
      <3>6. Recorded(r.att, op.key, Admission)
        BY <3>3, <3>4, <3>5 DEF Recorded
      <3>7. op.pc \notin Busy
        BY <3>1 DEF Busy, Working, BuildPCs, QualifyPCs
      <3>8. RecordedAfter(r.att, op.key, Admission)
        BY <1>1, <3>1, <3>3, <3>6, <3>7, RecordedStays
      <3>9. op'.pc = "complete" /\ op'.att = r.att /\ op'.key = op.key /\ op'.seen = 2
        BY <1>2, <3>1, <3>3 DEF Call
      <3> QED
        BY <3>8, <3>9, RecordedExact DEF Admitting
    <2> QED
      BY <2>1, <2>2
  <1>5. CASE resumePendingAdmission
    <2> DEFINE state == journal[att].mem
    <2>1. CASE op' = NoOp
      BY <2>1 DEF NoOp, AdmissionExact
    <2>2. CASE op' = [op EXCEPT !.pc = "reserve"]
      BY <1>2, <2>2 DEF Call, AdmissionExact
    <2>3. CASE op' # NoOp /\ op' # [op EXCEPT !.pc = "reserve"]
      <3>1. /\ op.pc = "load" /\ ReadAttempt(att) # None
            /\ pendingMatches(ReadAttempt(att)) /\ ver[att] = ReadAttempt(att).ident
            /\ op' = [op EXCEPT !.pc = "store", !.seen = ver[att]]
            /\ UNCHANGED <<journal, dir>>
        BY <1>5, <2>3
           DEF resumePendingAdmission, Goto, Return, exactCandidateIdentity,
               store
      <3>2. att \in Attempt
        BY <3>1 DEF CallExact
      <3>3. /\ att \in dir /\ state # None /\ state.phase = "admission-pending"
            /\ state.key = op.key /\ state.receipt /\ ver[att] = state.ident
        BY <3>1 DEF ReadAttempt, pendingMatches
      <3>4. Qualified(att, op.key) /\ state.ident = 2
        BY <3>2, <3>3 DEF PendingQualified, Admission
      <3>5. state \in Journal
        BY <1>1, <3>2, <3>3 DEF JournalTyped, Pair
      <3>6. Recorded(att, op.key, {"admission-pending"})
        BY <3>3, <3>4, <3>5 DEF Recorded
      <3>7. op.pc \notin Busy
        BY <3>1 DEF Busy, Working, BuildPCs, QualifyPCs
      <3>8. RecordedAfter(op.att, op.key, {"admission-pending"})
        BY <1>1, <3>1, <3>2, <3>6, <3>7, RecordedStays DEF att
      <3>9. op'.pc = "store" /\ op'.att = op.att /\ op'.key = op.key /\ op'.seen = 2
        BY <1>2, <3>1, <3>3, <3>4 DEF Call
      <3> QED
        BY <3>8, <3>9, RecordedExact DEF Admitting
    <2> QED
      BY <2>1, <2>2, <2>3
  <1>6. CASE storePrepared
    <2>1. CASE op' = NoOp
      BY <2>1 DEF NoOp, AdmissionExact
    <2>2. CASE op' # NoOp
      <3>1. /\ op.pc = "store" /\ op' = [op EXCEPT !.pc = "unlink"]
            /\ UNCHANGED <<journal, dir>>
        BY <1>6, <2>2 DEF storePrepared, Goto
      <3>2. att \in Attempt /\ op.seen = 2 /\ Recorded(att, op.key, {"admission-pending"})
        BY <3>1 DEF AdmissionExact, CallExact, Recorded
      <3>3. op.pc \notin Busy
        BY <3>1 DEF Busy, Working, BuildPCs, QualifyPCs
      <3>4. RecordedAfter(att, op.key, {"admission-pending"})
        BY <1>1, <3>1, <3>2, <3>3, RecordedStays
      <3>5. op'.pc = "unlink" /\ op'.att = att /\ op'.key = op.key /\ op'.seen = 2
        BY <1>2, <3>1, <3>2 DEF Call, att
      <3> QED
        BY <3>4, <3>5, RecordedExact DEF Admitting, RecordedAfter, Admission
    <2> QED
      BY <2>1, <2>2
  <1>7. CASE StoreFinish
    <2>1. CASE op' = NoOp
      BY <2>1 DEF NoOp, AdmissionExact
    <2>2. CASE op' # NoOp
      <3>1. /\ op.pc = "unlink" /\ op' = [op EXCEPT !.pc = "complete"]
            /\ UNCHANGED <<journal, dir>>
        BY <1>7, <2>2 DEF StoreFinish, Goto, Return
      <3>2. att \in Attempt /\ op.seen = 2 /\ Recorded(att, op.key, {"admission-pending"})
        BY <3>1 DEF AdmissionExact, CallExact, Recorded
      <3>3. op.pc \notin Busy
        BY <3>1 DEF Busy, Working, BuildPCs, QualifyPCs
      <3>4. RecordedAfter(att, op.key, {"admission-pending"})
        BY <1>1, <3>1, <3>2, <3>3, RecordedStays
      <3>5. op'.pc = "complete" /\ op'.att = att /\ op'.key = op.key /\ op'.seen = 2
        BY <1>2, <3>1, <3>2 DEF Call, att
      <3> QED
        BY <3>4, <3>5, RecordedExact DEF Admitting, RecordedAfter, Admission
    <2> QED
      BY <2>1, <2>2
  <1>8. CASE completeAdmission
    <2>1. op'.pc \notin Admitting
      BY <1>8, <1>2 DEF completeAdmission, Return, NoOp, Call, Admitting
    <2> QED
      BY <2>1 DEF AdmissionExact, Admitting
  <1>9. CASE PrepareFails
    <2>1. op'.pc \notin Admitting
      BY <1>9, <1>2 DEF PrepareFails, Return, NoOp, Call, Admitting
    <2> QED
      BY <2>1 DEF AdmissionExact, Admitting
  <1>10. CASE Reserve
    <2>1. op' = NoOp \/ op' = [op EXCEPT !.pc = "first", !.bkey = src]
      BY <1>10 DEF Reserve, Return
    <2>2. CASE op' = NoOp
      BY <2>2 DEF NoOp, AdmissionExact
    <2>3. CASE op' = [op EXCEPT !.pc = "first", !.bkey = src]
      BY <1>2, <2>3 DEF Call, AdmissionExact
    <2> QED
      BY <2>1, <2>2, <2>3
  <1>11. CASE FirstJournal
    <2>1. op'.pc \notin Admitting
      BY <1>11, <1>2
         DEF FirstJournal, writeAttempt, Goto, NoOp, Call, Admitting
    <2> QED
      BY <2>1 DEF AdmissionExact, Admitting
  <1>12. CASE Stage
    <2>1. op'.pc \notin Admitting
      BY <1>12, <1>2
         DEF Stage, stageBuildInputs, Goto, NoOp, Call, Admitting
    <2> QED
      BY <2>1 DEF AdmissionExact, Admitting
  <1>13. CASE BuilderVerifier
    <2>1. op'.pc \notin Admitting
      BY <1>13, <1>2 DEF BuilderVerifier, Goto, NoOp, Call, Admitting
    <2> QED
      BY <2>1 DEF AdmissionExact, Admitting
  <1>14. CASE RunOwned
    <2>1. op'.pc \notin Admitting
      BY <1>14, <1>2
         DEF RunOwned, writeAttempt, Goto, NoOp, Call, Admitting
    <2> QED
      BY <2>1 DEF AdmissionExact, Admitting
  <1>15. CASE Create
    <2>1. op'.pc \notin Admitting
      BY <1>15, <1>2 DEF Create, writeAttempt, Goto, NoOp, Call, Admitting
    <2> QED
      BY <2>1 DEF AdmissionExact, Admitting
  <1>16. CASE Configure
    <2>1. op'.pc \notin Admitting
      BY <1>16, <1>2
         DEF Configure, writeAttempt, Goto, NoOp, Call, Admitting
    <2> QED
      BY <2>1 DEF AdmissionExact, Admitting
  <1>17. CASE RunInstaller
    <2>1. op'.pc \notin Admitting
      BY <1>17, <1>2 DEF RunInstaller, Goto, NoOp, Call, Admitting
    <2> QED
      BY <2>1 DEF AdmissionExact, Admitting
  <1>18. CASE WaitFor
    <2>1. op'.pc \notin Admitting
      BY <1>18, <1>2
         DEF WaitFor, writeAttempt, Goto, NoOp, Call, Admitting, Following
    <2> QED
      BY <2>1 DEF AdmissionExact, Admitting
  <1>19. CASE Poweroff
    <2>1. op'.pc \notin Admitting
      BY <1>19, <1>2 DEF Poweroff, Goto, NoOp, Call, Admitting
    <2> QED
      BY <2>1 DEF AdmissionExact, Admitting
  <1>20. CASE CandidateStopped
    <2>1. op'.pc \notin Admitting
      BY <1>20, <1>2
         DEF CandidateStopped, writeAttempt, Goto, NoOp, Call, Admitting
    <2> QED
      BY <2>1 DEF AdmissionExact, Admitting
  <1>21. CASE BuildStepFails
    <2>1. op'.pc \notin Admitting
      BY <1>21, <1>2 DEF BuildStepFails, Goto, NoOp, Call, Admitting
    <2> QED
      BY <2>1 DEF AdmissionExact, Admitting
  <1>22. CASE BuildFails
    <2>1. op'.pc \notin Admitting
      BY <1>22, <1>2
         DEF BuildFails, writeAttempt, Goto, NoOp, Call, Admitting
    <2> QED
      BY <2>1 DEF AdmissionExact, Admitting
  <1>23. CASE BuildDone
    <2>1. op'.pc \notin Admitting
      BY <1>23, <1>2
         DEF BuildDone, writeAttempt, Goto, Return, NoOp, Call, Admitting
    <2> QED
      BY <2>1 DEF AdmissionExact, Admitting
  <1>24. CASE RegisterRevision
    <2>1. op'.pc \notin Admitting
      BY <1>24, <1>2
         DEF RegisterRevision, writeImmutable, Goto, NoOp, Call, Admitting
    <2> QED
      BY <2>1 DEF AdmissionExact, Admitting
  <1>25. CASE CreateFreshFromRevision
    <2>1. op'.pc \notin Admitting
      BY <1>25, <1>2
         DEF CreateFreshFromRevision, Goto, NoOp, Call, Admitting
    <2> QED
      BY <2>1 DEF AdmissionExact, Admitting
  <1>26. CASE StartClone
    <2>1. op'.pc \notin Admitting
      BY <1>26, <1>2 DEF StartClone, Goto, NoOp, Call, Admitting
    <2> QED
      BY <2>1 DEF AdmissionExact, Admitting
  <1>27. CASE Inspect
    <2>1. op'.pc \notin Admitting
      BY <1>27, <1>2 DEF Inspect, Goto, NoOp, Call, Admitting
    <2> QED
      BY <2>1 DEF AdmissionExact, Admitting
  <1>28. CASE StopClone
    <2>1. op'.pc \notin Admitting
      BY <1>28, <1>2 DEF StopClone, Goto, NoOp, Call, Admitting
    <2> QED
      BY <2>1 DEF AdmissionExact, Admitting
  <1>29. CASE writePrivate
    <2>1. op'.pc \notin Admitting
      BY <1>29, <1>2 DEF writePrivate, Goto, NoOp, Call, Admitting
    <2> QED
      BY <2>1 DEF AdmissionExact, Admitting
  <1>30. CASE Recheck
    <2>1. op'.pc \notin Admitting
      BY <1>30, <1>2 DEF Recheck, NoOp, Call, Admitting
    <2> QED
      BY <2>1 DEF AdmissionExact, Admitting
  <1>31. CASE AdmissionPending
    <2> DEFINE new == [phase |-> "admission-pending", key |-> op.key,
                       receipt |-> TRUE, ident |-> op.seen]
    <2>1. /\ att \in Attempt /\ op.key \in Key /\ op.pc = "pending"
          /\ att \in dir /\ op.seen = 2 /\ Qualified(att, op.key)
      BY <1>31
         DEF AdmissionPending, CallExact, AttemptExact, Qualified, Working,
             BuildPCs, QualifyPCs
    <2>2. new \in Journal /\ "store" \in PCs /\ "idle" \in PCs
      BY <2>1 DEF Journal, Phases, PCs
    <2>3. writeAttempt(att, new, "store", "idle") /\ dir' = dir
      BY <1>31 DEF AdmissionPending
    <2>4. /\ new.phase = "admission-pending" /\ new.key = op.key /\ new.receipt
          /\ new.ident = 2
      BY <2>1
    <2> HIDE DEF new
    <2>5. \/ op' = [op EXCEPT !.pc = "store"] /\ journal'[att] = Both(new)
          \/ op' = [op EXCEPT !.pc = "idle"]
      BY <1>1, <2>1, <2>2, <2>3, WriteEffect
    <2>6. CASE op' = [op EXCEPT !.pc = "idle"]
      BY <1>2, <2>6 DEF Call, AdmissionExact
    <2>7. CASE op' = [op EXCEPT !.pc = "store"] /\ journal'[att] = Both(new)
      <3>1. QualifiedAfter(att, op.key)
        BY <1>1, <2>1, QualifiedStays DEF Busy, Qualified, QualifiedAfter
      <3>2. journal'[att].mem = new
        BY <2>7 DEF Both
      <3>3. RecordedAfter(op.att, op.key, {"admission-pending"})
        BY <2>1, <2>2, <2>3, <2>4, <3>1, <3>2 DEF RecordedAfter, att
      <3>4. op'.pc = "store" /\ op'.att = op.att /\ op'.key = op.key /\ op'.seen = 2
        BY <1>2, <2>1, <2>7 DEF Call
      <3> QED
        BY <3>3, <3>4, RecordedExact DEF Admitting
    <2> QED
      BY <2>5, <2>6, <2>7
  <1>32. CASE QualifyStepFails
    <2>1. op'.pc \notin Admitting
      BY <1>32, <1>2 DEF QualifyStepFails, Goto, NoOp, Call, Admitting
    <2> QED
      BY <2>1 DEF AdmissionExact, Admitting
  <1>33. CASE QualificationFails
    <2>1. op'.pc \notin Admitting
      BY <1>33, <1>2
         DEF QualificationFails, writeAttempt, Goto, NoOp, Call, Admitting
    <2> QED
      BY <2>1 DEF AdmissionExact, Admitting
  <1>34. ASSUME NEW a \in Attempt, Prepare(a)
          PROVE  AdmissionExact'
    <2>1. op'.pc \notin Admitting
      BY <1>34, <1>2 DEF Prepare, NoOp, Call, Admitting
    <2> QED
      BY <2>1 DEF AdmissionExact, Admitting
  <1>35. CASE Killed
    <2>1. op'.pc \notin Admitting
      BY <1>35, <1>2 DEF Killed, Return, NoOp, Call, Admitting
    <2> QED
      BY <2>1 DEF AdmissionExact, Admitting
  <1>36. CASE PowerLoss
    <2>1. op'.pc \notin Admitting
      BY <1>36, <1>2 DEF PowerLoss, Return, NoOp, Call, Admitting
    <2> QED
      BY <2>1 DEF AdmissionExact, Admitting
  <1>37. CASE UNCHANGED <<op, journal, dir>>
    <2>1. SUFFICES ASSUME op.pc \in Admitting
                   PROVE  AdmissionExact'
      BY <1>37 DEF AdmissionExact, Admitting
    <2> DEFINE ps == IF op.pc = "complete" THEN Admission ELSE {"admission-pending"}
    <2>2. att \in Attempt /\ op.seen = 2 /\ Recorded(att, op.key, ps)
      BY <2>1 DEF AdmissionExact, CallExact, Recorded, Admitting
    <2>3. op.pc \notin Busy
      BY <2>1 DEF Admitting, Busy, Working, BuildPCs, QualifyPCs
    <2> HIDE DEF ps
    <2>4. RecordedAfter(op.att, op.key, ps)
      BY <1>37, <1>1, <2>2, <2>3, RecordedStays DEF att
    <2> QED
      BY <1>37, <2>1, <2>2, <2>4, RecordedExact DEF ps
  <1> QED
    BY <1>3, <1>4, <1>5, <1>6, <1>7, <1>8, <1>9, <1>10, <1>11, <1>12, <1>13,
       <1>14, <1>15, <1>16, <1>17, <1>18, <1>19, <1>20, <1>21, <1>22, <1>23,
       <1>24, <1>25, <1>26, <1>27, <1>28, <1>29, <1>30, <1>31, <1>32, <1>33,
       <1>34, <1>35, <1>36, <1>37, ZenonT(60)
       DEF Next, PrepareStep, BuildStep, QualifyStep, PersistRecord,
           replaceAtomically, EditSource, Register, InstallerExits,
           ScriptEnds, CandidateAltered, vars, store, object, host, history,
           golden, bounds, stageBuildInputs

-----------------------------------------------------------------------------
(* Seed scripts and the verifier they read.                                *)

(* The steps of a Build that runs no script of its own.                    *)
Watch == (BuildPCs \ {"render"}) \cup {"first", "fail"}

(* A step that touches no script, and leaves the Build what it knows.      *)
ScriptFrame ==
    /\ UNCHANGED <<dir, seed, script>>
    /\ op'.pc \in Watch =>
           op.pc \in Watch /\ op'.att = op.att /\ op'.unproven = op.unproven

(* Such a step keeps every script and its verifier.                        *)
LEMMA ScriptFrameKept ==
    ASSUME ScriptExact, VerifierKept, ScriptFrame
    PROVE  (ScriptExact /\ VerifierKept)'
  BY DEF ScriptExact, VerifierKept, ScriptFrame, Watch, att

(* A script that may still run stays in its directory with its verifier.   *)
LEMMA ScriptStep ==
    ASSUME TypeOK, AttemptExact, ScriptExact, VerifierKept, [Next]_vars
    PROVE  (ScriptExact /\ VerifierKept)'
  <1>1. op \in Call
    BY TypeParts
  <1>2. CASE finishPublishedRecord
    <2>1. \/ op' = op
          \/ op' = NoOp
      BY <1>2 DEF finishPublishedRecord, Return
    <2>2. op.pc \in Watch \/ op'.pc \notin Watch
      BY <1>2, <1>1, <2>1
         DEF finishPublishedRecord, Call, NoOp, Watch, BuildPCs, QualifyPCs
    <2>3. UNCHANGED <<dir, seed, script>>
      BY <1>2 DEF finishPublishedRecord, store, host
    <2>4. op'.pc \in Watch => op'.att = op.att /\ op'.unproven = op.unproven
      BY <1>1, <2>1 DEF Call, NoOp, Watch, BuildPCs
    <2> QED
      BY <2>2, <2>3, <2>4, ScriptFrameKept DEF ScriptFrame
  <1>3. CASE LoadFound
    <2> DEFINE r == cache[op.key].mem
    <2>1. \/ op' = [op EXCEPT !.pc = "complete", !.att = r.att, !.seen = ver[r.att]]
          \/ op' = NoOp
      BY <1>3 DEF LoadFound, Return
    <2> HIDE DEF r
    <2>2. op'.pc \notin Watch
      <3>1. CASE op' = NoOp
        BY <3>1 DEF NoOp, Watch, BuildPCs
      <3>2. CASE op' # NoOp
        BY <1>1, <2>1, <3>2 DEF Call, Watch, BuildPCs
      <3> QED
        BY <3>1, <3>2
    <2>3. UNCHANGED <<dir, seed, script>>
      BY <1>3 DEF LoadFound, store, host
    <2> QED
      BY <2>2, <2>3, ScriptFrameKept DEF ScriptFrame
  <1>4. CASE resumePendingAdmission
    <2>1. \/ op' = [op EXCEPT !.pc = "store", !.seen = ver[att]]
          \/ op' = [op EXCEPT !.pc = "reserve"]
          \/ op' = NoOp
      BY <1>4 DEF resumePendingAdmission, Return, Goto
    <2>2. op'.pc \notin Watch
      <3>1. CASE op' = NoOp
        BY <3>1 DEF NoOp, Watch, BuildPCs
      <3>2. CASE op' # NoOp
        BY <1>1, <2>1, <3>2 DEF Call, Watch, BuildPCs
      <3> QED
        BY <3>1, <3>2
    <2>3. UNCHANGED <<dir, seed, script>>
      BY <1>4 DEF resumePendingAdmission, store, host
    <2> QED
      BY <2>2, <2>3, ScriptFrameKept DEF ScriptFrame
  <1>5. CASE storePrepared
    <2>1. op' = [op EXCEPT !.pc = "unlink"]
      BY <1>5 DEF storePrepared, Goto
    <2>2. op.pc \in Watch \/ op'.pc \notin Watch
      BY <1>5, <1>1, <2>1
         DEF storePrepared, Call, NoOp, Watch, BuildPCs, QualifyPCs
    <2>3. UNCHANGED <<dir, seed, script>>
      BY <1>5 DEF storePrepared, store, host
    <2>4. op'.pc \in Watch => op'.att = op.att /\ op'.unproven = op.unproven
      BY <1>1, <2>1 DEF Call, NoOp, Watch, BuildPCs
    <2> QED
      BY <2>2, <2>3, <2>4, ScriptFrameKept DEF ScriptFrame
  <1>6. CASE StoreFinish
    <2>1. \/ op' = [op EXCEPT !.pc = "complete"]
          \/ op' = NoOp
      BY <1>6 DEF StoreFinish, Goto, Return
    <2>2. op.pc \in Watch \/ op'.pc \notin Watch
      BY <1>6, <1>1, <2>1
         DEF StoreFinish, Call, NoOp, Watch, BuildPCs, QualifyPCs
    <2>3. UNCHANGED <<dir, seed, script>>
      BY <1>6 DEF StoreFinish, store, host
    <2>4. op'.pc \in Watch => op'.att = op.att /\ op'.unproven = op.unproven
      BY <1>1, <2>1 DEF Call, NoOp, Watch, BuildPCs
    <2> QED
      BY <2>2, <2>3, <2>4, ScriptFrameKept DEF ScriptFrame
  <1>7. CASE completeAdmission
    <2>1. op' = NoOp
      BY <1>7 DEF completeAdmission, Return
    <2>2. op.pc \in Watch \/ op'.pc \notin Watch
      BY <1>7, <1>1, <2>1
         DEF completeAdmission, Call, NoOp, Watch, BuildPCs, QualifyPCs
    <2>3. UNCHANGED <<dir, seed, script>>
      BY <1>7 DEF completeAdmission, store, host
    <2>4. op'.pc \in Watch => op'.att = op.att /\ op'.unproven = op.unproven
      BY <1>1, <2>1 DEF Call, NoOp, Watch, BuildPCs
    <2> QED
      BY <2>2, <2>3, <2>4, ScriptFrameKept DEF ScriptFrame
  <1>8. CASE PrepareFails
    <2>1. op' = NoOp
      BY <1>8 DEF PrepareFails, Return
    <2>2. op.pc \in Watch \/ op'.pc \notin Watch
      BY <1>8, <1>1, <2>1
         DEF PrepareFails, Call, NoOp, Watch, BuildPCs, QualifyPCs
    <2>3. UNCHANGED <<dir, seed, script>>
      BY <1>8 DEF PrepareFails, store, host
    <2>4. op'.pc \in Watch => op'.att = op.att /\ op'.unproven = op.unproven
      BY <1>1, <2>1 DEF Call, NoOp, Watch, BuildPCs
    <2> QED
      BY <2>2, <2>3, <2>4, ScriptFrameKept DEF ScriptFrame
  <1>9. CASE Reserve
    <2>1. op' = NoOp \/ (op' = [op EXCEPT !.pc = "first", !.bkey = src] /\ att \notin dir)
      BY <1>9 DEF Reserve, Return
    <2>2. dir \subseteq dir' /\ UNCHANGED <<seed, script>> /\ dir' \subseteq dir \cup {att}
      BY <1>9 DEF Reserve, host
    <2>3. CASE op' = NoOp
      BY <2>2, <2>3, <1>9
         DEF NoOp, Reserve, ScriptExact, VerifierKept, BuildPCs
    <2>4. CASE op' = [op EXCEPT !.pc = "first", !.bkey = src] /\ att \notin dir
      <3>1. op'.att = att
        BY <1>1, <2>4 DEF Call, att
      <3> QED
        BY <2>2, <2>4, <3>1 DEF ScriptExact, VerifierKept, att
    <2> QED
      BY <2>1, <2>3, <2>4
  <1>10. CASE FirstJournal
    <2>1. \/ op' = [op EXCEPT !.pc = "stage"]
          \/ op' = [op EXCEPT !.pc = "idle"]
      BY <1>10 DEF FirstJournal, writeAttempt, Goto
    <2>2. op.pc \in Watch \/ op'.pc \notin Watch
      BY <1>10, <1>1, <2>1
         DEF FirstJournal, Call, NoOp, Watch, BuildPCs, QualifyPCs
    <2>3. UNCHANGED <<dir, seed, script>>
      BY <1>10 DEF FirstJournal, store, host
    <2>4. op'.pc \in Watch => op'.att = op.att /\ op'.unproven = op.unproven
      BY <1>1, <2>1 DEF Call, NoOp, Watch, BuildPCs
    <2> QED
      BY <2>2, <2>3, <2>4, ScriptFrameKept DEF ScriptFrame
  <1>11. CASE Stage
    <2>1. \/ op' = [op EXCEPT !.pc = "verifier"]
          \/ op' = [op EXCEPT !.pc = "fail"]
      BY <1>11 DEF Stage, stageBuildInputs, Goto
    <2>2. op.pc \in Watch \/ op'.pc \notin Watch
      BY <1>11, <1>1, <2>1
         DEF Stage, Call, NoOp, Watch, BuildPCs, QualifyPCs
    <2>3. UNCHANGED <<dir, seed, script>>
      BY <1>11 DEF Stage, store, host
    <2>4. op'.pc \in Watch => op'.att = op.att /\ op'.unproven = op.unproven
      BY <1>1, <2>1 DEF Call, NoOp, Watch, BuildPCs
    <2> QED
      BY <2>2, <2>3, <2>4, ScriptFrameKept DEF ScriptFrame
  <1>12. CASE BuilderVerifier
    <2>1. /\ seed' = seed \cup {att} /\ script' = script \cup {att} /\ dir' = dir
          /\ op' = [op EXCEPT !.pc = "render"]
      BY <1>12 DEF BuilderVerifier, Goto, store
    <2>2. op'.pc = "render" /\ att \in dir
      BY <1>12, <1>1, <2>1
         DEF Call, BuilderVerifier, AttemptExact, Working, BuildPCs,
             QualifyPCs
    <2> QED
      BY <2>1, <2>2 DEF ScriptExact, VerifierKept
  <1>13. CASE RunOwned
    <2>1. dir' = dir /\ seed' = seed /\ script' \subseteq script
      BY <1>13 DEF RunOwned
    <2>2. \/ /\ att \notin script'
             /\ op' = [op EXCEPT !.pc = "create"] \/ op' = [op EXCEPT !.pc = "fail"]
          \/ op' = [op EXCEPT !.pc = "fail", !.unproven = TRUE]
      BY <1>13 DEF RunOwned, writeAttempt, Goto
    <2>3. op'.unproven \/ (att' = att /\ att \notin script')
      BY <1>1, <2>2 DEF Call, att
    <2> QED
      BY <2>1, <2>3 DEF ScriptExact, VerifierKept
  <1>14. CASE Create
    <2>1. \/ op' = [op EXCEPT !.pc = "configure"]
          \/ op' = [op EXCEPT !.pc = "fail"]
      BY <1>14 DEF Create, writeAttempt, Goto
    <2>2. op.pc \in Watch \/ op'.pc \notin Watch
      BY <1>14, <1>1, <2>1
         DEF Create, Call, NoOp, Watch, BuildPCs, QualifyPCs
    <2>3. UNCHANGED <<dir, seed, script>>
      BY <1>14 DEF Create, store, host
    <2>4. op'.pc \in Watch => op'.att = op.att /\ op'.unproven = op.unproven
      BY <1>1, <2>1 DEF Call, NoOp, Watch, BuildPCs
    <2> QED
      BY <2>2, <2>3, <2>4, ScriptFrameKept DEF ScriptFrame
  <1>15. CASE Configure
    <2>1. \/ op' = [op EXCEPT !.pc = "launch"]
          \/ op' = [op EXCEPT !.pc = "fail"]
      BY <1>15 DEF Configure, writeAttempt, Goto
    <2>2. op.pc \in Watch \/ op'.pc \notin Watch
      BY <1>15, <1>1, <2>1
         DEF Configure, Call, NoOp, Watch, BuildPCs, QualifyPCs
    <2>3. UNCHANGED <<dir, seed, script>>
      BY <1>15 DEF Configure, store, host
    <2>4. op'.pc \in Watch => op'.att = op.att /\ op'.unproven = op.unproven
      BY <1>1, <2>1 DEF Call, NoOp, Watch, BuildPCs
    <2> QED
      BY <2>2, <2>3, <2>4, ScriptFrameKept DEF ScriptFrame
  <1>16. CASE RunInstaller
    <2>1. \/ op' = [op EXCEPT !.pc = "installer-running"]
          \/ op' = [op EXCEPT !.pc = "fail"]
      BY <1>16 DEF RunInstaller, Goto
    <2>2. op.pc \in Watch \/ op'.pc \notin Watch
      BY <1>16, <1>1, <2>1
         DEF RunInstaller, Call, NoOp, Watch, BuildPCs, QualifyPCs
    <2>3. UNCHANGED <<dir, seed, script>>
      BY <1>16 DEF RunInstaller, store, host
    <2>4. op'.pc \in Watch => op'.att = op.att /\ op'.unproven = op.unproven
      BY <1>1, <2>1 DEF Call, NoOp, Watch, BuildPCs
    <2> QED
      BY <2>2, <2>3, <2>4, ScriptFrameKept DEF ScriptFrame
  <1>17. CASE WaitFor
    <2>1. \/ op' = [op EXCEPT !.pc = Following[op.pc]]
          \/ op' = [op EXCEPT !.pc = "fail"]
      BY <1>17 DEF WaitFor, writeAttempt, Goto
    <2>2. op.pc \in Watch \/ op'.pc \notin Watch
      BY <1>17, <1>1, <2>1
         DEF WaitFor, Call, NoOp, Watch, BuildPCs, QualifyPCs, Following
    <2>3. UNCHANGED <<dir, seed, script>>
      BY <1>17 DEF WaitFor, store, host
    <2>4. op'.pc \in Watch => op'.att = op.att /\ op'.unproven = op.unproven
      BY <1>1, <2>1 DEF Call, NoOp, Watch, BuildPCs
    <2> QED
      BY <2>2, <2>3, <2>4, ScriptFrameKept DEF ScriptFrame
  <1>18. CASE Poweroff
    <2>1. op' = [op EXCEPT !.pc = "stopped"]
      BY <1>18 DEF Poweroff, Goto
    <2>2. op.pc \in Watch \/ op'.pc \notin Watch
      BY <1>18, <1>1, <2>1
         DEF Poweroff, Call, NoOp, Watch, BuildPCs, QualifyPCs
    <2>3. UNCHANGED <<dir, seed, script>>
      BY <1>18 DEF Poweroff, store, host
    <2>4. op'.pc \in Watch => op'.att = op.att /\ op'.unproven = op.unproven
      BY <1>1, <2>1 DEF Call, NoOp, Watch, BuildPCs
    <2> QED
      BY <2>2, <2>3, <2>4, ScriptFrameKept DEF ScriptFrame
  <1>19. CASE CandidateStopped
    <2>1. op.pc \in Watch /\ (~op.unproven => att \notin script)
      BY <1>19 DEF CandidateStopped, ScriptExact, Watch, BuildPCs
    <2>2. /\ dir' = dir /\ script' = script
          /\ seed' = seed \/ (~op.unproven /\ seed' = seed \ {att})
      BY <1>19 DEF CandidateStopped, removeVerifier
    <2>3. op' = [op EXCEPT !.pc = "written"] \/ op' = [op EXCEPT !.pc = "fail"]
      BY <1>19 DEF CandidateStopped, writeAttempt, Goto
    <2>4. att' = att /\ op'.unproven = op.unproven
      BY <1>1, <2>3 DEF Call, att
    <2> QED
      BY <2>1, <2>2, <2>4 DEF ScriptExact, VerifierKept
  <1>20. CASE BuildStepFails
    <2>1. op' = [op EXCEPT !.pc = "fail"]
      BY <1>20 DEF BuildStepFails, Goto
    <2>2. op.pc \in Watch \/ op'.pc \notin Watch
      BY <1>20, <1>1, <2>1
         DEF BuildStepFails, Call, NoOp, Watch, BuildPCs, QualifyPCs
    <2>3. UNCHANGED <<dir, seed, script>>
      BY <1>20 DEF BuildStepFails, store, host
    <2>4. op'.pc \in Watch => op'.att = op.att /\ op'.unproven = op.unproven
      BY <1>1, <2>1 DEF Call, NoOp, Watch, BuildPCs
    <2> QED
      BY <2>2, <2>3, <2>4, ScriptFrameKept DEF ScriptFrame
  <1>21. CASE BuildFails
    <2>1. op.pc \in Watch /\ (~op.unproven => att \notin script)
      BY <1>21 DEF BuildFails, ScriptExact, Watch
    <2>2. /\ dir' = dir /\ script' = script
          /\ seed' = seed \/ (~op.unproven /\ seed' = seed \ {att})
      BY <1>21 DEF BuildFails, removeVerifier
    <2>3. op' = [op EXCEPT !.pc = "idle"]
      BY <1>21 DEF BuildFails, writeAttempt, Goto
    <2>4. op'.pc = "idle"
      BY <1>1, <2>3 DEF Call
    <2> QED
      BY <2>1, <2>2, <2>4 DEF ScriptExact, VerifierKept, BuildPCs
  <1>22. CASE BuildDone
    <2>1. \/ op' = [op EXCEPT !.pc = "register"]
          \/ op' = [op EXCEPT !.pc = "idle"]
          \/ op' = NoOp
      BY <1>22 DEF BuildDone, writeAttempt, Goto, Return
    <2>2. op.pc \in Watch \/ op'.pc \notin Watch
      BY <1>22, <1>1, <2>1
         DEF BuildDone, Call, NoOp, Watch, BuildPCs, QualifyPCs
    <2>3. UNCHANGED <<dir, seed, script>>
      BY <1>22 DEF BuildDone, store, host
    <2>4. op'.pc \in Watch => op'.att = op.att /\ op'.unproven = op.unproven
      BY <1>1, <2>1 DEF Call, NoOp, Watch, BuildPCs
    <2> QED
      BY <2>2, <2>3, <2>4, ScriptFrameKept DEF ScriptFrame
  <1>23. CASE RegisterRevision
    <2>1. \/ op' = [op EXCEPT !.pc = "clone"]
          \/ op' = [op EXCEPT !.pc = "qfail"]
      BY <1>23 DEF RegisterRevision, writeImmutable, Goto
    <2>2. op.pc \in Watch \/ op'.pc \notin Watch
      BY <1>23, <1>1, <2>1
         DEF RegisterRevision, Call, NoOp, Watch, BuildPCs, QualifyPCs
    <2>3. UNCHANGED <<dir, seed, script>>
      BY <1>23 DEF RegisterRevision, store, host
    <2>4. op'.pc \in Watch => op'.att = op.att /\ op'.unproven = op.unproven
      BY <1>1, <2>1 DEF Call, NoOp, Watch, BuildPCs
    <2> QED
      BY <2>2, <2>3, <2>4, ScriptFrameKept DEF ScriptFrame
  <1>24. CASE CreateFreshFromRevision
    <2>1. op' = [op EXCEPT !.pc = "start"]
      BY <1>24 DEF CreateFreshFromRevision, Goto
    <2>2. op.pc \in Watch \/ op'.pc \notin Watch
      BY <1>24, <1>1, <2>1
         DEF CreateFreshFromRevision, Call, NoOp, Watch, BuildPCs, QualifyPCs
    <2>3. UNCHANGED <<dir, seed, script>>
      BY <1>24 DEF CreateFreshFromRevision, store, host
    <2>4. op'.pc \in Watch => op'.att = op.att /\ op'.unproven = op.unproven
      BY <1>1, <2>1 DEF Call, NoOp, Watch, BuildPCs
    <2> QED
      BY <2>2, <2>3, <2>4, ScriptFrameKept DEF ScriptFrame
  <1>25. CASE StartClone
    <2>1. \/ op' = [op EXCEPT !.pc = "inspect"]
          \/ op' = [op EXCEPT !.pc = "qfail"]
      BY <1>25 DEF StartClone, Goto
    <2>2. op.pc \in Watch \/ op'.pc \notin Watch
      BY <1>25, <1>1, <2>1
         DEF StartClone, Call, NoOp, Watch, BuildPCs, QualifyPCs
    <2>3. UNCHANGED <<dir, seed, script>>
      BY <1>25 DEF StartClone, store, host
    <2>4. op'.pc \in Watch => op'.att = op.att /\ op'.unproven = op.unproven
      BY <1>1, <2>1 DEF Call, NoOp, Watch, BuildPCs
    <2> QED
      BY <2>2, <2>3, <2>4, ScriptFrameKept DEF ScriptFrame
  <1>26. CASE Inspect
    <2>1. op' = [op EXCEPT !.pc = "stop"]
      BY <1>26 DEF Inspect, Goto
    <2>2. op.pc \in Watch \/ op'.pc \notin Watch
      BY <1>26, <1>1, <2>1
         DEF Inspect, Call, NoOp, Watch, BuildPCs, QualifyPCs
    <2>3. UNCHANGED <<dir, seed, script>>
      BY <1>26 DEF Inspect, store, host
    <2>4. op'.pc \in Watch => op'.att = op.att /\ op'.unproven = op.unproven
      BY <1>1, <2>1 DEF Call, NoOp, Watch, BuildPCs
    <2> QED
      BY <2>2, <2>3, <2>4, ScriptFrameKept DEF ScriptFrame
  <1>27. CASE StopClone
    <2>1. op' = [op EXCEPT !.pc = "evidence"]
      BY <1>27 DEF StopClone, Goto
    <2>2. op.pc \in Watch \/ op'.pc \notin Watch
      BY <1>27, <1>1, <2>1
         DEF StopClone, Call, NoOp, Watch, BuildPCs, QualifyPCs
    <2>3. UNCHANGED <<dir, seed, script>>
      BY <1>27 DEF StopClone, store, host
    <2>4. op'.pc \in Watch => op'.att = op.att /\ op'.unproven = op.unproven
      BY <1>1, <2>1 DEF Call, NoOp, Watch, BuildPCs
    <2> QED
      BY <2>2, <2>3, <2>4, ScriptFrameKept DEF ScriptFrame
  <1>28. CASE writePrivate
    <2>1. \/ op' = op
          \/ op' = [op EXCEPT !.pc = "recheck"]
      BY <1>28 DEF writePrivate, Goto
    <2>2. op.pc \in Watch \/ op'.pc \notin Watch
      BY <1>28, <1>1, <2>1
         DEF writePrivate, Call, NoOp, Watch, BuildPCs, QualifyPCs
    <2>3. UNCHANGED <<dir, seed, script>>
      BY <1>28 DEF writePrivate, store, host
    <2>4. op'.pc \in Watch => op'.att = op.att /\ op'.unproven = op.unproven
      BY <1>1, <2>1 DEF Call, NoOp, Watch, BuildPCs
    <2> QED
      BY <2>2, <2>3, <2>4, ScriptFrameKept DEF ScriptFrame
  <1>29. CASE Recheck
    <2>1. op' = [op EXCEPT !.pc = "pending", !.seen = ver[att]]
      BY <1>29 DEF Recheck
    <2>2. op.pc \in Watch \/ op'.pc \notin Watch
      BY <1>29, <1>1, <2>1
         DEF Recheck, Call, NoOp, Watch, BuildPCs, QualifyPCs
    <2>3. UNCHANGED <<dir, seed, script>>
      BY <1>29 DEF Recheck, store, host
    <2>4. op'.pc \in Watch => op'.att = op.att /\ op'.unproven = op.unproven
      BY <1>1, <2>1 DEF Call, NoOp, Watch, BuildPCs
    <2> QED
      BY <2>2, <2>3, <2>4, ScriptFrameKept DEF ScriptFrame
  <1>30. CASE AdmissionPending
    <2>1. \/ op' = [op EXCEPT !.pc = "store"]
          \/ op' = [op EXCEPT !.pc = "idle"]
      BY <1>30 DEF AdmissionPending, writeAttempt, Goto
    <2>2. op.pc \in Watch \/ op'.pc \notin Watch
      BY <1>30, <1>1, <2>1
         DEF AdmissionPending, Call, NoOp, Watch, BuildPCs, QualifyPCs
    <2>3. UNCHANGED <<dir, seed, script>>
      BY <1>30 DEF AdmissionPending, store, host
    <2>4. op'.pc \in Watch => op'.att = op.att /\ op'.unproven = op.unproven
      BY <1>1, <2>1 DEF Call, NoOp, Watch, BuildPCs
    <2> QED
      BY <2>2, <2>3, <2>4, ScriptFrameKept DEF ScriptFrame
  <1>31. CASE QualifyStepFails
    <2>1. op' = [op EXCEPT !.pc = "qfail"]
      BY <1>31 DEF QualifyStepFails, Goto
    <2>2. op.pc \in Watch \/ op'.pc \notin Watch
      BY <1>31, <1>1, <2>1
         DEF QualifyStepFails, Call, NoOp, Watch, BuildPCs, QualifyPCs
    <2>3. UNCHANGED <<dir, seed, script>>
      BY <1>31 DEF QualifyStepFails, store, host
    <2>4. op'.pc \in Watch => op'.att = op.att /\ op'.unproven = op.unproven
      BY <1>1, <2>1 DEF Call, NoOp, Watch, BuildPCs
    <2> QED
      BY <2>2, <2>3, <2>4, ScriptFrameKept DEF ScriptFrame
  <1>32. CASE QualificationFails
    <2>1. op' = [op EXCEPT !.pc = "idle"]
      BY <1>32 DEF QualificationFails, writeAttempt, Goto
    <2>2. op.pc \in Watch \/ op'.pc \notin Watch
      BY <1>32, <1>1, <2>1
         DEF QualificationFails, Call, NoOp, Watch, BuildPCs, QualifyPCs
    <2>3. UNCHANGED <<dir, seed, script>>
      BY <1>32 DEF QualificationFails, store, host
    <2>4. op'.pc \in Watch => op'.att = op.att /\ op'.unproven = op.unproven
      BY <1>1, <2>1 DEF Call, NoOp, Watch, BuildPCs
    <2> QED
      BY <2>2, <2>3, <2>4, ScriptFrameKept DEF ScriptFrame
  <1>33. ASSUME NEW a \in Attempt, Prepare(a)
          PROVE  (ScriptExact /\ VerifierKept)'
    <2>1. op'.pc \notin Watch
      BY <1>33 DEF Prepare, NoOp, Watch, BuildPCs
    <2>2. UNCHANGED <<dir, seed, script>>
      BY <1>33 DEF Prepare, store, host
    <2> QED
      BY <2>1, <2>2, ScriptFrameKept DEF ScriptFrame
  <1>34. ASSUME NEW a \in Attempt, ScriptEnds(a)
          PROVE  (ScriptExact /\ VerifierKept)'
    <2>1. UNCHANGED <<dir, seed, op>> /\ script' \subseteq script
      BY <1>34 DEF ScriptEnds, store
    <2> QED
      BY <2>1 DEF ScriptExact, VerifierKept, att
  <1>35. CASE Killed
    <2>1. op' = NoOp
      BY <1>35 DEF Killed, Return
    <2>2. op.pc \in Watch \/ op'.pc \notin Watch
      BY <1>35, <1>1, <2>1
         DEF Killed, Call, NoOp, Watch, BuildPCs, QualifyPCs
    <2>3. UNCHANGED <<dir, seed, script>>
      BY <1>35 DEF Killed, store, host
    <2>4. op'.pc \in Watch => op'.att = op.att /\ op'.unproven = op.unproven
      BY <1>1, <2>1 DEF Call, NoOp, Watch, BuildPCs
    <2> QED
      BY <2>2, <2>3, <2>4, ScriptFrameKept DEF ScriptFrame
  <1>36. CASE PowerLoss
    BY <1>36 DEF PowerLoss, ScriptExact, VerifierKept
  <1>37. CASE UNCHANGED <<op, dir, seed, script>>
    BY <1>37, ScriptFrameKept DEF ScriptFrame
  <1> QED
    BY <1>2, <1>3, <1>4, <1>5, <1>6, <1>7, <1>8, <1>9, <1>10, <1>11, <1>12,
       <1>13, <1>14, <1>15, <1>16, <1>17, <1>18, <1>19, <1>20, <1>21, <1>22,
       <1>23, <1>24, <1>25, <1>26, <1>27, <1>28, <1>29, <1>30, <1>31, <1>32,
       <1>33, <1>34, <1>35, <1>36, <1>37, ZenonT(60)
       DEF Next, PrepareStep, BuildStep, QualifyStep, PersistRecord,
           replaceAtomically, EditSource, Register, InstallerExits,
           CandidateAltered, vars, store, object, host, history, golden,
           bounds, stageBuildInputs

-----------------------------------------------------------------------------
(* The invariant.                                                          *)

(* It holds before the first Prepare.                                      *)
LEMMA PreparedInit == Init => PreparedInv
  <1> SUFFICES ASSUME Init
               PROVE  PreparedInv
    OBVIOUS
  <1> USE DEF Init
  <1>1. JournalTyped /\ CacheTyped
    BY DEF JournalTyped, CacheTyped, Pair, Both
  <1>2. FilesTyped /\ ObjectTyped /\ HistoryTyped
    BY DEF FilesTyped, ObjectTyped, HistoryTyped
  <1>3. RecordTyped /\ PointerTyped
    BY DEF RecordTyped, PointerTyped, Pair, Both
  <1>4. op \in Call /\ op.pc = "idle" /\ ResultTyped /\ BoundsTyped
    BY PreparedAssumption DEF NoOp, Call, PCs, ResultTyped, BoundsTyped
  <1>5. TypeOK
    BY <1>1, <1>2, <1>3, <1>4, TypeParts
  <1>6. CacheQualified /\ PendingQualified
    BY DEF CacheQualified, PendingQualified, Both
  <1>7. CacheExact
    BY DEF CacheExact, Both
  <1>8. AttemptExact /\ AdmissionExact /\ CallExact
    BY <1>4
       DEF AttemptExact, AdmissionExact, CallExact, Working, BuildPCs,
           QualifyPCs
  <1>9. VerifierKept /\ ScriptExact
    BY DEF VerifierKept, ScriptExact
  <1>10. CurrentResolves /\ RecordExact
    BY DEF CurrentResolves, RecordExact, Both
  <1> QED
    BY <1>5, <1>6, <1>7, <1>8, <1>9, <1>10 DEF PreparedInv

(* Every step keeps it.                                                    *)
LEMMA PreparedStep == PreparedInv /\ [Next]_vars => PreparedInv'
  <1> SUFFICES ASSUME PreparedInv, [Next]_vars
               PROVE  PreparedInv'
    OBVIOUS
  <1>1. /\ TypeOK /\ CacheQualified /\ VerifierKept /\ CurrentResolves
        /\ PendingQualified /\ CacheExact /\ AttemptExact /\ AdmissionExact
        /\ CallExact /\ ScriptExact /\ RecordExact
    BY DEF PreparedInv
  <1>2. TypeOK' /\ CallExact'
    BY <1>1, TypeStep, CallStep
  <1>3. CacheQualified' /\ PendingQualified'
    BY <1>1, CacheQualifiedStep, PendingQualifiedStep
  <1>4. CacheExact'
    BY <1>1, CacheStaysStep DEF CacheStays
  <1>5. AttemptExact' /\ AdmissionExact'
    BY <1>1, AttemptStep, AdmissionStep
  <1>6. VerifierKept' /\ ScriptExact'
    BY <1>1, ScriptStep
  <1>7. CurrentResolves' /\ RecordExact'
    BY <1>1, GoldenStep DEF GoldenExact
  <1> QED
    BY <1>2, <1>3, <1>4, <1>5, <1>6, <1>7 DEF PreparedInv

(* Whatever was killed, lost, retried, edited or registered meanwhile,     *)
(* every cached record, and every admission a later Prepare may resume,    *)
(* names a candidate built from the inputs of its key that qualified and   *)
(* never failed; a script that may still run keeps its verifier; and the   *)
(* current pointer resolves, but for a revision whose record failed to     *)
(* sync (prepare.go, build.go, golden.go).                                 *)
THEOREM PreparedInvariance == Spec => []PreparedInv
  BY PreparedInit, PreparedStep, PTL DEF Spec

(* A key is never given another base once its record is durable: a record  *)
(* is linked without replacing one and read back by every later Prepare    *)
(* (prepare.go storePrepared).  With CacheQualified, no base serves two    *)
(* keys either.                                                            *)
THEOREM RecordsAreFinal == Spec => CacheFinal
  <1>1. PreparedInv /\ [Next]_vars =>
            [\A k \in Key : cache[k].dur # None => cache'[k] = cache[k]]_vars
    BY CacheStaysStep DEF PreparedInv, CacheStays
  <1> QED
    BY <1>1, PreparedInvariance, PTL DEF Spec, CacheFinal

(* What qualifies a returned candidate is not taken back.                  *)
LEMMA ReturnedStep ==
    ASSUME PreparedInv, ReturnedIntact, [Next]_vars
    PROVE  ReturnedIntact'
  <1>1. /\ op \in Call /\ ResultTyped /\ CallExact /\ AdmissionExact /\ OthersKept
    BY TypeParts, OthersStep DEF PreparedInv
  <1>2. CASE result' = result /\ result # None
    <2>1. op.pc = "idle" /\ result.att \in Attempt
      BY <1>1, <1>2 DEF CallExact, ResultTyped
    <2>2. op.pc \notin Busy
      BY <2>1 DEF Busy, Working, BuildPCs, QualifyPCs
    <2> QED
      BY <1>1, <1>2, <2>1, <2>2 DEF OthersKept, ReturnedIntact
  <1>3. CASE result' = None
    BY <1>3 DEF ReturnedIntact
  <1>4. CASE completeAdmission /\ result' = Success
    <2>1. /\ op.pc = "complete" /\ att \in Attempt /\ op.seen = 2
          /\ Qualified(att, op.key)
      BY <1>1, <1>4 DEF completeAdmission, CallExact, AdmissionExact
    <2>2. op.pc \notin Busy
      BY <2>1 DEF Busy, Working, BuildPCs, QualifyPCs
    <2> QED
      BY <1>1, <1>4, <2>1, <2>2
         DEF OthersKept, ReturnedIntact, Qualified, Success
  <1>5. \/ result' = result \/ result' = None
        \/ completeAdmission /\ result' = Success
    <2>1. CASE completeAdmission
      BY <2>1 DEF completeAdmission
    <2>2. CASE \E a \in Attempt : Prepare(a)
      BY <2>2 DEF Prepare
    <2>3. CASE result' = result
      BY <2>3
    <2> QED
      BY <2>1, <2>2, <2>3, ZenonT(60)
         DEF Next, PrepareStep, BuildStep, QualifyStep,
             finishPublishedRecord, LoadFound, resumePendingAdmission,
             storePrepared, StoreFinish, PrepareFails, Reserve, FirstJournal,
             Stage, BuilderVerifier, RunOwned, Create, Configure,
             RunInstaller, WaitFor, Poweroff, CandidateStopped,
             BuildStepFails, BuildFails, BuildDone, RegisterRevision,
             CreateFreshFromRevision, StartClone, Inspect, StopClone,
             writePrivate, Recheck, AdmissionPending, QualifyStepFails,
             QualificationFails, PersistRecord, replaceAtomically,
             EditSource, Register, InstallerExits, ScriptEnds,
             CandidateAltered, Killed, PowerLoss, vars
  <1> QED
    BY <1>2, <1>3, <1>4, <1>5

(* A candidate that Prepare returned, built or taken from the cache, was   *)
(* built for the requested key, passed its qualification and had the       *)
(* qualified bytes when it was last checked (prepare.go).                  *)
THEOREM ReturnedIsIntact == Spec => []ReturnedIntact
  <1>1. Init => ReturnedIntact
    BY DEF Init, ReturnedIntact
  <1>2. PreparedInv /\ ReturnedIntact /\ [Next]_vars => ReturnedIntact'
    BY ReturnedStep
  <1> QED
    BY <1>1, <1>2, PreparedInvariance, PTL DEF Spec

=============================================================================
