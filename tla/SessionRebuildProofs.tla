----------------------- MODULE SessionRebuildProofs -------------------------
(***************************************************************************)
(* What SessionRebuild promises holds for any number of commands, objects  *)
(* and bases: however often a rebuild is interrupted and repeated while    *)
(* other commands and the supervisor run.                                  *)
(*                                                                         *)
(* RebuildInv is inductive. OldNeverRuns alone is not: it needs that a     *)
(* launch is of the object the record names (LaunchExact), that a stopped  *)
(* record has no launch (RecordExact), and that the old system stays       *)
(* stopped until the record is switched (JournalExact). NothingLeaked and  *)
(* SystemKept need the lock: a command that holds it acts on the journal   *)
(* it loaded (CommandExact), and nobody else has changed that one since    *)
(* (OneHolder).                                                            *)
(***************************************************************************)
EXTENDS SessionRebuild, TLAPS

(* The two fixed journals.                                                 *)
LEMMA FixedJournals ==
    /\ NoJournal \in Journal /\ Torn \in Journal
    /\ NoJournal.ph = "none" /\ NoJournal.old = None /\ NoJournal.cand = None /\ NoJournal.base = None
    /\ Torn.ph = "torn" /\ Torn.old = None /\ Torn.cand = None /\ Torn.base = None
  BY DEF Journal, NoJournal, Torn

(* A journal in one of its phases is complete; the other two are fixed.    *)
LEMMA JournalFields ==
    ASSUME NEW j \in Journal
    PROVE  /\ j.ph \notin {"none", "torn"} => j \in RebuildJournal /\ j.cand # j.old
           /\ j.ph = "none" => j = NoJournal
           /\ j.ph = "torn" => j = Torn
           /\ j.ph \in RebuildPhases \cup {"none", "torn"}
           /\ j.old \in Objects \cup {None} /\ j.cand \in Objects \cup {None}
           /\ j.base \in Bases \cup {None}
  <1>1. CASE j \in RebuildJournal /\ j.cand # j.old
    BY <1>1 DEF RebuildJournal, RebuildPhases
  <1>2. CASE j = NoJournal \/ j = Torn
    BY <1>2, FixedJournals DEF RebuildPhases
  <1> QED
    BY <1>1, <1>2 DEF Journal

(* A phase advanced leaves the rest of the journal alone.                  *)
LEMMA AdvanceJournal ==
    ASSUME NEW j \in Journal, j.ph \notin {"none", "torn"}, NEW p \in RebuildPhases,
           NEW k, k = [j EXCEPT !.ph = p]
    PROVE  /\ k \in Journal /\ k.ph = p
           /\ k.old = j.old /\ k.oldBase = j.oldBase /\ k.oldPin = j.oldPin
           /\ k.cand = j.cand /\ k.base = j.base
  <1>1. j \in RebuildJournal /\ j.cand # j.old
    BY JournalFields
  <1> QED
    BY <1>1 DEF Journal, RebuildJournal

(* A reservation is a complete journal.                                    *)
LEMMA ReservedJournal ==
    ASSUME NEW a \in Objects, NEW x \in Bases, NEW b \in Objects, a # b, NEW y \in Bases,
           NEW f \in BOOLEAN, NEW k,
           k = [ph |-> "reserved", old |-> a, oldBase |-> x, cand |-> b, base |-> y, oldPin |-> f]
    PROVE  /\ k \in Journal /\ k.ph = "reserved" /\ k.old = a /\ k.oldBase = x
           /\ k.cand = b /\ k.base = y /\ k.oldPin = f
  BY DEF Journal, RebuildJournal, RebuildPhases

(* A request whose base or kind is replaced is a request.                  *)
LEMMA RequestTyped ==
    ASSUME NEW r \in Request, NEW b \in Bases \cup {None},
           NEW k \in {"none", "execute", "resume", "prepare", "plain"}, NEW q,
           q = [r EXCEPT !.kind = k] \/ q = [r EXCEPT !.base = b, !.kind = k]
    PROVE  q \in Request
  BY DEF Request

(* What a step of a command may change of the types.                       *)
CommandTyped ==
    /\ pc \in [Commands -> PCs]
    /\ want \in [Commands -> Request]
    /\ cur \in [Commands -> Record]
    /\ jn \in [Commands -> Journal]

(* The ways in which a step leaves its command are typed.                  *)
LEMMA CommandEnds ==
    ASSUME TypeOK, NEW c \in Commands
    PROVE  /\ Done(c) => CommandTyped'
           /\ \A l \in PCs : Goto(c, l) => pc' \in [Commands -> PCs]
           /\ Forget(c) => cur' \in [Commands -> Record] /\ jn' \in [Commands -> Journal]
           /\ UNCHANGED command => CommandTyped'
  <1>1. NoRec \in Record /\ NoRequest \in Request /\ Ordinary \in Request
    BY DEF NoRec, Record, States, NoRequest, Request, Ordinary
  <1> QED
    BY <1>1, FixedJournals
       DEF TypeOK, Done, Forget, Goto, CommandTyped, command, PCs, TransitionPCs

(* What Started leaves of the command.                                     *)
LEMMA StartedTyped ==
    ASSUME TypeOK, NEW c \in Commands, Started(c)
    PROVE  CommandTyped'
  <1>1. CASE Done(c)
    BY <1>1, CommandEnds
  <1>2. CASE UNCHANGED want /\ Goto(c, "retire") /\ Forget(c)
    BY <1>2, CommandEnds DEF CommandTyped, TypeOK, PCs
  <1>3. CASE /\ UNCHANGED <<want, jn>> /\ Goto(c, "confirm")
             /\ cur' = [cur EXCEPT ![c] = NoRec]
    <2>1. NoRec \in Record
      BY DEF NoRec, Record, States
    <2> QED
      BY <1>3, <2>1, CommandEnds DEF CommandTyped, TypeOK, PCs
  <1> QED
    BY <1>1, <1>2, <1>3 DEF Started

(* What Prepared leaves of the command and the project's witness.          *)
LEMMA PreparedTyped ==
    ASSUME TypeOK, NEW c \in Commands, NEW j \in Journal, Prepared(c, j)
    PROVE  CommandTyped' /\ kept' \in Journal
  <1>1. CASE Done(c) /\ kept' = j
    BY <1>1, CommandEnds
  <1>2. CASE Goto(c, "cutover") /\ Forget(c) /\ UNCHANGED <<want, kept>>
    BY <1>2, CommandEnds DEF CommandTyped, TypeOK, PCs
  <1> QED
    BY <1>1, <1>2 DEF Prepared

(* Every step keeps every variable typed.                                  *)
LEMMA TypeStep ==
    RebuildInv /\ [Next]_vars => TypeOK'
  <1> SUFFICES ASSUME RebuildInv, [Next]_vars
               PROVE  TypeOK'
    OBVIOUS
  <1> USE DEF RebuildInv, TypeOK, Record, States, Request, NoRequest,
              Ordinary, NoRec, PCs, TransitionPCs, SessionPCs, Supervisor,
              SupPhases, NoSup, durable, runtime, command
  <1>1. ASSUME NEW c \in Commands, NEW b \in Bases \cup {None},
     ExecuteBegin(c, b)
         PROVE  TypeOK'
    BY <1>1, FixedJournals, RebuildAssumption DEF ExecuteBegin, Goto
  <1>2. ASSUME NEW c \in Commands, ExecutePrepared(c)
         PROVE  TypeOK'
    <2>1. kept.base \in Bases /\ kept.cand \in Objects
      BY <1>2, JournalFields DEF ExecutePrepared, RebuildJournal
    <2> QED
      BY <1>2, <2>1 DEF ExecutePrepared, Goto
  <1>3. ASSUME NEW c \in Commands, NEW b \in Bases, PrepareBegin(c, b)
         PROVE  TypeOK'
    BY <1>3, FixedJournals, RebuildAssumption DEF PrepareBegin, Goto
  <1>4. ASSUME NEW c \in Commands, ExecuteNoJournal(c)
         PROVE  TypeOK'
    <2>1. CASE Goto(c, "prepare") /\ Forget(c) /\ UNCHANGED want
      BY <1>4, <2>1, CommandEnds DEF ExecuteNoJournal
    <2>2. CASE want' = [want EXCEPT ![c] = Ordinary] /\ Goto(c, "start") /\ Forget(c)
      BY <1>4, <2>2, CommandEnds DEF ExecuteNoJournal
    <2>3. CASE Done(c)
      BY <1>4, <2>3, CommandEnds DEF ExecuteNoJournal, CommandTyped
    <2> QED
      BY <1>4, <2>1, <2>2, <2>3 DEF ExecuteNoJournal
  <1>5. ASSUME NEW c \in Commands, ExecuteResume(c)
         PROVE  TypeOK'
    <2> DEFINE k == IF jr.ph \in {"ready", "retiring"} THEN "resume" ELSE "execute"
    <2>1. k \in {"execute", "resume"} /\ jr.base \in Bases
      BY <1>5, JournalFields DEF ExecuteResume, RebuildJournal
    <2> HIDE DEF k
    <2>2. want[c] \in Request /\ want'[c] = [want[c] EXCEPT !.base = jr.base, !.kind = k]
      BY <1>5 DEF ExecuteResume, k
    <2>3. want'[c] \in Request
      BY <2>1, <2>2, RequestTyped
    <2>4. want' \in [Commands -> Request]
      BY <1>5, <2>3 DEF ExecuteResume
    <2>5. pc' \in [Commands -> PCs]
      BY <1>5 DEF ExecuteResume, Goto
    <2>6. cur' \in [Commands -> Record] /\ jn' \in [Commands -> Journal]
      BY <1>5, FixedJournals DEF ExecuteResume
    <2> QED
      BY <1>5, <2>4, <2>5, <2>6 DEF ExecuteResume
  <1>6. ASSUME NEW c \in Commands, NEW o \in Objects, Reserve(c, o)
         PROVE  TypeOK'
    <2>1. PICK f \in BOOLEAN : f = (pin # None)
      BY Zenon
    <2>2. rec.obj \in Objects /\ rec.base \in Bases
      BY <1>6 DEF Reserve, Reservable, RecordExact
    <2>3. rec.obj # o
      BY <1>6, <2>2, RebuildAssumption DEF Reserve, ObjectsKnown
    <2>4. want[c].base \in Bases
      BY <1>6 DEF Reserve, Reservable, CommandExact, HeldExact
    <2>5. jr' = [ph |-> "reserved", old |-> rec.obj, oldBase |-> rec.base,
                 cand |-> o, base |-> want[c].base, oldPin |-> f]
      BY <1>6, <2>1, Zenon DEF Reserve
    <2>6. jr' \in Journal
      BY <2>2, <2>3, <2>4, <2>5, ReservedJournal
    <2> QED
      BY <1>6, <2>6 DEF Reserve, Goto
  <1>7. ASSUME NEW c \in Commands, ReserveTorn(c)
         PROVE  TypeOK'
    BY <1>7, FixedJournals, RebuildAssumption
       DEF ReserveTorn, Done, Forget, Goto, Reservable
  <1>8. ASSUME NEW c \in Commands, PrepareResume(c)
         PROVE  TypeOK'
    BY <1>8, FixedJournals, RebuildAssumption DEF PrepareResume, Goto
  <1>9. ASSUME NEW c \in Commands, PrepareClone(c)
         PROVE  TypeOK'
    <2>1. jn[c].cand \in Objects
      BY <1>9, JournalFields DEF PrepareClone, RebuildJournal
    <2> QED
      BY <1>9, <2>1 DEF PrepareClone, Goto
  <1>10. ASSUME NEW c \in Commands, PrepareCloned(c)
          PROVE  TypeOK'
    <2>1. jr.ph \notin {"none", "torn"}
      BY <1>10 DEF PrepareCloned, CommandExact, HeldExact
    <2>2. jr' \in Journal
      BY <1>10, <2>1, AdvanceJournal
         DEF PrepareCloned, Advance, RebuildPhases
    <2>3. CommandTyped' /\ kept' \in Journal
      BY <1>10, <2>2, PreparedTyped DEF PrepareCloned
    <2> QED
      BY <1>10, <2>2, <2>3 DEF PrepareCloned, CommandTyped
  <1>11. ASSUME NEW c \in Commands, PrepareAgain(c)
          PROVE  TypeOK'
    <2>1. jn[c] \in Journal
      OBVIOUS
    <2>2. CommandTyped' /\ kept' \in Journal
      BY <1>11, <2>1, PreparedTyped DEF PrepareAgain
    <2> QED
      BY <1>11, <2>2 DEF PrepareAgain, CommandTyped
  <1>12. ASSUME NEW c \in Commands, CutoverBegin(c)
          PROVE  TypeOK'
    <2>1. jr.ph \notin {"none", "torn"}
      BY <1>12 DEF CutoverBegin, Goto
    <2>2. jr' \in Journal
      BY <1>12, <2>1, AdvanceJournal
         DEF CutoverBegin, Advance, Goto, RebuildPhases
    <2> QED
      BY <1>12, <2>2, FixedJournals DEF CutoverBegin, Advance, Goto
  <1>13. ASSUME NEW c \in Commands, CutoverRecord(c)
          PROVE  TypeOK'
    <2>1. jr.cand \in Objects /\ jr.base \in Bases
      BY <1>13, JournalFields
         DEF CutoverRecord, RebuildJournal, CommandExact, HeldExact
    <2> QED
      BY <1>13, <2>1 DEF CutoverRecord, Goto
  <1>14. ASSUME NEW c \in Commands, CutoverDone(c)
          PROVE  TypeOK'
    BY <1>14, FixedJournals, RebuildAssumption DEF CutoverDone, Goto
  <1>15. ASSUME NEW c \in Commands, LoadCandidate(c)
          PROVE  TypeOK'
    BY <1>15, FixedJournals, RebuildAssumption DEF LoadCandidate, Goto
  <1>16. ASSUME NEW c \in Commands, ConfirmReady(c)
          PROVE  TypeOK'
    <2>1. jr.ph \notin {"none", "torn"}
      BY <1>16 DEF ConfirmReady
    <2>2. jr' \in Journal
      BY <1>16, <2>1, AdvanceJournal DEF ConfirmReady, Advance, RebuildPhases
    <2>3. CASE Goto(c, "retire") /\ Forget(c) /\ UNCHANGED want
      <3>1. CommandTyped'
        BY <2>3, CommandEnds DEF CommandTyped
      <3> QED
        BY <1>16, <2>2, <3>1 DEF ConfirmReady, CommandTyped
    <2>4. CASE /\ want' = [want EXCEPT ![c].kind = "resume"]
               /\ Goto(c, "start") /\ UNCHANGED <<cur, jn>>
      <3>1. want[c] \in Request /\ want'[c] = [want[c] EXCEPT !.kind = "resume"]
        BY <2>4
      <3>2. want'[c] \in Request
        BY <3>1, RequestTyped
      <3>3. want' \in [Commands -> Request]
        BY <2>4, <3>2
      <3> QED
        BY <1>16, <2>2, <2>4, <3>3, CommandEnds DEF ConfirmReady
    <2> QED
      BY <1>16, <2>3, <2>4 DEF ConfirmReady
  <1>17. ASSUME NEW c \in Commands, RetireBegin(c)
          PROVE  TypeOK'
    <2>1. jr.ph \notin {"none", "torn"}
      BY <1>17 DEF RetireBegin, CandidateReady, Goto
    <2>2. jr' \in Journal
      BY <1>17, <2>1, AdvanceJournal
         DEF RetireBegin, CandidateReady, Advance, Goto, RebuildPhases
    <2> QED
      BY <1>17, <2>2, FixedJournals
         DEF RetireBegin, CandidateReady, Advance, Goto
  <1>18. ASSUME NEW c \in Commands, RetireDelete(c)
          PROVE  TypeOK'
    BY <1>18, FixedJournals, RebuildAssumption DEF RetireDelete, Goto
  <1>19. ASSUME NEW c \in Commands, RetireClear(c)
          PROVE  TypeOK'
    BY <1>19, FixedJournals, RebuildAssumption
       DEF RetireClear, Done, Forget, Goto
  <1>20. ASSUME NEW c \in Commands, StartBegin(c)
          PROVE  TypeOK'
    BY <1>20, FixedJournals, RebuildAssumption DEF StartBegin, Goto
  <1>21. ASSUME NEW c \in Commands, StartLoad(c)
          PROVE  TypeOK'
    BY <1>21, FixedJournals, RebuildAssumption DEF StartLoad, Goto
  <1>22. ASSUME NEW c \in Commands, StartRunning(c)
          PROVE  TypeOK'
    <2>1. TypeOK /\ Started(c)
      BY <1>22 DEF RebuildInv, StartRunning
    <2>2. CommandTyped'
      BY <2>1, StartedTyped
    <2> QED
      BY <1>22, <2>2
         DEF StartRunning, CommandTyped, TypeOK, Record, States, durable,
             runtime
  <1>23. ASSUME NEW c \in Commands, StartRelease(c)
          PROVE  TypeOK'
    BY <1>23, FixedJournals, RebuildAssumption DEF StartRelease, Goto
  <1>24. ASSUME NEW c \in Commands, StartReserve(c)
          PROVE  TypeOK'
    <2>1. rec.obj \in Objects
      BY <1>24 DEF StartReserve, RecordExact, CommandExact, HeldExact
    <2>2. CASE Done(c) /\ UNCHANGED rec
      BY <1>24, <2>1, <2>2, CommandEnds DEF StartReserve, CommandTyped
    <2>3. CASE /\ rec' = [rec EXCEPT !.st = "starting"]
               /\ cur' = [cur EXCEPT ![c] = rec']
               /\ Goto(c, "await") /\ UNCHANGED <<want, jn>>
      BY <1>24, <2>1, <2>3, CommandEnds DEF StartReserve
    <2> QED
      BY <1>24, <2>2, <2>3 DEF StartReserve
  <1>25. ASSUME NEW c \in Commands, StartAccept(c)
          PROVE  TypeOK'
    <2>1. TypeOK /\ Started(c)
      BY <1>25 DEF RebuildInv, StartAccept
    <2>2. CommandTyped'
      BY <2>1, StartedTyped
    <2> QED
      BY <1>25, <2>2
         DEF StartAccept, CommandTyped, TypeOK, Record, States, durable,
             runtime
  <1>26. ASSUME NEW c \in Commands, StopBegin(c)
          PROVE  TypeOK'
    BY <1>26, FixedJournals, RebuildAssumption DEF StopBegin, Goto
  <1>27. ASSUME NEW c \in Commands, StopFinish(c)
          PROVE  TypeOK'
    BY <1>27, FixedJournals, RebuildAssumption
       DEF StopFinish, Done, Forget, Goto
  <1>28. ASSUME NEW c \in Commands, DeleteBegin(c)
          PROVE  TypeOK'
    BY <1>28, FixedJournals, RebuildAssumption DEF DeleteBegin, Goto
  <1>29. ASSUME NEW c \in Commands, DeleteErase(c)
          PROVE  TypeOK'
    BY <1>29, FixedJournals, RebuildAssumption DEF DeleteErase, Goto
  <1>30. ASSUME NEW c \in Commands, DeleteFinal(c)
          PROVE  TypeOK'
    BY <1>30, FixedJournals, RebuildAssumption
       DEF DeleteFinal, Done, Forget, Goto
  <1>31. ASSUME NEW c \in Commands, Abort(c)
          PROVE  TypeOK'
    BY <1>31, FixedJournals, RebuildAssumption DEF Abort, Done, Forget, Goto
  <1>32. ASSUME NEW o \in Objects, NEW b \in Bases, Create(o, b)
          PROVE  TypeOK'
    BY <1>32, FixedJournals, RebuildAssumption DEF Create
  <1>33. CASE SupLoad
    BY <1>33, FixedJournals, RebuildAssumption DEF SupLoad
  <1>34. CASE SupCheck
    BY <1>34, FixedJournals, RebuildAssumption DEF SupCheck
  <1>35. CASE SupLaunch
    BY <1>35, FixedJournals, RebuildAssumption DEF SupLaunch
  <1>36. CASE SupBootstrap
    BY <1>36, FixedJournals, RebuildAssumption DEF SupBootstrap
  <1>37. CASE SupTorn
    <2>1. sup.obj \in Objects
      BY <1>37 DEF SupTorn, LaunchExact, RecordExact
    <2> QED
      BY <1>37, <2>1, FixedJournals DEF SupTorn
  <1>38. CASE MachineEnds
    BY <1>38, FixedJournals, RebuildAssumption DEF MachineEnds
  <1>39. CASE SupEnds
    BY <1>39, FixedJournals, RebuildAssumption DEF SupEnds
  <1>40. CASE SupLost
    BY <1>40, FixedJournals, RebuildAssumption DEF SupLost
  <1>41. CASE UNCHANGED vars
    BY <1>41 DEF vars
  <1> QED
    BY <1>1, <1>2, <1>3, <1>4, <1>5, <1>6, <1>7, <1>8, <1>9, <1>10, <1>11,
       <1>12, <1>13, <1>14, <1>15, <1>16, <1>17, <1>18, <1>19, <1>20, <1>21,
       <1>22, <1>23, <1>24, <1>25, <1>26, <1>27, <1>28, <1>29, <1>30, <1>31,
       <1>32, <1>33, <1>34, <1>35, <1>36, <1>37, <1>38, <1>39, <1>40, <1>41
       DEF Next, RebuildStep, SessionStep, SupStep

(* Whoever takes the transition lock found it free.                        *)
LEMMA OneHolderStep ==
    RebuildInv /\ [Next]_vars => OneHolder'
  <1> SUFFICES ASSUME RebuildInv, [Next]_vars
               PROVE  OneHolder'
    OBVIOUS
  <1> USE DEF RebuildInv, OneHolder, TypeOK, TransitionFree, TransitionPCs
  <1>1. ASSUME NEW c \in Commands, NEW b \in Bases \cup {None},
     ExecuteBegin(c, b)
         PROVE  OneHolder'
    BY <1>1 DEF ExecuteBegin, Goto
  <1>2. ASSUME NEW c \in Commands, ExecutePrepared(c)
         PROVE  OneHolder'
    BY <1>2 DEF ExecutePrepared, Goto
  <1>3. ASSUME NEW c \in Commands, NEW b \in Bases, PrepareBegin(c, b)
         PROVE  OneHolder'
    BY <1>3 DEF PrepareBegin, Goto
  <1>4. ASSUME NEW c \in Commands, ExecuteNoJournal(c)
         PROVE  OneHolder'
    BY <1>4 DEF ExecuteNoJournal, Done, Forget, Goto
  <1>5. ASSUME NEW c \in Commands, ExecuteResume(c)
         PROVE  OneHolder'
    BY <1>5 DEF ExecuteResume, Goto
  <1>6. ASSUME NEW c \in Commands, NEW o \in Objects, Reserve(c, o)
         PROVE  OneHolder'
    BY <1>6 DEF Reserve, Goto, Reservable
  <1>7. ASSUME NEW c \in Commands, ReserveTorn(c)
         PROVE  OneHolder'
    BY <1>7 DEF ReserveTorn, Done, Forget, Goto, Reservable
  <1>8. ASSUME NEW c \in Commands, PrepareResume(c)
         PROVE  OneHolder'
    BY <1>8 DEF PrepareResume, Goto
  <1>9. ASSUME NEW c \in Commands, PrepareClone(c)
         PROVE  OneHolder'
    BY <1>9 DEF PrepareClone, Goto
  <1>10. ASSUME NEW c \in Commands, PrepareCloned(c)
          PROVE  OneHolder'
    BY <1>10 DEF PrepareCloned, Prepared, Advance, Done, Forget, Goto
  <1>11. ASSUME NEW c \in Commands, PrepareAgain(c)
          PROVE  OneHolder'
    BY <1>11 DEF PrepareAgain, Prepared, Done, Forget, Goto
  <1>12. ASSUME NEW c \in Commands, CutoverBegin(c)
          PROVE  OneHolder'
    BY <1>12 DEF CutoverBegin, Advance, Goto
  <1>13. ASSUME NEW c \in Commands, CutoverRecord(c)
          PROVE  OneHolder'
    BY <1>13 DEF CutoverRecord, Goto
  <1>14. ASSUME NEW c \in Commands, CutoverDone(c)
          PROVE  OneHolder'
    BY <1>14 DEF CutoverDone, Goto
  <1>15. ASSUME NEW c \in Commands, LoadCandidate(c)
          PROVE  OneHolder'
    BY <1>15 DEF LoadCandidate, Goto
  <1>16. ASSUME NEW c \in Commands, ConfirmReady(c)
          PROVE  OneHolder'
    BY <1>16 DEF ConfirmReady, CandidateReady, Advance, Goto, Forget
  <1>17. ASSUME NEW c \in Commands, RetireBegin(c)
          PROVE  OneHolder'
    BY <1>17 DEF RetireBegin, CandidateReady, Advance, Goto
  <1>18. ASSUME NEW c \in Commands, RetireDelete(c)
          PROVE  OneHolder'
    BY <1>18 DEF RetireDelete, Goto
  <1>19. ASSUME NEW c \in Commands, RetireClear(c)
          PROVE  OneHolder'
    BY <1>19 DEF RetireClear, Done, Forget, Goto
  <1>20. ASSUME NEW c \in Commands, StartBegin(c)
          PROVE  OneHolder'
    BY <1>20 DEF StartBegin, Goto
  <1>21. ASSUME NEW c \in Commands, StartLoad(c)
          PROVE  OneHolder'
    BY <1>21 DEF StartLoad, Goto
  <1>22. ASSUME NEW c \in Commands, StartRunning(c)
          PROVE  OneHolder'
    BY <1>22 DEF StartRunning, Started, Done, Forget, Goto
  <1>23. ASSUME NEW c \in Commands, StartRelease(c)
          PROVE  OneHolder'
    BY <1>23 DEF StartRelease, Goto
  <1>24. ASSUME NEW c \in Commands, StartReserve(c)
          PROVE  OneHolder'
    BY <1>24 DEF StartReserve, Done, Forget, Goto
  <1>25. ASSUME NEW c \in Commands, StartAccept(c)
          PROVE  OneHolder'
    BY <1>25 DEF StartAccept, Started, Done, Forget, Goto
  <1>26. ASSUME NEW c \in Commands, StopBegin(c)
          PROVE  OneHolder'
    BY <1>26 DEF StopBegin, Goto
  <1>27. ASSUME NEW c \in Commands, StopFinish(c)
          PROVE  OneHolder'
    BY <1>27 DEF StopFinish, Done, Forget, Goto
  <1>28. ASSUME NEW c \in Commands, DeleteBegin(c)
          PROVE  OneHolder'
    BY <1>28 DEF DeleteBegin, Goto
  <1>29. ASSUME NEW c \in Commands, DeleteErase(c)
          PROVE  OneHolder'
    BY <1>29 DEF DeleteErase, Goto
  <1>30. ASSUME NEW c \in Commands, DeleteFinal(c)
          PROVE  OneHolder'
    BY <1>30 DEF DeleteFinal, Done, Forget, Goto
  <1>31. ASSUME NEW c \in Commands, Abort(c)
          PROVE  OneHolder'
    BY <1>31 DEF Abort, Done, Forget, Goto
  <1>32. CASE UNCHANGED <<pc>>
    BY <1>32
  <1> QED
    BY <1>1, <1>2, <1>3, <1>4, <1>5, <1>6, <1>7, <1>8, <1>9, <1>10, <1>11,
       <1>12, <1>13, <1>14, <1>15, <1>16, <1>17, <1>18, <1>19, <1>20, <1>21,
       <1>22, <1>23, <1>24, <1>25, <1>26, <1>27, <1>28, <1>29, <1>30, <1>31,
       <1>32, ZenonT(60)
       DEF Next, RebuildStep, SessionStep, SupStep, Create, SupLoad,
           SupCheck, SupLaunch, SupBootstrap, SupTorn, MachineEnds, SupEnds,
           SupLost, Goto, Done, Forget, Prepared, Started, Advance, durable,
           runtime, command, vars

(* Whatever a command creates, or stops naming, is still named by the      *)
(* record or the journal, or is gone.                                      *)
LEMMA NothingLeakedStep ==
    RebuildInv /\ [Next]_vars => NothingLeaked'
  <1> SUFFICES ASSUME RebuildInv, [Next]_vars
               PROVE  NothingLeaked'
    OBVIOUS
  <1> USE DEF RebuildInv, NothingLeaked
  <1>1. ASSUME NEW c \in Commands, NEW o \in Objects, Reserve(c, o)
         PROVE  NothingLeaked'
    <2>1. jr = NoJournal /\ exists \subseteq Objects
      BY <1>1, JournalFields
         DEF Reserve, Reservable, RequireNoRebuild, TypeOK
    <2> QED
      BY <1>1, <2>1, FixedJournals, RebuildAssumption DEF Reserve
  <1>2. ASSUME NEW c \in Commands, ReserveTorn(c)
         PROVE  NothingLeaked'
    <2>1. jr = NoJournal /\ exists \subseteq Objects
      BY <1>2, JournalFields
         DEF ReserveTorn, Reservable, RequireNoRebuild, TypeOK
    <2> QED
      BY <1>2, <2>1, FixedJournals, RebuildAssumption DEF ReserveTorn
  <1>3. ASSUME NEW c \in Commands, PrepareClone(c)
         PROVE  NothingLeaked'
    <2>1. jn[c] = jr
      BY <1>3 DEF PrepareClone, CommandExact, HeldExact
    <2> QED
      BY <1>3, <2>1 DEF PrepareClone
  <1>4. ASSUME NEW c \in Commands, PrepareCloned(c)
         PROVE  NothingLeaked'
    <2>1. /\ jr.ph \notin {"none", "torn"}
          /\ jr'.old = jr.old /\ jr'.cand = jr.cand /\ UNCHANGED <<rec, exists, used>>
      BY <1>4, AdvanceJournal
         DEF PrepareCloned, Advance, CommandExact, HeldExact, TypeOK,
             RebuildPhases
    <2> QED
      BY <2>1
  <1>5. ASSUME NEW c \in Commands, CutoverBegin(c)
         PROVE  NothingLeaked'
    <2>1. /\ jr.ph \notin {"none", "torn"}
          /\ jr'.old = jr.old /\ jr'.cand = jr.cand /\ UNCHANGED <<rec, exists, used>>
      BY <1>5, AdvanceJournal
         DEF CutoverBegin, Advance, CommandExact, HeldExact, TypeOK,
             RebuildPhases
    <2> QED
      BY <2>1
  <1>6. ASSUME NEW c \in Commands, CutoverRecord(c)
         PROVE  NothingLeaked'
    <2>1. rec.obj = jr.old
      BY <1>6 DEF CutoverRecord, CommandExact, HeldExact, OldWaits, OldActive
    <2>2. rec'.obj = jr.cand
      BY <1>6 DEF CutoverRecord, TypeOK, Record
    <2> QED
      BY <1>6, <2>1, <2>2 DEF CutoverRecord
  <1>7. ASSUME NEW c \in Commands, ConfirmReady(c)
         PROVE  NothingLeaked'
    <2>1. /\ jr.ph \notin {"none", "torn"}
          /\ jr'.old = jr.old /\ jr'.cand = jr.cand /\ UNCHANGED <<rec, exists, used>>
      BY <1>7, AdvanceJournal
         DEF ConfirmReady, Advance, CommandExact, HeldExact, TypeOK,
             RebuildPhases
    <2> QED
      BY <2>1
  <1>8. ASSUME NEW c \in Commands, RetireBegin(c)
         PROVE  NothingLeaked'
    <2>1. /\ jr.ph \notin {"none", "torn"}
          /\ jr'.old = jr.old /\ jr'.cand = jr.cand /\ UNCHANGED <<rec, exists, used>>
      BY <1>8, AdvanceJournal
         DEF RetireBegin, Advance, CommandExact, HeldExact, TypeOK,
             RebuildPhases
    <2> QED
      BY <2>1
  <1>9. ASSUME NEW c \in Commands, RetireDelete(c)
         PROVE  NothingLeaked'
    BY <1>9 DEF RetireDelete, Goto
  <1>10. ASSUME NEW c \in Commands, RetireClear(c)
          PROVE  NothingLeaked'
    <2>1. rec.obj = jr.cand /\ jr.old \notin exists
      BY <1>10
         DEF RetireClear, CommandExact, HeldExact, JournalExact,
             CandidateActive
    <2> QED
      BY <1>10, <2>1, FixedJournals DEF RetireClear
  <1>11. ASSUME NEW c \in Commands, StartReserve(c)
          PROVE  NothingLeaked'
    <2>1. rec'.obj = rec.obj /\ UNCHANGED <<jr, exists, used>>
      BY <1>11 DEF StartReserve, TypeOK, Record
    <2> QED
      BY <2>1
  <1>12. ASSUME NEW c \in Commands, StartAccept(c)
          PROVE  NothingLeaked'
    <2>1. rec'.obj = rec.obj /\ UNCHANGED <<jr, exists, used>>
      BY <1>12 DEF StartAccept, TypeOK, Record
    <2> QED
      BY <2>1
  <1>13. ASSUME NEW c \in Commands, StopBegin(c)
          PROVE  NothingLeaked'
    <2>1. rec'.obj = rec.obj /\ UNCHANGED <<jr, exists, used>>
      BY <1>13 DEF StopBegin, TypeOK, Record
    <2> QED
      BY <2>1
  <1>14. ASSUME NEW c \in Commands, StopFinish(c)
          PROVE  NothingLeaked'
    <2>1. rec'.obj = rec.obj /\ UNCHANGED <<jr, exists, used>>
      BY <1>14 DEF StopFinish, TypeOK, Record
    <2> QED
      BY <2>1
  <1>15. ASSUME NEW c \in Commands, DeleteBegin(c)
          PROVE  NothingLeaked'
    <2>1. rec'.obj = rec.obj /\ UNCHANGED <<jr, exists, used>>
      BY <1>15 DEF DeleteBegin, TypeOK, Record
    <2> QED
      BY <2>1
  <1>16. ASSUME NEW c \in Commands, DeleteErase(c)
          PROVE  NothingLeaked'
    BY <1>16 DEF DeleteErase, Goto
  <1>17. ASSUME NEW c \in Commands, DeleteFinal(c)
          PROVE  NothingLeaked'
    <2>1. jr = NoJournal /\ rec.obj \notin exists /\ exists \subseteq Objects
      BY <1>17 DEF DeleteFinal, CommandExact, HeldExact, TypeOK
    <2> QED
      BY <1>17, <2>1, FixedJournals, RebuildAssumption DEF DeleteFinal
  <1>18. ASSUME NEW o \in Objects, NEW b \in Bases, Create(o, b)
          PROVE  NothingLeaked'
    <2>1. jr = NoJournal /\ rec.obj = None /\ exists \subseteq Objects
      BY <1>18, JournalFields DEF Create, NoRec, RequireNoRebuild, TypeOK
    <2>2. exists = {}
      BY <2>1, FixedJournals, RebuildAssumption
    <2>3. rec'.obj = o
      BY <1>18 DEF Create
    <2> QED
      BY <1>18, <2>2, <2>3 DEF Create
  <1>19. CASE UNCHANGED <<rec, jr, exists>>
    BY <1>19
  <1> QED
    BY <1>1, <1>2, <1>3, <1>4, <1>5, <1>6, <1>7, <1>8, <1>9, <1>10, <1>11,
       <1>12, <1>13, <1>14, <1>15, <1>16, <1>17, <1>18, <1>19, ZenonT(60)
       DEF Next, RebuildStep, SessionStep, SupStep, ExecuteBegin,
           ExecutePrepared, PrepareBegin, ExecuteNoJournal, ExecuteResume,
           PrepareResume, PrepareAgain, CutoverDone, LoadCandidate,
           StartBegin, StartLoad, StartRunning, StartRelease, Abort, SupLoad,
           SupCheck, SupLaunch, SupBootstrap, SupTorn, MachineEnds, SupEnds,
           SupLost, Goto, Done, Forget, Prepared, Started, Advance, durable,
           runtime, command, vars

(* An object is in use only once it has been drawn.                        *)
LEMMA ObjectsKnownStep ==
    RebuildInv /\ [Next]_vars => ObjectsKnown'
  <1> SUFFICES ASSUME RebuildInv, [Next]_vars
               PROVE  ObjectsKnown'
    OBVIOUS
  <1> USE DEF RebuildInv, ObjectsKnown
  <1>1. ASSUME NEW c \in Commands, NEW o \in Objects, Reserve(c, o)
         PROVE  ObjectsKnown'
    <2>1. jr'.old = rec.obj /\ jr'.cand = o
      BY <1>1 DEF Reserve
    <2> QED
      BY <1>1, <2>1 DEF Reserve
  <1>2. ASSUME NEW c \in Commands, ReserveTorn(c)
         PROVE  ObjectsKnown'
    BY <1>2, FixedJournals DEF ReserveTorn
  <1>3. ASSUME NEW c \in Commands, PrepareClone(c)
         PROVE  ObjectsKnown'
    <2>1. jn[c] = jr /\ jr.cand \in Objects
      BY <1>3, JournalFields
         DEF PrepareClone, CommandExact, HeldExact, TypeOK, RebuildJournal
    <2> QED
      BY <1>3, <2>1, RebuildAssumption DEF PrepareClone
  <1>4. ASSUME NEW c \in Commands, PrepareCloned(c)
         PROVE  ObjectsKnown'
    <2>1. /\ jr.ph \notin {"none", "torn"}
          /\ jr'.old = jr.old /\ jr'.cand = jr.cand /\ UNCHANGED <<rec, exists, used>>
      BY <1>4, AdvanceJournal
         DEF PrepareCloned, Advance, CommandExact, HeldExact, TypeOK,
             RebuildPhases
    <2> QED
      BY <2>1
  <1>5. ASSUME NEW c \in Commands, CutoverBegin(c)
         PROVE  ObjectsKnown'
    <2>1. /\ jr.ph \notin {"none", "torn"}
          /\ jr'.old = jr.old /\ jr'.cand = jr.cand /\ UNCHANGED <<rec, exists, used>>
      BY <1>5, AdvanceJournal
         DEF CutoverBegin, Advance, CommandExact, HeldExact, TypeOK,
             RebuildPhases
    <2> QED
      BY <2>1
  <1>6. ASSUME NEW c \in Commands, CutoverRecord(c)
         PROVE  ObjectsKnown'
    <2>1. rec'.obj = jr.cand
      BY <1>6 DEF CutoverRecord, TypeOK, Record
    <2> QED
      BY <1>6, <2>1 DEF CutoverRecord
  <1>7. ASSUME NEW c \in Commands, ConfirmReady(c)
         PROVE  ObjectsKnown'
    <2>1. /\ jr.ph \notin {"none", "torn"}
          /\ jr'.old = jr.old /\ jr'.cand = jr.cand /\ UNCHANGED <<rec, exists, used>>
      BY <1>7, AdvanceJournal
         DEF ConfirmReady, Advance, CommandExact, HeldExact, TypeOK,
             RebuildPhases
    <2> QED
      BY <2>1
  <1>8. ASSUME NEW c \in Commands, RetireBegin(c)
         PROVE  ObjectsKnown'
    <2>1. /\ jr.ph \notin {"none", "torn"}
          /\ jr'.old = jr.old /\ jr'.cand = jr.cand /\ UNCHANGED <<rec, exists, used>>
      BY <1>8, AdvanceJournal
         DEF RetireBegin, Advance, CommandExact, HeldExact, TypeOK,
             RebuildPhases
    <2> QED
      BY <2>1
  <1>9. ASSUME NEW c \in Commands, RetireDelete(c)
         PROVE  ObjectsKnown'
    BY <1>9 DEF RetireDelete, Goto
  <1>10. ASSUME NEW c \in Commands, RetireClear(c)
          PROVE  ObjectsKnown'
    BY <1>10, FixedJournals DEF RetireClear
  <1>11. ASSUME NEW c \in Commands, StartReserve(c)
          PROVE  ObjectsKnown'
    <2>1. rec'.obj = rec.obj /\ UNCHANGED <<jr, exists, used>>
      BY <1>11 DEF StartReserve, TypeOK, Record
    <2> QED
      BY <2>1
  <1>12. ASSUME NEW c \in Commands, StartAccept(c)
          PROVE  ObjectsKnown'
    <2>1. rec'.obj = rec.obj /\ UNCHANGED <<jr, exists, used>>
      BY <1>12 DEF StartAccept, TypeOK, Record
    <2> QED
      BY <2>1
  <1>13. ASSUME NEW c \in Commands, StopBegin(c)
          PROVE  ObjectsKnown'
    <2>1. rec'.obj = rec.obj /\ UNCHANGED <<jr, exists, used>>
      BY <1>13 DEF StopBegin, TypeOK, Record
    <2> QED
      BY <2>1
  <1>14. ASSUME NEW c \in Commands, StopFinish(c)
          PROVE  ObjectsKnown'
    <2>1. rec'.obj = rec.obj /\ UNCHANGED <<jr, exists, used>>
      BY <1>14 DEF StopFinish, TypeOK, Record
    <2> QED
      BY <2>1
  <1>15. ASSUME NEW c \in Commands, DeleteBegin(c)
          PROVE  ObjectsKnown'
    <2>1. rec'.obj = rec.obj /\ UNCHANGED <<jr, exists, used>>
      BY <1>15 DEF DeleteBegin, TypeOK, Record
    <2> QED
      BY <2>1
  <1>16. ASSUME NEW c \in Commands, DeleteErase(c)
          PROVE  ObjectsKnown'
    BY <1>16 DEF DeleteErase, Goto
  <1>17. ASSUME NEW c \in Commands, DeleteFinal(c)
          PROVE  ObjectsKnown'
    BY <1>17 DEF DeleteFinal, NoRec
  <1>18. ASSUME NEW o \in Objects, NEW b \in Bases, Create(o, b)
          PROVE  ObjectsKnown'
    BY <1>18 DEF Create
  <1>19. CASE UNCHANGED <<rec, jr, exists, used>>
    BY <1>19
  <1> QED
    BY <1>1, <1>2, <1>3, <1>4, <1>5, <1>6, <1>7, <1>8, <1>9, <1>10, <1>11,
       <1>12, <1>13, <1>14, <1>15, <1>16, <1>17, <1>18, <1>19, ZenonT(60)
       DEF Next, RebuildStep, SessionStep, SupStep, ExecuteBegin,
           ExecutePrepared, PrepareBegin, ExecuteNoJournal, ExecuteResume,
           PrepareResume, PrepareAgain, CutoverDone, LoadCandidate,
           StartBegin, StartLoad, StartRunning, StartRelease, Abort, SupLoad,
           SupCheck, SupLaunch, SupBootstrap, SupTorn, MachineEnds, SupEnds,
           SupLost, Goto, Done, Forget, Prepared, Started, Advance, durable,
           runtime, command, vars

(* A record that is absent, stopped or going has no launch, and one that   *)
(* runs has none that has not booted.                                      *)
LEMMA RecordExactStep ==
    RebuildInv /\ [Next]_vars => RecordExact'
  <1> SUFFICES ASSUME RebuildInv, [Next]_vars
               PROVE  RecordExact'
    OBVIOUS
  <1> USE DEF RebuildInv, RecordExact
  <1>1. ASSUME NEW c \in Commands, CutoverRecord(c)
         PROVE  RecordExact'
    <2>1. jr.cand \in Objects /\ jr.base \in Bases
      BY <1>1, JournalFields
         DEF CutoverRecord, CommandExact, HeldExact, TypeOK, RebuildJournal
    <2>2. rec.st = "stopped"
      BY <1>1 DEF CutoverRecord, CommandExact, HeldExact, OldWaits
    <2>3. rec'.st = rec.st /\ rec'.obj = jr.cand /\ rec'.base = jr.base
      BY <1>1 DEF CutoverRecord, TypeOK, Record
    <2>4. UNCHANGED sup
      BY <1>1 DEF CutoverRecord, runtime
    <2> QED
      BY <2>1, <2>2, <2>3, <2>4
  <1>2. ASSUME NEW c \in Commands, StartRelease(c)
         PROVE  RecordExact'
    <2>1. rec.st = "stopped" /\ UNCHANGED <<rec, sup>>
      BY <1>2 DEF StartRelease, CommandExact, HeldExact, runtime
    <2> QED
      BY <2>1
  <1>3. ASSUME NEW c \in Commands, StartReserve(c)
         PROVE  RecordExact'
    <2>1. rec.st = "stopped" /\ UNCHANGED sup
      BY <1>3 DEF StartReserve, CommandExact, HeldExact, Evidence, runtime
    <2>2. rec'.st \in {"stopped", "starting"} /\ rec'.obj = rec.obj /\ rec'.base = rec.base
      BY <1>3 DEF StartReserve, CommandExact, HeldExact, TypeOK, Record
    <2> QED
      BY <2>1, <2>2
  <1>4. ASSUME NEW c \in Commands, StartAccept(c)
         PROVE  RecordExact'
    <2>1. rec.st = "starting" /\ sup.ph = "booted" /\ UNCHANGED sup
      BY <1>4 DEF StartAccept, CommandExact, HeldExact, Evidence, runtime
    <2>2. rec'.st = "running" /\ rec'.obj = rec.obj /\ rec'.base = rec.base
      BY <1>4 DEF StartAccept, TypeOK, Record
    <2> QED
      BY <2>1, <2>2
  <1>5. ASSUME NEW c \in Commands, StopBegin(c)
         PROVE  RecordExact'
    <2>1. rec.st \in {"stopped", "starting", "running", "stopping"} /\ UNCHANGED <<sup, use>>
      BY <1>5 DEF StopBegin, CommandExact, HeldExact, Evidence, runtime
    <2>2. rec'.st = (IF rec.st = "stopped" THEN "stopped" ELSE "stopping") /\ rec'.obj = rec.obj /\ rec'.base = rec.base
      BY <1>5 DEF StopBegin, TypeOK, Record
    <2> QED
      BY <2>1, <2>2
  <1>6. ASSUME NEW c \in Commands, StopFinish(c)
         PROVE  RecordExact'
    <2>1. /\ rec.st \in {"stopped", "stopping"} /\ UNCHANGED sup
          /\ rec.st = "stopping" => sup.ph = "none"
      BY <1>6 DEF StopFinish, CommandExact, HeldExact, runtime
    <2>2. rec'.st \in {rec.st, "stopped"} /\ rec'.obj = rec.obj /\ rec'.base = rec.base
      BY <1>6 DEF StopFinish, TypeOK, Record
    <2>3. sup.ph = "none" => sup = NoSup
      BY DEF LaunchExact
    <2> QED
      BY <2>1, <2>2, <2>3
  <1>7. ASSUME NEW c \in Commands, DeleteBegin(c)
         PROVE  RecordExact'
    <2>1. /\ (rec.st = "stopped" /\ use = None) \/ rec.st = "deleting"
          /\ UNCHANGED <<sup, use>>
      BY <1>7 DEF DeleteBegin, CommandExact, HeldExact, Evidence, runtime
    <2>2. rec'.st = "deleting" /\ rec'.obj = rec.obj /\ rec'.base = rec.base
      BY <1>7 DEF DeleteBegin, TypeOK, Record
    <2> QED
      BY <2>1, <2>2
  <1>8. ASSUME NEW c \in Commands, DeleteFinal(c)
         PROVE  RecordExact'
    <2>1. rec.st = "deleting" /\ rec' = NoRec /\ UNCHANGED <<sup, use>>
      BY <1>8 DEF DeleteFinal, CommandExact, HeldExact, runtime
    <2> QED
      BY <2>1 DEF NoRec
  <1>9. ASSUME NEW o \in Objects, NEW b \in Bases, Create(o, b)
         PROVE  RecordExact'
    <2>1. rec.st = "none" /\ UNCHANGED <<sup, use>>
      BY <1>9 DEF Create, NoRec, runtime
    <2>2. rec'.st = "stopped" /\ rec'.obj = o /\ rec'.base = b
      BY <1>9 DEF Create
    <2> QED
      BY <2>1, <2>2
  <1>10. CASE SupLoad
    <2>1. rec.st = "starting" /\ UNCHANGED <<rec, use>>
      BY <1>10 DEF SupLoad, durable
    <2> QED
      BY <2>1
  <1>11. CASE SupCheck
    <2>1. sup.ph # "none" /\ sup'.ph = "checked" /\ UNCHANGED <<rec, use>>
      BY <1>11 DEF SupCheck, TypeOK, Supervisor, durable
    <2>2. rec.st \notin {"none", "stopped", "deleting"} /\ rec.st # "running"
      BY <1>11, <2>1 DEF NoSup, SupCheck
    <2> QED
      BY <2>1, <2>2
  <1>12. CASE SupLaunch
    <2>1. sup.ph # "none" /\ sup'.ph = "live" /\ UNCHANGED <<rec, use>>
      BY <1>12 DEF SupLaunch, TypeOK, Supervisor, durable
    <2>2. rec.st \notin {"none", "stopped", "deleting"} /\ rec.st # "running"
      BY <1>12, <2>1 DEF NoSup, SupLaunch
    <2> QED
      BY <2>1, <2>2
  <1>13. CASE SupBootstrap
    <2>1. sup.ph # "none" /\ sup'.ph = "booted" /\ UNCHANGED <<rec, use>>
      BY <1>13 DEF SupBootstrap, TypeOK, Supervisor, durable
    <2>2. rec.st \notin {"none", "stopped", "deleting"}
      BY <1>13, <2>1 DEF NoSup, SupBootstrap
    <2> QED
      BY <2>1, <2>2
  <1>14. CASE SupTorn
    <2>1. sup.ph # "none" /\ sup'.ph = "lost" /\ UNCHANGED <<rec, use>>
      BY <1>14 DEF SupTorn, TypeOK, Supervisor, durable
    <2>2. rec.st \notin {"none", "stopped", "deleting"}
      BY <1>14, <2>1 DEF NoSup, SupTorn
    <2> QED
      BY <2>1, <2>2
  <1>15. CASE SupEnds
    <2>1. sup' = NoSup /\ UNCHANGED <<rec, use>>
      BY <1>15 DEF SupEnds, durable
    <2> QED
      BY <2>1 DEF NoSup
  <1>16. CASE SupLost
    <2>1. sup.ph # "none" /\ sup'.ph = "lost" /\ UNCHANGED <<rec, use>>
      BY <1>16 DEF SupLost, TypeOK, Supervisor, durable
    <2>2. rec.st \notin {"none", "stopped", "deleting"}
      BY <1>16, <2>1 DEF NoSup, SupLost
    <2> QED
      BY <2>1, <2>2
  <1>17. CASE UNCHANGED <<rec, use, sup>>
    BY <1>17
  <1> QED
    BY <1>1, <1>2, <1>3, <1>4, <1>5, <1>6, <1>7, <1>8, <1>9, <1>10, <1>11,
       <1>12, <1>13, <1>14, <1>15, <1>16, <1>17, ZenonT(60)
       DEF Next, RebuildStep, SessionStep, SupStep, ExecuteBegin,
           ExecutePrepared, PrepareBegin, ExecuteNoJournal, ExecuteResume,
           Reserve, ReserveTorn, PrepareResume, PrepareClone, PrepareCloned,
           PrepareAgain, CutoverBegin, CutoverDone, LoadCandidate,
           ConfirmReady, RetireBegin, RetireDelete, RetireClear, StartBegin,
           StartLoad, StartRunning, DeleteErase, Abort, MachineEnds, Goto,
           Done, Forget, Prepared, Started, Advance, durable, runtime,
           command, vars

(* A launch keeps to the record it was made for and, until it has booted,  *)
(* to the journal it loaded.                                               *)
LEMMA LaunchExactStep ==
    RebuildInv /\ [Next]_vars => LaunchExact'
  <1> SUFFICES ASSUME RebuildInv, [Next]_vars
               PROVE  LaunchExact'
    OBVIOUS
  <1> USE DEF RebuildInv, LaunchExact
  <1>1. ASSUME NEW c \in Commands, NEW o \in Objects, Reserve(c, o)
         PROVE  LaunchExact'
    <2>1. rec.st = "stopped"
      BY <1>1 DEF Reserve, Reservable, CommandExact, HeldExact, OldWaits
    <2>2. sup = NoSup
      BY <2>1 DEF RecordExact
    <2>3. UNCHANGED <<up, sup>>
      BY <1>1 DEF Reserve, runtime
    <2> QED
      BY <2>2, <2>3 DEF NoSup
  <1>2. ASSUME NEW c \in Commands, ReserveTorn(c)
         PROVE  LaunchExact'
    <2>1. rec.st = "stopped"
      BY <1>2 DEF ReserveTorn, Reservable, CommandExact, HeldExact, OldWaits
    <2>2. sup = NoSup
      BY <2>1 DEF RecordExact
    <2>3. UNCHANGED <<up, sup>>
      BY <1>2 DEF ReserveTorn, runtime
    <2> QED
      BY <2>2, <2>3 DEF NoSup
  <1>3. ASSUME NEW c \in Commands, PrepareCloned(c)
         PROVE  LaunchExact'
    <2>1. rec.st = "stopped"
      BY <1>3
         DEF PrepareCloned, CommandExact, HeldExact, JournalExact, OldWaits
    <2>2. sup = NoSup
      BY <2>1 DEF RecordExact
    <2>3. UNCHANGED <<up, sup>>
      BY <1>3 DEF PrepareCloned, runtime
    <2> QED
      BY <2>2, <2>3 DEF NoSup
  <1>4. ASSUME NEW c \in Commands, CutoverBegin(c)
         PROVE  LaunchExact'
    <2>1. rec.st = "stopped"
      BY <1>4 DEF CutoverBegin, Reservable, CommandExact, HeldExact, OldWaits
    <2>2. sup = NoSup
      BY <2>1 DEF RecordExact
    <2>3. UNCHANGED <<up, sup>>
      BY <1>4 DEF CutoverBegin, runtime
    <2> QED
      BY <2>2, <2>3 DEF NoSup
  <1>5. ASSUME NEW c \in Commands, CutoverRecord(c)
         PROVE  LaunchExact'
    <2>1. rec.st = "stopped"
      BY <1>5
         DEF CutoverRecord, Reservable, CommandExact, HeldExact, OldWaits
    <2>2. sup = NoSup
      BY <2>1 DEF RecordExact
    <2>3. UNCHANGED <<up, sup>>
      BY <1>5 DEF CutoverRecord, runtime
    <2> QED
      BY <2>2, <2>3 DEF NoSup
  <1>6. ASSUME NEW c \in Commands, ConfirmReady(c)
         PROVE  LaunchExact'
    <2>1. sup.ph = "booted" /\ UNCHANGED <<up, sup, rec, pin>>
      BY <1>6 DEF ConfirmReady, CandidateReady, Evidence, runtime
    <2> QED
      BY <2>1
  <1>7. ASSUME NEW c \in Commands, RetireBegin(c)
         PROVE  LaunchExact'
    <2>1. sup.ph = "booted" /\ UNCHANGED <<up, sup, rec, pin>>
      BY <1>7 DEF RetireBegin, CandidateReady, Evidence, runtime
    <2> QED
      BY <2>1
  <1>8. ASSUME NEW c \in Commands, RetireClear(c)
         PROVE  LaunchExact'
    <2>1. sup.ph \in {"none", "booted", "lost"}
      BY <1>8 DEF RetireClear, CommandExact, HeldExact, RecordExact
    <2>2. UNCHANGED <<up, sup, rec, pin>>
      BY <1>8 DEF RetireClear, runtime
    <2> QED
      BY <2>1, <2>2
  <1>9. ASSUME NEW c \in Commands, StartReserve(c)
         PROVE  LaunchExact'
    <2>1. rec.st = "stopped"
      BY <1>9 DEF StartReserve, Reservable, CommandExact, HeldExact, OldWaits
    <2>2. sup = NoSup
      BY <2>1 DEF RecordExact
    <2>3. UNCHANGED <<up, sup>>
      BY <1>9 DEF StartReserve, runtime
    <2> QED
      BY <2>2, <2>3 DEF NoSup
  <1>10. ASSUME NEW c \in Commands, StartAccept(c)
          PROVE  LaunchExact'
    <2>1. rec'.obj = rec.obj /\ UNCHANGED <<up, sup, jr, pin>>
      BY <1>10 DEF StartAccept, TypeOK, Record, runtime
    <2> QED
      BY <2>1
  <1>11. ASSUME NEW c \in Commands, StopBegin(c)
          PROVE  LaunchExact'
    <2>1. rec'.obj = rec.obj /\ UNCHANGED <<up, sup, jr, pin>>
      BY <1>11 DEF StopBegin, TypeOK, Record, runtime
    <2> QED
      BY <2>1
  <1>12. ASSUME NEW c \in Commands, StopFinish(c)
          PROVE  LaunchExact'
    <2>1. rec'.obj = rec.obj /\ UNCHANGED <<up, sup, jr, pin>>
      BY <1>12 DEF StopFinish, TypeOK, Record, runtime
    <2> QED
      BY <2>1
  <1>13. ASSUME NEW c \in Commands, DeleteBegin(c)
          PROVE  LaunchExact'
    <2>1. rec'.obj = rec.obj /\ UNCHANGED <<up, sup, jr, pin>>
      BY <1>13 DEF DeleteBegin, TypeOK, Record, runtime
    <2> QED
      BY <2>1
  <1>14. ASSUME NEW c \in Commands, DeleteFinal(c)
          PROVE  LaunchExact'
    <2>1. sup = NoSup /\ UNCHANGED <<up, sup>>
      BY <1>14
         DEF DeleteFinal, RecordExact, CommandExact, HeldExact, NoRec,
             runtime
    <2> QED
      BY <2>1 DEF NoSup
  <1>15. ASSUME NEW o \in Objects, NEW b \in Bases, Create(o, b)
          PROVE  LaunchExact'
    <2>1. sup = NoSup /\ UNCHANGED <<up, sup>>
      BY <1>15
         DEF Create, RecordExact, CommandExact, HeldExact, NoRec, runtime
    <2> QED
      BY <2>1 DEF NoSup
  <1>16. CASE SupLoad
    BY <1>16 DEF SupLoad, TypeOK, Supervisor, NoSup, durable
  <1>17. CASE SupCheck
    BY <1>17 DEF SupCheck, TypeOK, Supervisor, NoSup, durable
  <1>18. CASE SupLaunch
    BY <1>18 DEF SupLaunch, TypeOK, Supervisor, NoSup, durable
  <1>19. CASE SupBootstrap
    BY <1>19 DEF SupBootstrap, TypeOK, Supervisor, NoSup, durable
  <1>20. CASE SupTorn
    BY <1>20 DEF SupTorn, TypeOK, Supervisor, NoSup, durable
  <1>21. CASE MachineEnds
    <2>1. up' \subseteq up /\ UNCHANGED <<rec, jr, pin, sup>>
      BY <1>21 DEF MachineEnds, durable
    <2> QED
      BY <2>1
  <1>22. CASE SupEnds
    BY <1>22 DEF SupEnds, TypeOK, Supervisor, NoSup, durable
  <1>23. CASE SupLost
    BY <1>23 DEF SupLost, TypeOK, Supervisor, NoSup, durable
  <1>24. CASE UNCHANGED <<rec, jr, pin, up, sup>>
    BY <1>24
  <1> QED
    BY <1>1, <1>2, <1>3, <1>4, <1>5, <1>6, <1>7, <1>8, <1>9, <1>10, <1>11,
       <1>12, <1>13, <1>14, <1>15, <1>16, <1>17, <1>18, <1>19, <1>20, <1>21,
       <1>22, <1>23, <1>24, ZenonT(60)
       DEF Next, RebuildStep, SessionStep, SupStep, ExecuteBegin,
           ExecutePrepared, PrepareBegin, ExecuteNoJournal, ExecuteResume,
           PrepareResume, PrepareClone, PrepareAgain, CutoverDone,
           LoadCandidate, RetireDelete, StartBegin, StartLoad, StartRunning,
           StartRelease, DeleteErase, Abort, Goto, Done, Forget, Prepared,
           Started, Advance, durable, runtime, command, vars

(* Each phase of the journal keeps what it says of the record, the objects *)
(* and the pin, until the next is written.                                 *)
LEMMA JournalExactStep ==
    RebuildInv /\ [Next]_vars => JournalExact'
  <1> SUFFICES ASSUME RebuildInv, [Next]_vars
               PROVE  JournalExact'
    OBVIOUS
  <1> USE DEF RebuildInv, JournalExact, OldWaits, OldActive, CandidateActive,
              verifyOldPin, Pending
  <1>1. ASSUME NEW c \in Commands, NEW o \in Objects, Reserve(c, o)
         PROVE  JournalExact'
    <2>1. /\ jr'.ph = "reserved" /\ jr'.old = rec.obj /\ jr'.oldBase = rec.base
          /\ rec.st = "stopped" /\ use = None /\ pin \in {None, rec.obj}
          /\ UNCHANGED <<rec, use, pin>>
      BY <1>1 DEF Reserve, Reservable
    <2>2. pin # None <=> jr'.oldPin
      BY <1>1 DEF Reserve
    <2> QED
      BY <2>1, <2>2
  <1>2. ASSUME NEW c \in Commands, ReserveTorn(c)
         PROVE  JournalExact'
    <2>1. jr'.ph = "torn" /\ rec.st = "stopped" /\ UNCHANGED rec
      BY <1>2, FixedJournals DEF ReserveTorn, Reservable
    <2> QED
      BY <2>1
  <1>3. ASSUME NEW c \in Commands, PrepareClone(c)
         PROVE  JournalExact'
    <2>1. exists \subseteq exists' /\ UNCHANGED <<rec, jr, use, pin>>
      BY <1>3 DEF PrepareClone
    <2> QED
      BY <2>1
  <1>4. ASSUME NEW c \in Commands, PrepareCloned(c)
         PROVE  JournalExact'
    <2>1. jr.ph = "reserved" /\ jr' = [jr EXCEPT !.ph = "cloned"] /\ UNCHANGED <<rec, use, pin, exists>>
      BY <1>4
         DEF PrepareCloned, Advance, CommandExact, HeldExact, CandidateReady
    <2>2. /\ jr'.ph = "cloned" /\ jr'.old = jr.old /\ jr'.oldBase = jr.oldBase /\ jr'.oldPin = jr.oldPin
          /\ jr'.cand = jr.cand /\ jr'.base = jr.base
      BY <2>1, AdvanceJournal DEF TypeOK, RebuildPhases
    <2>3. jr.cand \in exists
      BY <1>4 DEF PrepareCloned, CommandExact, HeldExact
    <2> QED
      BY <2>1, <2>2, <2>3
  <1>5. ASSUME NEW c \in Commands, CutoverBegin(c)
         PROVE  JournalExact'
    <2>1. jr.ph \in {"cloned", "cutover"} /\ jr' = [jr EXCEPT !.ph = "cutover"] /\ UNCHANGED <<rec, use, pin, exists>>
      BY <1>5
         DEF CutoverBegin, Advance, CommandExact, HeldExact, CandidateReady
    <2>2. /\ jr'.ph = "cutover" /\ jr'.old = jr.old /\ jr'.oldBase = jr.oldBase /\ jr'.oldPin = jr.oldPin
          /\ jr'.cand = jr.cand /\ jr'.base = jr.base
      BY <2>1, AdvanceJournal DEF TypeOK, RebuildPhases
    <2>3. OldActive(jr, rec)
      BY <1>5 DEF CutoverBegin
    <2>4. rec.obj # jr.cand
      BY <2>1, <2>3, JournalFields DEF TypeOK
    <2> QED
      BY <2>1, <2>2, <2>3, <2>4
  <1>6. ASSUME NEW c \in Commands, CutoverRecord(c)
         PROVE  JournalExact'
    <2>1. jr.ph = "cutover" /\ rec.st = "stopped" /\ UNCHANGED <<jr, exists>>
      BY <1>6 DEF CutoverRecord, CommandExact, HeldExact
    <2>2. rec'.st = rec.st /\ rec'.obj = jr.cand /\ rec'.base = jr.base
      BY <1>6 DEF CutoverRecord, TypeOK, Record
    <2> QED
      BY <2>1, <2>2
  <1>7. ASSUME NEW c \in Commands, ConfirmReady(c)
         PROVE  JournalExact'
    <2>1. jr.ph \in {"cutover", "ready"} /\ jr' = [jr EXCEPT !.ph = "ready"] /\ UNCHANGED <<rec, use, pin, exists>>
      BY <1>7
         DEF ConfirmReady, Advance, CommandExact, HeldExact, CandidateReady
    <2>2. /\ jr'.ph = "ready" /\ jr'.old = jr.old /\ jr'.oldBase = jr.oldBase /\ jr'.oldPin = jr.oldPin
          /\ jr'.cand = jr.cand /\ jr'.base = jr.base
      BY <2>1, AdvanceJournal DEF TypeOK, RebuildPhases
    <2>3. CandidateActive(jr, rec) /\ pin = jr.cand
      BY <1>7 DEF ConfirmReady, CandidateReady, Evidence, LaunchExact
    <2> QED
      BY <2>1, <2>2, <2>3
  <1>8. ASSUME NEW c \in Commands, RetireBegin(c)
         PROVE  JournalExact'
    <2>1. jr.ph \in {"ready", "retiring"} /\ jr' = [jr EXCEPT !.ph = "retiring"] /\ UNCHANGED <<rec, use, pin, exists>>
      BY <1>8
         DEF RetireBegin, Advance, CommandExact, HeldExact, CandidateReady
    <2>2. /\ jr'.ph = "retiring" /\ jr'.old = jr.old /\ jr'.oldBase = jr.oldBase /\ jr'.oldPin = jr.oldPin
          /\ jr'.cand = jr.cand /\ jr'.base = jr.base
      BY <2>1, AdvanceJournal DEF TypeOK, RebuildPhases
    <2> QED
      BY <2>1, <2>2
  <1>9. ASSUME NEW c \in Commands, RetireDelete(c)
         PROVE  JournalExact'
    <2>1. jr.ph = "retiring" /\ UNCHANGED <<rec, jr, use, pin>>
      BY <1>9 DEF RetireDelete, CommandExact, HeldExact
    <2> QED
      BY <2>1
  <1>10. ASSUME NEW c \in Commands, RetireClear(c)
          PROVE  JournalExact'
    <2>1. jr'.ph = "none"
      BY <1>10, FixedJournals DEF RetireClear
    <2> QED
      BY <2>1
  <1>11. ASSUME NEW c \in Commands, StartRelease(c)
          PROVE  JournalExact'
    <2>1. use' = None /\ UNCHANGED <<rec, jr, pin, exists>>
      BY <1>11 DEF StartRelease
    <2> QED
      BY <2>1
  <1>12. ASSUME NEW c \in Commands, StartReserve(c)
          PROVE  JournalExact'
    <2>1. rec.st = "stopped" /\ StartAuthorised(c) /\ UNCHANGED <<jr, pin, exists>>
      BY <1>12 DEF StartReserve, CommandExact, HeldExact
    <2>2. rec'.st \in {rec.st, "starting"} /\ rec'.obj = rec.obj /\ rec'.base = rec.base
      BY <1>12 DEF StartReserve, TypeOK, Record
    <2>3. jr.ph = "none" \/ (CandidateActive(jr, rec) /\ jr.ph \in {"cutover", "ready", "retiring"})
      <3>1. ASSUME want[c].kind = "plain"
            PROVE  jr.ph = "none"
        BY <2>1, <3>1 DEF StartAuthorised, RequireNoRebuild
      <3>2. CASE want[c].kind # "plain"
        BY <2>1, <3>2 DEF StartAuthorised, candidateRebuildPhase
      <3> QED
        BY <3>1, <3>2
    <2>4. jr.ph # "torn" /\ jr.ph \notin {"reserved", "cloned"}
      BY <2>3
    <2> QED
      BY <2>1, <2>2, <2>3, <2>4
  <1>13. ASSUME NEW c \in Commands, StartAccept(c)
          PROVE  JournalExact'
    <2>1. rec.st = "starting" /\ rec'.st = "running" /\ UNCHANGED <<jr, pin, exists, use>>
      BY <1>13 DEF StartAccept, TypeOK, Record
    <2>2. rec'.obj = rec.obj /\ rec'.base = rec.base
      BY <1>13 DEF StartAccept, TypeOK, Record
    <2> QED
      BY <2>1, <2>2
  <1>14. ASSUME NEW c \in Commands, StopBegin(c)
          PROVE  JournalExact'
    <2>1. /\ rec'.obj = rec.obj /\ rec'.base = rec.base
          /\ rec'.st = IF rec.st = "stopped" THEN "stopped" ELSE "stopping"
      BY <1>14 DEF StopBegin, TypeOK, Record
    <2>2. UNCHANGED <<jr, pin, exists, use>>
      BY <1>14 DEF StopBegin
    <2> QED
      BY <2>1, <2>2
  <1>15. ASSUME NEW c \in Commands, StopFinish(c)
          PROVE  JournalExact'
    <2>1. rec'.obj = rec.obj /\ rec'.base = rec.base /\ rec'.st \in {rec.st, "stopped"}
      BY <1>15 DEF StopFinish, TypeOK, Record
    <2>2. use' = None /\ UNCHANGED <<jr, pin, exists>>
      BY <1>15 DEF StopFinish
    <2> QED
      BY <2>1, <2>2
  <1>16. ASSUME NEW c \in Commands, DeleteBegin(c)
          PROVE  JournalExact'
    <2>1. jr.ph = "none" /\ UNCHANGED jr
      BY <1>16, FixedJournals
         DEF DeleteBegin, RequireNoRebuild, CommandExact, HeldExact
    <2> QED
      BY <2>1
  <1>17. ASSUME NEW c \in Commands, DeleteErase(c)
          PROVE  JournalExact'
    <2>1. jr.ph = "none" /\ UNCHANGED jr
      BY <1>17, FixedJournals
         DEF DeleteErase, RequireNoRebuild, CommandExact, HeldExact
    <2> QED
      BY <2>1
  <1>18. ASSUME NEW c \in Commands, DeleteFinal(c)
          PROVE  JournalExact'
    <2>1. jr.ph = "none" /\ UNCHANGED jr
      BY <1>18, FixedJournals
         DEF DeleteFinal, RequireNoRebuild, CommandExact, HeldExact
    <2> QED
      BY <2>1
  <1>19. ASSUME NEW o \in Objects, NEW b \in Bases, Create(o, b)
          PROVE  JournalExact'
    <2>1. jr.ph = "none" /\ UNCHANGED jr
      BY <1>19, FixedJournals
         DEF Create, RequireNoRebuild, CommandExact, HeldExact
    <2> QED
      BY <2>1
  <1>20. CASE SupBootstrap
    <2>1. sup.ph = "live" /\ pin' = rec.obj /\ UNCHANGED <<rec, jr, use, exists>>
      BY <1>20 DEF SupBootstrap, LaunchExact
    <2>2. rec.st # "stopped"
      BY <2>1 DEF RecordExact, NoSup
    <2> QED
      BY <2>1, <2>2
  <1>21. CASE UNCHANGED <<rec, jr, use, pin, exists>>
    BY <1>21
  <1> QED
    BY <1>1, <1>2, <1>3, <1>4, <1>5, <1>6, <1>7, <1>8, <1>9, <1>10, <1>11,
       <1>12, <1>13, <1>14, <1>15, <1>16, <1>17, <1>18, <1>19, <1>20, <1>21,
       ZenonT(60)
       DEF Next, RebuildStep, SessionStep, SupStep, ExecuteBegin,
           ExecutePrepared, PrepareBegin, ExecuteNoJournal, ExecuteResume,
           PrepareResume, PrepareAgain, CutoverDone, LoadCandidate,
           StartBegin, StartLoad, StartRunning, Abort, SupLoad, SupCheck,
           SupLaunch, SupTorn, MachineEnds, SupEnds, SupLost, Goto, Done,
           Forget, Prepared, Started, Advance, durable, runtime, command,
           vars

(* A step of c leaves what another command has loaded alone, since that    *)
(* one holds no lock or c writes nothing.                                  *)
LEMMA OthersKeep ==
    ASSUME RebuildInv, NEW c \in Commands, NEW d \in Commands, d # c,
           UNCHANGED <<pc[d], want[d], cur[d], jn[d]>>,
           \/ TransitionFree \/ pc[c] \in TransitionPCs
           \/ UNCHANGED <<rec, jr, exists, use, pin>>
    PROVE  HeldExact(d)'
  <1>1. HeldExact(d)
    BY DEF RebuildInv, CommandExact
  <1>2. CASE TransitionFree \/ pc[c] \in TransitionPCs
    <2>1. pc[d] \notin TransitionPCs
      BY <1>2 DEF RebuildInv, OneHolder, TransitionFree
    <2> QED
      BY <1>1, <2>1 DEF HeldExact, TransitionPCs
  <1>3. CASE UNCHANGED <<rec, jr, exists, use, pin>>
    BY <1>1, <1>3 DEF HeldExact, requirePrepared, OldWaits, OldActive, verifyOldPin
  <1> QED
    BY <1>2, <1>3

(* What the holder of the transition lock loaded stays what is on disk.    *)
LEMMA CommandExactStep ==
    RebuildInv /\ [Next]_vars => CommandExact'
  <1> SUFFICES ASSUME RebuildInv, [Next]_vars
               PROVE  CommandExact'
    OBVIOUS
  <1> USE DEF RebuildInv, CommandExact
  <1>1. ASSUME NEW c \in Commands, NEW b \in Bases \cup {None},
     ExecuteBegin(c, b)
         PROVE  CommandExact'
    <2>1. HeldExact(c)'
      <3>1. pc'[c] \in {"journal"}
        BY <1>1 DEF ExecuteBegin, Goto, TypeOK
      <3> QED
        BY <3>1 DEF HeldExact, TransitionPCs
    <2>2. ASSUME NEW d \in Commands, d # c
          PROVE  HeldExact(d)'
      <3>1. UNCHANGED <<pc[d], want[d], cur[d], jn[d]>>
        BY <1>1, <2>2 DEF ExecuteBegin, Goto, TypeOK
      <3> QED
        BY <1>1, <2>2, <3>1, OthersKeep DEF ExecuteBegin, durable
    <2> QED
      BY <2>1, <2>2
  <1>2. ASSUME NEW c \in Commands, ExecutePrepared(c)
         PROVE  CommandExact'
    <2>1. HeldExact(c)'
      <3>1. pc'[c] \in {"journal"}
        BY <1>2 DEF ExecutePrepared, Goto, TypeOK
      <3> QED
        BY <3>1 DEF HeldExact, TransitionPCs
    <2>2. ASSUME NEW d \in Commands, d # c
          PROVE  HeldExact(d)'
      <3>1. UNCHANGED <<pc[d], want[d], cur[d], jn[d]>>
        BY <1>2, <2>2 DEF ExecutePrepared, Goto, TypeOK
      <3> QED
        BY <1>2, <2>2, <3>1, OthersKeep DEF ExecutePrepared, durable
    <2> QED
      BY <2>1, <2>2
  <1>3. ASSUME NEW c \in Commands, NEW b \in Bases, PrepareBegin(c, b)
         PROVE  CommandExact'
    <2>1. HeldExact(c)'
      <3>1. pc'[c] = "prepare" /\ want'[c].base = b
        BY <1>3 DEF PrepareBegin, Goto, TypeOK
      <3> QED
        BY <3>1 DEF HeldExact, TransitionPCs
    <2>2. ASSUME NEW d \in Commands, d # c
          PROVE  HeldExact(d)'
      <3>1. UNCHANGED <<pc[d], want[d], cur[d], jn[d]>>
        BY <1>3, <2>2 DEF PrepareBegin, Goto, TypeOK
      <3> QED
        BY <1>3, <2>2, <3>1, OthersKeep DEF PrepareBegin, durable
    <2> QED
      BY <2>1, <2>2
  <1>4. ASSUME NEW c \in Commands, ExecuteNoJournal(c)
         PROVE  CommandExact'
    <2>1. HeldExact(c)'
      <3>1. \/ pc'[c] \in {"idle", "start"}
            \/ pc'[c] = "prepare" /\ want'[c].base \in Bases
        BY <1>4 DEF ExecuteNoJournal, Done, Forget, Goto, TypeOK, Request
      <3> QED
        BY <3>1 DEF HeldExact, TransitionPCs
    <2>2. ASSUME NEW d \in Commands, d # c
          PROVE  HeldExact(d)'
      <3>1. UNCHANGED <<pc[d], want[d], cur[d], jn[d]>>
        BY <1>4, <2>2 DEF ExecuteNoJournal, Done, Forget, Goto, TypeOK
      <3> QED
        BY <1>4, <2>2, <3>1, OthersKeep DEF ExecuteNoJournal, durable
    <2> QED
      BY <2>1, <2>2
  <1>5. ASSUME NEW c \in Commands, ExecuteResume(c)
         PROVE  CommandExact'
    <2>1. HeldExact(c)'
      <3>1. pc'[c] \in {"prepare", "cutover", "start", "retire"}
        BY <1>5 DEF ExecuteResume, Goto, TypeOK
      <3>2. want'[c].base = jr.base
        BY <1>5 DEF ExecuteResume, TypeOK, Request
      <3>3. jr.base \in Bases
        BY <1>5, JournalFields DEF ExecuteResume, TypeOK, RebuildJournal
      <3> QED
        BY <3>1, <3>2, <3>3 DEF HeldExact, TransitionPCs
    <2>2. ASSUME NEW d \in Commands, d # c
          PROVE  HeldExact(d)'
      <3>1. UNCHANGED <<pc[d], want[d], cur[d], jn[d]>>
        BY <1>5, <2>2 DEF ExecuteResume, Goto, TypeOK
      <3> QED
        BY <1>5, <2>2, <3>1, OthersKeep DEF ExecuteResume, durable
    <2> QED
      BY <2>1, <2>2
  <1>6. ASSUME NEW c \in Commands, NEW o \in Objects, Reserve(c, o)
         PROVE  CommandExact'
    <2>1. HeldExact(c)'
      <3>1. /\ pc'[c] = "clone"
            /\ jr' = jn'[c] /\ rec' = cur'[c] /\ requirePrepared(c, jr)'
            /\ jr'.ph = "reserved"
        BY <1>6
           DEF Reserve, Goto, Reservable, TypeOK, Record, CommandExact,
               HeldExact, requirePrepared
      <3> QED
        BY <3>1 DEF HeldExact, TransitionPCs, SessionPCs
    <2>2. ASSUME NEW d \in Commands, d # c
          PROVE  HeldExact(d)'
      <3>1. UNCHANGED <<pc[d], want[d], cur[d], jn[d]>>
        BY <1>6, <2>2 DEF Reserve, Goto, Reservable, TypeOK
      <3> QED
        BY <1>6, <2>2, <3>1, OthersKeep
           DEF Reserve, Reservable, CandidateReady
    <2> QED
      BY <2>1, <2>2
  <1>7. ASSUME NEW c \in Commands, ReserveTorn(c)
         PROVE  CommandExact'
    <2>1. HeldExact(c)'
      <3>1. pc'[c] \in {"idle"}
        BY <1>7 DEF ReserveTorn, Done, Forget, Goto, Reservable, TypeOK
      <3> QED
        BY <3>1 DEF HeldExact, TransitionPCs
    <2>2. ASSUME NEW d \in Commands, d # c
          PROVE  HeldExact(d)'
      <3>1. UNCHANGED <<pc[d], want[d], cur[d], jn[d]>>
        BY <1>7, <2>2 DEF ReserveTorn, Done, Forget, Goto, Reservable, TypeOK
      <3> QED
        BY <1>7, <2>2, <3>1, OthersKeep
           DEF ReserveTorn, Reservable, CandidateReady
    <2> QED
      BY <2>1, <2>2
  <1>8. ASSUME NEW c \in Commands, PrepareResume(c)
         PROVE  CommandExact'
    <2>1. HeldExact(c)'
      <3>1. /\ pc'[c] = "clone"
            /\ jr' = jn'[c] /\ rec' = cur'[c] /\ requirePrepared(c, jr)'
            /\ jr'.ph \in {"reserved", "cloned"}
        BY <1>8
           DEF PrepareResume, Goto, TypeOK, Record, CommandExact, HeldExact,
               requirePrepared, durable
      <3> QED
        BY <3>1 DEF HeldExact, TransitionPCs, SessionPCs
    <2>2. ASSUME NEW d \in Commands, d # c
          PROVE  HeldExact(d)'
      <3>1. UNCHANGED <<pc[d], want[d], cur[d], jn[d]>>
        BY <1>8, <2>2 DEF PrepareResume, Goto, TypeOK
      <3> QED
        BY <1>8, <2>2, <3>1, OthersKeep
           DEF PrepareResume, Reservable, CandidateReady
    <2> QED
      BY <2>1, <2>2
  <1>9. ASSUME NEW c \in Commands, PrepareClone(c)
         PROVE  CommandExact'
    <2>1. HeldExact(c)'
      <3>1. /\ pc'[c] = "cloned"
            /\ jr' = jn'[c] /\ rec' = cur'[c] /\ requirePrepared(c, jr)'
            /\ jr'.ph = "reserved" /\ jr'.cand \in exists'
        BY <1>9
           DEF PrepareClone, Goto, TypeOK, Record, CommandExact, HeldExact,
               requirePrepared, SessionPCs, TransitionPCs
      <3> QED
        BY <3>1 DEF HeldExact, TransitionPCs, SessionPCs
    <2>2. ASSUME NEW d \in Commands, d # c
          PROVE  HeldExact(d)'
      <3>1. UNCHANGED <<pc[d], want[d], cur[d], jn[d]>>
        BY <1>9, <2>2 DEF PrepareClone, Goto, TypeOK
      <3> QED
        BY <1>9, <2>2, <3>1, OthersKeep DEF PrepareClone, TransitionPCs
    <2> QED
      BY <2>1, <2>2
  <1>10. ASSUME NEW c \in Commands, PrepareCloned(c)
          PROVE  CommandExact'
    <2>1. HeldExact(c)'
      <3>1. pc'[c] \in {"idle", "cutover"}
        BY <1>10
           DEF PrepareCloned, Prepared, Advance, Done, Forget, Goto, TypeOK
      <3> QED
        BY <3>1 DEF HeldExact, TransitionPCs
    <2>2. ASSUME NEW d \in Commands, d # c
          PROVE  HeldExact(d)'
      <3>1. UNCHANGED <<pc[d], want[d], cur[d], jn[d]>>
        BY <1>10, <2>2
           DEF PrepareCloned, Prepared, Advance, Done, Forget, Goto, TypeOK
      <3> QED
        BY <1>10, <2>2, <3>1, OthersKeep DEF PrepareCloned, TransitionPCs
    <2> QED
      BY <2>1, <2>2
  <1>11. ASSUME NEW c \in Commands, PrepareAgain(c)
          PROVE  CommandExact'
    <2>1. HeldExact(c)'
      <3>1. pc'[c] \in {"idle", "cutover"}
        BY <1>11 DEF PrepareAgain, Prepared, Done, Forget, Goto, TypeOK
      <3> QED
        BY <3>1 DEF HeldExact, TransitionPCs
    <2>2. ASSUME NEW d \in Commands, d # c
          PROVE  HeldExact(d)'
      <3>1. UNCHANGED <<pc[d], want[d], cur[d], jn[d]>>
        BY <1>11, <2>2 DEF PrepareAgain, Prepared, Done, Forget, Goto, TypeOK
      <3> QED
        BY <1>11, <2>2, <3>1, OthersKeep DEF PrepareAgain, TransitionPCs
    <2> QED
      BY <2>1, <2>2
  <1>12. ASSUME NEW c \in Commands, CutoverBegin(c)
          PROVE  CommandExact'
    <2>1. HeldExact(c)'
      <3>1. /\ pc'[c] = "switch" /\ rec.st = "stopped" /\ OldActive(jr, rec)
            /\ verifyOldPin(jr) /\ jr.ph \in {"cloned", "cutover"}
            /\ jr' = [jr EXCEPT !.ph = "cutover"] /\ UNCHANGED <<rec, pin, use>>
        BY <1>12 DEF CutoverBegin, Advance, Goto, TypeOK
      <3>2. /\ jr'.ph = "cutover" /\ jr'.old = jr.old /\ jr'.oldBase = jr.oldBase
            /\ jr'.oldPin = jr.oldPin
        BY <3>1, AdvanceJournal DEF TypeOK, RebuildPhases
      <3>3. use = None
        <4>1. rec.obj # jr.cand
          BY <3>1, JournalFields DEF TypeOK, OldActive
        <4> QED
          BY <3>1, <4>1 DEF JournalExact, OldWaits, CandidateActive
      <3> QED
        BY <3>1, <3>2, <3>3
           DEF HeldExact, TransitionPCs, SessionPCs, OldWaits, OldActive,
               verifyOldPin
    <2>2. ASSUME NEW d \in Commands, d # c
          PROVE  HeldExact(d)'
      <3>1. UNCHANGED <<pc[d], want[d], cur[d], jn[d]>>
        BY <1>12, <2>2 DEF CutoverBegin, Advance, Goto, TypeOK
      <3> QED
        BY <1>12, <2>2, <3>1, OthersKeep
           DEF CutoverBegin, Reservable, CandidateReady
    <2> QED
      BY <2>1, <2>2
  <1>13. ASSUME NEW c \in Commands, CutoverRecord(c)
          PROVE  CommandExact'
    <2>1. HeldExact(c)'
      <3>1. pc'[c] \in {"candidate"}
        BY <1>13 DEF CutoverRecord, Goto, TypeOK
      <3> QED
        BY <3>1 DEF HeldExact, TransitionPCs
    <2>2. ASSUME NEW d \in Commands, d # c
          PROVE  HeldExact(d)'
      <3>1. UNCHANGED <<pc[d], want[d], cur[d], jn[d]>>
        BY <1>13, <2>2 DEF CutoverRecord, Goto, TypeOK
      <3> QED
        BY <1>13, <2>2, <3>1, OthersKeep DEF CutoverRecord, TransitionPCs
    <2> QED
      BY <2>1, <2>2
  <1>14. ASSUME NEW c \in Commands, CutoverDone(c)
          PROVE  CommandExact'
    <2>1. HeldExact(c)'
      <3>1. pc'[c] \in {"candidate"}
        BY <1>14 DEF CutoverDone, Goto, TypeOK
      <3> QED
        BY <3>1 DEF HeldExact, TransitionPCs
    <2>2. ASSUME NEW d \in Commands, d # c
          PROVE  HeldExact(d)'
      <3>1. UNCHANGED <<pc[d], want[d], cur[d], jn[d]>>
        BY <1>14, <2>2 DEF CutoverDone, Goto, TypeOK
      <3> QED
        BY <1>14, <2>2, <3>1, OthersKeep
           DEF CutoverDone, Reservable, CandidateReady
    <2> QED
      BY <2>1, <2>2
  <1>15. ASSUME NEW c \in Commands, LoadCandidate(c)
          PROVE  CommandExact'
    <2>1. HeldExact(c)'
      <3>1. pc'[c] \in {"start"}
        BY <1>15 DEF LoadCandidate, Goto, TypeOK
      <3> QED
        BY <3>1 DEF HeldExact, TransitionPCs
    <2>2. ASSUME NEW d \in Commands, d # c
          PROVE  HeldExact(d)'
      <3>1. UNCHANGED <<pc[d], want[d], cur[d], jn[d]>>
        BY <1>15, <2>2 DEF LoadCandidate, Goto, TypeOK
      <3> QED
        BY <1>15, <2>2, <3>1, OthersKeep DEF LoadCandidate, durable
    <2> QED
      BY <2>1, <2>2
  <1>16. ASSUME NEW c \in Commands, ConfirmReady(c)
          PROVE  CommandExact'
    <2>1. HeldExact(c)'
      <3>1. pc'[c] \in {"retire", "start"}
        BY <1>16
           DEF ConfirmReady, CandidateReady, Advance, Goto, Forget, TypeOK
      <3> QED
        BY <3>1 DEF HeldExact, TransitionPCs
    <2>2. ASSUME NEW d \in Commands, d # c
          PROVE  HeldExact(d)'
      <3>1. UNCHANGED <<pc[d], want[d], cur[d], jn[d]>>
        BY <1>16, <2>2
           DEF ConfirmReady, CandidateReady, Advance, Goto, Forget, TypeOK
      <3> QED
        BY <1>16, <2>2, <3>1, OthersKeep
           DEF ConfirmReady, Reservable, CandidateReady
    <2> QED
      BY <2>1, <2>2
  <1>17. ASSUME NEW c \in Commands, RetireBegin(c)
          PROVE  CommandExact'
    <2>1. HeldExact(c)'
      <3>1. /\ pc'[c] = "delete" /\ jr' = jn'[c] /\ rec' = cur'[c] /\ rec'.st = "running"
            /\ jr.ph \in {"ready", "retiring"} /\ jr' = [jr EXCEPT !.ph = "retiring"]
            /\ requirePrepared(c, jr) /\ UNCHANGED want
        BY <1>17 DEF RetireBegin, CandidateReady, Advance, Goto, TypeOK
      <3>2. jr'.ph = "retiring" /\ jr'.cand = jr.cand
        BY <3>1, AdvanceJournal DEF TypeOK, RebuildPhases
      <3> QED
        BY <3>1, <3>2
           DEF HeldExact, TransitionPCs, SessionPCs, requirePrepared
    <2>2. ASSUME NEW d \in Commands, d # c
          PROVE  HeldExact(d)'
      <3>1. UNCHANGED <<pc[d], want[d], cur[d], jn[d]>>
        BY <1>17, <2>2 DEF RetireBegin, CandidateReady, Advance, Goto, TypeOK
      <3> QED
        BY <1>17, <2>2, <3>1, OthersKeep
           DEF RetireBegin, Reservable, CandidateReady
    <2> QED
      BY <2>1, <2>2
  <1>18. ASSUME NEW c \in Commands, RetireDelete(c)
          PROVE  CommandExact'
    <2>1. HeldExact(c)'
      <3>1. /\ pc'[c] = "clear"
            /\ jr' = jn'[c] /\ rec' = cur'[c] /\ requirePrepared(c, jr)'
            /\ jr'.ph = "retiring" /\ rec'.st = "running"
        BY <1>18
           DEF RetireDelete, Goto, TypeOK, Record, CommandExact, HeldExact,
               requirePrepared, SessionPCs, TransitionPCs
      <3> QED
        BY <3>1 DEF HeldExact, TransitionPCs, SessionPCs
    <2>2. ASSUME NEW d \in Commands, d # c
          PROVE  HeldExact(d)'
      <3>1. UNCHANGED <<pc[d], want[d], cur[d], jn[d]>>
        BY <1>18, <2>2 DEF RetireDelete, Goto, TypeOK
      <3> QED
        BY <1>18, <2>2, <3>1, OthersKeep DEF RetireDelete, TransitionPCs
    <2> QED
      BY <2>1, <2>2
  <1>19. ASSUME NEW c \in Commands, RetireClear(c)
          PROVE  CommandExact'
    <2>1. HeldExact(c)'
      <3>1. pc'[c] \in {"idle"}
        BY <1>19 DEF RetireClear, Done, Forget, Goto, TypeOK
      <3> QED
        BY <3>1 DEF HeldExact, TransitionPCs
    <2>2. ASSUME NEW d \in Commands, d # c
          PROVE  HeldExact(d)'
      <3>1. UNCHANGED <<pc[d], want[d], cur[d], jn[d]>>
        BY <1>19, <2>2 DEF RetireClear, Done, Forget, Goto, TypeOK
      <3> QED
        BY <1>19, <2>2, <3>1, OthersKeep DEF RetireClear, TransitionPCs
    <2> QED
      BY <2>1, <2>2
  <1>20. ASSUME NEW c \in Commands, StartBegin(c)
          PROVE  CommandExact'
    <2>1. HeldExact(c)'
      <3>1. pc'[c] \in {"start"}
        BY <1>20 DEF StartBegin, Goto, TypeOK
      <3> QED
        BY <3>1 DEF HeldExact, TransitionPCs
    <2>2. ASSUME NEW d \in Commands, d # c
          PROVE  HeldExact(d)'
      <3>1. UNCHANGED <<pc[d], want[d], cur[d], jn[d]>>
        BY <1>20, <2>2 DEF StartBegin, Goto, TypeOK
      <3> QED
        BY <1>20, <2>2, <3>1, OthersKeep DEF StartBegin, durable
    <2> QED
      BY <2>1, <2>2
  <1>21. ASSUME NEW c \in Commands, StartLoad(c)
          PROVE  CommandExact'
    <2>1. HeldExact(c)'
      <3>1. /\ rec' = cur'[c]
            /\ \/ rec'.st = "stopped" /\ pc'[c] = "release"
               \/ rec'.st = "starting" /\ pc'[c] = "await"
        BY <1>21 DEF StartLoad, Goto, TypeOK, durable
      <3> QED
        BY <3>1 DEF HeldExact, TransitionPCs, SessionPCs
    <2>2. ASSUME NEW d \in Commands, d # c
          PROVE  HeldExact(d)'
      <3>1. UNCHANGED <<pc[d], want[d], cur[d], jn[d]>>
        BY <1>21, <2>2 DEF StartLoad, Goto, TypeOK
      <3> QED
        BY <1>21, <2>2, <3>1, OthersKeep
           DEF StartLoad, Reservable, CandidateReady
    <2> QED
      BY <2>1, <2>2
  <1>22. ASSUME NEW c \in Commands, StartRunning(c)
          PROVE  CommandExact'
    <2>1. HeldExact(c)'
      <3>1. pc'[c] \in {"idle", "confirm", "retire"}
        BY <1>22 DEF StartRunning, Started, Done, Forget, Goto, TypeOK
      <3> QED
        BY <3>1 DEF HeldExact, TransitionPCs
    <2>2. ASSUME NEW d \in Commands, d # c
          PROVE  HeldExact(d)'
      <3>1. UNCHANGED <<pc[d], want[d], cur[d], jn[d]>>
        BY <1>22, <2>2 DEF StartRunning, Started, Done, Forget, Goto, TypeOK
      <3> QED
        BY <1>22, <2>2, <3>1, OthersKeep
           DEF StartRunning, Reservable, CandidateReady
    <2> QED
      BY <2>1, <2>2
  <1>23. ASSUME NEW c \in Commands, StartRelease(c)
          PROVE  CommandExact'
    <2>1. HeldExact(c)'
      <3>1. /\ pc'[c] = "reserve"
            /\ rec' = cur'[c] /\ rec'.st = "stopped"
        BY <1>23
           DEF StartRelease, Goto, TypeOK, Record, CommandExact, HeldExact,
               requirePrepared, SessionPCs, TransitionPCs
      <3> QED
        BY <3>1 DEF HeldExact, TransitionPCs, SessionPCs
    <2>2. ASSUME NEW d \in Commands, d # c
          PROVE  HeldExact(d)'
      <3>1. UNCHANGED <<pc[d], want[d], cur[d], jn[d]>>
        BY <1>23, <2>2 DEF StartRelease, Goto, TypeOK
      <3> QED
        BY <1>23, <2>2, <3>1, OthersKeep DEF StartRelease, TransitionPCs
    <2> QED
      BY <2>1, <2>2
  <1>24. ASSUME NEW c \in Commands, StartReserve(c)
          PROVE  CommandExact'
    <2>1. HeldExact(c)'
      <3>1. \/ pc'[c] = "idle"
            \/ pc'[c] = "await" /\ rec' = cur'[c] /\ rec'.st = "starting"
        BY <1>24 DEF StartReserve, Done, Forget, Goto, TypeOK, Record
      <3> QED
        BY <3>1 DEF HeldExact, TransitionPCs, SessionPCs
    <2>2. ASSUME NEW d \in Commands, d # c
          PROVE  HeldExact(d)'
      <3>1. UNCHANGED <<pc[d], want[d], cur[d], jn[d]>>
        BY <1>24, <2>2 DEF StartReserve, Done, Forget, Goto, TypeOK
      <3> QED
        BY <1>24, <2>2, <3>1, OthersKeep DEF StartReserve, TransitionPCs
    <2> QED
      BY <2>1, <2>2
  <1>25. ASSUME NEW c \in Commands, StartAccept(c)
          PROVE  CommandExact'
    <2>1. HeldExact(c)'
      <3>1. pc'[c] \in {"idle", "confirm", "retire"}
        BY <1>25 DEF StartAccept, Started, Done, Forget, Goto, TypeOK
      <3> QED
        BY <3>1 DEF HeldExact, TransitionPCs
    <2>2. ASSUME NEW d \in Commands, d # c
          PROVE  HeldExact(d)'
      <3>1. UNCHANGED <<pc[d], want[d], cur[d], jn[d]>>
        BY <1>25, <2>2 DEF StartAccept, Started, Done, Forget, Goto, TypeOK
      <3> QED
        BY <1>25, <2>2, <3>1, OthersKeep DEF StartAccept, TransitionPCs
    <2> QED
      BY <2>1, <2>2
  <1>26. ASSUME NEW c \in Commands, StopBegin(c)
          PROVE  CommandExact'
    <2>1. HeldExact(c)'
      <3>1. /\ pc'[c] = "stopping"
            /\ rec' = cur'[c] /\ rec'.st \in {"stopped", "stopping"}
        BY <1>26
           DEF StopBegin, Goto, TypeOK, Record, CommandExact, HeldExact,
               requirePrepared
      <3> QED
        BY <3>1 DEF HeldExact, TransitionPCs, SessionPCs
    <2>2. ASSUME NEW d \in Commands, d # c
          PROVE  HeldExact(d)'
      <3>1. UNCHANGED <<pc[d], want[d], cur[d], jn[d]>>
        BY <1>26, <2>2 DEF StopBegin, Goto, TypeOK
      <3> QED
        BY <1>26, <2>2, <3>1, OthersKeep
           DEF StopBegin, Reservable, CandidateReady
    <2> QED
      BY <2>1, <2>2
  <1>27. ASSUME NEW c \in Commands, StopFinish(c)
          PROVE  CommandExact'
    <2>1. HeldExact(c)'
      <3>1. pc'[c] \in {"idle"}
        BY <1>27 DEF StopFinish, Done, Forget, Goto, TypeOK
      <3> QED
        BY <3>1 DEF HeldExact, TransitionPCs
    <2>2. ASSUME NEW d \in Commands, d # c
          PROVE  HeldExact(d)'
      <3>1. UNCHANGED <<pc[d], want[d], cur[d], jn[d]>>
        BY <1>27, <2>2 DEF StopFinish, Done, Forget, Goto, TypeOK
      <3> QED
        BY <1>27, <2>2, <3>1, OthersKeep DEF StopFinish, TransitionPCs
    <2> QED
      BY <2>1, <2>2
  <1>28. ASSUME NEW c \in Commands, DeleteBegin(c)
          PROVE  CommandExact'
    <2>1. HeldExact(c)'
      <3>1. /\ pc'[c] = "erase"
            /\ rec' = cur'[c] /\ rec'.st = "deleting" /\ jr' = NoJournal
        BY <1>28, JournalFields
           DEF DeleteBegin, Goto, TypeOK, Record, CommandExact, HeldExact,
               requirePrepared, RequireNoRebuild
      <3> QED
        BY <3>1 DEF HeldExact, TransitionPCs, SessionPCs
    <2>2. ASSUME NEW d \in Commands, d # c
          PROVE  HeldExact(d)'
      <3>1. UNCHANGED <<pc[d], want[d], cur[d], jn[d]>>
        BY <1>28, <2>2 DEF DeleteBegin, Goto, TypeOK
      <3> QED
        BY <1>28, <2>2, <3>1, OthersKeep
           DEF DeleteBegin, Reservable, CandidateReady
    <2> QED
      BY <2>1, <2>2
  <1>29. ASSUME NEW c \in Commands, DeleteErase(c)
          PROVE  CommandExact'
    <2>1. HeldExact(c)'
      <3>1. /\ pc'[c] = "erased"
            /\ rec' = cur'[c] /\ rec'.st = "deleting" /\ jr' = NoJournal
        BY <1>29
           DEF DeleteErase, Goto, TypeOK, Record, CommandExact, HeldExact,
               requirePrepared, SessionPCs, TransitionPCs
      <3> QED
        BY <3>1 DEF HeldExact, TransitionPCs, SessionPCs
    <2>2. ASSUME NEW d \in Commands, d # c
          PROVE  HeldExact(d)'
      <3>1. UNCHANGED <<pc[d], want[d], cur[d], jn[d]>>
        BY <1>29, <2>2 DEF DeleteErase, Goto, TypeOK
      <3> QED
        BY <1>29, <2>2, <3>1, OthersKeep DEF DeleteErase, TransitionPCs
    <2> QED
      BY <2>1, <2>2
  <1>30. ASSUME NEW c \in Commands, DeleteFinal(c)
          PROVE  CommandExact'
    <2>1. HeldExact(c)'
      <3>1. pc'[c] \in {"idle"}
        BY <1>30 DEF DeleteFinal, Done, Forget, Goto, TypeOK
      <3> QED
        BY <3>1 DEF HeldExact, TransitionPCs
    <2>2. ASSUME NEW d \in Commands, d # c
          PROVE  HeldExact(d)'
      <3>1. UNCHANGED <<pc[d], want[d], cur[d], jn[d]>>
        BY <1>30, <2>2 DEF DeleteFinal, Done, Forget, Goto, TypeOK
      <3> QED
        BY <1>30, <2>2, <3>1, OthersKeep DEF DeleteFinal, TransitionPCs
    <2> QED
      BY <2>1, <2>2
  <1>31. ASSUME NEW c \in Commands, Abort(c)
          PROVE  CommandExact'
    <2>1. HeldExact(c)'
      <3>1. pc'[c] \in {"idle"}
        BY <1>31 DEF Abort, Done, Forget, Goto, TypeOK
      <3> QED
        BY <3>1 DEF HeldExact, TransitionPCs
    <2>2. ASSUME NEW d \in Commands, d # c
          PROVE  HeldExact(d)'
      <3>1. UNCHANGED <<pc[d], want[d], cur[d], jn[d]>>
        BY <1>31, <2>2 DEF Abort, Done, Forget, Goto, TypeOK
      <3> QED
        BY <1>31, <2>2, <3>1, OthersKeep DEF Abort, durable
    <2> QED
      BY <2>1, <2>2
  <1>32. ASSUME NEW o \in Objects, NEW b \in Bases, Create(o, b)
          PROVE  CommandExact'
    <2>1. rec.st = "none" /\ jr.ph = "none" /\ UNCHANGED <<command, jr, use>>
      BY <1>32 DEF Create, NoRec, RequireNoRebuild
    <2>2. ASSUME NEW d \in Commands
          PROVE  HeldExact(d)'
      <3>1. pc[d] \notin TransitionPCs
        BY <2>1 DEF HeldExact, TransitionPCs, OldWaits
      <3> QED
        BY <2>1, <3>1 DEF HeldExact, TransitionPCs, command
    <2> QED
      BY <2>2
  <1>33. CASE SupBootstrap
    <2>1. sup.ph = "live" /\ UNCHANGED <<command, rec, jr, exists, use>>
      BY <1>33 DEF SupBootstrap
    <2>2. rec.st # "stopped"
      BY <2>1 DEF RecordExact, NoSup
    <2> QED
      BY <2>1, <2>2 DEF HeldExact, OldWaits, command, requirePrepared
  <1>34. CASE UNCHANGED <<rec, jr, exists, use, pin, command>>
    BY <1>34
       DEF HeldExact, OldWaits, OldActive, verifyOldPin, requirePrepared,
           command
  <1> QED
    BY <1>1, <1>2, <1>3, <1>4, <1>5, <1>6, <1>7, <1>8, <1>9, <1>10, <1>11,
       <1>12, <1>13, <1>14, <1>15, <1>16, <1>17, <1>18, <1>19, <1>20, <1>21,
       <1>22, <1>23, <1>24, <1>25, <1>26, <1>27, <1>28, <1>29, <1>30, <1>31,
       <1>32, <1>33, <1>34, ZenonT(60)
       DEF Next, RebuildStep, SessionStep, SupStep, SupLoad, SupCheck,
           SupLaunch, SupTorn, MachineEnds, SupEnds, SupLost, Goto, Done,
           Forget, Prepared, Started, Advance, durable, runtime, command,
           vars

(* No step takes away the object the record names, or the old one before   *)
(* its deletion is intended.                                               *)
LEMMA SystemKeptStep ==
    RebuildInv /\ SystemKept /\ [Next]_vars => SystemKept'
  <1> SUFFICES ASSUME RebuildInv, SystemKept, [Next]_vars
               PROVE  SystemKept'
    OBVIOUS
  <1> USE DEF RebuildInv, SystemKept, Pending
  <1>1. ASSUME NEW c \in Commands, NEW o \in Objects, Reserve(c, o)
         PROVE  SystemKept'
    <2>1. jr'.old = rec.obj /\ rec.st = "stopped" /\ UNCHANGED <<rec, exists>>
      BY <1>1 DEF Reserve, Reservable
    <2> QED
      BY <2>1
  <1>2. ASSUME NEW c \in Commands, ReserveTorn(c)
         PROVE  SystemKept'
    <2>1. jr'.ph = "torn" /\ UNCHANGED <<rec, exists>>
      BY <1>2, FixedJournals DEF ReserveTorn
    <2> QED
      BY <2>1
  <1>3. ASSUME NEW c \in Commands, PrepareClone(c)
         PROVE  SystemKept'
    <2>1. exists \subseteq exists' /\ UNCHANGED <<rec, jr>>
      BY <1>3 DEF PrepareClone
    <2> QED
      BY <2>1
  <1>4. ASSUME NEW c \in Commands, PrepareCloned(c)
         PROVE  SystemKept'
    <2>1. /\ jr.ph \notin {"none", "torn"} /\ UNCHANGED <<rec, exists>>
          /\ jr'.old = jr.old /\ jr.ph # "retiring"
      BY <1>4, AdvanceJournal
         DEF PrepareCloned, Advance, TypeOK, RebuildPhases, CommandExact,
             HeldExact
    <2> QED
      BY <2>1
  <1>5. ASSUME NEW c \in Commands, CutoverBegin(c)
         PROVE  SystemKept'
    <2>1. /\ jr.ph \notin {"none", "torn"} /\ UNCHANGED <<rec, exists>>
          /\ jr'.old = jr.old /\ jr.ph # "retiring"
      BY <1>5, AdvanceJournal
         DEF CutoverBegin, Advance, TypeOK, RebuildPhases, CommandExact,
             HeldExact
    <2> QED
      BY <2>1
  <1>6. ASSUME NEW c \in Commands, CutoverRecord(c)
         PROVE  SystemKept'
    <2>1. rec'.obj = jr.cand /\ UNCHANGED <<jr, exists>>
      BY <1>6 DEF CutoverRecord, TypeOK, Record
    <2>2. jr.ph = "cutover" /\ jr.cand \in exists
      BY <1>6 DEF CutoverRecord, CommandExact, HeldExact, JournalExact
    <2> QED
      BY <2>1, <2>2
  <1>7. ASSUME NEW c \in Commands, ConfirmReady(c)
         PROVE  SystemKept'
    <2>1. /\ jr.ph \notin {"none", "torn"} /\ UNCHANGED <<rec, exists>>
          /\ jr'.old = jr.old /\ jr.ph # "retiring"
      BY <1>7, AdvanceJournal
         DEF ConfirmReady, Advance, TypeOK, RebuildPhases, CommandExact,
             HeldExact
    <2> QED
      BY <2>1
  <1>8. ASSUME NEW c \in Commands, RetireBegin(c)
         PROVE  SystemKept'
    <2>1. /\ jr.ph \notin {"none", "torn"} /\ UNCHANGED <<rec, exists>>
          /\ jr'.ph = "retiring"
      BY <1>8, AdvanceJournal
         DEF RetireBegin, Advance, TypeOK, RebuildPhases, CommandExact,
             HeldExact
    <2> QED
      BY <2>1
  <1>9. ASSUME NEW c \in Commands, RetireDelete(c)
         PROVE  SystemKept'
    <2>1. jr.ph = "retiring" /\ jn[c] = jr /\ rec.obj = jr.cand
      BY <1>9
         DEF RetireDelete, CommandExact, HeldExact, JournalExact,
             CandidateActive
    <2>2. jr.cand # jr.old
      BY <2>1, JournalFields DEF TypeOK
    <2> QED
      BY <1>9, <2>1, <2>2 DEF RetireDelete
  <1>10. ASSUME NEW c \in Commands, RetireClear(c)
          PROVE  SystemKept'
    <2>1. jr'.ph = "none" /\ UNCHANGED <<rec, exists>>
      BY <1>10, FixedJournals DEF RetireClear
    <2> QED
      BY <2>1
  <1>11. ASSUME NEW c \in Commands, StartReserve(c)
          PROVE  SystemKept'
    <2>1. /\ rec'.obj = rec.obj /\ UNCHANGED <<jr, exists>>
          /\ rec'.st \notin {"none", "deleting"} => rec.st \notin {"none", "deleting"}
      BY <1>11 DEF StartReserve, TypeOK, Record, CommandExact, HeldExact
    <2> QED
      BY <2>1
  <1>12. ASSUME NEW c \in Commands, StartAccept(c)
          PROVE  SystemKept'
    <2>1. /\ rec'.obj = rec.obj /\ UNCHANGED <<jr, exists>>
          /\ rec'.st \notin {"none", "deleting"} => rec.st \notin {"none", "deleting"}
      BY <1>12 DEF StartAccept, TypeOK, Record, CommandExact, HeldExact
    <2> QED
      BY <2>1
  <1>13. ASSUME NEW c \in Commands, StopBegin(c)
          PROVE  SystemKept'
    <2>1. /\ rec'.obj = rec.obj /\ UNCHANGED <<jr, exists>>
          /\ rec'.st \notin {"none", "deleting"} => rec.st \notin {"none", "deleting"}
      BY <1>13 DEF StopBegin, TypeOK, Record, CommandExact, HeldExact
    <2> QED
      BY <2>1
  <1>14. ASSUME NEW c \in Commands, StopFinish(c)
          PROVE  SystemKept'
    <2>1. /\ rec'.obj = rec.obj /\ UNCHANGED <<jr, exists>>
          /\ rec'.st \notin {"none", "deleting"} => rec.st \notin {"none", "deleting"}
      BY <1>14 DEF StopFinish, TypeOK, Record, CommandExact, HeldExact
    <2> QED
      BY <2>1
  <1>15. ASSUME NEW c \in Commands, DeleteBegin(c)
          PROVE  SystemKept'
    <2>1. /\ rec'.obj = rec.obj /\ UNCHANGED <<jr, exists>>
          /\ rec'.st \notin {"none", "deleting"} => rec.st \notin {"none", "deleting"}
      BY <1>15 DEF DeleteBegin, TypeOK, Record, CommandExact, HeldExact
    <2> QED
      BY <2>1
  <1>16. ASSUME NEW c \in Commands, DeleteErase(c)
          PROVE  SystemKept'
    <2>1. rec.st = "deleting" /\ jr.ph = "none" /\ UNCHANGED <<rec, jr>>
      BY <1>16, FixedJournals DEF DeleteErase, CommandExact, HeldExact
    <2> QED
      BY <2>1
  <1>17. ASSUME NEW c \in Commands, DeleteFinal(c)
          PROVE  SystemKept'
    <2>1. rec'.st = "none" /\ UNCHANGED <<jr, exists>>
      BY <1>17 DEF DeleteFinal, NoRec
    <2> QED
      BY <2>1
  <1>18. ASSUME NEW o \in Objects, NEW b \in Bases, Create(o, b)
          PROVE  SystemKept'
    <2>1. rec'.obj = o /\ exists' = exists \cup {o} /\ UNCHANGED jr
      BY <1>18 DEF Create
    <2> QED
      BY <2>1
  <1>19. CASE UNCHANGED <<rec, jr, exists>>
    BY <1>19
  <1> QED
    BY <1>1, <1>2, <1>3, <1>4, <1>5, <1>6, <1>7, <1>8, <1>9, <1>10, <1>11,
       <1>12, <1>13, <1>14, <1>15, <1>16, <1>17, <1>18, <1>19, ZenonT(60)
       DEF Next, RebuildStep, SessionStep, SupStep, ExecuteBegin,
           ExecutePrepared, PrepareBegin, ExecuteNoJournal, ExecuteResume,
           PrepareResume, PrepareAgain, CutoverDone, LoadCandidate,
           StartBegin, StartLoad, StartRunning, StartRelease, Abort, SupLoad,
           SupCheck, SupLaunch, SupBootstrap, SupTorn, MachineEnds, SupEnds,
           SupLost, Goto, Done, Forget, Prepared, Started, Advance, durable,
           runtime, command, vars

(* Uses and pin follow the record through the cutover.                     *)
LEMMA BindingsFollowStep ==
    RebuildInv /\ BindingsFollow /\ [Next]_vars => BindingsFollow'
  <1> SUFFICES ASSUME RebuildInv, BindingsFollow, [Next]_vars
               PROVE  BindingsFollow'
    OBVIOUS
  <1> USE DEF RebuildInv, BindingsFollow, Pending
  <1>1. ASSUME NEW c \in Commands, NEW o \in Objects, Reserve(c, o)
         PROVE  BindingsFollow'
    <2>1. jr'.ph = "reserved" /\ use = None /\ UNCHANGED use
      BY <1>1 DEF Reserve, Reservable
    <2> QED
      BY <2>1
  <1>2. ASSUME NEW c \in Commands, ReserveTorn(c)
         PROVE  BindingsFollow'
    <2>1. jr'.ph = "torn" /\ pin \in {None, rec.obj} /\ UNCHANGED <<rec, use, pin>>
      BY <1>2, FixedJournals DEF ReserveTorn, Reservable
    <2> QED
      BY <2>1
  <1>3. ASSUME NEW c \in Commands, PrepareCloned(c)
         PROVE  BindingsFollow'
    <2>1. /\ jr.ph \notin {"none", "torn"} /\ UNCHANGED <<rec, use, pin>>
          /\ jr'.ph = "cloned" /\ jr'.cand = jr.cand
      BY <1>3, AdvanceJournal
         DEF PrepareCloned, Advance, TypeOK, RebuildPhases, CommandExact,
             HeldExact
    <2> QED
      BY <2>1
  <1>4. ASSUME NEW c \in Commands, CutoverBegin(c)
         PROVE  BindingsFollow'
    <2>1. /\ jr.ph \notin {"none", "torn"} /\ UNCHANGED <<rec, use, pin>>
          /\ jr'.ph = "cutover" /\ jr'.cand = jr.cand
      BY <1>4, AdvanceJournal
         DEF CutoverBegin, Advance, TypeOK, RebuildPhases, CommandExact,
             HeldExact
    <2> QED
      BY <2>1
  <1>5. ASSUME NEW c \in Commands, CutoverRecord(c)
         PROVE  BindingsFollow'
    <2>1. jr.ph = "cutover" /\ use = None /\ UNCHANGED <<jr, use>>
      BY <1>5 DEF CutoverRecord, CommandExact, HeldExact, OldWaits
    <2> QED
      BY <2>1
  <1>6. ASSUME NEW c \in Commands, ConfirmReady(c)
         PROVE  BindingsFollow'
    <2>1. /\ jr.ph \notin {"none", "torn"} /\ UNCHANGED <<rec, use, pin>>
          /\ jr'.ph = "ready" /\ jr'.cand = jr.cand
      BY <1>6, AdvanceJournal
         DEF ConfirmReady, Advance, TypeOK, RebuildPhases, CommandExact,
             HeldExact
    <2>2. rec.obj = jr.cand /\ pin = jr.cand
      BY <1>6
         DEF ConfirmReady, CandidateReady, CandidateActive, Evidence,
             LaunchExact
    <2> QED
      BY <2>1, <2>2
  <1>7. ASSUME NEW c \in Commands, RetireBegin(c)
         PROVE  BindingsFollow'
    <2>1. /\ jr.ph \notin {"none", "torn"} /\ UNCHANGED <<rec, use, pin>>
          /\ jr'.ph = "retiring" /\ jr'.cand = jr.cand
      BY <1>7, AdvanceJournal
         DEF RetireBegin, Advance, TypeOK, RebuildPhases, CommandExact,
             HeldExact
    <2>2. jr.ph \in {"ready", "retiring"}
      BY <1>7 DEF RetireBegin
    <2> QED
      BY <2>1, <2>2
  <1>8. ASSUME NEW c \in Commands, RetireClear(c)
         PROVE  BindingsFollow'
    <2>1. jr'.ph = "none" /\ jr.ph = "retiring" /\ UNCHANGED <<rec, use, pin>>
      BY <1>8, FixedJournals DEF RetireClear, CommandExact, HeldExact
    <2> QED
      BY <2>1
  <1>9. ASSUME NEW c \in Commands, StartRelease(c)
         PROVE  BindingsFollow'
    <2>1. use' = None /\ UNCHANGED <<rec, jr, pin>>
      BY <1>9 DEF StartRelease
    <2> QED
      BY <2>1
  <1>10. ASSUME NEW c \in Commands, StartReserve(c)
          PROVE  BindingsFollow'
    <2>1. /\ rec'.obj = rec.obj /\ use' = rec.obj /\ UNCHANGED <<jr, pin>>
          /\ rec.st # "none"
      BY <1>10, FixedJournals
         DEF StartReserve, TypeOK, Record, CommandExact, HeldExact
    <2> QED
      BY <2>1
  <1>11. ASSUME NEW c \in Commands, StartAccept(c)
          PROVE  BindingsFollow'
    <2>1. /\ rec'.obj = rec.obj /\ use' = use /\ UNCHANGED <<jr, pin>>
          /\ rec.st # "none"
      BY <1>11, FixedJournals
         DEF StartAccept, TypeOK, Record, CommandExact, HeldExact
    <2> QED
      BY <2>1
  <1>12. ASSUME NEW c \in Commands, StopBegin(c)
          PROVE  BindingsFollow'
    <2>1. /\ rec'.obj = rec.obj /\ use' = use /\ UNCHANGED <<jr, pin>>
          /\ rec.st # "none"
      BY <1>12, FixedJournals
         DEF StopBegin, TypeOK, Record, CommandExact, HeldExact
    <2> QED
      BY <2>1
  <1>13. ASSUME NEW c \in Commands, StopFinish(c)
          PROVE  BindingsFollow'
    <2>1. /\ rec'.obj = rec.obj /\ use' = None /\ UNCHANGED <<jr, pin>>
          /\ rec.st # "none"
      BY <1>13, FixedJournals
         DEF StopFinish, TypeOK, Record, CommandExact, HeldExact
    <2> QED
      BY <2>1
  <1>14. ASSUME NEW c \in Commands, DeleteBegin(c)
          PROVE  BindingsFollow'
    <2>1. /\ rec'.obj = rec.obj /\ use' = use /\ UNCHANGED <<jr, pin>>
          /\ rec.st # "none"
      BY <1>14, FixedJournals
         DEF DeleteBegin, TypeOK, Record, CommandExact, HeldExact
    <2> QED
      BY <2>1
  <1>15. ASSUME NEW c \in Commands, DeleteFinal(c)
          PROVE  BindingsFollow'
    <2>1. /\ rec'.st = "none" /\ jr.ph = "none" /\ use = None
          /\ UNCHANGED <<jr, use, pin>>
      BY <1>15 DEF DeleteFinal, NoRec, RequireNoRebuild
    <2> QED
      BY <2>1
  <1>16. ASSUME NEW o \in Objects, NEW b \in Bases, Create(o, b)
          PROVE  BindingsFollow'
    <2>1. jr.ph = "none" /\ rec.st = "none" /\ pin' = None /\ UNCHANGED <<jr, use>>
      BY <1>16 DEF Create, RequireNoRebuild, NoRec
    <2>2. use = None
      BY <2>1 DEF RecordExact
    <2> QED
      BY <2>1, <2>2
  <1>17. CASE SupBootstrap
    <2>1. pin' = rec.obj /\ UNCHANGED <<rec, jr, use>>
      BY <1>17 DEF SupBootstrap, LaunchExact
    <2> QED
      BY <2>1
  <1>18. CASE UNCHANGED <<rec, jr, use, pin>>
    BY <1>18
  <1> QED
    BY <1>1, <1>2, <1>3, <1>4, <1>5, <1>6, <1>7, <1>8, <1>9, <1>10, <1>11,
       <1>12, <1>13, <1>14, <1>15, <1>16, <1>17, <1>18, ZenonT(60)
       DEF Next, RebuildStep, SessionStep, SupStep, ExecuteBegin,
           ExecutePrepared, PrepareBegin, ExecuteNoJournal, ExecuteResume,
           PrepareResume, PrepareClone, PrepareAgain, CutoverDone,
           LoadCandidate, RetireDelete, StartBegin, StartLoad, StartRunning,
           DeleteErase, Abort, SupLoad, SupCheck, SupLaunch, SupTorn,
           MachineEnds, SupEnds, SupLost, Goto, Done, Forget, Prepared,
           Started, Advance, durable, runtime, command, vars

(* A session that was just created satisfies the invariant.                *)
LEMMA InitHolds ==
    Init => RebuildInv /\ SystemKept /\ BindingsFollow
  <1> SUFFICES ASSUME Init
               PROVE  RebuildInv /\ SystemKept /\ BindingsFollow
    OBVIOUS
  <1>1. PICK o \in Objects, b \in Bases :
          /\ rec = [st |-> "stopped", obj |-> o, base |-> b]
          /\ exists = {o} /\ used = {o}
    BY DEF Init
  <1>2. rec \in Record /\ rec.st = "stopped" /\ rec.obj = o /\ rec.base = b
    BY <1>1 DEF Record, States
  <1>3. /\ jr = NoJournal /\ use = None /\ pin = None /\ torn = {} /\ up = {}
        /\ sup = NoSup /\ kept = NoJournal /\ \A c \in Commands : pc[c] = "idle"
    BY DEF Init
  <1>4. TypeOK
    <2>1. NoRec \in Record /\ NoRequest \in Request /\ NoSup \in Supervisor
      BY FixedJournals
         DEF NoRec, Record, States, NoRequest, Request, NoSup, Supervisor, SupPhases
    <2> QED
      BY <1>1, <1>2, <1>3, <2>1, FixedJournals DEF Init, TypeOK, PCs
  <1>5. NothingLeaked /\ ObjectsKnown
    BY <1>1, <1>2, <1>3, FixedJournals DEF NothingLeaked, ObjectsKnown
  <1>6. RecordExact /\ LaunchExact
    BY <1>2, <1>3 DEF RecordExact, LaunchExact, NoSup
  <1>7. JournalExact /\ OneHolder /\ CommandExact
    BY <1>3, FixedJournals
       DEF JournalExact, Pending, OneHolder, CommandExact, HeldExact, TransitionPCs
  <1>8. SystemKept /\ BindingsFollow
    BY <1>1, <1>2, <1>3, FixedJournals DEF SystemKept, BindingsFollow, Pending
  <1> QED
    BY <1>4, <1>5, <1>6, <1>7, <1>8 DEF RebuildInv

(* The invariants of the run hold together in every reachable state.       *)
LEMMA AllInvariant ==
    Spec => [](RebuildInv /\ SystemKept /\ BindingsFollow)
  <1>1. RebuildInv /\ SystemKept /\ BindingsFollow /\ [Next]_vars
          => (RebuildInv /\ SystemKept /\ BindingsFollow)'
    BY TypeStep, OneHolderStep, NothingLeakedStep, ObjectsKnownStep, RecordExactStep,
       LaunchExactStep, JournalExactStep, CommandExactStep, SystemKeptStep,
       BindingsFollowStep
       DEF RebuildInv
  <1> QED
    BY <1>1, InitHolds, PTL DEF Spec

(* Record, journal, objects, launch and the lock's holder agree in every   *)
(* reachable state, and no object is orphaned (rebuild.go, every phase).   *)
THEOREM RebuildInvariance == Spec => []RebuildInv
  BY AllInvariant, PTL

(* A session always has a system: the object its record names exists, and  *)
(* the old one until its deletion is intended (rebuild.go RetireOld).      *)
THEOREM SystemIsKept == Spec => []SystemKept
  BY AllInvariant, PTL

(* Uses and pin follow the cutover, and the candidate has proved its host  *)
(* key before the old system may go (rebuild.go, pin_rebuild.go).          *)
THEOREM BindingsAreFollowed == Spec => []BindingsFollow
  BY AllInvariant, PTL

(* From the reservation on the old system never runs again, and the        *)
(* candidate only as the active system (start.go, supervisor gates).       *)
THEOREM OldStaysStopped == Spec => []OldNeverRuns
  <1>1. RebuildInv => OldNeverRuns
    <2> SUFFICES ASSUME RebuildInv, Pending
                 PROVE  /\ jr.old \notin up
                        /\ jr.cand \in up => candidateRebuildPhase(jr) /\ rec.obj = jr.cand
      BY DEF OldNeverRuns
    <2> USE DEF RebuildInv
    <2>1. jr.cand # jr.old /\ jr.ph \in RebuildPhases
      BY JournalFields DEF TypeOK, Pending, RebuildJournal
    <2>2. CASE OldWaits
      <3>1. up = {}
        BY <2>2 DEF OldWaits, RecordExact, LaunchExact, NoSup
      <3> QED
        BY <3>1
    <2>3. CASE ~OldWaits
      <3>1. jr.ph \in {"cutover", "ready", "retiring"} /\ rec.obj = jr.cand
        BY <2>1, <2>3 DEF JournalExact, RebuildPhases, CandidateActive
      <3>2. up \subseteq {rec.obj}
        BY DEF LaunchExact
      <3> QED
        BY <2>1, <3>1, <3>2 DEF candidateRebuildPhase
    <2> QED
      BY <2>2, <2>3
  <1> QED
    BY <1>1, RebuildInvariance, PTL

(* A command that was given a kept witness advances no other replacement   *)
(* (rebuild.go ExecutePrepared, requirePrepared).                          *)
THEOREM OnlyThePrepared == Spec => PreparedExact
  <1> DEFINE Exact(c) == want[c].wit # None /\ pc'[c] # pc[c] /\ jr' # jr
                            => jr.cand = want[c].wit
  <1>1. RebuildInv /\ [Next]_vars => [\A c \in Commands : Exact(c)]_vars
    <2> SUFFICES ASSUME RebuildInv, [Next]_vars, NEW d \in Commands
                 PROVE  Exact(d)
      OBVIOUS
    <2> USE DEF RebuildInv
    <2>1. ASSUME NEW c \in Commands, NEW o \in Objects, Reserve(c, o)
          PROVE  Exact(d)
      <3>1. d # c => pc'[d] = pc[d]
        BY <2>1 DEF Reserve, Goto, Reservable, TypeOK
      <3>2. want[c].wit = None \/ jr.cand = want[c].wit
        BY <2>1
           DEF Reserve, requirePrepared, CommandExact, HeldExact, Reservable,
               CandidateReady
      <3> QED
        BY <3>1, <3>2
    <2>2. ASSUME NEW c \in Commands, ReserveTorn(c)
          PROVE  Exact(d)
      <3>1. d # c => pc'[d] = pc[d]
        BY <2>2 DEF ReserveTorn, Done, Forget, Goto, Reservable, TypeOK
      <3>2. want[c].wit = None \/ jr.cand = want[c].wit
        BY <2>2
           DEF ReserveTorn, requirePrepared, CommandExact, HeldExact,
               Reservable, CandidateReady
      <3> QED
        BY <3>1, <3>2
    <2>3. ASSUME NEW c \in Commands, PrepareCloned(c)
          PROVE  Exact(d)
      <3>1. d # c => pc'[d] = pc[d]
        BY <2>3
           DEF PrepareCloned, Prepared, Advance, Done, Forget, Goto, TypeOK
      <3>2. want[c].wit = None \/ jr.cand = want[c].wit
        BY <2>3
           DEF PrepareCloned, requirePrepared, CommandExact, HeldExact,
               Reservable, CandidateReady
      <3> QED
        BY <3>1, <3>2
    <2>4. ASSUME NEW c \in Commands, CutoverBegin(c)
          PROVE  Exact(d)
      <3>1. d # c => pc'[d] = pc[d]
        BY <2>4 DEF CutoverBegin, Advance, Goto, TypeOK
      <3>2. want[c].wit = None \/ jr.cand = want[c].wit
        BY <2>4
           DEF CutoverBegin, requirePrepared, CommandExact, HeldExact,
               Reservable, CandidateReady
      <3> QED
        BY <3>1, <3>2
    <2>5. ASSUME NEW c \in Commands, ConfirmReady(c)
          PROVE  Exact(d)
      <3>1. d # c => pc'[d] = pc[d]
        BY <2>5
           DEF ConfirmReady, CandidateReady, Advance, Goto, Forget, TypeOK
      <3>2. want[c].wit = None \/ jr.cand = want[c].wit
        BY <2>5
           DEF ConfirmReady, requirePrepared, CommandExact, HeldExact,
               Reservable, CandidateReady
      <3> QED
        BY <3>1, <3>2
    <2>6. ASSUME NEW c \in Commands, RetireBegin(c)
          PROVE  Exact(d)
      <3>1. d # c => pc'[d] = pc[d]
        BY <2>6 DEF RetireBegin, CandidateReady, Advance, Goto, TypeOK
      <3>2. want[c].wit = None \/ jr.cand = want[c].wit
        BY <2>6
           DEF RetireBegin, requirePrepared, CommandExact, HeldExact,
               Reservable, CandidateReady
      <3> QED
        BY <3>1, <3>2
    <2>7. ASSUME NEW c \in Commands, RetireClear(c)
          PROVE  Exact(d)
      <3>1. d # c => pc'[d] = pc[d]
        BY <2>7 DEF RetireClear, Done, Forget, Goto, TypeOK
      <3>2. want[c].wit = None \/ jr.cand = want[c].wit
        BY <2>7
           DEF RetireClear, requirePrepared, CommandExact, HeldExact,
               Reservable, CandidateReady
      <3> QED
        BY <3>1, <3>2
    <2>8. CASE UNCHANGED jr
      BY <2>8
    <2> QED
      BY <2>1, <2>2, <2>3, <2>4, <2>5, <2>6, <2>7, <2>8, ZenonT(60)
         DEF Next, RebuildStep, SessionStep, SupStep, ExecuteBegin,
             ExecutePrepared, PrepareBegin, ExecuteNoJournal, ExecuteResume,
             PrepareResume, PrepareClone, PrepareAgain, CutoverRecord,
             CutoverDone, LoadCandidate, RetireDelete, StartBegin, StartLoad,
             StartRunning, StartRelease, StartReserve, StartAccept,
             StopBegin, StopFinish, DeleteBegin, DeleteErase, DeleteFinal,
             Abort, Create, SupLoad, SupCheck, SupLaunch, SupBootstrap,
             SupTorn, MachineEnds, SupEnds, SupLost, Goto, Done, Forget,
             Prepared, Started, Advance, durable, runtime, command, vars
  <1> QED
    BY <1>1, RebuildInvariance, PTL DEF Spec, PreparedExact

=============================================================================
