------------------------- MODULE NamedProjectProofs -------------------------
(***************************************************************************)
(* What NamedProject promises holds for any number of objects, bases,      *)
(* setups and faults: however often project commands are killed, syncs     *)
(* fail and the power is lost, and whatever the operator does to the       *)
(* session meanwhile.                                                      *)
(*                                                                         *)
(* ProjectInv is inductive.  ReplacementFound alone is not: a power loss   *)
(* may combine the bookmark of one moment with the intent of another, so   *)
(* PromiseKept speaks of every combination of what is seen and what is     *)
(* durable; and it counts a candidate as in use from its reservation on,   *)
(* since the operator may complete the cutover behind the project's back.  *)
(* Clearing an intent is safe because no other promised candidate can come *)
(* into use while its replacement is completed (CommandExact): identities  *)
(* are fresh (SessionExact), so that the session only moves away.          *)
(***************************************************************************)
EXTENDS NamedProject, TLAPS

(* What ties files, session and command together; ReplacementFound follows *)
(* from it.                                                                *)
Facts == TypeOK /\ SessionExact /\ FilesExact /\ PromiseKept /\ CommandExact

(* The ways in which a step changes the session's record and journal.      *)
SetState ==
    /\ sess.st # "none"
    /\ \E st \in {"stopped", "starting", "running"} : sess' = [sess EXCEPT !.st = st]
    /\ UNCHANGED <<jr, used>>

Delete ==
    /\ sess' = NoSession /\ jr.ph = "none"
    /\ UNCHANGED <<jr, used>>

Create ==
    /\ sess = NoSession
    /\ \E o \in Objects \ used, b \in Base :
        /\ used' = used \cup {o}
        /\ sess' = [st |-> "stopped", id |-> o, obj |-> o, base |-> b]
    /\ UNCHANGED jr

SessionMove ==
    \/ UNCHANGED <<sess, jr, used>>
    \/ SetState \/ Delete \/ Create
    \/ \E o \in Objects, b \in Base : Reserve(o, b)
    \/ Clone \/ Cutover \/ RetireOld

(* The fixed records are records.                                          *)
LEMMA FixedRecords ==
    /\ NoProject \in Bookmark /\ NoIntent \in Replacement
    /\ NoSession \in Session /\ NoJournal \in Journal
  BY DEF NoProject, NoIntent, NoSession, NoJournal, Bookmark, Replacement,
         Session, Journal, Object, Base

(* Every step moves the session in one of these ways.                      *)
LEMMA SessionMoves ==
    TypeOK /\ SessionExact /\ [Next]_vars => SessionMove
  <1> SUFFICES ASSUME TypeOK, SessionExact, [Next]_vars
               PROVE  SessionMove
    OBVIOUS
  <1>1. ASSUME NEW o \in Objects, CreateFresh(o)
         PROVE  SessionMove
    <2>1. rec.base \in Base
      BY DEF TypeOK, Bookmark
    <2> QED
      BY <1>1, <2>1 DEF CreateFresh, Create, SessionMove
  <1>2. CASE SessionStart
    BY <1>2 DEF SessionStart, Startable, SetState, SessionMove
  <1>3. CASE StopProject
    BY <1>3
       DEF StopProject, Loaded, boundProject, boundProjectSession, SetState,
           SessionMove, SessionExact, locals, counts, files
  <1>4. ASSUME NEW o \in Objects, PrepareCandidate(o)
         PROVE  SessionMove
    <2>1. want \in Base
      BY DEF TypeOK
    <2> QED
      BY <1>4, <2>1 DEF PrepareCandidate, SessionMove
  <1>5. CASE PrepareClone
    BY <1>5 DEF PrepareClone, SessionMove, session
  <1>6. CASE DriveCandidate
    <2>1. StartCandidate => SetState
      BY DEF StartCandidate, SetState, SessionExact
    <2> QED
      BY <1>6, <2>1 DEF DriveCandidate, SessionMove
  <1>7. CASE DriveRetire
    BY <1>7 DEF DriveRetire, SessionMove
  <1>8. CASE Operator
    <2>1. CASE OperatorSession
      BY <2>1
         DEF OperatorSession, Startable, RequireNoRebuild, SetState, Delete,
             Create, SessionMove, Base
    <2>2. CASE OperatorRebuild
      <3>1. StartCandidate => SetState
        BY DEF StartCandidate, SetState, SessionExact
      <3> QED
        BY <2>2, <3>1 DEF OperatorRebuild, SessionMove, Base
    <2>3. CASE OperatorWorkspace
      BY <2>3 DEF OperatorWorkspace, SessionMove
    <2> QED
      BY <1>8, <2>1, <2>2, <2>3 DEF Operator
  <1>9. CASE UNCHANGED <<sess, jr, used>>
    BY <1>9 DEF SessionMove
  <1> QED
    BY <1>1, <1>2, <1>3, <1>4, <1>5, <1>6, <1>7, <1>8, <1>9, ZenonT(60)
       DEF Next, CreateStep, UseStep, ReplaceStep, createProject,
           SaveReceipt, InitializeWorkspace, InitializeAttach,
           InitializeSave, OpenProject, ImportBegin, ImportRetry,
           ImportTransfer, rebuildProject, RetryJournal, RetryIntent,
           ObserveStopped, BeginReplacement, projectReplacementWorkspace,
           DriveSettled, CheckCompleted, settleCompletedReplacement,
           CompleteHistory, CompleteBookmark, CompleteUnlink, Replaced,
           SaveSetup, syncProjectDirectory, SyncFails, CommandEnds,
           PowerLoss, vars, files, session, counts, locals

(* The types of what a session move writes.                                *)
LEMMA SessionTyped ==
    ASSUME TypeOK, SessionMove
    PROVE  sess' \in Session /\ jr' \in Journal /\ used' \subseteq Objects
  <1> USE DEF TypeOK
  <1>1. CASE UNCHANGED <<sess, jr, used>>
    BY <1>1
  <1>2. CASE SetState
    BY <1>2 DEF SetState, Session
  <1>3. CASE Delete
    BY <1>3, FixedRecords DEF Delete
  <1>4. CASE Create
    BY <1>4 DEF Create, Session, Object
  <1>5. ASSUME NEW o \in Objects, NEW b \in Base, Reserve(o, b)
        PROVE  sess' \in Session /\ jr' \in Journal /\ used' \subseteq Objects
    BY <1>5 DEF Reserve, Session, Journal, Object
  <1>6. CASE Clone
    BY <1>6 DEF Clone, Journal
  <1>7. CASE Cutover
    BY <1>7 DEF Cutover, Journal, Session
  <1>8. CASE RetireOld
    BY <1>8, FixedRecords DEF RetireOld
  <1> QED
    BY <1>1, <1>2, <1>3, <1>4, <1>5, <1>6, <1>7, <1>8 DEF SessionMove

(* SessionExact is kept by every session move.                             *)
LEMMA SessionExactStep ==
    ASSUME TypeOK, SessionExact, SessionMove
    PROVE  SessionExact'
  <1> USE ProjectAssumption DEF TypeOK, SessionExact
  <1>1. CASE UNCHANGED <<sess, jr, used>>
    BY <1>1
  <1>2. CASE SetState
    BY <1>2 DEF SetState, Session
  <1>3. CASE Delete
    BY <1>3 DEF Delete, NoSession
  <1>4. CASE Create
    BY <1>4 DEF Create, NoSession
  <1>5. ASSUME NEW o \in Objects, NEW b \in Base, Reserve(o, b)
        PROVE  SessionExact'
    BY <1>5 DEF Reserve
  <1>6. CASE Clone
    BY <1>6 DEF Clone, Journal, Preparable
  <1>7. CASE Cutover
    BY <1>7 DEF Cutover, Journal, Session, Preparable
  <1>8. CASE RetireOld
    BY <1>8 DEF RetireOld, NoJournal
  <1> QED
    BY <1>1, <1>2, <1>3, <1>4, <1>5, <1>6, <1>7, <1>8 DEF SessionMove

(* A candidate whose identities were drawn does not come into use, or on   *)
(* its way, by a later move: fresh ones take its place.                    *)
LEMMA UseOnlyEnds ==
    ASSUME TypeOK, SessionExact, SessionMove, NEW i,
           i.before.id \in used, i.cand \in used
    PROVE  /\ InUse(i)' => InUse(i)
           /\ OnItsWay(i)' => OnItsWay(i)
           /\ i.before.id \in used' /\ i.cand \in used'
           /\ InUse(i)' => sess'.id = sess.id
  <1> USE ProjectAssumption DEF TypeOK, SessionExact, InUse, OnItsWay
  <1>0. i.before.id # None
    OBVIOUS
  <1>1. CASE UNCHANGED <<sess, jr, used>>
    BY <1>1
  <1>2. CASE SetState
    BY <1>2 DEF SetState, Session
  <1>3. CASE Delete
    BY <1>0, <1>3 DEF Delete, NoSession
  <1>4. CASE Create
    BY <1>0, <1>4 DEF Create, NoSession
  <1>5. ASSUME NEW o \in Objects, NEW b \in Base, Reserve(o, b)
        PROVE  /\ InUse(i)' => InUse(i)
               /\ OnItsWay(i)' => OnItsWay(i)
               /\ i.before.id \in used' /\ i.cand \in used'
               /\ InUse(i)' => sess'.id = sess.id
    BY <1>5 DEF Reserve
  <1>6. CASE Clone
    BY <1>6 DEF Clone, Journal
  <1>7. CASE Cutover
    BY <1>7 DEF Cutover, Journal, Session
  <1>8. CASE RetireOld
    BY <1>8 DEF RetireOld, NoJournal
  <1> QED
    BY <1>1, <1>2, <1>3, <1>4, <1>5, <1>6, <1>7, <1>8 DEF SessionMove

(* A bookmark, an intent, a history or a profile replaced in a directory.  *)
LEMMA DirectoryTyped ==
    ASSUME NEW d \in Directory
    PROVE  /\ \A b \in Bookmark : [d EXCEPT !.bm = b] \in Directory
           /\ \A i \in Replacement : [d EXCEPT !.pend = i] \in Directory
           /\ \A i \in Replacement : [d EXCEPT !.hist = @ \cup {i}] \in Directory
           /\ [d EXCEPT !.setup = TRUE] \in Directory
           /\ d.bm \in Bookmark /\ d.pend \in Replacement
           /\ d.hist \subseteq Replacement
  BY DEF Directory

(* A power loss combines the files of two directories.                     *)
LEMMA PowerLossFiles ==
    ASSUME TypeOK, PowerLoss
    PROVE  /\ mem' \in Directory /\ dur' = mem'
           /\ mem'.bm \in {mem.bm, dur.bm}
           /\ mem'.pend \in {mem.pend, dur.pend}
           /\ mem'.hist \in {mem.hist, dur.hist}
  <1>1. PICK kept \in SUBSET DOMAIN mem :
            mem' = [f \in DOMAIN mem |-> IF f \in kept THEN mem[f] ELSE dur[f]]
    BY DEF PowerLoss
  <1>2. DOMAIN mem = {"bm", "pend", "hist", "setup"}
    BY DEF TypeOK, Directory
  <1>3. /\ mem'["bm"] = IF "bm" \in kept THEN mem["bm"] ELSE dur["bm"]
        /\ mem'["pend"] = IF "pend" \in kept THEN mem["pend"] ELSE dur["pend"]
        /\ mem'["hist"] = IF "hist" \in kept THEN mem["hist"] ELSE dur["hist"]
        /\ mem'["setup"] = IF "setup" \in kept THEN mem["setup"] ELSE dur["setup"]
    BY <1>1, <1>2
  <1>4. mem' = [bm |-> mem'["bm"], pend |-> mem'["pend"], hist |-> mem'["hist"],
                setup |-> mem'["setup"]]
    BY <1>1, <1>2
  <1> QED
    BY <1>3, <1>4 DEF TypeOK, Directory, PowerLoss

(* What a replacement makes of a bookmark.                                 *)
LEMMA NextBookmark ==
    ASSUME NEW i \in Replacement
    PROVE  /\ Next_(i) \in Bookmark /\ i.before \in Bookmark
           /\ Next_(i).id = i.before.id /\ Next_(i).init = i.before.init
           /\ Next_(i).imp = i.before.imp
           /\ Next_(i).obj = i.cand /\ Next_(i).base = i.base
  BY DEF Next_, Replacement, Bookmark

(* Every file of the directory keeps its type.                             *)
LEMMA FilesTyped ==
    TypeOK /\ [Next]_vars => mem' \in Directory /\ dur' \in Directory
  <1> SUFFICES ASSUME TypeOK, [Next]_vars
               PROVE  mem' \in Directory /\ dur' \in Directory
    OBVIOUS
  <1> USE DEF TypeOK
  <1>1. ASSUME NEW b \in Bases, createProject(b)
         PROVE  mem' \in Directory /\ dur' \in Directory
    <2>1. rec' \in Bookmark
      BY <1>1 DEF createProject, NoProject, Bookmark, Object, Base
    <2> QED
      BY <1>1, <2>1, DirectoryTyped DEF createProject, publish
  <1>2. CASE SaveReceipt
    BY <1>2, DirectoryTyped DEF SaveReceipt, Save, publish
  <1>3. CASE InitializeSave
    <2>1. rec' \in Bookmark
      BY <1>3, DirectoryTyped DEF InitializeSave, Bookmark
    <2> QED
      BY <1>3, <2>1, DirectoryTyped DEF InitializeSave, Save, publish
  <1>4. CASE ImportBegin
    <2>1. rec' \in Bookmark
      BY <1>4, DirectoryTyped DEF ImportBegin, Bookmark
    <2> QED
      BY <1>4, <2>1, DirectoryTyped DEF ImportBegin, Save, publish
  <1>5. CASE ImportTransfer
    <2>1. rec' \in Bookmark
      BY <1>5, DirectoryTyped DEF ImportTransfer, Bookmark
    <2> QED
      BY <1>5, <2>1, DirectoryTyped DEF ImportTransfer, Save, publish
  <1>6. CASE BeginReplacement
    <2>1. intent' \in Replacement
      BY <1>6 DEF BeginReplacement, Replacement, Journal
    <2> QED
      BY <1>6, <2>1, DirectoryTyped DEF BeginReplacement, publish
  <1>7. CASE settleCompletedReplacement
    BY <1>7 DEF settleCompletedReplacement, publish
  <1>8. CASE CompleteHistory
    BY <1>8, DirectoryTyped DEF CompleteHistory, publish
  <1>9. CASE CompleteBookmark
    BY <1>9, DirectoryTyped, NextBookmark DEF CompleteBookmark, publish
  <1>10. CASE CompleteUnlink
    BY <1>10, DirectoryTyped, FixedRecords DEF CompleteUnlink, publish
  <1>11. CASE SaveSetup
    BY <1>11, DirectoryTyped DEF SaveSetup, publish
  <1>12. ASSUME NEW s \in Scopes, syncProjectDirectory(s)
          PROVE  mem' \in Directory /\ dur' \in Directory
    BY <1>12 DEF syncProjectDirectory
  <1>13. CASE PowerLoss
    BY <1>13, PowerLossFiles
  <1>14. CASE UNCHANGED files
    BY <1>14 DEF files
  <1> QED
    BY <1>1, <1>2, <1>3, <1>4, <1>5, <1>6, <1>7, <1>8, <1>9, <1>10, <1>11,
       <1>12, <1>13, <1>14, ZenonT(60)
       DEF Next, CreateStep, UseStep, ReplaceStep, CreateFresh,
           InitializeWorkspace, InitializeAttach, OpenProject, SessionStart,
           StopProject, ImportRetry, rebuildProject, RetryJournal,
           RetryIntent, ObserveStopped, PrepareCandidate, PrepareClone,
           projectReplacementWorkspace, DriveCandidate, DriveRetire,
           DriveSettled, CheckCompleted, Replaced, SyncFails, CommandEnds,
           Operator, vars, session, counts, locals

(* Types of what a command keeps to itself.                                *)
CommandTyped ==
    /\ pc \in [Scopes -> PCs] /\ after \in [Scopes -> PCs]
    /\ want \in Base /\ rec \in Bookmark
    /\ intent \in Replacement /\ jn \in Journal

(* A command that ends forgets what it kept.                               *)
LEMMA EndTyped ==
    ASSUME TypeOK, NEW s \in Scopes, Goto(s, "idle"), Forget(s)
    PROVE  CommandTyped'
  BY FixedRecords DEF TypeOK, Scopes, PCs, Goto, Forget, CommandTyped, Base

(* What a command keeps to itself is typed after every step.               *)
LEMMA CommandTypedStep ==
    TypeOK /\ SessionExact /\ [Next]_vars => CommandTyped'
  <1> SUFFICES ASSUME TypeOK, SessionExact, [Next]_vars
               PROVE  CommandTyped'
    OBVIOUS
  <1>1. ASSUME NEW b \in Bases, createProject(b)
         PROVE  CommandTyped'
    <2>1. want' \in Base /\ rec' \in Bookmark /\ intent' \in Replacement /\ jn' \in Journal
      BY <1>1, DirectoryTyped
         DEF createProject, TypeOK, NoProject, Bookmark, Object, Base
    <2>2. pc' \in [Scopes -> PCs] /\ after' \in [Scopes -> PCs]
      BY <1>1 DEF createProject, publish, Goto, TypeOK, Scopes, PCs
    <2> QED
      BY <2>1, <2>2 DEF CommandTyped
  <1>2. ASSUME NEW o \in Objects, CreateFresh(o)
         PROVE  CommandTyped'
    <2>1. want' \in Base /\ rec' \in Bookmark /\ intent' \in Replacement /\ jn' \in Journal
      BY <1>2, DirectoryTyped DEF CreateFresh, TypeOK, Bookmark, Object
    <2>2. pc' \in [Scopes -> PCs] /\ after' \in [Scopes -> PCs]
      BY <1>2 DEF CreateFresh, Step, Goto, TypeOK, Scopes, PCs
    <2> QED
      BY <2>1, <2>2 DEF CommandTyped
  <1>3. CASE SaveReceipt
    <2>1. want' \in Base /\ rec' \in Bookmark /\ intent' \in Replacement /\ jn' \in Journal
      BY <1>3, DirectoryTyped DEF SaveReceipt, TypeOK
    <2>2. pc' \in [Scopes -> PCs] /\ after' \in [Scopes -> PCs]
      BY <1>3 DEF SaveReceipt, Save, publish, Goto, TypeOK, Scopes, PCs
    <2> QED
      BY <2>1, <2>2 DEF CommandTyped
  <1>4. CASE InitializeWorkspace
    <2>1. CASE Step("attach") /\ UNCHANGED <<want, rec, intent, jn>>
      BY <2>1 DEF Step, Goto, CommandTyped, TypeOK, Scopes, PCs
    <2>2. CASE Goto("project", "idle") /\ Forget("project")
      BY <2>2, EndTyped DEF Scopes
    <2> QED
      BY <1>4, <2>1, <2>2 DEF InitializeWorkspace
  <1>5. CASE InitializeAttach
    <2>1. want' \in Base /\ rec' \in Bookmark /\ intent' \in Replacement /\ jn' \in Journal
      BY <1>5, DirectoryTyped DEF InitializeAttach, TypeOK
    <2>2. pc' \in [Scopes -> PCs] /\ after' \in [Scopes -> PCs]
      BY <1>5 DEF InitializeAttach, Step, Goto, TypeOK, Scopes, PCs
    <2> QED
      BY <2>1, <2>2 DEF CommandTyped
  <1>6. CASE InitializeSave
    <2>1. want' \in Base /\ rec' \in Bookmark /\ intent' \in Replacement /\ jn' \in Journal
      BY <1>6, DirectoryTyped DEF InitializeSave, TypeOK, Bookmark
    <2>2. pc' \in [Scopes -> PCs] /\ after' \in [Scopes -> PCs]
      BY <1>6 DEF InitializeSave, Save, publish, Goto, TypeOK, Scopes, PCs
    <2> QED
      BY <2>1, <2>2 DEF CommandTyped
  <1>7. CASE OpenProject
    <2>1. want' \in Base /\ rec' \in Bookmark /\ intent' \in Replacement /\ jn' \in Journal
      BY <1>7, DirectoryTyped DEF OpenProject, TypeOK
    <2>2. pc' \in [Scopes -> PCs] /\ after' \in [Scopes -> PCs]
      BY <1>7 DEF OpenProject, Step, Goto, TypeOK, Scopes, PCs
    <2> QED
      BY <2>1, <2>2 DEF CommandTyped
  <1>8. CASE SessionStart
    BY <1>8, EndTyped DEF SessionStart, Scopes
  <1>9. CASE StopProject
    BY <1>9 DEF StopProject, locals, CommandTyped, TypeOK
  <1>10. CASE ImportBegin
    <2>1. want' \in Base /\ rec' \in Bookmark /\ intent' \in Replacement /\ jn' \in Journal
      BY <1>10, DirectoryTyped DEF ImportBegin, TypeOK, Bookmark
    <2>2. pc' \in [Scopes -> PCs] /\ after' \in [Scopes -> PCs]
      BY <1>10 DEF ImportBegin, Save, publish, Goto, TypeOK, Scopes, PCs
    <2> QED
      BY <2>1, <2>2 DEF CommandTyped
  <1>11. CASE ImportRetry
    <2>1. want' \in Base /\ rec' \in Bookmark /\ intent' \in Replacement /\ jn' \in Journal
      BY <1>11, DirectoryTyped DEF ImportRetry, TypeOK
    <2>2. pc' \in [Scopes -> PCs] /\ after' \in [Scopes -> PCs]
      BY <1>11 DEF ImportRetry, Step, Goto, TypeOK, Scopes, PCs
    <2> QED
      BY <2>1, <2>2 DEF CommandTyped
  <1>12. CASE ImportTransfer
    <2>1. want' \in Base /\ rec' \in Bookmark /\ intent' \in Replacement /\ jn' \in Journal
      BY <1>12, DirectoryTyped DEF ImportTransfer, TypeOK, Bookmark
    <2>2. pc' \in [Scopes -> PCs] /\ after' \in [Scopes -> PCs]
      BY <1>12 DEF ImportTransfer, Save, publish, Goto, TypeOK, Scopes, PCs
    <2> QED
      BY <2>1, <2>2 DEF CommandTyped
  <1>13. ASSUME NEW b \in Bases, rebuildProject(b)
          PROVE  CommandTyped'
    <2>1. want' \in Base /\ rec' \in Bookmark /\ intent' \in Replacement /\ jn' \in Journal
      BY <1>13, DirectoryTyped DEF rebuildProject, TypeOK, Base
    <2>2. pc' \in [Scopes -> PCs] /\ after' \in [Scopes -> PCs]
      BY <1>13 DEF rebuildProject, Step, Goto, TypeOK, Scopes, PCs
    <2> QED
      BY <2>1, <2>2 DEF CommandTyped
  <1>14. CASE RetryJournal
    <2>1. want' \in Base /\ rec' \in Bookmark /\ intent' \in Replacement /\ jn' \in Journal
      BY <1>14, DirectoryTyped DEF RetryJournal, TypeOK, Journal
    <2>2. pc' \in [Scopes -> PCs] /\ after' \in [Scopes -> PCs]
      BY <1>14 DEF RetryJournal, Step, Goto, TypeOK, Scopes, PCs
    <2> QED
      BY <2>1, <2>2 DEF CommandTyped
  <1>15. CASE RetryIntent
    <2>1. want' \in Base /\ rec' \in Bookmark /\ intent' \in Replacement /\ jn' \in Journal
      BY <1>15, DirectoryTyped
         DEF RetryIntent, TypeOK, LoadCompletedReplacement
    <2>2. pc' \in [Scopes -> PCs] /\ after' \in [Scopes -> PCs]
      BY <1>15 DEF RetryIntent, Step, Goto, TypeOK, Scopes, PCs
    <2> QED
      BY <2>1, <2>2 DEF CommandTyped
  <1>16. CASE ObserveStopped
    <2>1. want' \in Base /\ rec' \in Bookmark /\ intent' \in Replacement /\ jn' \in Journal
      BY <1>16, DirectoryTyped DEF ObserveStopped, TypeOK
    <2>2. pc' \in [Scopes -> PCs] /\ after' \in [Scopes -> PCs]
      BY <1>16 DEF ObserveStopped, Step, Goto, TypeOK, Scopes, PCs
    <2> QED
      BY <2>1, <2>2 DEF CommandTyped
  <1>17. ASSUME NEW o \in Objects, PrepareCandidate(o)
          PROVE  CommandTyped'
    BY <1>17 DEF PrepareCandidate, locals, CommandTyped, TypeOK
  <1>18. CASE PrepareClone
    <2>1. want' \in Base /\ rec' \in Bookmark /\ intent' \in Replacement /\ jn' \in Journal
      BY <1>18, SessionMoves, SessionTyped DEF PrepareClone, TypeOK
    <2>2. pc' \in [Scopes -> PCs] /\ after' \in [Scopes -> PCs]
      BY <1>18 DEF PrepareClone, Step, Goto, TypeOK, Scopes, PCs
    <2> QED
      BY <2>1, <2>2 DEF CommandTyped
  <1>19. CASE BeginReplacement
    <2>1. want' \in Base /\ rec' \in Bookmark /\ intent' \in Replacement /\ jn' \in Journal
      BY <1>19 DEF BeginReplacement, TypeOK, Replacement, Journal
    <2>2. pc' \in [Scopes -> PCs] /\ after' \in [Scopes -> PCs]
      BY <1>19 DEF BeginReplacement, publish, Goto, TypeOK, Scopes, PCs
    <2> QED
      BY <2>1, <2>2 DEF CommandTyped
  <1>20. CASE projectReplacementWorkspace
    <2>1. want' \in Base /\ rec' \in Bookmark /\ intent' \in Replacement /\ jn' \in Journal
      BY <1>20, DirectoryTyped DEF projectReplacementWorkspace, TypeOK
    <2>2. pc' \in [Scopes -> PCs] /\ after' \in [Scopes -> PCs]
      BY <1>20
         DEF projectReplacementWorkspace, Step, Goto, TypeOK, Scopes, PCs
    <2> QED
      BY <2>1, <2>2 DEF CommandTyped
  <1>21. CASE DriveCandidate
    BY <1>21 DEF DriveCandidate, locals, CommandTyped, TypeOK
  <1>22. CASE DriveRetire
    <2>1. want' \in Base /\ rec' \in Bookmark /\ intent' \in Replacement /\ jn' \in Journal
      BY <1>22, DirectoryTyped DEF DriveRetire, TypeOK
    <2>2. pc' \in [Scopes -> PCs] /\ after' \in [Scopes -> PCs]
      BY <1>22 DEF DriveRetire, Step, Goto, TypeOK, Scopes, PCs
    <2> QED
      BY <2>1, <2>2 DEF CommandTyped
  <1>23. CASE DriveSettled
    <2>1. want' \in Base /\ rec' \in Bookmark /\ intent' \in Replacement /\ jn' \in Journal
      BY <1>23, DirectoryTyped DEF DriveSettled, TypeOK
    <2>2. pc' \in [Scopes -> PCs] /\ after' \in [Scopes -> PCs]
      BY <1>23 DEF DriveSettled, Step, Goto, TypeOK, Scopes, PCs
    <2> QED
      BY <2>1, <2>2 DEF CommandTyped
  <1>24. CASE CheckCompleted
    <2>1. want' \in Base /\ rec' \in Bookmark /\ intent' \in Replacement /\ jn' \in Journal
      BY <1>24, DirectoryTyped DEF CheckCompleted, TypeOK
    <2>2. pc' \in [Scopes -> PCs] /\ after' \in [Scopes -> PCs]
      BY <1>24 DEF CheckCompleted, Step, Goto, TypeOK, Scopes, PCs
    <2> QED
      BY <2>1, <2>2 DEF CommandTyped
  <1>25. CASE settleCompletedReplacement
    <2>1. want' \in Base /\ rec' \in Bookmark /\ intent' \in Replacement /\ jn' \in Journal
      BY <1>25, DirectoryTyped DEF settleCompletedReplacement, TypeOK
    <2>2. pc' \in [Scopes -> PCs] /\ after' \in [Scopes -> PCs]
      BY <1>25
         DEF settleCompletedReplacement, publish, Goto, TypeOK, Scopes, PCs
    <2> QED
      BY <2>1, <2>2 DEF CommandTyped
  <1>26. CASE CompleteHistory
    <2>1. want' \in Base /\ rec' \in Bookmark /\ intent' \in Replacement /\ jn' \in Journal
      BY <1>26, DirectoryTyped DEF CompleteHistory, TypeOK
    <2>2. pc' \in [Scopes -> PCs] /\ after' \in [Scopes -> PCs]
      BY <1>26 DEF CompleteHistory, publish, Goto, TypeOK, Scopes, PCs
    <2> QED
      BY <2>1, <2>2 DEF CommandTyped
  <1>27. CASE CompleteBookmark
    <2>1. want' \in Base /\ rec' \in Bookmark /\ intent' \in Replacement /\ jn' \in Journal
      BY <1>27, DirectoryTyped DEF CompleteBookmark, TypeOK
    <2>2. pc' \in [Scopes -> PCs] /\ after' \in [Scopes -> PCs]
      BY <1>27 DEF CompleteBookmark, publish, Goto, TypeOK, Scopes, PCs
    <2> QED
      BY <2>1, <2>2 DEF CommandTyped
  <1>28. CASE CompleteUnlink
    <2>1. want' \in Base /\ rec' \in Bookmark /\ intent' \in Replacement /\ jn' \in Journal
      BY <1>28, DirectoryTyped DEF CompleteUnlink, TypeOK
    <2>2. pc' \in [Scopes -> PCs] /\ after' \in [Scopes -> PCs]
      BY <1>28 DEF CompleteUnlink, publish, Goto, TypeOK, Scopes, PCs
    <2> QED
      BY <2>1, <2>2 DEF CommandTyped
  <1>29. CASE Replaced
    <2>1. want' \in Base /\ rec' \in Bookmark /\ intent' \in Replacement /\ jn' \in Journal
      BY <1>29, DirectoryTyped DEF Replaced, TypeOK
    <2>2. pc' \in [Scopes -> PCs] /\ after' \in [Scopes -> PCs]
      BY <1>29 DEF Replaced, Step, Goto, TypeOK, Scopes, PCs
    <2> QED
      BY <2>1, <2>2 DEF CommandTyped
  <1>30. CASE SaveSetup
    <2>1. want' \in Base /\ rec' \in Bookmark /\ intent' \in Replacement /\ jn' \in Journal
      BY <1>30, DirectoryTyped DEF SaveSetup, TypeOK
    <2>2. pc' \in [Scopes -> PCs] /\ after' \in [Scopes -> PCs]
      BY <1>30 DEF SaveSetup, publish, Goto, TypeOK, Scopes, PCs
    <2> QED
      BY <2>1, <2>2 DEF CommandTyped
  <1>31. ASSUME NEW s \in Scopes, syncProjectDirectory(s)
          PROVE  CommandTyped'
    <2>1. CASE after[s] = "idle"
      BY <1>31, <2>1, EndTyped DEF syncProjectDirectory
    <2>2. CASE after[s] # "idle"
      BY <1>31, <2>2
         DEF syncProjectDirectory, Goto, locals, CommandTyped, TypeOK
    <2> QED
      BY <2>1, <2>2
  <1>32. ASSUME NEW s \in Scopes, SyncFails(s)
          PROVE  CommandTyped'
    BY <1>32, EndTyped DEF SyncFails, Scopes
  <1>33. ASSUME NEW s \in Scopes, CommandEnds(s)
          PROVE  CommandTyped'
    BY <1>33, EndTyped DEF CommandEnds, Scopes
  <1>34. CASE PowerLoss
    BY <1>34, FixedRecords DEF PowerLoss, CommandTyped, Scopes, PCs, Base
  <1>35. CASE Operator
    BY <1>35 DEF Operator, locals, CommandTyped, TypeOK
  <1>36. CASE UNCHANGED vars
    BY <1>36 DEF vars, locals, CommandTyped, TypeOK
  <1> QED
    BY <1>1, <1>2, <1>3, <1>4, <1>5, <1>6, <1>7, <1>8, <1>9, <1>10, <1>11,
       <1>12, <1>13, <1>14, <1>15, <1>16, <1>17, <1>18, <1>19, <1>20, <1>21,
       <1>22, <1>23, <1>24, <1>25, <1>26, <1>27, <1>28, <1>29, <1>30, <1>31,
       <1>32, <1>33, <1>34, <1>35, <1>36
       DEF Next, CreateStep, UseStep, ReplaceStep

(* Types of the volume, the promises and the counters.                     *)
RestTyped ==
    /\ vol \in [st : {"none", "creating", "ready"}, att : Object]
    /\ promised \subseteq Replacement
    /\ setups \in 0..MaxSetups /\ faults \in 0..MaxFaults

(* Volume, promises and counters are typed after every step.               *)
LEMMA RestTypedStep ==
    TypeOK /\ [Next]_vars => RestTyped'
  <1> SUFFICES ASSUME TypeOK, [Next]_vars
               PROVE  RestTyped'
    OBVIOUS
  <1> USE DEF TypeOK, RestTyped
  <1>1. CASE InitializeWorkspace
    BY <1>1 DEF InitializeWorkspace, counts
  <1>2. CASE InitializeAttach
    BY <1>2 DEF InitializeAttach, counts, Session
  <1>3. CASE SaveSetup
    BY <1>3, ProjectAssumption DEF SaveSetup, session, publish
  <1>4. ASSUME NEW s \in Scopes, syncProjectDirectory(s)
         PROVE  RestTyped'
    BY <1>4 DEF syncProjectDirectory, session
  <1>5. ASSUME NEW s \in Scopes, SyncFails(s)
         PROVE  RestTyped'
    BY <1>5, ProjectAssumption DEF SyncFails, session
  <1>6. CASE PowerLoss
    BY <1>6, ProjectAssumption DEF PowerLoss, session
  <1>7. CASE Operator
    <2>1. vol' \in [st : {"none", "creating", "ready"}, att : Object]
      <3>1. CASE OperatorWorkspace
        BY <3>1 DEF OperatorWorkspace, Session, Object
      <3>2. CASE vol' = vol
        BY <3>2
      <3> QED
        BY <1>7, <3>1, <3>2
           DEF Operator, OperatorSession, OperatorRebuild, Reserve, Clone,
               Cutover, StartCandidate, RetireOld
    <2> QED
      BY <1>7, <2>1 DEF Operator, counts
  <1>8. CASE UNCHANGED <<vol, counts>>
    BY <1>8 DEF counts
  <1> QED
    BY <1>1, <1>2, <1>3, <1>4, <1>5, <1>6, <1>7, <1>8, ZenonT(60)
       DEF Next, CreateStep, UseStep, ReplaceStep, createProject,
           CreateFresh, SaveReceipt, InitializeSave, OpenProject,
           SessionStart, StopProject, ImportBegin, ImportRetry,
           ImportTransfer, rebuildProject, RetryJournal, RetryIntent,
           ObserveStopped, PrepareCandidate, PrepareClone, BeginReplacement,
           projectReplacementWorkspace, DriveCandidate, DriveRetire,
           DriveSettled, CheckCompleted, settleCompletedReplacement,
           CompleteHistory, CompleteBookmark, CompleteUnlink, Replaced,
           CommandEnds, vars, session, publish, Save, Step, Goto,
           PrepareCandidate, Reserve, Clone, Cutover, StartCandidate,
           RetireOld

(* Every variable keeps its type.                                          *)
LEMMA TypeStep == TypeOK /\ SessionExact /\ [Next]_vars => TypeOK'
  <1> SUFFICES ASSUME TypeOK, SessionExact, [Next]_vars
               PROVE  TypeOK'
    OBVIOUS
  <1>1. sess' \in Session /\ jr' \in Journal /\ used' \subseteq Objects
    BY SessionMoves, SessionTyped
  <1>2. mem' \in Directory /\ dur' \in Directory
    BY FilesTyped
  <1>3. CommandTyped' /\ RestTyped'
    BY CommandTypedStep, RestTypedStep
  <1> QED
    BY <1>1, <1>2, <1>3 DEF TypeOK, CommandTyped, RestTyped

(* Forward is a preorder.                                                  *)
LEMMA ForwardOrder ==
    /\ \A a \in Bookmark : Forward(a, a)
    /\ \A a, b, c \in Bookmark : Forward(a, b) /\ Forward(b, c) => Forward(a, c)
  BY DEF Forward, Bookmark

(* The bookmark is replaced by one that is forward of it.                  *)
LEMMA BookmarkForward ==
    ASSUME TypeOK, FilesExact, NEW b \in Bookmark, Forward(mem.bm, b),
           mem' = [mem EXCEPT !.bm = b], dur' = dur,
           b.obj # b.id => \E i \in dur.hist : i.cand = b.obj /\ i.base = b.base
    PROVE  FilesExact'
  <1>1. mem'.bm = b /\ mem'.hist = mem.hist
    BY DEF TypeOK, Directory
  <1>2. Forward(dur.bm, b)
    BY ForwardOrder, DirectoryTyped DEF TypeOK, FilesExact
  <1> QED
    BY <1>1, <1>2 DEF FilesExact

(* Save goes forward.                                                      *)
LEMMA SaveForward ==
    ASSUME TypeOK, NEW b \in Bookmark, NEW l, Save(b, l)
    PROVE  Forward(mem.bm, b)
  BY DirectoryTyped DEF Save, Forward, TypeOK, Bookmark

(* A bookmark with the identity, object and base of the one before keeps   *)
(* its receipt.                                                            *)
LEMMA SameSystem ==
    ASSUME TypeOK, FilesExact, NEW b \in Bookmark, NEW l, Save(b, l),
           mem.bm.id = b.id, mem.bm.obj = b.obj
    PROVE  FilesExact'
  <1>1. Forward(mem.bm, b)
    BY SaveForward
  <1>2. b.obj # b.id => \E i \in dur.hist : i.cand = b.obj /\ i.base = b.base
    BY DEF Save, FilesExact
  <1>3. mem' = [mem EXCEPT !.bm = b] /\ dur' = dur
    BY DEF Save, publish
  <1> QED
    BY <1>1, <1>2, <1>3, BookmarkForward

(* What is seen stays ahead of what is durable, and receipts are durable   *)
(* before bookmarks.                                                       *)
LEMMA FilesExactStep ==
    TypeOK /\ FilesExact /\ CommandExact /\ [Next]_vars => FilesExact'
  <1> SUFFICES ASSUME TypeOK, FilesExact, CommandExact, [Next]_vars
               PROVE  FilesExact'
    OBVIOUS
  <1>1. ASSUME NEW b \in Bases, createProject(b)
         PROVE  FilesExact'
    <2>1. rec' \in Bookmark /\ rec'.id = None /\ rec'.obj = None
      BY <1>1 DEF createProject, NoProject, Bookmark, Object, Base
    <2>2. Forward(mem.bm, rec')
      BY <1>1 DEF createProject, Forward, NoProject
    <2>3. mem' = [mem EXCEPT !.bm = rec'] /\ dur' = dur
      BY <1>1 DEF createProject, publish
    <2> QED
      BY <2>1, <2>2, <2>3, BookmarkForward
  <1>2. CASE SaveReceipt
    <2>1. rec \in Bookmark /\ rec.obj = rec.id
      BY <1>2 DEF TypeOK, SaveReceipt, At, CommandExact, Ahead
    <2>2. Save(rec, "init")
      BY <1>2 DEF SaveReceipt
    <2>3. Forward(mem.bm, rec)
      BY <2>1, <2>2, SaveForward
    <2>4. mem' = [mem EXCEPT !.bm = rec] /\ dur' = dur
      BY <2>2 DEF Save, publish
    <2> QED
      BY <2>1, <2>3, <2>4, BookmarkForward
  <1>3. CASE InitializeSave
    <2>1. rec = mem.bm
      BY <1>3 DEF InitializeSave, At, CommandExact, Ahead
    <2>2. rec' \in Bookmark /\ rec'.id = mem.bm.id /\ rec'.obj = mem.bm.obj
      BY <1>3, <2>1 DEF InitializeSave, TypeOK, Bookmark
    <2>3. Save(rec', "start")
      BY <1>3 DEF InitializeSave
    <2> QED
      BY <2>2, <2>3, SameSystem
  <1>4. CASE ImportBegin
    <2>1. mem.bm \in Bookmark
      BY DirectoryTyped DEF TypeOK
    <2>2. rec' \in Bookmark /\ rec'.id = mem.bm.id /\ rec'.obj = mem.bm.obj
      BY <1>4, <2>1 DEF ImportBegin, TypeOK, Bookmark
    <2>3. Save(rec', "transfer")
      BY <1>4 DEF ImportBegin
    <2> QED
      BY <2>2, <2>3, SameSystem
  <1>5. CASE ImportTransfer
    <2>1. rec = mem.bm
      BY <1>5 DEF ImportTransfer, At, CommandExact, Ahead
    <2>2. rec' \in Bookmark /\ rec'.id = mem.bm.id /\ rec'.obj = mem.bm.obj
      BY <1>5, <2>1 DEF ImportTransfer, TypeOK, Bookmark
    <2>3. Save(rec', "idle")
      BY <1>5 DEF ImportTransfer
    <2> QED
      BY <2>2, <2>3, SameSystem
  <1>6. CASE BeginReplacement
    <2>1. mem'.bm = mem.bm /\ mem.hist \subseteq mem'.hist /\ dur' = dur
      BY <1>6 DEF BeginReplacement, publish, TypeOK, Directory
    <2> QED
      BY <2>1 DEF FilesExact
  <1>7. CASE settleCompletedReplacement
    BY <1>7 DEF settleCompletedReplacement, publish, FilesExact
  <1>8. CASE CompleteHistory
    <2>1. mem'.bm = mem.bm /\ mem.hist \subseteq mem'.hist /\ dur' = dur
      BY <1>8 DEF CompleteHistory, publish, TypeOK, Directory
    <2> QED
      BY <2>1 DEF FilesExact
  <1>9. CASE CompleteBookmark
    <2>1. /\ mem.bm \in {intent.before, Next_(intent)} /\ intent \in dur.hist
          /\ intent \in Replacement
      BY <1>9 DEF CompleteBookmark, At, CommandExact, Ahead, TypeOK
    <2>2. Forward(mem.bm, Next_(intent))
      BY <2>1, NextBookmark DEF Forward
    <2>3. mem' = [mem EXCEPT !.bm = Next_(intent)] /\ dur' = dur
      BY <1>9 DEF CompleteBookmark, publish
    <2> QED
      BY <2>1, <2>2, <2>3, NextBookmark, BookmarkForward
  <1>10. CASE CompleteUnlink
    <2>1. mem'.bm = mem.bm /\ mem.hist \subseteq mem'.hist /\ dur' = dur
      BY <1>10 DEF CompleteUnlink, publish, TypeOK, Directory
    <2> QED
      BY <2>1 DEF FilesExact
  <1>11. CASE SaveSetup
    <2>1. mem'.bm = mem.bm /\ mem.hist \subseteq mem'.hist /\ dur' = dur
      BY <1>11 DEF SaveSetup, publish, TypeOK, Directory
    <2> QED
      BY <2>1 DEF FilesExact
  <1>12. ASSUME NEW s \in Scopes, syncProjectDirectory(s)
          PROVE  FilesExact'
    <2>1. dur' = mem /\ mem' = mem
      BY <1>12 DEF syncProjectDirectory
    <2>2. Forward(mem.bm, mem.bm)
      BY ForwardOrder, DirectoryTyped DEF TypeOK
    <2> QED
      BY <2>1, <2>2 DEF FilesExact
  <1>13. CASE PowerLoss
    <2>1. Forward(mem'.bm, mem'.bm)
      BY <1>13, PowerLossFiles, ForwardOrder, DirectoryTyped DEF TypeOK
    <2> QED
      BY <1>13, <2>1, PowerLossFiles DEF FilesExact
  <1>14. CASE UNCHANGED files
    BY <1>14 DEF files, FilesExact
  <1> QED
    BY <1>1, <1>2, <1>3, <1>4, <1>5, <1>6, <1>7, <1>8, <1>9, <1>10, <1>11,
       <1>12, <1>13, <1>14, ZenonT(60)
       DEF Next, CreateStep, UseStep, ReplaceStep, CreateFresh,
           InitializeWorkspace, InitializeAttach, OpenProject, SessionStart,
           StopProject, ImportRetry, rebuildProject, RetryJournal,
           RetryIntent, ObserveStopped, PrepareCandidate, PrepareClone,
           projectReplacementWorkspace, DriveCandidate, DriveRetire,
           DriveSettled, CheckCompleted, Replaced, SyncFails, CommandEnds,
           Operator, vars, session, counts, locals

(* A session move keeps the promises if the directory stays.               *)
LEMMA PromiseSession ==
    ASSUME TypeOK, SessionExact, PromiseKept, SessionMove, UNCHANGED <<files, promised>>
    PROVE  PromiseKept'
  <1>1. \A i \in promised :
            /\ InUse(i)' => InUse(i) /\ sess'.id = sess.id
            /\ i.before.id \in used' /\ i.cand \in used'
    BY UseOnlyEnds DEF PromiseKept
  <1> QED
    BY <1>1 DEF PromiseKept, files

(* A step that leaves session and promises alone keeps them if every       *)
(* bookmark and intent that it leaves was there before, or leads to the    *)
(* candidates in use.                                                      *)
LEMMA PromiseFiles ==
    ASSUME PromiseKept, UNCHANGED <<session, promised>>,
           \A i \in promised, b \in {mem'.bm, dur'.bm}, p \in {mem'.pend, dur'.pend} :
                InUse(i) /\ b.id = sess.id => b.obj = i.cand \/ p = i
    PROVE  PromiseKept'
  <1>1. \A i : (InUse(i)' <=> InUse(i)) /\ sess' = sess /\ used' = used
    BY DEF session, InUse, OnItsWay
  <1> QED
    BY <1>1 DEF PromiseKept

(* A save that keeps identity and object of the bookmark.                  *)
LEMMA PromiseSave ==
    ASSUME TypeOK, PromiseKept, UNCHANGED <<session, promised>>, NEW b \in Bookmark, NEW l,
           Save(b, l), mem.bm.id = b.id, mem.bm.obj = b.obj
    PROVE  PromiseKept'
  <1>1. mem'.bm = b /\ mem'.pend = mem.pend /\ dur' = dur
    BY DEF Save, publish, TypeOK, Directory
  <1> QED
    BY <1>1, PromiseFiles DEF PromiseKept

(* Promised replacements are kept in sight: steps that write the directory *)
(* leave the session alone, and the others leave the directory alone.      *)
LEMMA PromiseStep ==
    TypeOK /\ SessionExact /\ PromiseKept /\ CommandExact /\ [Next]_vars => PromiseKept'
  <1> SUFFICES ASSUME TypeOK, SessionExact, PromiseKept, CommandExact,
                      [Next]_vars
               PROVE  PromiseKept'
    OBVIOUS
  <1>1. ASSUME NEW b \in Bases, createProject(b)
         PROVE  PromiseKept'
    <2>1. /\ mem'.bm.id = None /\ mem'.pend = mem.pend /\ dur' = dur
          /\ UNCHANGED <<session, promised>>
      BY <1>1 DEF createProject, publish, TypeOK, Directory, NoProject
    <2>2. \A i \in promised : i.before.id # None
      BY ProjectAssumption DEF PromiseKept, TypeOK
    <2> QED
      BY <2>1, <2>2, PromiseFiles DEF PromiseKept, InUse
  <1>2. CASE SaveReceipt
    <2>1. \A i \in promised : i.before.id # rec.id
      BY <1>2 DEF SaveReceipt, At, CommandExact, Ahead
    <2>2. /\ mem'.bm = rec /\ mem'.pend = mem.pend /\ dur' = dur
          /\ UNCHANGED <<session, promised>>
      BY <1>2 DEF SaveReceipt, Save, publish, TypeOK, Directory
    <2> QED
      BY <2>1, <2>2, PromiseFiles DEF PromiseKept, InUse
  <1>3. CASE InitializeSave
    <2>1. rec = mem.bm
      BY <1>3 DEF InitializeSave, At, CommandExact, Ahead
    <2>2. rec' \in Bookmark /\ rec'.id = mem.bm.id /\ rec'.obj = mem.bm.obj
      BY <1>3, <2>1 DEF InitializeSave, TypeOK, Bookmark
    <2>3. Save(rec', "start") /\ UNCHANGED <<session, promised>>
      BY <1>3 DEF InitializeSave
    <2> QED
      BY <2>2, <2>3, PromiseSave
  <1>4. CASE ImportBegin
    <2>1. mem.bm \in Bookmark
      BY DirectoryTyped DEF TypeOK
    <2>2. rec' \in Bookmark /\ rec'.id = mem.bm.id /\ rec'.obj = mem.bm.obj
      BY <1>4, <2>1 DEF ImportBegin, TypeOK, Bookmark
    <2>3. Save(rec', "transfer") /\ UNCHANGED <<session, promised>>
      BY <1>4 DEF ImportBegin
    <2> QED
      BY <2>2, <2>3, PromiseSave
  <1>5. CASE ImportTransfer
    <2>1. rec = mem.bm
      BY <1>5 DEF ImportTransfer, At, CommandExact, Ahead
    <2>2. rec' \in Bookmark /\ rec'.id = mem.bm.id /\ rec'.obj = mem.bm.obj
      BY <1>5, <2>1 DEF ImportTransfer, TypeOK, Bookmark
    <2>3. Save(rec', "idle") /\ UNCHANGED <<session, promised>>
      BY <1>5 DEF ImportTransfer
    <2> QED
      BY <2>2, <2>3, PromiseSave
  <1>6. CASE BeginReplacement
    <2>1. /\ mem'.bm = mem.bm /\ mem'.pend = intent' /\ dur' = dur
          /\ mem.pend \in {NoIntent, intent'}
          /\ UNCHANGED <<session, promised>>
      BY <1>6 DEF BeginReplacement, publish, TypeOK, Directory
    <2>2. \A i \in promised : i # NoIntent
      BY ProjectAssumption DEF PromiseKept, TypeOK, NoIntent, NoProject
    <2> QED
      BY <2>1, <2>2, PromiseFiles DEF PromiseKept
  <1>7. CASE settleCompletedReplacement
    <2>1. /\ mem'.bm = mem.bm /\ mem'.pend = mem.pend /\ dur' = dur
          /\ UNCHANGED <<session, promised>>
      BY <1>7 DEF settleCompletedReplacement, publish, TypeOK, Directory
    <2> QED
      BY <2>1, PromiseFiles DEF PromiseKept
  <1>8. CASE CompleteHistory
    <2>1. /\ mem'.bm = mem.bm /\ mem'.pend = mem.pend /\ dur' = dur
          /\ UNCHANGED <<session, promised>>
      BY <1>8 DEF CompleteHistory, publish, TypeOK, Directory
    <2> QED
      BY <2>1, PromiseFiles DEF PromiseKept
  <1>9. CASE CompleteBookmark
    <2>1. /\ mem'.bm = Next_(intent) /\ mem'.pend = mem.pend /\ dur' = dur
          /\ UNCHANGED <<session, promised>>
      BY <1>9 DEF CompleteBookmark, publish, TypeOK, Directory
    <2>2. \A i \in promised : InUse(i) /\ sess.id = intent.before.id => i.cand = intent.cand
      BY <1>9 DEF CompleteBookmark, At, CommandExact, Ahead
    <2>3. Next_(intent).id = intent.before.id /\ Next_(intent).obj = intent.cand
      BY NextBookmark DEF TypeOK
    <2> QED
      BY <2>1, <2>2, <2>3, PromiseFiles DEF PromiseKept
  <1>10. CASE CompleteUnlink
    <2>1. /\ mem'.bm = mem.bm /\ dur' = dur
          /\ UNCHANGED <<session, promised>>
      BY <1>10 DEF CompleteUnlink, publish, TypeOK, Directory
    <2>2. /\ \A i \in promised : InUse(i) /\ sess.id = intent.before.id => i.cand = intent.cand
          /\ mem.bm = Next_(intent) /\ dur.bm = Next_(intent)
      BY <1>10 DEF CompleteUnlink, At, CommandExact, Ahead
    <2>3. Next_(intent).id = intent.before.id /\ Next_(intent).obj = intent.cand
      BY NextBookmark DEF TypeOK
    <2> QED
      BY <2>1, <2>2, <2>3, PromiseFiles DEF PromiseKept
  <1>11. CASE SaveSetup
    <2>1. /\ mem'.bm = mem.bm /\ mem'.pend = mem.pend /\ dur' = dur
          /\ UNCHANGED <<session, promised>>
      BY <1>11 DEF SaveSetup, publish, TypeOK, Directory
    <2> QED
      BY <2>1, PromiseFiles DEF PromiseKept
  <1>12. ASSUME NEW s \in Scopes, syncProjectDirectory(s)
          PROVE  PromiseKept'
    <2>1. mem' = mem /\ dur' = mem /\ UNCHANGED session
      BY <1>12 DEF syncProjectDirectory
    <2>2. CASE promised' = promised
      BY <2>1, <2>2, PromiseFiles DEF PromiseKept
    <2>3. CASE s = "project" /\ after[s] = "check" /\ promised' = promised \cup {intent}
      <3>1. mem.pend = intent /\ intent.before.id \in used /\ intent.cand \in used
        BY <1>12, <2>3 DEF syncProjectDirectory, At, CommandExact, Ahead
      <3>2. \A i : (InUse(i)' <=> InUse(i)) /\ sess' = sess /\ used' = used
        BY <2>1 DEF session, InUse, OnItsWay
      <3> QED
        BY <2>1, <2>3, <3>1, <3>2 DEF PromiseKept
    <2> QED
      BY <1>12, <2>2, <2>3 DEF syncProjectDirectory
  <1>13. CASE PowerLoss
    <2>1. UNCHANGED <<session, promised>>
      BY <1>13 DEF PowerLoss
    <2> QED
      BY <1>13, <2>1, PowerLossFiles, PromiseFiles DEF PromiseKept
  <1>14. CASE UNCHANGED <<files, promised>>
    BY <1>14, SessionMoves, PromiseSession
  <1> QED
    BY <1>1, <1>2, <1>3, <1>4, <1>5, <1>6, <1>7, <1>8, <1>9, <1>10, <1>11,
       <1>12, <1>13, <1>14, ZenonT(60)
       DEF Next, CreateStep, UseStep, ReplaceStep, CreateFresh,
           InitializeWorkspace, InitializeAttach, OpenProject, SessionStart,
           StopProject, ImportRetry, rebuildProject, RetryJournal,
           RetryIntent, ObserveStopped, PrepareCandidate, PrepareClone,
           projectReplacementWorkspace, DriveCandidate, DriveRetire,
           DriveSettled, CheckCompleted, Replaced, SyncFails, CommandEnds,
           Operator, vars, session, counts, locals

(* Steps between which the project command relies on something.            *)
Relying == {"clone", "init", "attach", "bind", "transfer", "receipt", "begin",
            "history", "bookmark", "unlink"}

(* What lies ahead after a step, after a publication, and at the end.      *)
LEMMA AheadNext ==
    ASSUME TypeOK
    PROVE  /\ \A l : l # "sync" /\ Step(l) =>
                Ahead' = l /\ pc'["project"] = l
           /\ \A d, l : publish("project", d, l) =>
                Ahead' = l /\ pc'["project"] = "sync"
           /\ Goto("project", "idle") => Ahead' = "idle" /\ pc'["project"] = "idle"
  BY DEF TypeOK, Scopes, Step, Goto, publish, Ahead, At

(* A command that relies on nothing.                                       *)
LEMMA NothingRelied ==
    ASSUME Ahead' \notin Relying,
           ~(pc'["project"] = "sync" /\ Ahead' = "check")
    PROVE  CommandExact'
  <1>1. pc'["project"] \notin {"bookmark", "unlink"}
    BY DEF Ahead, At, Relying
  <1> QED
    BY <1>1 DEF CommandExact, Relying, At

(* A step of somebody else, or of a loop that keeps the command where it   *)
(* is: the session may move, the profile may be written or the directory   *)
(* synced.                                                                 *)
LEMMA Bystander ==
    ASSUME TypeOK, SessionExact, PromiseKept, CommandExact, SessionMove,
           pc'["project"] = pc["project"], after'["project"] = after["project"],
           UNCHANGED <<rec, intent, jn, promised>>,
           mem'.bm = mem.bm, mem'.pend = mem.pend, mem'.hist = mem.hist,
           dur' \in {dur, mem}
    PROVE  CommandExact'
  <1>1. \A i \in promised :
            /\ InUse(i)' => InUse(i) /\ sess'.id = sess.id
            /\ OnItsWay(i)' => OnItsWay(i)
    BY UseOnlyEnds DEF PromiseKept
  <1>2. used \subseteq used'
    BY DEF SessionMove, SetState, Delete, Create, Reserve, Clone, Cutover,
       RetireOld
  <1>3. Ahead' = Ahead /\ \A l : At("project", l)' <=> At("project", l)
    BY DEF Ahead, At
  <1>4. Ahead' \in {"history", "bookmark", "unlink"} =>
            \A i \in promised' : InUse(i)' /\ sess'.id = intent'.before.id =>
                i.cand = intent'.cand /\ ~OnItsWay(i)'
    BY <1>1, <1>3 DEF CommandExact
  <1>5. At("project", "bookmark")' => intent' \in dur'.hist
    BY <1>3 DEF CommandExact, Ahead, At
  <1>6. At("project", "unlink")' => dur'.bm = mem'.bm
    BY <1>3 DEF CommandExact
  <1>7. Next_(intent)' = Next_(intent)
    BY DEF Next_
  <1> QED
    BY <1>2, <1>3, <1>4, <1>5, <1>6, <1>7 DEF CommandExact

(* What the project command relies on holds after every step, its own or   *)
(* another's.                                                              *)
LEMMA CommandExactStep ==
    TypeOK /\ SessionExact /\ PromiseKept /\ CommandExact /\ [Next]_vars => CommandExact'
  <1> SUFFICES ASSUME TypeOK, SessionExact, PromiseKept, CommandExact,
                      [Next]_vars
               PROVE  CommandExact'
    OBVIOUS
  <1>1. ASSUME NEW b \in Bases, createProject(b)
         PROVE  CommandExact'
    <2>1. Ahead' = "clone" /\ pc'["project"] = "sync"
      BY <1>1, AheadNext DEF createProject
    <2>2. rec' = mem'.bm /\ rec'.id = None /\ rec'.obj = None
      BY <1>1 DEF createProject, publish, TypeOK, Directory, NoProject
    <2> QED
      BY <2>1, <2>2 DEF CommandExact, At
  <1>2. ASSUME NEW o \in Objects, CreateFresh(o)
         PROVE  CommandExact'
    <2>1. Ahead' = "receipt" /\ pc'["project"] = "receipt"
      BY <1>2, AheadNext DEF CreateFresh
    <2>2. rec = mem.bm /\ rec.id = None
      BY <1>2 DEF CreateFresh, CommandExact, Ahead, At
    <2>3. rec'.id = o /\ rec'.obj = o /\ o \in used' /\ mem' = mem /\ promised' = promised
      BY <1>2 DEF CreateFresh, files, counts, TypeOK, Bookmark
    <2>4. \A i \in promised : i.before.id # o
      BY <1>2 DEF CreateFresh, PromiseKept
    <2> QED
      BY <2>1, <2>2, <2>3, <2>4 DEF CommandExact, At
  <1>3. CASE SaveReceipt
    <2>1. Ahead' = "init" /\ pc'["project"] = "sync"
      BY <1>3, AheadNext DEF SaveReceipt, Save
    <2>2. rec' = mem'.bm
      BY <1>3 DEF SaveReceipt, Save, publish, TypeOK, Directory
    <2> QED
      BY <2>1, <2>2 DEF CommandExact, At
  <1>4. CASE InitializeWorkspace
    <2>1. rec = mem.bm /\ mem' = mem
      BY <1>4 DEF InitializeWorkspace, CommandExact, Ahead, At, files
    <2>2. CASE Step("attach") /\ rec' = rec
      <3>1. Ahead' = "attach" /\ pc'["project"] = "attach"
        BY <2>2, AheadNext
      <3> QED
        BY <2>1, <2>2, <3>1 DEF CommandExact, At
    <2>3. CASE Goto("project", "idle")
      <3>1. Ahead' = "idle"
        BY <2>3, AheadNext
      <3> QED
        BY <3>1, NothingRelied DEF Relying
    <2> QED
      BY <1>4, <2>2, <2>3 DEF InitializeWorkspace
  <1>5. CASE InitializeAttach
    <2>1. Ahead' = "bind" /\ pc'["project"] = "bind"
      BY <1>5, AheadNext DEF InitializeAttach
    <2>2. rec' = mem'.bm
      BY <1>5 DEF InitializeAttach, CommandExact, Ahead, At, files
    <2> QED
      BY <2>1, <2>2 DEF CommandExact, At
  <1>6. CASE InitializeSave
    <2>1. Ahead' = "start"
      BY <1>6, AheadNext DEF InitializeSave, Save
    <2> QED
      BY <2>1, NothingRelied DEF Relying
  <1>7. CASE OpenProject
    <2>1. rec' = mem'.bm
      BY <1>7 DEF OpenProject, files
    <2>2. Ahead' \in {"start", "init"} /\ pc'["project"] \in {"start", "init"}
      BY <1>7, AheadNext DEF OpenProject
    <2> QED
      BY <2>1, <2>2 DEF CommandExact, At
  <1>8. CASE SessionStart
    <2>1. Ahead' = "idle" /\ pc'["project"] = "idle"
      BY <1>8, AheadNext DEF SessionStart
    <2> QED
      BY <2>1, NothingRelied DEF Relying
  <1>9. CASE StopProject
    BY <1>9, SessionMoves, Bystander DEF StopProject, files, locals, counts
  <1>10. CASE ImportBegin
    <2>1. Ahead' = "transfer" /\ pc'["project"] = "sync"
      BY <1>10, AheadNext DEF ImportBegin, Save
    <2>2. rec' = mem'.bm
      BY <1>10 DEF ImportBegin, Save, publish, TypeOK, Directory
    <2> QED
      BY <2>1, <2>2 DEF CommandExact, At
  <1>11. CASE ImportRetry
    <2>1. Ahead' = "transfer" /\ pc'["project"] = "transfer"
      BY <1>11, AheadNext DEF ImportRetry
    <2>2. rec' = mem'.bm
      BY <1>11 DEF ImportRetry, files
    <2> QED
      BY <2>1, <2>2 DEF CommandExact, At
  <1>12. CASE ImportTransfer
    <2>1. Ahead' = "idle"
      BY <1>12, AheadNext DEF ImportTransfer, Save
    <2> QED
      BY <2>1, NothingRelied DEF Relying
  <1>13. ASSUME NEW b \in Bases, rebuildProject(b)
          PROVE  CommandExact'
    <2>1. Ahead' = "observe" /\ pc'["project"] = "observe"
      BY <1>13, AheadNext DEF rebuildProject
    <2> QED
      BY <2>1, NothingRelied DEF Relying
  <1>14. CASE RetryJournal
    <2>1. Ahead' = "observe" /\ pc'["project"] = "observe"
      BY <1>14, AheadNext DEF RetryJournal
    <2> QED
      BY <2>1, NothingRelied DEF Relying
  <1>15. CASE RetryIntent
    <2>1. Ahead' = "check" /\ pc'["project"] = "check"
      BY <1>15, AheadNext DEF RetryIntent
    <2> QED
      BY <2>1, NothingRelied DEF Relying
  <1>16. CASE ObserveStopped
    <2>1. Ahead' = "prepare" /\ pc'["project"] = "prepare"
      BY <1>16, AheadNext DEF ObserveStopped
    <2> QED
      BY <2>1, NothingRelied DEF Relying
  <1>17. ASSUME NEW o \in Objects, PrepareCandidate(o)
          PROVE  CommandExact'
    BY <1>17, SessionMoves, Bystander
       DEF PrepareCandidate, files, locals, counts
  <1>18. CASE PrepareClone
    <2>1. Ahead' = "begin" /\ pc'["project"] = "begin"
      BY <1>18, AheadNext DEF PrepareClone
    <2>2. /\ jr.id = sess.id /\ jr.ph # "none" /\ sess.st = "stopped"
          /\ jn'.id = jr.id /\ jn'.cand = jr.cand /\ used' = used
      BY <1>18 DEF PrepareClone, Preparable, Clone, session, TypeOK, Journal
    <2>3. jn'.id \in used' /\ jn'.cand \in used'
      BY <2>2 DEF SessionExact
    <2> QED
      BY <2>1, <2>3 DEF CommandExact, At
  <1>19. CASE BeginReplacement
    <2>1. Ahead' = "check" /\ pc'["project"] = "sync"
      BY <1>19, AheadNext DEF BeginReplacement
    <2>2. jn.id \in used /\ jn.cand \in used /\ jn.id = rec.id /\ used' = used
      BY <1>19 DEF BeginReplacement, CommandExact, Ahead, At, session
    <2>3. mem'.pend = intent' /\ intent'.before.id = rec.id /\ intent'.cand = jn.cand
      BY <1>19 DEF BeginReplacement, publish, TypeOK, Directory
    <2> QED
      BY <2>1, <2>2, <2>3 DEF CommandExact, At
  <1>20. CASE projectReplacementWorkspace
    <2>1. Ahead' = "drive" /\ pc'["project"] = "drive"
      BY <1>20, AheadNext DEF projectReplacementWorkspace
    <2> QED
      BY <2>1, NothingRelied DEF Relying
  <1>21. CASE DriveCandidate
    BY <1>21, SessionMoves, Bystander
       DEF DriveCandidate, files, locals, counts
  <1>22. CASE DriveRetire
    <2>1. Ahead' = "bound" /\ pc'["project"] = "bound"
      BY <1>22, AheadNext DEF DriveRetire
    <2> QED
      BY <2>1, NothingRelied DEF Relying
  <1>23. CASE DriveSettled
    <2>1. Ahead' = "bound" /\ pc'["project"] = "bound"
      BY <1>23, AheadNext DEF DriveSettled
    <2> QED
      BY <2>1, NothingRelied DEF Relying
  <1>24. CASE CheckCompleted
    <2>1. Ahead' = "history" /\ pc'["project"] = "history"
      BY <1>24, AheadNext DEF CheckCompleted
    <2>2. sess.obj = intent.cand /\ jr.ph = "none"
      BY <1>24, NextBookmark
         DEF CheckCompleted, boundProject, boundProjectSession,
             RequireNoRebuild, TypeOK
    <2>3. UNCHANGED <<sess, jr, intent, promised>>
      BY <1>24 DEF CheckCompleted, session, counts
    <2>4. \A i \in promised' : InUse(i)' => i.cand = intent'.cand /\ ~OnItsWay(i)'
      BY <2>2, <2>3 DEF InUse, OnItsWay
    <2> QED
      BY <2>1, <2>4 DEF CommandExact, At
  <1>25. CASE settleCompletedReplacement
    <2>1. Ahead' = "replaced"
      BY <1>25, AheadNext DEF settleCompletedReplacement
    <2> QED
      BY <2>1, NothingRelied DEF Relying
  <1>26. CASE CompleteHistory
    <2>1. Ahead' = "bookmark" /\ pc'["project"] = "sync"
      BY <1>26, AheadNext DEF CompleteHistory
    <2>2. \A i \in promised' : InUse(i)' /\ sess'.id = intent'.before.id =>
              i.cand = intent'.cand /\ ~OnItsWay(i)'
      <3>1. Ahead \in {"history", "bookmark", "unlink"}
        BY <1>26 DEF CompleteHistory, Ahead, At
      <3>2. UNCHANGED <<sess, jr, intent, promised>>
        BY <1>26 DEF CompleteHistory, session
      <3> QED
        BY <3>1, <3>2 DEF CommandExact, InUse, OnItsWay
    <2>3. /\ mem'.bm = mem.bm /\ mem'.pend = mem.pend /\ intent \in mem'.hist
          /\ intent' = intent /\ mem.pend = intent
          /\ mem.bm \in {intent.before, Next_(intent)}
      BY <1>26 DEF CompleteHistory, publish, TypeOK, Directory
    <2>4. Next_(intent)' = Next_(intent)
      BY <2>3 DEF Next_
    <2> QED
      BY <2>1, <2>2, <2>3, <2>4 DEF CommandExact, At
  <1>27. CASE CompleteBookmark
    <2>1. Ahead' = "unlink" /\ pc'["project"] = "sync"
      BY <1>27, AheadNext DEF CompleteBookmark
    <2>2. \A i \in promised' : InUse(i)' /\ sess'.id = intent'.before.id =>
              i.cand = intent'.cand /\ ~OnItsWay(i)'
      <3>1. Ahead \in {"history", "bookmark", "unlink"}
        BY <1>27 DEF CompleteBookmark, Ahead, At
      <3>2. UNCHANGED <<sess, jr, intent, promised>>
        BY <1>27 DEF CompleteBookmark, session
      <3> QED
        BY <3>1, <3>2 DEF CommandExact, InUse, OnItsWay
    <2>3. mem'.bm = Next_(intent) /\ mem'.pend = mem.pend /\ intent' = intent
      BY <1>27 DEF CompleteBookmark, publish, TypeOK, Directory
    <2>4. mem.pend = intent
      BY <1>27 DEF CompleteBookmark, CommandExact, Ahead, At
    <2>5. Next_(intent)' = Next_(intent)
      BY <2>3 DEF Next_
    <2> QED
      BY <2>1, <2>2, <2>3, <2>4, <2>5 DEF CommandExact, At
  <1>28. CASE CompleteUnlink
    <2>1. Ahead' = "replaced"
      BY <1>28, AheadNext DEF CompleteUnlink
    <2> QED
      BY <2>1, NothingRelied DEF Relying
  <1>29. CASE Replaced
    <2>1. Ahead' = "start" /\ pc'["project"] = "start"
      BY <1>29, AheadNext DEF Replaced
    <2> QED
      BY <2>1, NothingRelied DEF Relying
  <1>30. CASE SaveSetup
    <2>1. /\ mem'.bm = mem.bm /\ mem'.pend = mem.pend /\ mem'.hist = mem.hist
          /\ dur' = dur /\ UNCHANGED <<rec, intent, jn, promised>>
      BY <1>30 DEF SaveSetup, publish, TypeOK, Directory
    <2>2. pc'["project"] = pc["project"] /\ after'["project"] = after["project"]
      BY <1>30 DEF SaveSetup, publish, Goto, TypeOK, Scopes
    <2> QED
      BY <2>1, <2>2, SessionMoves, Bystander
  <1>31. ASSUME NEW s \in Scopes, syncProjectDirectory(s)
          PROVE  CommandExact'
    <2>1. CASE s = "project" /\ after[s] = "idle"
      <3>1. Ahead' = "idle" /\ pc'["project"] = "idle"
        BY <1>31, <2>1, AheadNext DEF syncProjectDirectory
      <3> QED
        BY <3>1, NothingRelied DEF Relying
    <2>2. CASE s = "project" /\ after[s] # "idle"
      <3>1. /\ pc["project"] = "sync" /\ mem' = mem /\ dur' = mem
            /\ UNCHANGED <<sess, jr, used, rec, intent, jn>>
            /\ pc'["project"] = after["project"] /\ after' = after
        BY <1>31, <2>2
           DEF syncProjectDirectory, Goto, At, locals, session, TypeOK,
               Scopes
      <3>2. Ahead = after["project"] /\ Ahead' = Ahead
        BY <3>1 DEF Ahead, At
      <3>3. CASE Ahead \notin Relying
        <4>1. pc'["project"] # "sync" \/ Ahead' # "check"
          BY <3>1, <3>2
        <4> QED
          BY <3>2, <3>3, <4>1, NothingRelied
      <3>4. CASE Ahead \in Relying
        <4>1. promised' = promised
          BY <1>31, <2>2, <3>2, <3>4 DEF syncProjectDirectory, Relying
        <4>2. \A i : (InUse(i)' <=> InUse(i)) /\ (OnItsWay(i)' <=> OnItsWay(i))
          BY <3>1 DEF InUse, OnItsWay
        <4>3. Next_(intent)' = Next_(intent)
          BY <3>1 DEF Next_
        <4>4. pc'["project"] = Ahead
          BY <3>1, <3>2
        <4> QED
          BY <3>1, <3>2, <3>4, <4>1, <4>2, <4>3, <4>4
             DEF CommandExact, At, Relying
      <3> QED
        BY <3>3, <3>4
    <2>3. CASE s = "setup"
      <3>1. pc'["project"] = pc["project"] /\ after'["project"] = after["project"]
        BY <1>31, <2>3
           DEF syncProjectDirectory, Goto, Forget, locals, TypeOK, Scopes
      <3>2. UNCHANGED <<rec, intent, jn, promised, mem>> /\ dur' = mem
        BY <1>31, <2>3 DEF syncProjectDirectory, Forget, locals
      <3> QED
        BY <3>1, <3>2, SessionMoves, Bystander
    <2> QED
      BY <2>1, <2>2, <2>3 DEF Scopes
  <1>32. ASSUME NEW s \in Scopes, SyncFails(s)
          PROVE  CommandExact'
    <2>1. CASE s = "project"
      <3>1. Ahead' = "idle" /\ pc'["project"] = "idle"
        BY <1>32, <2>1, AheadNext DEF SyncFails
      <3> QED
        BY <3>1, NothingRelied DEF Relying
    <2>2. CASE s = "setup"
      <3>1. pc'["project"] = pc["project"] /\ after'["project"] = after["project"]
        BY <1>32, <2>2 DEF SyncFails, Goto, Forget, TypeOK, Scopes
      <3>2. UNCHANGED <<rec, intent, jn, promised, mem, dur>>
        BY <1>32, <2>2 DEF SyncFails, Forget, files, counts
      <3> QED
        BY <3>1, <3>2, SessionMoves, Bystander
    <2> QED
      BY <2>1, <2>2 DEF Scopes
  <1>33. ASSUME NEW s \in Scopes, CommandEnds(s)
          PROVE  CommandExact'
    <2>1. CASE s = "project"
      <3>1. Ahead' = "idle" /\ pc'["project"] = "idle"
        BY <1>33, <2>1, AheadNext DEF CommandEnds
      <3> QED
        BY <3>1, NothingRelied DEF Relying
    <2>2. CASE s = "setup"
      <3>1. pc'["project"] = pc["project"] /\ after'["project"] = after["project"]
        BY <1>33, <2>2 DEF CommandEnds, Goto, Forget, TypeOK, Scopes
      <3>2. UNCHANGED <<rec, intent, jn, promised, mem, dur>>
        BY <1>33, <2>2 DEF CommandEnds, Forget, files, counts
      <3> QED
        BY <3>1, <3>2, SessionMoves, Bystander
    <2> QED
      BY <2>1, <2>2 DEF Scopes
  <1>34. CASE PowerLoss
    <2>1. Ahead' = "idle"
      BY <1>34 DEF PowerLoss, Ahead, At, Scopes
    <2> QED
      BY <2>1, NothingRelied DEF Relying
  <1>35. CASE Operator
    BY <1>35, SessionMoves, Bystander DEF Operator, files, locals, counts
  <1>36. CASE UNCHANGED vars
    BY <1>36, SessionMoves, Bystander DEF vars, files, locals, counts
  <1> QED
    BY <1>1, <1>2, <1>3, <1>4, <1>5, <1>6, <1>7, <1>8, <1>9, <1>10, <1>11,
       <1>12, <1>13, <1>14, <1>15, <1>16, <1>17, <1>18, <1>19, <1>20, <1>21,
       <1>22, <1>23, <1>24, <1>25, <1>26, <1>27, <1>28, <1>29, <1>30, <1>31,
       <1>32, <1>33, <1>34, <1>35, <1>36
       DEF Next, CreateStep, UseStep, ReplaceStep

-----------------------------------------------------------------------------
(* Facts holds initially.                                                  *)
LEMMA InitFacts == Init => Facts
  <1> SUFFICES ASSUME Init
               PROVE  Facts
    OBVIOUS
  <1> USE DEF Init
  <1>1. TypeOK
    <2>1. mem \in Directory
      BY FixedRecords DEF Directory
    <2> QED
      BY <2>1, FixedRecords, ProjectAssumption
         DEF TypeOK, Scopes, PCs, Object, Base
  <1>2. SessionExact
    BY DEF SessionExact, NoSession, NoJournal
  <1>3. FilesExact
    BY DEF FilesExact, Forward, NoProject
  <1>4. PromiseKept
    BY DEF PromiseKept
  <1>5. CommandExact
    BY DEF CommandExact, Ahead, At, Scopes
  <1> QED
    BY <1>1, <1>2, <1>3, <1>4, <1>5 DEF Facts

(* Facts is inductive.                                                     *)
LEMMA NextFacts == Facts /\ [Next]_vars => Facts'
  BY TypeStep, SessionMoves, SessionExactStep, FilesExactStep, PromiseStep,
     CommandExactStep
     DEF Facts

LEMMA AlwaysFacts == Spec => []Facts
  BY InitFacts, NextFacts, PTL DEF Spec

(* ProjectInv: through kills, failed syncs, power losses and whatever the  *)
(* operator does to the session, a replacement that was reported durable   *)
(* is found again, and files, session and command agree (replacement.go,   *)
(* store.go).                                                              *)
THEOREM ProjectInvariance == Spec => []ProjectInv
  <1>1. Facts => ProjectInv
    <2> SUFFICES ASSUME Facts
                 PROVE  ReplacementFound
      BY DEF Facts, ProjectInv
    <2> QED
      BY DEF Facts, PromiseKept, InUse, ReplacementFound
  <1> QED
    BY <1>1, AlwaysFacts, PTL

(* A bookmark that left the session's first system has the receipt of the  *)
(* replacement beside it, in what is seen and in what a power loss leaves  *)
(* (replacement.go CompleteReplacement).                                   *)
THEOREM ReceiptIsFirst == Spec => []ReceiptBeforeBookmark
  <1>1. Facts => ReceiptBeforeBookmark
    BY DEF Facts, FilesExact, ReceiptBeforeBookmark
  <1> QED
    BY <1>1, AlwaysFacts, PTL

(* What survives a power loss only moves forward (store.go Save).          *)
THEOREM DurableIsForward == Spec => DurableForward
  <1>1. Facts /\ [Next]_vars => [MovesForward]_vars
    <2> SUFFICES ASSUME Facts, [Next]_vars
                 PROVE  MovesForward
      OBVIOUS
    <2>1. dur'.bm \in {dur.bm, mem.bm}
      <3>1. CASE PowerLoss
        BY <3>1, PowerLossFiles DEF Facts
      <3>2. ASSUME NEW s \in Scopes, syncProjectDirectory(s)
            PROVE  dur'.bm = mem.bm
        BY <3>2 DEF syncProjectDirectory
      <3>3. CASE dur' = dur
        BY <3>3
      <3> QED
        BY <3>1, <3>2, <3>3, ZenonT(60)
           DEF Next, CreateStep, UseStep, ReplaceStep, vars, files,
               createProject, CreateFresh, SaveReceipt, InitializeWorkspace,
               InitializeAttach, InitializeSave, OpenProject, SessionStart,
               StopProject, ImportBegin, ImportRetry, ImportTransfer,
               rebuildProject, RetryJournal, RetryIntent, ObserveStopped,
               PrepareCandidate, PrepareClone, BeginReplacement,
               projectReplacementWorkspace, DriveCandidate, DriveRetire,
               DriveSettled, CheckCompleted, settleCompletedReplacement,
               CompleteHistory, CompleteBookmark, CompleteUnlink, Replaced,
               SaveSetup, SyncFails, CommandEnds, Operator, publish, Save
    <2>2. Forward(dur.bm, dur.bm) /\ Forward(dur.bm, mem.bm)
      BY ForwardOrder, DirectoryTyped DEF Facts, TypeOK, FilesExact
    <2> QED
      BY <2>1, <2>2 DEF MovesForward
  <1> QED
    BY <1>1, AlwaysFacts, PTL DEF Spec, DurableForward

=============================================================================
