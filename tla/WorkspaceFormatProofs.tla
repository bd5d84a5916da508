----------------------- MODULE WorkspaceFormatProofs -----------------------
(***************************************************************************)
(* Proofs about WorkspaceFormat, for every number of processes and of      *)
(* faults.                                                                 *)
(*                                                                         *)
(* FormatInv is inductive.  Its first conjuncts are what matters: one      *)
(* format per volume, and reports that survive a power loss.  They need    *)
(* the other three: what the journal says of the file (JournalExact), what *)
(* a record says of the journal (RecordExact), and what a process between  *)
(* two steps may rely on (PhaseExact).  Each part has a lemma that shows   *)
(* that every action keeps it.                                             *)
(***************************************************************************)
EXTENDS WorkspaceFormat, TLAPS

(* A new volume, and an available one of the older release, satisfy the    *)
(* invariant.                                                              *)
LEMMA InvInit == Init => FormatInv
  <1> SUFFICES ASSUME Init
               PROVE  FormatInv
    OBVIOUS
  <1> USE DEF Init, Both
  <1>1. TypeOK
    <2>1. drift \in BOOLEAN /\ vm \in BOOLEAN /\ use \in BOOLEAN
      BY Zenon
    <2> QED
      BY <2>1, FormatAssumption DEF TypeOK, Pair, JournalStates, PCs
  <1>2. FormattedOnce /\ ReportedDurable
    BY DEF FormattedOnce, ReportedDurable
  <1>3. JournalExact /\ RecordExact
    BY DEF JournalExact, RecordExact
  <1>4. \A p \in Proc : PhaseExact(p)
    BY DEF PhaseExact, Locking, Creating, Failing, PCs
  <1> QED
    BY <1>1, <1>2, <1>3, <1>4 DEF FormatInv

(* Every action keeps the types.                                           *)
LEMMA TypeStep ==
    FormatInv /\ [Next]_vars => TypeOK'
  <1> SUFFICES ASSUME FormatInv, [Next]_vars
               PROVE  TypeOK'
    OBVIOUS
  <1> USE DEF FormatInv, TypeOK, JournalStates, PCs, Pair, Both, Synced,
              Goto, Unlock, Return
  <1>1. ASSUME NEW p \in Proc, loadManagedRecord(p)
       PROVE  TypeOK'
    BY <1>1 DEF loadManagedRecord
  <1>2. ASSUME NEW p \in Proc, AdmitExisting(p)
       PROVE  TypeOK'
    BY <1>2 DEF AdmitExisting, admitVerified, AdmitSync
  <1>3. ASSUME NEW p \in Proc, ReserveName(p)
       PROVE  TypeOK'
    BY <1>3 DEF ReserveName
  <1>4. ASSUME NEW p \in Proc, writeInitialJournal(p)
       PROVE  TypeOK'
    BY <1>4 DEF writeInitialJournal
  <1>5. ASSUME NEW p \in Proc, CreateRaw(p)
       PROVE  TypeOK'
    BY <1>5 DEF CreateRaw
  <1>6. ASSUME NEW p \in Proc, SyncRaw(p)
       PROVE  TypeOK'
    BY <1>6 DEF SyncRaw
  <1>7. ASSUME NEW p \in Proc, FormattingIntent(p)
       PROVE  TypeOK'
    BY <1>7 DEF FormattingIntent
  <1>8. ASSUME NEW p \in Proc, SyncIntent(p)
       PROVE  TypeOK'
    BY <1>8 DEF SyncIntent
  <1>9. ASSUME NEW p \in Proc, FormatAndVerify(p)
       PROVE  TypeOK'
    BY <1>9 DEF FormatAndVerify
  <1>10. ASSUME NEW p \in Proc, VerifyFormat(p)
       PROVE  TypeOK'
    BY <1>10 DEF VerifyFormat
  <1>11. ASSUME NEW p \in Proc, PublishVerified(p)
       PROVE  TypeOK'
    BY <1>11 DEF PublishVerified
  <1>12. ASSUME NEW p \in Proc, SyncVerified(p)
       PROVE  TypeOK'
    BY <1>12 DEF SyncVerified
  <1>13. ASSUME NEW p \in Proc, settleVerifiedJournal(p)
       PROVE  TypeOK'
    BY <1>13 DEF settleVerifiedJournal, admitVerified
  <1>14. ASSUME NEW p \in Proc, SaveCreating(p)
       PROVE  TypeOK'
    BY <1>14 DEF SaveCreating
  <1>15. ASSUME NEW p \in Proc, SyncCreating(p)
       PROVE  TypeOK'
    BY <1>15 DEF SyncCreating
  <1>16. ASSUME NEW p \in Proc, PromoteVerified(p)
       PROVE  TypeOK'
    BY <1>16 DEF PromoteVerified, admitVerified, AdmitSync
  <1>17. ASSUME NEW p \in Proc, syncWorkspaceRecords(p)
       PROVE  TypeOK'
    BY <1>17 DEF syncWorkspaceRecords
  <1>18. ASSUME NEW p \in Proc, writeLegacyBinding(p)
       PROVE  TypeOK'
    BY <1>18 DEF writeLegacyBinding
  <1>19. ASSUME NEW p \in Proc, SyncBinding(p)
       PROVE  TypeOK'
    BY <1>19 DEF SyncBinding
  <1>20. ASSUME NEW p \in Proc, CreateBegin(p)
       PROVE  TypeOK'
    BY <1>20 DEF CreateBegin
  <1>21. ASSUME NEW p \in Proc, BindLegacy(p)
       PROVE  TypeOK'
    BY <1>21 DEF BindLegacy, BindAdmitted, readLegacyBinding
  <1>22. ASSUME NEW p \in Proc, FormatFails(p)
       PROVE  TypeOK'
    <2>1. vm' \in BOOLEAN
      BY <1>22, Zenon DEF FormatFails
    <2> QED
      BY <1>22, <2>1, FormatAssumption DEF FormatFails, Fault
  <1>23. ASSUME NEW p \in Proc, PublicationFails(p)
       PROVE  TypeOK'
    BY <1>23, FormatAssumption DEF PublicationFails, Fault
  <1>24. ASSUME NEW p \in Proc, CommandFails(p)
       PROVE  TypeOK'
    BY <1>24, FormatAssumption DEF CommandFails, Fault
  <1>25. ASSUME NEW p \in Proc, Killed(p)
       PROVE  TypeOK'
    BY <1>25, FormatAssumption DEF Killed, Fault
  <1>26. CASE formatInLinuxGuest
    <2>1. vm' \in BOOLEAN
      BY <1>26, Zenon DEF formatInLinuxGuest
    <2> QED
      BY <1>26, <2>1 DEF formatInLinuxGuest
  <1>27. CASE Launch
    BY <1>27 DEF Launch, admitVerified, AdmitSync
  <1>28. CASE MachineEnds
    <2>1. use' \in BOOLEAN
      BY <1>28, Zenon DEF MachineEnds
    <2> QED
      BY <1>28, <2>1 DEF MachineEnds
  <1>29. CASE Remount
    BY <1>29 DEF Remount
  <1>30. CASE PowerLoss
    <2>1. vm' \in BOOLEAN /\ use' \in BOOLEAN
      BY <1>30, Zenon DEF PowerLoss
    <2> QED
      BY <1>30, <2>1, FormatAssumption DEF PowerLoss, Survives, Fault
  <1>31. CASE UNCHANGED vars
    BY <1>31 DEF vars
  <1> QED
    BY <1>1, <1>2, <1>3, <1>4, <1>5, <1>6, <1>7, <1>8, <1>9, <1>10, <1>11,
       <1>12, <1>13, <1>14, <1>15, <1>16, <1>17, <1>18, <1>19, <1>20, <1>21,
       <1>22, <1>23, <1>24, <1>25, <1>26, <1>27, <1>28, <1>29, <1>30, <1>31
       DEF Next, CommandStep

(* The journal keeps telling the truth about the file: a name that is not  *)
(* durably reserved has no file, a machine formats only under a durable    *)
(* intent, and a verified journal stands on a durable filesystem. Only the *)
(* owner of the storage lock moves it, except for admissions, which sync   *)
(* what is already verified.                                               *)
LEMMA JournalStep ==
    FormatInv /\ [Next]_vars => JournalExact'
  <1> SUFFICES ASSUME FormatInv, [Next]_vars
               PROVE  JournalExact'
    OBVIOUS
  <1> USE DEF FormatInv, TypeOK, JournalStates, PCs, JournalExact,
              RecordExact, PhaseExact, Creating, Locking, Failing, Pair,
              Both,
              Synced, Goto, Unlock, Return
  <1>1. ASSUME NEW p \in Proc, loadManagedRecord(p)
       PROVE  JournalExact'
    BY <1>1 DEF loadManagedRecord
  <1>2. ASSUME NEW p \in Proc, AdmitExisting(p)
       PROVE  JournalExact'
    BY <1>2 DEF AdmitExisting, admitVerified, AdmitSync
  <1>3. ASSUME NEW p \in Proc, ReserveName(p)
       PROVE  JournalExact'
    BY <1>3 DEF ReserveName
  <1>4. ASSUME NEW p \in Proc, writeInitialJournal(p)
       PROVE  JournalExact'
    BY <1>4 DEF writeInitialJournal
  <1>5. ASSUME NEW p \in Proc, CreateRaw(p)
       PROVE  JournalExact'
    BY <1>5 DEF CreateRaw
  <1>6. ASSUME NEW p \in Proc, SyncRaw(p)
       PROVE  JournalExact'
    BY <1>6 DEF SyncRaw
  <1>7. ASSUME NEW p \in Proc, FormattingIntent(p)
       PROVE  JournalExact'
    BY <1>7 DEF FormattingIntent
  <1>8. ASSUME NEW p \in Proc, SyncIntent(p)
       PROVE  JournalExact'
    BY <1>8 DEF SyncIntent
  <1>9. ASSUME NEW p \in Proc, FormatAndVerify(p)
       PROVE  JournalExact'
    BY <1>9 DEF FormatAndVerify
  <1>10. ASSUME NEW p \in Proc, VerifyFormat(p)
       PROVE  JournalExact'
    BY <1>10 DEF VerifyFormat
  <1>11. ASSUME NEW p \in Proc, PublishVerified(p)
       PROVE  JournalExact'
    BY <1>11 DEF PublishVerified
  <1>12. ASSUME NEW p \in Proc, SyncVerified(p)
       PROVE  JournalExact'
    BY <1>12 DEF SyncVerified
  <1>13. ASSUME NEW p \in Proc, settleVerifiedJournal(p)
       PROVE  JournalExact'
    BY <1>13 DEF settleVerifiedJournal, admitVerified
  <1>14. ASSUME NEW p \in Proc, SaveCreating(p)
       PROVE  JournalExact'
    BY <1>14 DEF SaveCreating
  <1>15. ASSUME NEW p \in Proc, SyncCreating(p)
       PROVE  JournalExact'
    BY <1>15 DEF SyncCreating
  <1>16. ASSUME NEW p \in Proc, PromoteVerified(p)
       PROVE  JournalExact'
    BY <1>16 DEF PromoteVerified, admitVerified, AdmitSync
  <1>17. ASSUME NEW p \in Proc, syncWorkspaceRecords(p)
       PROVE  JournalExact'
    BY <1>17 DEF syncWorkspaceRecords
  <1>18. ASSUME NEW p \in Proc, writeLegacyBinding(p)
       PROVE  JournalExact'
    BY <1>18 DEF writeLegacyBinding
  <1>19. ASSUME NEW p \in Proc, SyncBinding(p)
       PROVE  JournalExact'
    BY <1>19 DEF SyncBinding
  <1>20. ASSUME NEW p \in Proc, CreateBegin(p)
       PROVE  JournalExact'
    BY <1>20 DEF CreateBegin
  <1>21. ASSUME NEW p \in Proc, BindLegacy(p)
       PROVE  JournalExact'
    BY <1>21 DEF BindLegacy, BindAdmitted, readLegacyBinding
  <1>22. ASSUME NEW p \in Proc, FormatFails(p)
       PROVE  JournalExact'
    BY <1>22 DEF FormatFails, Fault
  <1>23. ASSUME NEW p \in Proc, PublicationFails(p)
       PROVE  JournalExact'
    BY <1>23 DEF PublicationFails, Fault
  <1>24. ASSUME NEW p \in Proc, CommandFails(p)
       PROVE  JournalExact'
    BY <1>24 DEF CommandFails, Fault
  <1>25. ASSUME NEW p \in Proc, Killed(p)
       PROVE  JournalExact'
    BY <1>25 DEF Killed, Fault
  <1>26. CASE formatInLinuxGuest
    BY <1>26 DEF formatInLinuxGuest
  <1>27. CASE Launch
    BY <1>27 DEF Launch, admitVerified, AdmitSync
  <1>28. CASE MachineEnds
    BY <1>28 DEF MachineEnds
  <1>29. CASE Remount
    BY <1>29 DEF Remount
  <1>30. CASE PowerLoss
    BY <1>30 DEF PowerLoss, Survives, Fault
  <1>31. CASE UNCHANGED vars
    <2> HIDE DEF FormatInv, FormattedOnce, ReportedDurable, PhaseExact,
                 JournalExact, RecordExact, TypeOK, Both
    <2>1. JournalExact
      BY DEF FormatInv
    <2> QED
      BY <1>31, <2>1
         DEF vars, FormattedOnce, ReportedDurable, JournalExact, RecordExact
  <1> QED
    BY <1>1, <1>2, <1>3, <1>4, <1>5, <1>6, <1>7, <1>8, <1>9, <1>10, <1>11,
       <1>12, <1>13, <1>14, <1>15, <1>16, <1>17, <1>18, <1>19, <1>20, <1>21,
       <1>22, <1>23, <1>24, <1>25, <1>26, <1>27, <1>28, <1>29, <1>30, <1>31
       DEF Next, CommandStep

(* A record, and a running machine, stand on a verified and durable        *)
(* journal, and no power loss takes a record or a binding back to an       *)
(* earlier state than one that was synced.                                 *)
LEMMA RecordStep ==
    FormatInv /\ [Next]_vars => RecordExact'
  <1> SUFFICES ASSUME FormatInv, [Next]_vars
               PROVE  RecordExact'
    OBVIOUS
  <1> USE DEF FormatInv, TypeOK, JournalStates, PCs, JournalExact,
              RecordExact, PhaseExact, Creating, Locking, Failing, Pair,
              Both,
              Synced, Goto, Unlock, Return
  <1>1. ASSUME NEW p \in Proc, loadManagedRecord(p)
       PROVE  RecordExact'
    BY <1>1 DEF loadManagedRecord
  <1>2. ASSUME NEW p \in Proc, AdmitExisting(p)
       PROVE  RecordExact'
    BY <1>2 DEF AdmitExisting, admitVerified, AdmitSync
  <1>3. ASSUME NEW p \in Proc, ReserveName(p)
       PROVE  RecordExact'
    BY <1>3 DEF ReserveName
  <1>4. ASSUME NEW p \in Proc, writeInitialJournal(p)
       PROVE  RecordExact'
    BY <1>4 DEF writeInitialJournal
  <1>5. ASSUME NEW p \in Proc, CreateRaw(p)
       PROVE  RecordExact'
    BY <1>5 DEF CreateRaw
  <1>6. ASSUME NEW p \in Proc, SyncRaw(p)
       PROVE  RecordExact'
    BY <1>6 DEF SyncRaw
  <1>7. ASSUME NEW p \in Proc, FormattingIntent(p)
       PROVE  RecordExact'
    BY <1>7 DEF FormattingIntent
  <1>8. ASSUME NEW p \in Proc, SyncIntent(p)
       PROVE  RecordExact'
    BY <1>8 DEF SyncIntent
  <1>9. ASSUME NEW p \in Proc, FormatAndVerify(p)
       PROVE  RecordExact'
    BY <1>9 DEF FormatAndVerify
  <1>10. ASSUME NEW p \in Proc, VerifyFormat(p)
       PROVE  RecordExact'
    BY <1>10 DEF VerifyFormat
  <1>11. ASSUME NEW p \in Proc, PublishVerified(p)
       PROVE  RecordExact'
    BY <1>11 DEF PublishVerified
  <1>12. ASSUME NEW p \in Proc, SyncVerified(p)
       PROVE  RecordExact'
    BY <1>12 DEF SyncVerified
  <1>13. ASSUME NEW p \in Proc, settleVerifiedJournal(p)
       PROVE  RecordExact'
    BY <1>13 DEF settleVerifiedJournal, admitVerified
  <1>14. ASSUME NEW p \in Proc, SaveCreating(p)
       PROVE  RecordExact'
    BY <1>14 DEF SaveCreating
  <1>15. ASSUME NEW p \in Proc, SyncCreating(p)
       PROVE  RecordExact'
    BY <1>15 DEF SyncCreating
  <1>16. ASSUME NEW p \in Proc, PromoteVerified(p)
       PROVE  RecordExact'
    BY <1>16 DEF PromoteVerified, admitVerified, AdmitSync
  <1>17. ASSUME NEW p \in Proc, syncWorkspaceRecords(p)
       PROVE  RecordExact'
    BY <1>17 DEF syncWorkspaceRecords
  <1>18. ASSUME NEW p \in Proc, writeLegacyBinding(p)
       PROVE  RecordExact'
    BY <1>18 DEF writeLegacyBinding
  <1>19. ASSUME NEW p \in Proc, SyncBinding(p)
       PROVE  RecordExact'
    BY <1>19 DEF SyncBinding
  <1>20. ASSUME NEW p \in Proc, CreateBegin(p)
       PROVE  RecordExact'
    BY <1>20 DEF CreateBegin
  <1>21. ASSUME NEW p \in Proc, BindLegacy(p)
       PROVE  RecordExact'
    BY <1>21 DEF BindLegacy, BindAdmitted, readLegacyBinding
  <1>22. ASSUME NEW p \in Proc, FormatFails(p)
       PROVE  RecordExact'
    BY <1>22 DEF FormatFails, Fault
  <1>23. ASSUME NEW p \in Proc, PublicationFails(p)
       PROVE  RecordExact'
    BY <1>23 DEF PublicationFails, Fault
  <1>24. ASSUME NEW p \in Proc, CommandFails(p)
       PROVE  RecordExact'
    BY <1>24 DEF CommandFails, Fault
  <1>25. ASSUME NEW p \in Proc, Killed(p)
       PROVE  RecordExact'
    BY <1>25 DEF Killed, Fault
  <1>26. CASE formatInLinuxGuest
    BY <1>26 DEF formatInLinuxGuest
  <1>27. CASE Launch
    BY <1>27 DEF Launch, admitVerified, AdmitSync
  <1>28. CASE MachineEnds
    BY <1>28 DEF MachineEnds
  <1>29. CASE Remount
    BY <1>29 DEF Remount
  <1>30. CASE PowerLoss
    <2>1. jr = Both("verified") => jr' = Both("verified")
      BY <1>30 DEF PowerLoss, Survives
    <2>2. rcd = Both("absent") => rcd' = Both("absent")
      BY <1>30 DEF PowerLoss, Survives
    <2>3. ~use'
      BY <1>30 DEF PowerLoss
    <2>4. /\ rcd'.mem = rcd'.dur
          /\ bind'.mem = bind'.dur
      BY <1>30 DEF PowerLoss, Survives
    <2>5. rcd' # Both("absent") \/ use' => jr' = Both("verified")
      BY <2>1, <2>2, <2>3
    <2> HIDE DEF FormatInv, TypeOK, PhaseExact, JournalExact
    <2> QED
      BY <2>4, <2>5
  <1>31. CASE UNCHANGED vars
    <2> HIDE DEF FormatInv, FormattedOnce, ReportedDurable, PhaseExact,
                 JournalExact, RecordExact, TypeOK, Both
    <2>1. RecordExact
      BY DEF FormatInv
    <2> QED
      BY <1>31, <2>1
         DEF vars, FormattedOnce, ReportedDurable, JournalExact, RecordExact
  <1> QED
    BY <1>1, <1>2, <1>3, <1>4, <1>5, <1>6, <1>7, <1>8, <1>9, <1>10, <1>11,
       <1>12, <1>13, <1>14, <1>15, <1>16, <1>17, <1>18, <1>19, <1>20, <1>21,
       <1>22, <1>23, <1>24, <1>25, <1>26, <1>27, <1>28, <1>29, <1>30, <1>31
       DEF Next, CommandStep

(* No second mkfs, and no power loss takes back what was reported: only a  *)
(* step that holds the lock starts the format, with no format before it,   *)
(* and a report follows the sync of what it reports.                       *)
LEMMA OnceStep ==
    FormatInv /\ [Next]_vars => (FormattedOnce /\ ReportedDurable)'
  <1> SUFFICES ASSUME FormatInv, [Next]_vars
               PROVE  (FormattedOnce /\ ReportedDurable)'
    OBVIOUS
  <1> USE DEF FormattedOnce, ReportedDurable, FormatInv, TypeOK,
              JournalStates, PCs, JournalExact,
              RecordExact, PhaseExact, Creating, Locking, Failing, Pair,
              Both,
              Synced, Goto, Unlock, Return
  <1>1. ASSUME NEW p \in Proc, loadManagedRecord(p)
       PROVE  (FormattedOnce /\ ReportedDurable)'
    BY <1>1 DEF loadManagedRecord
  <1>2. ASSUME NEW p \in Proc, AdmitExisting(p)
       PROVE  (FormattedOnce /\ ReportedDurable)'
    BY <1>2 DEF AdmitExisting, admitVerified, AdmitSync
  <1>3. ASSUME NEW p \in Proc, ReserveName(p)
       PROVE  (FormattedOnce /\ ReportedDurable)'
    BY <1>3 DEF ReserveName
  <1>4. ASSUME NEW p \in Proc, writeInitialJournal(p)
       PROVE  (FormattedOnce /\ ReportedDurable)'
    BY <1>4 DEF writeInitialJournal
  <1>5. ASSUME NEW p \in Proc, CreateRaw(p)
       PROVE  (FormattedOnce /\ ReportedDurable)'
    BY <1>5 DEF CreateRaw
  <1>6. ASSUME NEW p \in Proc, SyncRaw(p)
       PROVE  (FormattedOnce /\ ReportedDurable)'
    BY <1>6 DEF SyncRaw
  <1>7. ASSUME NEW p \in Proc, FormattingIntent(p)
       PROVE  (FormattedOnce /\ ReportedDurable)'
    BY <1>7 DEF FormattingIntent
  <1>8. ASSUME NEW p \in Proc, SyncIntent(p)
       PROVE  (FormattedOnce /\ ReportedDurable)'
    BY <1>8 DEF SyncIntent
  <1>9. ASSUME NEW p \in Proc, FormatAndVerify(p)
       PROVE  (FormattedOnce /\ ReportedDurable)'
    BY <1>9 DEF FormatAndVerify
  <1>10. ASSUME NEW p \in Proc, VerifyFormat(p)
       PROVE  (FormattedOnce /\ ReportedDurable)'
    BY <1>10 DEF VerifyFormat
  <1>11. ASSUME NEW p \in Proc, PublishVerified(p)
       PROVE  (FormattedOnce /\ ReportedDurable)'
    BY <1>11 DEF PublishVerified
  <1>12. ASSUME NEW p \in Proc, SyncVerified(p)
       PROVE  (FormattedOnce /\ ReportedDurable)'
    BY <1>12 DEF SyncVerified
  <1>13. ASSUME NEW p \in Proc, settleVerifiedJournal(p)
       PROVE  (FormattedOnce /\ ReportedDurable)'
    BY <1>13 DEF settleVerifiedJournal, admitVerified
  <1>14. ASSUME NEW p \in Proc, SaveCreating(p)
       PROVE  (FormattedOnce /\ ReportedDurable)'
    BY <1>14 DEF SaveCreating
  <1>15. ASSUME NEW p \in Proc, SyncCreating(p)
       PROVE  (FormattedOnce /\ ReportedDurable)'
    BY <1>15 DEF SyncCreating
  <1>16. ASSUME NEW p \in Proc, PromoteVerified(p)
       PROVE  (FormattedOnce /\ ReportedDurable)'
    BY <1>16 DEF PromoteVerified, admitVerified, AdmitSync
  <1>17. ASSUME NEW p \in Proc, syncWorkspaceRecords(p)
       PROVE  (FormattedOnce /\ ReportedDurable)'
    BY <1>17 DEF syncWorkspaceRecords
  <1>18. ASSUME NEW p \in Proc, writeLegacyBinding(p)
       PROVE  (FormattedOnce /\ ReportedDurable)'
    BY <1>18 DEF writeLegacyBinding
  <1>19. ASSUME NEW p \in Proc, SyncBinding(p)
       PROVE  (FormattedOnce /\ ReportedDurable)'
    BY <1>19 DEF SyncBinding
  <1>20. ASSUME NEW p \in Proc, CreateBegin(p)
       PROVE  (FormattedOnce /\ ReportedDurable)'
    BY <1>20 DEF CreateBegin
  <1>21. ASSUME NEW p \in Proc, BindLegacy(p)
       PROVE  (FormattedOnce /\ ReportedDurable)'
    BY <1>21 DEF BindLegacy, BindAdmitted, readLegacyBinding
  <1>22. ASSUME NEW p \in Proc, FormatFails(p)
       PROVE  (FormattedOnce /\ ReportedDurable)'
    BY <1>22 DEF FormatFails, Fault
  <1>23. ASSUME NEW p \in Proc, PublicationFails(p)
       PROVE  (FormattedOnce /\ ReportedDurable)'
    BY <1>23 DEF PublicationFails, Fault
  <1>24. ASSUME NEW p \in Proc, CommandFails(p)
       PROVE  (FormattedOnce /\ ReportedDurable)'
    BY <1>24 DEF CommandFails, Fault
  <1>25. ASSUME NEW p \in Proc, Killed(p)
       PROVE  (FormattedOnce /\ ReportedDurable)'
    BY <1>25 DEF Killed, Fault
  <1>26. CASE formatInLinuxGuest
    BY <1>26 DEF formatInLinuxGuest
  <1>27. CASE Launch
    BY <1>27 DEF Launch, admitVerified, AdmitSync
  <1>28. CASE MachineEnds
    BY <1>28 DEF MachineEnds
  <1>29. CASE Remount
    BY <1>29 DEF Remount
  <1>30. CASE PowerLoss
    BY <1>30 DEF PowerLoss, Survives, Fault
  <1>31. CASE UNCHANGED vars
    <2> HIDE DEF FormatInv, FormattedOnce, ReportedDurable, PhaseExact,
                 JournalExact, RecordExact, TypeOK, Both
    <2>1. (FormattedOnce /\ ReportedDurable)
      BY DEF FormatInv
    <2> QED
      BY <1>31, <2>1
         DEF vars, FormattedOnce, ReportedDurable, JournalExact, RecordExact
  <1> QED
    BY <1>1, <1>2, <1>3, <1>4, <1>5, <1>6, <1>7, <1>8, <1>9, <1>10, <1>11,
       <1>12, <1>13, <1>14, <1>15, <1>16, <1>17, <1>18, <1>19, <1>20, <1>21,
       <1>22, <1>23, <1>24, <1>25, <1>26, <1>27, <1>28, <1>29, <1>30, <1>31
       DEF Next, CommandStep

(* What a process relies on between two steps holds: its own steps         *)
(* establish it, and a step of another process cannot disturb it, because  *)
(* that one either holds the storage lock or only syncs a verified         *)
(* journal.                                                                *)
LEMMA PhaseStep ==
    ASSUME FormatInv, NEW q \in Proc, [Next]_vars
    PROVE  PhaseExact(q)'
  <1> USE DEF FormatInv, TypeOK, JournalStates, PCs, JournalExact,
              RecordExact, PhaseExact, Creating, Locking, Failing, Pair,
              Both,
              Synced, Goto, Unlock, Return
  <1>1. ASSUME NEW p \in Proc, loadManagedRecord(p)
       PROVE  PhaseExact(q)'
    BY <1>1 DEF loadManagedRecord
  <1>2. ASSUME NEW p \in Proc, AdmitExisting(p)
       PROVE  PhaseExact(q)'
    BY <1>2 DEF AdmitExisting, admitVerified, AdmitSync
  <1>3. ASSUME NEW p \in Proc, ReserveName(p)
       PROVE  PhaseExact(q)'
    BY <1>3 DEF ReserveName
  <1>4. ASSUME NEW p \in Proc, writeInitialJournal(p)
       PROVE  PhaseExact(q)'
    BY <1>4 DEF writeInitialJournal
  <1>5. ASSUME NEW p \in Proc, CreateRaw(p)
       PROVE  PhaseExact(q)'
    BY <1>5 DEF CreateRaw
  <1>6. ASSUME NEW p \in Proc, SyncRaw(p)
       PROVE  PhaseExact(q)'
    BY <1>6 DEF SyncRaw
  <1>7. ASSUME NEW p \in Proc, FormattingIntent(p)
       PROVE  PhaseExact(q)'
    BY <1>7 DEF FormattingIntent
  <1>8. ASSUME NEW p \in Proc, SyncIntent(p)
       PROVE  PhaseExact(q)'
    BY <1>8 DEF SyncIntent
  <1>9. ASSUME NEW p \in Proc, FormatAndVerify(p)
       PROVE  PhaseExact(q)'
    BY <1>9 DEF FormatAndVerify
  <1>10. ASSUME NEW p \in Proc, VerifyFormat(p)
       PROVE  PhaseExact(q)'
    BY <1>10 DEF VerifyFormat
  <1>11. ASSUME NEW p \in Proc, PublishVerified(p)
       PROVE  PhaseExact(q)'
    BY <1>11 DEF PublishVerified
  <1>12. ASSUME NEW p \in Proc, SyncVerified(p)
       PROVE  PhaseExact(q)'
    BY <1>12 DEF SyncVerified
  <1>13. ASSUME NEW p \in Proc, settleVerifiedJournal(p)
       PROVE  PhaseExact(q)'
    BY <1>13 DEF settleVerifiedJournal, admitVerified
  <1>14. ASSUME NEW p \in Proc, SaveCreating(p)
       PROVE  PhaseExact(q)'
    BY <1>14, FormatAssumption DEF SaveCreating
  <1>15. ASSUME NEW p \in Proc, SyncCreating(p)
       PROVE  PhaseExact(q)'
    BY <1>15 DEF SyncCreating
  <1>16. ASSUME NEW p \in Proc, PromoteVerified(p)
       PROVE  PhaseExact(q)'
    BY <1>16, FormatAssumption DEF PromoteVerified, admitVerified, AdmitSync
  <1>17. ASSUME NEW p \in Proc, syncWorkspaceRecords(p)
       PROVE  PhaseExact(q)'
    BY <1>17 DEF syncWorkspaceRecords
  <1>18. ASSUME NEW p \in Proc, writeLegacyBinding(p)
       PROVE  PhaseExact(q)'
    BY <1>18 DEF writeLegacyBinding
  <1>19. ASSUME NEW p \in Proc, SyncBinding(p)
       PROVE  PhaseExact(q)'
    BY <1>19 DEF SyncBinding
  <1>20. ASSUME NEW p \in Proc, CreateBegin(p)
       PROVE  PhaseExact(q)'
    BY <1>20 DEF CreateBegin
  <1>21. ASSUME NEW p \in Proc, BindLegacy(p)
       PROVE  PhaseExact(q)'
    BY <1>21, FormatAssumption
       DEF BindLegacy, BindAdmitted, readLegacyBinding
  <1>22. ASSUME NEW p \in Proc, FormatFails(p)
       PROVE  PhaseExact(q)'
    BY <1>22 DEF FormatFails, Fault
  <1>23. ASSUME NEW p \in Proc, PublicationFails(p)
       PROVE  PhaseExact(q)'
    BY <1>23 DEF PublicationFails, Fault
  <1>24. ASSUME NEW p \in Proc, CommandFails(p)
       PROVE  PhaseExact(q)'
    BY <1>24 DEF CommandFails, Fault
  <1>25. ASSUME NEW p \in Proc, Killed(p)
       PROVE  PhaseExact(q)'
    BY <1>25 DEF Killed, Fault
  <1>26. CASE formatInLinuxGuest
    BY <1>26 DEF formatInLinuxGuest
  <1>27. CASE Launch
    BY <1>27 DEF Launch, admitVerified, AdmitSync
  <1>28. CASE MachineEnds
    BY <1>28 DEF MachineEnds
  <1>29. CASE Remount
    BY <1>29 DEF Remount
  <1>30. CASE PowerLoss
    BY <1>30 DEF PowerLoss, Survives, Fault
  <1>31. CASE UNCHANGED vars
    BY <1>31 DEF vars
  <1> QED
    BY <1>1, <1>2, <1>3, <1>4, <1>5, <1>6, <1>7, <1>8, <1>9, <1>10, <1>11,
       <1>12, <1>13, <1>14, <1>15, <1>16, <1>17, <1>18, <1>19, <1>20, <1>21,
       <1>22, <1>23, <1>24, <1>25, <1>26, <1>27, <1>28, <1>29, <1>30, <1>31
       DEF Next, CommandStep

-----------------------------------------------------------------------------
(* A volume is formatted at most once, what was reported survives a power  *)
(* loss, and every step of Create finds the journal, the file and the      *)
(* record it was planned for, whoever fails, is killed or races.           *)
THEOREM FormatInvariance == Spec => []FormatInv
  <1>1. FormatInv /\ [Next]_vars => FormatInv'
    BY TypeStep, JournalStep, RecordStep, OnceStep, PhaseStep DEF FormatInv
  <1> QED
    BY InvInit, <1>1, PTL DEF Spec

(* Whatever a process can attach, or has attached, is completely formatted *)
(* with journal and bytes durable, and no formatter writes to it.          *)
THEOREM Qualified == Spec => []AvailableQualified
  <1>1. FormatInv => AvailableQualified
    BY DEF FormatInv, RecordExact, JournalExact, AvailableQualified, Both,
           TypeOK, Pair
  <1> QED
    BY <1>1, FormatInvariance, PTL

(* No failure, recovery or retry takes a durable verified journal back:    *)
(* its only writers are past it or refused.                                *)
THEOREM VerifiedIsFinal == Spec => VerifiedFinal
  <1>1. ASSUME FormatInv, [Next]_vars, jr.dur = "verified"
        PROVE  jr'.dur = "verified" /\ jr'.mem = "verified"
    <2>1. jr = Both("verified")
      BY <1>1 DEF FormatInv, JournalExact, TypeOK, Pair, Both
    <2> QED
      <3>1. jr' = Both("verified")
        <4>1. CASE jr' = jr
          BY <2>1, <4>1
        <4>2. ASSUME NEW p \in Proc, CommandStep(p) \/ BindLegacy(p)
              PROVE  jr' = Both("verified")
          BY <1>1, <2>1, <4>2
             DEF FormatInv, PhaseExact, Both, Synced, AdmitSync, CommandStep,
                 loadManagedRecord, AdmitExisting, ReserveName,
                 writeInitialJournal, CreateRaw, SyncRaw, FormattingIntent,
                 SyncIntent, FormatAndVerify, VerifyFormat, PublishVerified,
                 SyncVerified, settleVerifiedJournal, SaveCreating,
                 SyncCreating, PromoteVerified, syncWorkspaceRecords,
                 writeLegacyBinding, SyncBinding, BindLegacy
        <4>3. ASSUME NEW p \in Proc, FormatFails(p)
              PROVE  jr' = Both("verified")
          BY <1>1, <2>1, <4>3
             DEF FormatInv, PhaseExact, Both, FormatFails, Failing,
                 JournalExact
        <4>4. CASE Launch \/ PowerLoss
          BY <2>1, <4>4
             DEF Launch, AdmitSync, Synced, PowerLoss, Survives, Both
        <4> QED
          BY <1>1, <4>1, <4>2, <4>3, <4>4
             DEF Next, CreateBegin, formatInLinuxGuest, MachineEnds, Remount,
                 PublicationFails, CommandFails, Killed, vars
      <3> QED
        BY <3>1 DEF Both
  <1>2. FormatInv /\ [Next]_vars =>
          [jr.dur = "verified" => jr'.dur = "verified" /\ jr'.mem = "verified"]_vars
    BY <1>1
  <1> QED
    BY <1>2, FormatInvariance, PTL DEF Spec, VerifiedFinal
=============================================================================
