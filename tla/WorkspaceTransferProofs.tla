---------------------- MODULE WorkspaceTransferProofs -----------------------
(***************************************************************************)
(* What the export and the import of a workspace promise holds for any     *)
(* number of processes, transactions, directories, destinations,           *)
(* generations and faults.                                                 *)
(*                                                                         *)
(* The properties of the run are inductive together with the parts of      *)
(* TransferInv. PendingReleaseExact and PublishedExact rest on CopyExact   *)
(* (a claimed snapshot is the journal's, and is the volume's content while *)
(* the marker is durable), which in turn needs the locks to exclude the    *)
(* machine and every other command (LockExact) and what a command has      *)
(* established to stay true until its next step (CommandExact). That there *)
(* is one inspector needs SpoolExact: only the command that owns a spool   *)
(* ever removes it.                                                        *)
(***************************************************************************)
EXTENDS WorkspaceImport, TLAPS

-----------------------------------------------------------------------------
(* What the helpers of the model do.                                       *)

(* A command that moves on keeps its transaction and what it saw.          *)
LEMMA GotoEffect ==
    ASSUME TypeOK, NEW p \in Proc, NEW l \in PCs, Goto(p, l)
    PROVE  /\ op' \in [Proc -> Command]
           /\ op'[p].pc = l /\ op'[p].tx = op[p].tx
           /\ op'[p].saw = op[p].saw /\ op'[p].first = op[p].first
           /\ \A q \in Proc : q # p => op'[q] = op[q]
  <1>1. op[p] \in Command /\ op' = [op EXCEPT ![p] = [op[p] EXCEPT !.pc = l]]
    BY DEF TypeOK, Goto
  <1>2. [op[p] EXCEPT !.pc = l] \in Command
    BY <1>1 DEF Command
  <1> QED
    BY <1>1, <1>2 DEF TypeOK, Command

(* A command that returns is idle.                                         *)
LEMMA ReturnEffect ==
    ASSUME TypeOK, NEW p \in Proc, Return(p)
    PROVE  /\ op' \in [Proc -> Command]
           /\ op'[p].pc = "idle"
           /\ \A q \in Proc : q # p => op'[q] = op[q]
  <1>1. Idle \in Command /\ Idle.pc = "idle"
    BY DEF Idle, Command, PCs
  <1> QED
    BY <1>1 DEF Return, TypeOK

(* A journal in its next phase keeps parent, selection and snapshot.       *)
LEMMA PhaseEffect ==
    ASSUME NEW j \in Journal, NEW ph \in Phases, NEW k, k = [j EXCEPT !.phase = ph]
    PROVE  /\ k \in Journal /\ k.phase = ph /\ k.snap = j.snap
           /\ k.parent = j.parent /\ k.sel = j.sel
  BY DEF Journal

(* The processes are not the names of the other lock holders.              *)
LEMMA HolderNames ==
    ASSUME NEW p \in Proc
    PROVE  p # "runtime" /\ p # "client" /\ p # None /\ None # "runtime"
  BY ExportAssumption

-----------------------------------------------------------------------------
(* Which steps write which variable.                                       *)

LEMMA VolFrame ==
    [Next]_vars =>
        \/ UNCHANGED vol
        \/ \E p \in Proc : BeginExportSnapshot(p) \/ CreateFinish(p)
              \/ RecoverClear(p) \/ RecoverReady(p)
        \/ ReserveUse \/ ReleaseUseAfterObservedStop \/ Attach \/ Detach
  BY ZenonT(90)
     DEF Next, ExportNext, CommandStep, FaultStep, SessionStep, CreateRead,
         CreateJournal, CreateRefused, MakeDirectory, CopyOpen,
         copyExportSnapshot, AdvanceReady, ResumeBegin, RecoverLock,
         RecoverSettled, removeExactPartialSnapshot, RecoverAbort,
         RecoverAborted, RecoverRefused, resumeSelectedWorkspace,
         buildAdmittedExportInspectorBundle, captureBoundExportInspector,
         InspectorStopped, InspectorCancelled, InspectorStopUnproven,
         PublishBegin, Receive, ReceiveTerminal, PublishFinish, Fail, Crash,
         HelperEnds, RuntimeEnds, GuestStep, CaptureSelectedSource,
         BeginImport, TransferLock, TransferMark, TransferAfter, ClientLost,
         OwnerBegin, OwnerUpload, OwnerReadback, OwnerFails,
         VerifyStoppedImport, MachineEnds, GuestWrite, RecoverReturn,
         finishExportSnapshotPending, saveRecordTransition, exportVars,
         importVars, vars

LEMMA RunFrame ==
    [Next]_vars =>
        \/ UNCHANGED run
        \/ ReserveUse \/ RuntimeEnds
  BY ZenonT(90)
     DEF Next, ExportNext, CommandStep, FaultStep, SessionStep, CreateRead,
         CreateJournal, CreateRefused, BeginExportSnapshot, MakeDirectory,
         CopyOpen, copyExportSnapshot, AdvanceReady, CreateFinish,
         ResumeBegin, RecoverLock, RecoverSettled,
         removeExactPartialSnapshot, RecoverAbort, RecoverAborted,
         RecoverClear, RecoverReady, RecoverRefused, resumeSelectedWorkspace,
         buildAdmittedExportInspectorBundle, captureBoundExportInspector,
         InspectorStopped, InspectorCancelled, InspectorStopUnproven,
         PublishBegin, Receive, ReceiveTerminal, PublishFinish, Fail, Crash,
         HelperEnds, ReleaseUseAfterObservedStop, Attach, Detach, GuestStep,
         CaptureSelectedSource, BeginImport, TransferLock, TransferMark,
         TransferAfter, ClientLost, OwnerBegin, OwnerUpload, OwnerReadback,
         OwnerFails, VerifyStoppedImport, MachineEnds, GuestWrite,
         RecoverReturn, finishExportSnapshotPending, saveRecordTransition,
         exportVars, importVars, vars

LEMMA DiskFrame ==
    [Next]_vars =>
        \/ UNCHANGED disk
        \/ ReserveUse \/ GuestStep \/ RuntimeEnds \/ OwnerBegin
           \/ OwnerUpload
  BY ZenonT(90)
     DEF Next, ExportNext, CommandStep, FaultStep, SessionStep, CreateRead,
         CreateJournal, CreateRefused, BeginExportSnapshot, MakeDirectory,
         CopyOpen, copyExportSnapshot, AdvanceReady, CreateFinish,
         ResumeBegin, RecoverLock, RecoverSettled,
         removeExactPartialSnapshot, RecoverAbort, RecoverAborted,
         RecoverClear, RecoverReady, RecoverRefused, resumeSelectedWorkspace,
         buildAdmittedExportInspectorBundle, captureBoundExportInspector,
         InspectorStopped, InspectorCancelled, InspectorStopUnproven,
         PublishBegin, Receive, ReceiveTerminal, PublishFinish, Fail, Crash,
         HelperEnds, ReleaseUseAfterObservedStop, Attach, Detach,
         CaptureSelectedSource, BeginImport, TransferLock, TransferMark,
         TransferAfter, ClientLost, OwnerReadback, OwnerFails,
         VerifyStoppedImport, MachineEnds, GuestWrite, RecoverReturn,
         finishExportSnapshotPending, saveRecordTransition, exportVars,
         importVars, vars

LEMMA JrFrame ==
    [Next]_vars =>
        \/ UNCHANGED jr
        \/ \E p \in Proc, t \in Export, d \in Parent, s \in Dir : 
              CreateJournal(p, t, d, s)
        \/ \E p \in Proc : AdvanceReady(p) \/ RecoverAbort(p)
              \/ PublishBegin(p) \/ PublishFinish(p)
  BY ZenonT(90)
     DEF Next, ExportNext, CommandStep, FaultStep, SessionStep, CreateRead,
         CreateRefused, BeginExportSnapshot, MakeDirectory, CopyOpen,
         copyExportSnapshot, CreateFinish, ResumeBegin, RecoverLock,
         RecoverSettled, removeExactPartialSnapshot, RecoverAborted,
         RecoverClear, RecoverReady, RecoverRefused, resumeSelectedWorkspace,
         buildAdmittedExportInspectorBundle, captureBoundExportInspector,
         InspectorStopped, InspectorCancelled, InspectorStopUnproven,
         Receive, ReceiveTerminal, Fail, Crash, HelperEnds, ReserveUse,
         ReleaseUseAfterObservedStop, Attach, Detach, RuntimeEnds, GuestStep,
         CaptureSelectedSource, BeginImport, TransferLock, TransferMark,
         TransferAfter, ClientLost, OwnerBegin, OwnerUpload, OwnerReadback,
         OwnerFails, VerifyStoppedImport, MachineEnds, GuestWrite,
         RecoverReturn, finishExportSnapshotPending, saveRecordTransition,
         exportVars, importVars, vars

LEMMA SnapFrame ==
    [Next]_vars =>
        \/ UNCHANGED snap
        \/ \E p \in Proc : MakeDirectory(p) \/ CopyOpen(p)
              \/ copyExportSnapshot(p) \/ removeExactPartialSnapshot(p)
  BY ZenonT(90)
     DEF Next, ExportNext, CommandStep, FaultStep, SessionStep, CreateRead,
         CreateJournal, CreateRefused, BeginExportSnapshot, AdvanceReady,
         CreateFinish, ResumeBegin, RecoverLock, RecoverSettled,
         RecoverAbort, RecoverAborted, RecoverClear, RecoverReady,
         RecoverRefused, resumeSelectedWorkspace,
         buildAdmittedExportInspectorBundle, captureBoundExportInspector,
         InspectorStopped, InspectorCancelled, InspectorStopUnproven,
         PublishBegin, Receive, ReceiveTerminal, PublishFinish, Fail, Crash,
         HelperEnds, ReserveUse, ReleaseUseAfterObservedStop, Attach, Detach,
         RuntimeEnds, GuestStep, CaptureSelectedSource, BeginImport,
         TransferLock, TransferMark, TransferAfter, ClientLost, OwnerBegin,
         OwnerUpload, OwnerReadback, OwnerFails, VerifyStoppedImport,
         MachineEnds, GuestWrite, RecoverReturn, finishExportSnapshotPending,
         saveRecordTransition, exportVars, importVars, vars

LEMMA SpoolFrame ==
    [Next]_vars =>
        \/ UNCHANGED spool
        \/ \E p \in Proc : captureBoundExportInspector(p)
              \/ InspectorStopped(p) \/ InspectorCancelled(p)
              \/ PublishBegin(p) \/ ReceiveTerminal(p) \/ PublishFinish(p)
              \/ Fail(p)
  BY ZenonT(90)
     DEF Next, ExportNext, CommandStep, FaultStep, SessionStep, CreateRead,
         CreateJournal, CreateRefused, BeginExportSnapshot, MakeDirectory,
         CopyOpen, copyExportSnapshot, AdvanceReady, CreateFinish,
         ResumeBegin, RecoverLock, RecoverSettled,
         removeExactPartialSnapshot, RecoverAbort, RecoverAborted,
         RecoverClear, RecoverReady, RecoverRefused, resumeSelectedWorkspace,
         buildAdmittedExportInspectorBundle, InspectorStopUnproven, Receive,
         Crash, HelperEnds, ReserveUse, ReleaseUseAfterObservedStop, Attach,
         Detach, RuntimeEnds, GuestStep, CaptureSelectedSource, BeginImport,
         TransferLock, TransferMark, TransferAfter, ClientLost, OwnerBegin,
         OwnerUpload, OwnerReadback, OwnerFails, VerifyStoppedImport,
         MachineEnds, GuestWrite, RecoverReturn, finishExportSnapshotPending,
         saveRecordTransition, exportVars, importVars, vars

LEMMA DestFrame ==
    [Next]_vars =>
        \/ UNCHANGED dest
        \/ \E p \in Proc : Receive(p) \/ ReceiveTerminal(p) \/ Fail(p)
  BY ZenonT(90)
     DEF Next, ExportNext, CommandStep, FaultStep, SessionStep, CreateRead,
         CreateJournal, CreateRefused, BeginExportSnapshot, MakeDirectory,
         CopyOpen, copyExportSnapshot, AdvanceReady, CreateFinish,
         ResumeBegin, RecoverLock, RecoverSettled,
         removeExactPartialSnapshot, RecoverAbort, RecoverAborted,
         RecoverClear, RecoverReady, RecoverRefused, resumeSelectedWorkspace,
         buildAdmittedExportInspectorBundle, captureBoundExportInspector,
         InspectorStopped, InspectorCancelled, InspectorStopUnproven,
         PublishBegin, PublishFinish, Crash, HelperEnds, ReserveUse,
         ReleaseUseAfterObservedStop, Attach, Detach, RuntimeEnds, GuestStep,
         CaptureSelectedSource, BeginImport, TransferLock, TransferMark,
         TransferAfter, ClientLost, OwnerBegin, OwnerUpload, OwnerReadback,
         OwnerFails, VerifyStoppedImport, MachineEnds, GuestWrite,
         RecoverReturn, finishExportSnapshotPending, saveRecordTransition,
         exportVars, importVars, vars

LEMMA HelperFrame ==
    [Next]_vars =>
        \/ UNCHANGED helper
        \/ \E p \in Proc : captureBoundExportInspector(p)
              \/ InspectorStopped(p) \/ InspectorCancelled(p)
        \/ \E t \in Export : HelperEnds(t)
  BY ZenonT(90)
     DEF Next, ExportNext, CommandStep, FaultStep, SessionStep, CreateRead,
         CreateJournal, CreateRefused, BeginExportSnapshot, MakeDirectory,
         CopyOpen, copyExportSnapshot, AdvanceReady, CreateFinish,
         ResumeBegin, RecoverLock, RecoverSettled,
         removeExactPartialSnapshot, RecoverAbort, RecoverAborted,
         RecoverClear, RecoverReady, RecoverRefused, resumeSelectedWorkspace,
         buildAdmittedExportInspectorBundle, InspectorStopUnproven,
         PublishBegin, Receive, ReceiveTerminal, PublishFinish, Fail, Crash,
         ReserveUse, ReleaseUseAfterObservedStop, Attach, Detach,
         RuntimeEnds, GuestStep, CaptureSelectedSource, BeginImport,
         TransferLock, TransferMark, TransferAfter, ClientLost, OwnerBegin,
         OwnerUpload, OwnerReadback, OwnerFails, VerifyStoppedImport,
         MachineEnds, GuestWrite, RecoverReturn, finishExportSnapshotPending,
         saveRecordTransition, exportVars, importVars, vars

LEMMA LockFrame ==
    [Next]_vars =>
        \/ UNCHANGED lock
        \/ \E p \in Proc, t \in Export, d \in Parent, s \in Dir : 
              CreateJournal(p, t, d, s)
        \/ \E p \in Proc : CreateFinish(p) \/ RecoverLock(p)
              \/ RecoverSettled(p) \/ RecoverClear(p) \/ RecoverReady(p)
              \/ RecoverRefused(p) \/ Fail(p) \/ Crash(p)
        \/ ReserveUse \/ RuntimeEnds \/ TransferMark \/ TransferAfter
           \/ ClientLost
        \/ \E i \in Dir : TransferLock(i)
  BY ZenonT(90)
     DEF Next, ExportNext, CommandStep, FaultStep, SessionStep, CreateRead,
         CreateRefused, BeginExportSnapshot, MakeDirectory, CopyOpen,
         copyExportSnapshot, AdvanceReady, ResumeBegin,
         removeExactPartialSnapshot, RecoverAbort, RecoverAborted,
         resumeSelectedWorkspace, buildAdmittedExportInspectorBundle,
         captureBoundExportInspector, InspectorStopped, InspectorCancelled,
         InspectorStopUnproven, PublishBegin, Receive, ReceiveTerminal,
         PublishFinish, HelperEnds, ReleaseUseAfterObservedStop, Attach,
         Detach, GuestStep, CaptureSelectedSource, BeginImport, OwnerBegin,
         OwnerUpload, OwnerReadback, OwnerFails, VerifyStoppedImport,
         MachineEnds, GuestWrite, RecoverReturn, finishExportSnapshotPending,
         saveRecordTransition, exportVars, importVars, vars

LEMMA XlockFrame ==
    [Next]_vars =>
        \/ UNCHANGED xlock
        \/ \E p \in Proc : captureBoundExportInspector(p)
              \/ InspectorStopped(p) \/ InspectorCancelled(p)
              \/ InspectorStopUnproven(p) \/ PublishBegin(p)
              \/ ReceiveTerminal(p) \/ PublishFinish(p) \/ Fail(p)
              \/ Crash(p)
  BY ZenonT(90)
     DEF Next, ExportNext, CommandStep, FaultStep, SessionStep, CreateRead,
         CreateJournal, CreateRefused, BeginExportSnapshot, MakeDirectory,
         CopyOpen, copyExportSnapshot, AdvanceReady, CreateFinish,
         ResumeBegin, RecoverLock, RecoverSettled,
         removeExactPartialSnapshot, RecoverAbort, RecoverAborted,
         RecoverClear, RecoverReady, RecoverRefused, resumeSelectedWorkspace,
         buildAdmittedExportInspectorBundle, Receive, HelperEnds, ReserveUse,
         ReleaseUseAfterObservedStop, Attach, Detach, RuntimeEnds, GuestStep,
         CaptureSelectedSource, BeginImport, TransferLock, TransferMark,
         TransferAfter, ClientLost, OwnerBegin, OwnerUpload, OwnerReadback,
         OwnerFails, VerifyStoppedImport, MachineEnds, GuestWrite,
         RecoverReturn, finishExportSnapshotPending, saveRecordTransition,
         exportVars, importVars, vars

LEMMA OpFrame ==
    [Next]_vars =>
        \/ UNCHANGED op
        \/ \E p \in Proc : CreateRead(p) \/ CreateRefused(p)
              \/ BeginExportSnapshot(p) \/ MakeDirectory(p) \/ CopyOpen(p)
              \/ copyExportSnapshot(p) \/ AdvanceReady(p)
              \/ CreateFinish(p) \/ RecoverLock(p) \/ RecoverSettled(p)
              \/ removeExactPartialSnapshot(p) \/ RecoverAbort(p)
              \/ RecoverAborted(p) \/ RecoverClear(p) \/ RecoverReady(p)
              \/ RecoverRefused(p) \/ resumeSelectedWorkspace(p)
              \/ buildAdmittedExportInspectorBundle(p)
              \/ captureBoundExportInspector(p) \/ InspectorStopped(p)
              \/ InspectorCancelled(p) \/ InspectorStopUnproven(p)
              \/ PublishBegin(p) \/ Receive(p) \/ ReceiveTerminal(p)
              \/ PublishFinish(p) \/ Fail(p) \/ Crash(p)
        \/ \E p \in Proc, t \in Export, d \in Parent, s \in Dir : 
              CreateJournal(p, t, d, s)
        \/ \E p \in Proc, t \in Export : ResumeBegin(p, t)
  BY ZenonT(90)
     DEF Next, ExportNext, CommandStep, FaultStep, SessionStep, HelperEnds,
         ReserveUse, ReleaseUseAfterObservedStop, Attach, Detach,
         RuntimeEnds, GuestStep, CaptureSelectedSource, BeginImport,
         TransferLock, TransferMark, TransferAfter, ClientLost, OwnerBegin,
         OwnerUpload, OwnerReadback, OwnerFails, VerifyStoppedImport,
         MachineEnds, GuestWrite, RecoverReturn, finishExportSnapshotPending,
         saveRecordTransition, exportVars, importVars, vars

LEMMA FaultsFrame ==
    [Next]_vars =>
        \/ UNCHANGED faults
        \/ \E p \in Proc : InspectorCancelled(p)
              \/ InspectorStopUnproven(p) \/ Fail(p) \/ Crash(p)
  BY ZenonT(90)
     DEF Next, ExportNext, CommandStep, FaultStep, SessionStep, CreateRead,
         CreateJournal, CreateRefused, BeginExportSnapshot, MakeDirectory,
         CopyOpen, copyExportSnapshot, AdvanceReady, CreateFinish,
         ResumeBegin, RecoverLock, RecoverSettled,
         removeExactPartialSnapshot, RecoverAbort, RecoverAborted,
         RecoverClear, RecoverReady, RecoverRefused, resumeSelectedWorkspace,
         buildAdmittedExportInspectorBundle, captureBoundExportInspector,
         InspectorStopped, PublishBegin, Receive, ReceiveTerminal,
         PublishFinish, HelperEnds, ReserveUse, ReleaseUseAfterObservedStop,
         Attach, Detach, RuntimeEnds, GuestStep, CaptureSelectedSource,
         BeginImport, TransferLock, TransferMark, TransferAfter, ClientLost,
         OwnerBegin, OwnerUpload, OwnerReadback, OwnerFails,
         VerifyStoppedImport, MachineEnds, GuestWrite, RecoverReturn,
         finishExportSnapshotPending, saveRecordTransition, exportVars,
         importVars, vars

LEMMA SrcFrame ==
    [Next]_vars =>
        \/ UNCHANGED src
        \/ \E i \in Dir : CaptureSelectedSource(i)
  BY ZenonT(90)
     DEF Next, ExportNext, CommandStep, FaultStep, SessionStep, CreateRead,
         CreateJournal, CreateRefused, BeginExportSnapshot, MakeDirectory,
         CopyOpen, copyExportSnapshot, AdvanceReady, CreateFinish,
         ResumeBegin, RecoverLock, RecoverSettled,
         removeExactPartialSnapshot, RecoverAbort, RecoverAborted,
         RecoverClear, RecoverReady, RecoverRefused, resumeSelectedWorkspace,
         buildAdmittedExportInspectorBundle, captureBoundExportInspector,
         InspectorStopped, InspectorCancelled, InspectorStopUnproven,
         PublishBegin, Receive, ReceiveTerminal, PublishFinish, Fail, Crash,
         HelperEnds, ReserveUse, ReleaseUseAfterObservedStop, Attach, Detach,
         RuntimeEnds, GuestStep, BeginImport, TransferLock, TransferMark,
         TransferAfter, ClientLost, OwnerBegin, OwnerUpload, OwnerReadback,
         OwnerFails, VerifyStoppedImport, MachineEnds, GuestWrite,
         RecoverReturn, finishExportSnapshotPending, saveRecordTransition,
         exportVars, importVars, vars

LEMMA IjFrame ==
    [Next]_vars =>
        \/ UNCHANGED ij
        \/ \E i \in Dir : BeginImport(i)
        \/ TransferMark
        \/ \E i \in Dir, e \in Export : VerifyStoppedImport(i, e)
  BY ZenonT(90)
     DEF Next, ExportNext, CommandStep, FaultStep, SessionStep, CreateRead,
         CreateJournal, CreateRefused, BeginExportSnapshot, MakeDirectory,
         CopyOpen, copyExportSnapshot, AdvanceReady, CreateFinish,
         ResumeBegin, RecoverLock, RecoverSettled,
         removeExactPartialSnapshot, RecoverAbort, RecoverAborted,
         RecoverClear, RecoverReady, RecoverRefused, resumeSelectedWorkspace,
         buildAdmittedExportInspectorBundle, captureBoundExportInspector,
         InspectorStopped, InspectorCancelled, InspectorStopUnproven,
         PublishBegin, Receive, ReceiveTerminal, PublishFinish, Fail, Crash,
         HelperEnds, ReserveUse, ReleaseUseAfterObservedStop, Attach, Detach,
         RuntimeEnds, GuestStep, CaptureSelectedSource, TransferLock,
         TransferAfter, ClientLost, OwnerBegin, OwnerUpload, OwnerReadback,
         OwnerFails, MachineEnds, GuestWrite, RecoverReturn,
         finishExportSnapshotPending, saveRecordTransition, exportVars,
         importVars, vars

LEMMA ClientFrame ==
    [Next]_vars =>
        \/ UNCHANGED client
        \/ \E i \in Dir : TransferLock(i)
        \/ TransferMark \/ TransferAfter \/ ClientLost
  BY ZenonT(90)
     DEF Next, ExportNext, CommandStep, FaultStep, SessionStep, CreateRead,
         CreateJournal, CreateRefused, BeginExportSnapshot, MakeDirectory,
         CopyOpen, copyExportSnapshot, AdvanceReady, CreateFinish,
         ResumeBegin, RecoverLock, RecoverSettled,
         removeExactPartialSnapshot, RecoverAbort, RecoverAborted,
         RecoverClear, RecoverReady, RecoverRefused, resumeSelectedWorkspace,
         buildAdmittedExportInspectorBundle, captureBoundExportInspector,
         InspectorStopped, InspectorCancelled, InspectorStopUnproven,
         PublishBegin, Receive, ReceiveTerminal, PublishFinish, Fail, Crash,
         HelperEnds, ReserveUse, ReleaseUseAfterObservedStop, Attach, Detach,
         RuntimeEnds, GuestStep, CaptureSelectedSource, BeginImport,
         OwnerBegin, OwnerUpload, OwnerReadback, OwnerFails,
         VerifyStoppedImport, MachineEnds, GuestWrite, RecoverReturn,
         finishExportSnapshotPending, saveRecordTransition, exportVars,
         importVars, vars

LEMMA OwnerFrame ==
    [Next]_vars =>
        \/ UNCHANGED owner
        \/ TransferAfter \/ OwnerBegin \/ OwnerUpload \/ OwnerReadback
           \/ OwnerFails \/ RuntimeEnds
  BY ZenonT(90)
     DEF Next, ExportNext, CommandStep, FaultStep, SessionStep, CreateRead,
         CreateJournal, CreateRefused, BeginExportSnapshot, MakeDirectory,
         CopyOpen, copyExportSnapshot, AdvanceReady, CreateFinish,
         ResumeBegin, RecoverLock, RecoverSettled,
         removeExactPartialSnapshot, RecoverAbort, RecoverAborted,
         RecoverClear, RecoverReady, RecoverRefused, resumeSelectedWorkspace,
         buildAdmittedExportInspectorBundle, captureBoundExportInspector,
         InspectorStopped, InspectorCancelled, InspectorStopUnproven,
         PublishBegin, Receive, ReceiveTerminal, PublishFinish, Fail, Crash,
         HelperEnds, ReserveUse, ReleaseUseAfterObservedStop, Attach, Detach,
         GuestStep, CaptureSelectedSource, BeginImport, TransferLock,
         TransferMark, ClientLost, VerifyStoppedImport, MachineEnds,
         GuestWrite, RecoverReturn, finishExportSnapshotPending,
         saveRecordTransition, exportVars, importVars, vars

-----------------------------------------------------------------------------
(* Types, one variable at a time.                                          *)

(* The volume record stays typed.                                          *)
LEMMA VolTyped ==
    TransferInv /\ [Next]_vars => (vol \in [att : BOOLEAN, use : 0..MaxGen, pend : Export \cup {None}])'
  <1> SUFFICES ASSUME TransferInv, [Next]_vars
               PROVE  (vol \in [att : BOOLEAN, use : 0..MaxGen, pend : Export \cup {None}])'
    OBVIOUS
  <1> USE DEF TransferInv, ImportTypeOK, TypeOK
  <1>1. ASSUME NEW p \in Proc, BeginExportSnapshot(p)
         PROVE  (vol \in [att : BOOLEAN, use : 0..MaxGen, pend : Export \cup {None}])'
    BY <1>1
       DEF BeginExportSnapshot, Goto, saveRecordTransition, checkBindings,
           CommandExact, Transacting
  <1>2. ASSUME NEW p \in Proc, CreateFinish(p)
         PROVE  (vol \in [att : BOOLEAN, use : 0..MaxGen, pend : Export \cup {None}])'
    BY <1>2
       DEF CreateFinish, Goto, Release, finishExportSnapshotPending,
           saveRecordTransition, checkBindings
  <1>3. ASSUME NEW p \in Proc, RecoverClear(p)
         PROVE  (vol \in [att : BOOLEAN, use : 0..MaxGen, pend : Export \cup {None}])'
    BY <1>3
       DEF RecoverClear, RecoverReturn, Release, Return,
           saveRecordTransition, checkBindings
  <1>4. ASSUME NEW p \in Proc, RecoverReady(p)
         PROVE  (vol \in [att : BOOLEAN, use : 0..MaxGen, pend : Export \cup {None}])'
    BY <1>4
       DEF RecoverReady, RecoverBinding, RecoverReturn, Release, Goto,
           finishExportSnapshotPending, saveRecordTransition, checkBindings
  <1>5. CASE ReserveUse
    BY <1>5, ExportAssumption
       DEF ReserveUse, Free, saveRecordTransition, checkBindings
  <1>6. CASE ReleaseUseAfterObservedStop
    BY <1>6, ExportAssumption
       DEF ReleaseUseAfterObservedStop, saveRecordTransition
  <1>7. CASE Attach
    <2>1. TRUE \in BOOLEAN
      BY Zenon
    <2> QED
      BY <1>7, <2>1 DEF Attach, saveRecordTransition
  <1>8. CASE Detach
    <2>1. FALSE \in BOOLEAN
      BY Zenon
    <2> QED
      BY <1>8, <2>1 DEF Detach, saveRecordTransition
  <1>9. CASE UNCHANGED <<vol>>
    BY <1>9
  <1> QED
    BY <1>1, <1>2, <1>3, <1>4, <1>5, <1>6, <1>7, <1>8, <1>9, VolFrame

(* So does the runtime's generation.                                       *)
LEMMA RunTyped ==
    TransferInv /\ [Next]_vars => (run \in [live : BOOLEAN, gen : 0..MaxGen])'
  <1> SUFFICES ASSUME TransferInv, [Next]_vars
               PROVE  (run \in [live : BOOLEAN, gen : 0..MaxGen])'
    OBVIOUS
  <1> USE DEF TransferInv, ImportTypeOK, TypeOK
  <1>1. CASE ReserveUse
    <2>1. TRUE \in BOOLEAN
      BY Zenon
    <2> QED
      BY <1>1, <2>1, ExportAssumption DEF ReserveUse
  <1>2. CASE RuntimeEnds
    <2>1. FALSE \in BOOLEAN
      BY Zenon
    <2> QED
      BY <1>2, <2>1 DEF RuntimeEnds, MachineEnds
  <1>3. CASE UNCHANGED <<run>>
    BY <1>3
  <1> QED
    BY <1>1, <1>2, <1>3, RunFrame

(* So does the disk.                                                       *)
LEMMA DiskTyped ==
    TransferInv /\ [Next]_vars => (disk \in [data : Data, clean : BOOLEAN])'
  <1> SUFFICES ASSUME TransferInv, [Next]_vars
               PROVE  (disk \in [data : Data, clean : BOOLEAN])'
    OBVIOUS
  <1> USE DEF TransferInv, ImportTypeOK, TypeOK
  <1>1. CASE ReserveUse
    <2>1. FALSE \in BOOLEAN
      BY Zenon
    <2> QED
      BY <1>1, <2>1 DEF ReserveUse
  <1>2. CASE RuntimeEnds
    BY <1>2 DEF RuntimeEnds, MachineEnds
  <1>3. CASE GuestStep
    <2>1. PICK x \in Dir, m \in Mark : disk' = [disk EXCEPT !.data[x] = m]
      BY <1>3 DEF GuestStep, GuestWrite, Mark
    <2>2. [disk.data EXCEPT ![x] = m] \in Data
      BY DEF Data
    <2>3. disk' = [disk EXCEPT !.data = [disk.data EXCEPT ![x] = m]]
      BY <2>1
    <2> QED
      BY <2>2, <2>3
  <1>4. CASE OwnerBegin
    <2>1. client.tx \in Dir
      BY <1>4 DEF OwnerBegin, TransferExact, NoClient
    <2>2. disk' = [disk EXCEPT !.data[client.tx] = "partial"]
      BY <1>4 DEF OwnerBegin
    <2>3. [disk.data EXCEPT ![client.tx] = "partial"] \in Data
      BY <2>1 DEF Data, Mark
    <2>4. disk' = [disk EXCEPT !.data = [disk.data EXCEPT ![client.tx] = "partial"]]
      BY <2>2
    <2> QED
      BY <2>3, <2>4
  <1>5. CASE OwnerUpload
    <2>1. owner.tx \in Dir
      BY <1>5 DEF OwnerUpload, TransferExact, NoTransfer
    <2>2. disk' = [disk EXCEPT !.data[owner.tx] = "exact"]
      BY <1>5 DEF OwnerUpload
    <2>3. [disk.data EXCEPT ![owner.tx] = "exact"] \in Data
      BY <2>1 DEF Data, Mark
    <2>4. disk' = [disk EXCEPT !.data = [disk.data EXCEPT ![owner.tx] = "exact"]]
      BY <2>2
    <2> QED
      BY <2>3, <2>4
  <1>6. CASE UNCHANGED <<disk>>
    BY <1>6
  <1> QED
    BY <1>1, <1>2, <1>3, <1>4, <1>5, <1>6, DiskFrame

(* Journals are typed and valid.                                           *)
JournalsTyped ==
    /\ jr \in [Export -> Journal \cup {None}]
    /\ \A t \in Export : jr[t] # None => ValidJournal(jr[t])

(* So do the export journals, and they stay valid.                         *)
LEMMA JournalTyped ==
    TransferInv /\ [Next]_vars => JournalsTyped'
  <1> SUFFICES ASSUME TransferInv, [Next]_vars
               PROVE  JournalsTyped'
    OBVIOUS
  <1> USE DEF TransferInv, ImportTypeOK, TypeOK, JournalsTyped
  <1>1. ASSUME NEW p \in Proc, NEW t \in Export, NEW d \in Parent,
     NEW s \in Dir, CreateJournal(p, t, d, s)
         PROVE  JournalsTyped'
    <2>1. [phase |-> "copying", parent |-> d, sel |-> s, snap |-> None] \in Journal
      BY DEF Journal, Phases
    <2> QED
      BY <1>1, <2>1 DEF CreateJournal, ValidJournal, Claims
  <1>2. ASSUME NEW p \in Proc, AdvanceReady(p)
         PROVE  JournalsTyped'
    <2> DEFINE t == op[p].tx
    <2>1. /\ t \in Export /\ jr[t] \in Journal /\ ValidJournal(jr'[t])
          /\ jr' = [jr EXCEPT ![t] = jr'[t]] /\ op[p].first \in Data
          /\ jr[t].phase = "copying" /\ jr[t].snap = None
          /\ jr'[t] = [jr[t] EXCEPT !.phase = "ready", !.snap = op[p].first]
      BY <1>2
         DEF AdvanceReady, advanceExportJournalLocked, CommandExact,
             Transacting, CopyStep, ValidJournal, Claims
    <2> HIDE DEF t
    <2>2. jr'[t] = [phase |-> "ready", parent |-> jr[t].parent, sel |-> jr[t].sel, snap |-> op[p].first]
      BY <2>1 DEF Journal
    <2>3. /\ jr'[t] \in Journal /\ jr'[t].phase = "ready"
          /\ jr'[t].parent = jr[t].parent /\ jr'[t].sel = jr[t].sel
      BY <2>1, <2>2 DEF Journal, Phases
    <2> QED
      BY <2>1, <2>3
  <1>3. ASSUME NEW p \in Proc, RecoverAbort(p)
         PROVE  JournalsTyped'
    <2> DEFINE t == op[p].tx
    <2>1. /\ t \in Export /\ jr[t] \in Journal /\ jr'[t] = [jr[t] EXCEPT !.phase = "aborted"]
          /\ jr' = [jr EXCEPT ![t] = jr'[t]] /\ ValidJournal(jr'[t])
      BY <1>3
         DEF RecoverAbort, Phase, advanceExportJournalLocked, CommandExact,
             Transacting, CopyStep
    <2> HIDE DEF t
    <2>2. jr'[t] \in Journal
      BY <2>1, PhaseEffect DEF Phases
    <2> QED
      BY <2>1, <2>2
  <1>4. ASSUME NEW p \in Proc, PublishBegin(p)
         PROVE  JournalsTyped'
    <2> DEFINE t == op[p].tx
    <2>1. t \in Export /\ jr[t] \in Journal
      BY <1>4 DEF PublishBegin, CommandExact, Transacting
    <2>2. CASE PublishOK(t) /\ jr[t].phase = "ready"
      <3>1. /\ jr'[t] = [jr[t] EXCEPT !.phase = "inspected"]
            /\ jr' = [jr EXCEPT ![t] = jr'[t]] /\ ValidJournal(jr'[t])
        BY <1>4, <2>1, <2>2
           DEF PublishBegin, Phase, advanceExportJournalLocked
      <3> HIDE DEF t
      <3>2. jr'[t] \in Journal
        BY <2>1, <3>1, PhaseEffect DEF Phases
      <3> QED
        BY <2>1, <3>1, <3>2
    <2>3. CASE ~(PublishOK(t) /\ jr[t].phase = "ready")
      <3>1. UNCHANGED jr
        BY <1>4, <2>3 DEF PublishBegin
      <3> QED
        BY <3>1 DEF ValidJournal
    <2> QED
      BY <2>2, <2>3
  <1>5. ASSUME NEW p \in Proc, PublishFinish(p)
         PROVE  JournalsTyped'
    <2> DEFINE t == op[p].tx
    <2>1. /\ t \in Export /\ jr[t] \in Journal /\ jr'[t] = [jr[t] EXCEPT !.phase = "published"]
          /\ jr' = [jr EXCEPT ![t] = jr'[t]] /\ ValidJournal(jr'[t])
      BY <1>5
         DEF PublishFinish, Phase, advanceExportJournalLocked, CommandExact,
             Transacting, CopyStep
    <2> HIDE DEF t
    <2>2. jr'[t] \in Journal
      BY <2>1, PhaseEffect DEF Phases
    <2> QED
      BY <2>1, <2>2
  <1>6. CASE UNCHANGED <<jr>>
    BY <1>6 DEF ValidJournal
  <1> QED
    BY <1>1, <1>2, <1>3, <1>4, <1>5, <1>6, JrFrame

(* So do the private copies.                                               *)
LEMMA SnapTyped ==
    TransferInv /\ [Next]_vars => (snap \in [Export -> Copy])'
  <1> SUFFICES ASSUME TransferInv, [Next]_vars
               PROVE  (snap \in [Export -> Copy])'
    OBVIOUS
  <1> USE DEF TransferInv, ImportTypeOK, TypeOK
  <1>1. ASSUME NEW p \in Proc, MakeDirectory(p)
         PROVE  (snap \in [Export -> Copy])'
    <2> DEFINE t == op[p].tx
    <2>1. /\ t \in Export /\ snap[t] \in Copy /\ snap'[t] = [snap[t] EXCEPT !.st = "dir"]
          /\ snap' = [snap EXCEPT ![t] = snap'[t]]
      BY <1>1 DEF MakeDirectory, CommandExact, Transacting
    <2>2. snap'[t] \in Copy
      BY <2>1 DEF Copy
    <2> QED
      BY <2>1, <2>2
  <1>2. ASSUME NEW p \in Proc, CopyOpen(p)
         PROVE  (snap \in [Export -> Copy])'
    <2> DEFINE t == op[p].tx
    <2>1. /\ t \in Export /\ snap[t] \in Copy /\ snap'[t] = [snap[t] EXCEPT !.st = "partial"]
          /\ snap' = [snap EXCEPT ![t] = snap'[t]]
      BY <1>2 DEF CopyOpen, CommandExact, Transacting
    <2>2. snap'[t] \in Copy
      BY <2>1 DEF Copy
    <2> QED
      BY <2>1, <2>2
  <1>3. ASSUME NEW p \in Proc, copyExportSnapshot(p)
         PROVE  (snap \in [Export -> Copy])'
    <2> DEFINE t == op[p].tx
    <2>1. t \in Export /\ op[p].first \in Data
      BY <1>3 DEF copyExportSnapshot, CommandExact, Transacting, CopyStep
    <2>2. [st |-> "full", data |-> op[p].first] \in Copy
      BY <2>1 DEF Copy
    <2> QED
      BY <1>3, <2>1, <2>2 DEF copyExportSnapshot
  <1>4. ASSUME NEW p \in Proc, removeExactPartialSnapshot(p)
         PROVE  (snap \in [Export -> Copy])'
    <2>1. [st |-> "absent", data |-> NoData] \in Copy
      BY DEF NoData, Data, Mark, Copy
    <2>2. op[p].tx \in Export
      BY <1>4 DEF removeExactPartialSnapshot, CommandExact, Transacting
    <2>3. UNCHANGED snap \/ snap' = [snap EXCEPT ![op[p].tx] = [st |-> "absent", data |-> NoData]]
      BY <1>4 DEF removeExactPartialSnapshot
    <2> QED
      BY <2>1, <2>2, <2>3
  <1>5. CASE UNCHANGED <<snap>>
    BY <1>5
  <1> QED
    BY <1>1, <1>2, <1>3, <1>4, <1>5, SnapFrame

(* The values a spool is given.                                            *)
LEMMA SpoolValues ==
    /\ NoSpool \in Spool /\ NoSpool.st = "absent"
    /\ [st |-> "partial", mark |-> "absent"] \in Spool
    /\ \A m \in Mark : [st |-> "full", mark |-> m] \in Spool
  BY DEF Spool, NoSpool, Mark

(* So do the spools.                                                       *)
LEMMA SpoolTyped ==
    TransferInv /\ [Next]_vars => (spool \in [Export -> Spool])'
  <1> SUFFICES ASSUME TransferInv, [Next]_vars
               PROVE  (spool \in [Export -> Spool])'
    OBVIOUS
  <1> USE DEF TransferInv, ImportTypeOK, TypeOK
  <1>1. ASSUME NEW p \in Proc, captureBoundExportInspector(p)
         PROVE  (spool \in [Export -> Spool])'
    <2> DEFINE t == op[p].tx
    <2>1. t \in Export
      BY <1>1 DEF captureBoundExportInspector, CommandExact, Transacting
    <2>2. UNCHANGED spool \/ spool' = [spool EXCEPT ![t] = [st |-> "partial", mark |-> "absent"]]
      BY <1>1 DEF captureBoundExportInspector, RemoveSpool
    <2> QED
      BY <2>1, <2>2, SpoolValues
  <1>2. ASSUME NEW p \in Proc, InspectorStopped(p)
         PROVE  (spool \in [Export -> Spool])'
    <2> DEFINE t == op[p].tx
    <2>1. t \in Export /\ jr[t] \in Journal
      BY <1>2 DEF InspectorStopped, CommandExact, Transacting
    <2>2. snap[t].data[jr[t].sel] \in Mark
      BY <2>1 DEF Journal, Data, Copy
    <2>3. \E r \in Spool : spool' = [spool EXCEPT ![t] = r]
      BY <1>2, <2>2, SpoolValues DEF InspectorStopped
    <2> QED
      BY <2>1, <2>3
  <1>3. ASSUME NEW p \in Proc, InspectorCancelled(p)
         PROVE  (spool \in [Export -> Spool])'
    <2> DEFINE t == op[p].tx
    <2>1. t \in Export
      BY <1>3 DEF InspectorCancelled, CommandExact, Transacting
    <2>2. spool' = [spool EXCEPT ![t] = NoSpool]
      BY <1>3 DEF InspectorCancelled, RemoveSpool
    <2> QED
      BY <2>1, <2>2, SpoolValues
  <1>4. ASSUME NEW p \in Proc, PublishBegin(p)
         PROVE  (spool \in [Export -> Spool])'
    <2> DEFINE t == op[p].tx
    <2>1. t \in Export
      BY <1>4 DEF PublishBegin, CommandExact, Transacting
    <2>2. UNCHANGED spool \/ spool' = [spool EXCEPT ![t] = NoSpool]
      BY <1>4 DEF PublishBegin, RemoveSpool
    <2> QED
      BY <2>1, <2>2, SpoolValues
  <1>5. ASSUME NEW p \in Proc, ReceiveTerminal(p)
         PROVE  (spool \in [Export -> Spool])'
    <2> DEFINE t == op[p].tx
    <2>1. t \in Export
      BY <1>5 DEF ReceiveTerminal, CommandExact, Transacting
    <2>2. UNCHANGED spool \/ spool' = [spool EXCEPT ![t] = NoSpool]
      BY <1>5 DEF ReceiveTerminal, RemoveSpool
    <2> QED
      BY <2>1, <2>2, SpoolValues
  <1>6. ASSUME NEW p \in Proc, PublishFinish(p)
         PROVE  (spool \in [Export -> Spool])'
    <2> DEFINE t == op[p].tx
    <2>1. t \in Export
      BY <1>6 DEF PublishFinish, CommandExact, Transacting
    <2>2. spool' = [spool EXCEPT ![t] = NoSpool]
      BY <1>6 DEF PublishFinish, RemoveSpool
    <2> QED
      BY <2>1, <2>2, SpoolValues
  <1>7. ASSUME NEW p \in Proc, Fail(p)
         PROVE  (spool \in [Export -> Spool])'
    <2> DEFINE t == op[p].tx
    <2>1. UNCHANGED spool \/ (t \in Export /\ spool' = [spool EXCEPT ![t] = NoSpool])
      BY <1>7 DEF Fail, RemoveSpool, CommandExact, Transacting
    <2> QED
      BY <2>1, SpoolValues
  <1>8. CASE UNCHANGED <<spool>>
    BY <1>8
  <1> QED
    BY <1>1, <1>2, <1>3, <1>4, <1>5, <1>6, <1>7, <1>8, SpoolFrame

(* A destination stays typed when a staging name or an output changes.     *)
LEMMA DestinationTyped ==
    ASSUME NEW x \in Destination, NEW k, NEW t \in Export,
           \/ k = [x EXCEPT !.in = x.in \cup {t}]
           \/ k = [x EXCEPT !.in = x.in \ {t}]
    PROVE  k \in Destination
  BY DEF Destination

(* So it does when its output appears.                                     *)
LEMMA DestinationOutput ==
    ASSUME dest \in [Parent -> Destination], NEW d \in Parent, NEW t \in Export, NEW m \in Mark,
           dest' = [dest EXCEPT ![d].in = @ \ {t}, ![d].out[t] = m]
    PROVE  /\ dest' \in [Parent -> Destination]
           /\ dest'[d].out = [dest[d].out EXCEPT ![t] = m]
           /\ \A u \in Parent : u # d => dest'[u] = dest[u]
  <1>1. dest[d] \in Destination
    OBVIOUS
  <1>2. dest'[d].out = [dest[d].out EXCEPT ![t] = m]
    BY <1>1 DEF Destination
  <1>3. dest'[d] = [[dest[d] EXCEPT !.in = dest[d].in \ {t}] EXCEPT !.out = [dest[d].out EXCEPT ![t] = m]]
    BY <1>1 DEF Destination
  <1>4. dest'[d] = [in |-> dest[d].in \ {t}, out |-> [dest[d].out EXCEPT ![t] = m]]
    BY <1>1, <1>3 DEF Destination
  <1>5. dest[d].in \in SUBSET Export /\ dest[d].out \in [Export -> Mark]
    BY <1>1 DEF Destination
  <1>6. [dest[d].out EXCEPT ![t] = m] \in [Export -> Mark] /\ dest[d].in \ {t} \in SUBSET Export
    BY <1>5
  <1>7. dest'[d] \in Destination
    BY <1>4, <1>6 DEF Destination
  <1>8. \A u \in Parent : u # d => dest'[u] = dest[u]
    OBVIOUS
  <1>9. DOMAIN dest' = Parent /\ dest' = [u \in Parent |-> dest'[u]]
    OBVIOUS
  <1>10. \A u \in Parent : dest'[u] \in Destination
    BY <1>7, <1>8
  <1>11. [u \in Parent |-> dest'[u]] \in [Parent -> Destination]
    BY <1>10
  <1> QED
    BY <1>2, <1>8, <1>9, <1>11

(* So do the destinations.                                                 *)
LEMMA DestTyped ==
    TransferInv /\ [Next]_vars => (dest \in [Parent -> Destination])'
  <1> SUFFICES ASSUME TransferInv, [Next]_vars
               PROVE  (dest \in [Parent -> Destination])'
    OBVIOUS
  <1> USE DEF TransferInv, ImportTypeOK, TypeOK
  <1>1. ASSUME NEW p \in Proc, Receive(p)
         PROVE  (dest \in [Parent -> Destination])'
    <2> DEFINE t == op[p].tx
               d == jr[t].parent
    <2>1. t \in Export /\ d \in Parent
      BY <1>1 DEF Receive, CommandExact, Transacting, Journal
    <2>2. /\ dest'[d] = [dest[d] EXCEPT !.in = dest[d].in \cup {t}] /\ dest[d] \in Destination
          /\ dest' = [dest EXCEPT ![d] = dest'[d]]
      BY <1>1, <2>1 DEF Receive
    <2> HIDE DEF t, d
    <2>3. dest'[d] \in Destination
      BY <2>1, <2>2, DestinationTyped
    <2> QED
      BY <2>1, <2>2, <2>3
  <1>2. ASSUME NEW p \in Proc, ReceiveTerminal(p)
         PROVE  (dest \in [Parent -> Destination])'
    <2> DEFINE t == op[p].tx
               d == jr[t].parent
               m == spool[t].mark
    <2>1. t \in Export /\ d \in Parent /\ dest[d] \in Destination /\ m \in Mark
      BY <1>2 DEF ReceiveTerminal, CommandExact, Transacting, Journal, Spool
    <2>2. \/ dest' = [dest EXCEPT ![d].in = @ \ {t}, ![d].out[t] = m]
          \/ dest' = [dest EXCEPT ![d].in = @ \ {t}]
      BY <1>2 DEF ReceiveTerminal
    <2> HIDE DEF t, d, m
    <2>3. CASE dest' = [dest EXCEPT ![d].in = @ \ {t}]
      <3>1. /\ dest'[d] = [dest[d] EXCEPT !.in = dest[d].in \ {t}]
            /\ dest' = [dest EXCEPT ![d] = dest'[d]]
        BY <2>1, <2>3
      <3>2. dest'[d] \in Destination
        BY <2>1, <3>1, DestinationTyped
      <3> QED
        BY <3>1, <3>2
    <2>4. CASE dest' = [dest EXCEPT ![d].in = @ \ {t}, ![d].out[t] = m]
      BY <2>1, <2>4, DestinationOutput
    <2> QED
      BY <2>2, <2>3, <2>4
  <1>3. ASSUME NEW p \in Proc, Fail(p)
         PROVE  (dest \in [Parent -> Destination])'
    <2> DEFINE t == op[p].tx
               d == jr[t].parent
    <2>1. CASE op[p].pc # "rename"
      BY <1>3, <2>1 DEF Fail
    <2>2. CASE op[p].pc = "rename"
      <3>1. t \in Export /\ d \in Parent /\ dest[d] \in Destination
        BY <2>2 DEF CommandExact, Transacting, Journal
      <3>2. /\ dest'[d] = [dest[d] EXCEPT !.in = dest[d].in \ {t}]
            /\ dest' = [dest EXCEPT ![d] = dest'[d]]
        BY <1>3, <2>2, <3>1 DEF Fail
      <3> HIDE DEF t, d
      <3>3. dest'[d] \in Destination
        BY <3>1, <3>2, DestinationTyped
      <3> QED
        BY <3>1, <3>2, <3>3
    <2> QED
      BY <2>1, <2>2
  <1>4. CASE UNCHANGED <<dest>>
    BY <1>4
  <1> QED
    BY <1>1, <1>2, <1>3, <1>4, DestFrame

(* So do the counts of inspectors.                                         *)
LEMMA HelperTyped ==
    TransferInv /\ [Next]_vars => (helper \in [Export -> 0..2])'
  <1> SUFFICES ASSUME TransferInv, [Next]_vars
               PROVE  (helper \in [Export -> 0..2])'
    OBVIOUS
  <1> USE DEF TransferInv, ImportTypeOK, TypeOK
  <1>1. ASSUME NEW p \in Proc, captureBoundExportInspector(p)
         PROVE  (helper \in [Export -> 0..2])'
    <2> DEFINE t == op[p].tx
    <2>1. t \in Export
      BY <1>1 DEF captureBoundExportInspector, CommandExact, Transacting
    <2>2. UNCHANGED helper \/ (helper[t] = 0 /\ helper' = [helper EXCEPT ![t] = @ + 1])
      BY <1>1, <2>1 DEF captureBoundExportInspector, OpenSpool, SpoolExact
    <2> QED
      BY <2>1, <2>2
  <1>2. ASSUME NEW p \in Proc, InspectorStopped(p)
         PROVE  (helper \in [Export -> 0..2])'
    <2> DEFINE t == op[p].tx
    <2>1. t \in Export /\ helper[t] = 1
      BY <1>2 DEF InspectorStopped, CommandExact, Transacting, PublishStep
    <2>2. helper' = [helper EXCEPT ![t] = @ - 1]
      BY <1>2 DEF InspectorStopped
    <2> QED
      BY <2>1, <2>2
  <1>3. ASSUME NEW p \in Proc, InspectorCancelled(p)
         PROVE  (helper \in [Export -> 0..2])'
    <2> DEFINE t == op[p].tx
    <2>1. t \in Export /\ helper[t] = 1
      BY <1>3 DEF InspectorCancelled, CommandExact, Transacting, PublishStep
    <2>2. helper' = [helper EXCEPT ![t] = @ - 1]
      BY <1>3 DEF InspectorCancelled
    <2> QED
      BY <2>1, <2>2
  <1>4. ASSUME NEW t \in Export, HelperEnds(t)
         PROVE  (helper \in [Export -> 0..2])'
    BY <1>4 DEF HelperEnds
  <1>5. CASE UNCHANGED <<helper>>
    BY <1>5
  <1> QED
    BY <1>1, <1>2, <1>3, <1>4, <1>5, HelperFrame

(* So do the volume's locks.                                               *)
LEMMA LockTyped ==
    TransferInv /\ [Next]_vars => (lock \in [VolumeLocks -> Proc \cup {"runtime", "client", None}])'
  <1> SUFFICES ASSUME TransferInv, [Next]_vars
               PROVE  (lock \in [VolumeLocks -> Proc \cup {"runtime", "client", None}])'
    OBVIOUS
  <1> USE DEF TransferInv, ImportTypeOK, TypeOK
  <1>1. ASSUME NEW p \in Proc, NEW t \in Export, NEW d \in Parent,
     NEW s \in Dir, CreateJournal(p, t, d, s)
         PROVE  (lock \in [VolumeLocks -> Proc \cup {"runtime", "client", None}])'
    BY <1>1 DEF CreateJournal, Take
  <1>2. ASSUME NEW p \in Proc, CreateFinish(p)
         PROVE  (lock \in [VolumeLocks -> Proc \cup {"runtime", "client", None}])'
    BY <1>2 DEF CreateFinish, Release
  <1>3. ASSUME NEW p \in Proc, RecoverLock(p)
         PROVE  (lock \in [VolumeLocks -> Proc \cup {"runtime", "client", None}])'
    BY <1>3 DEF RecoverLock, Take
  <1>4. ASSUME NEW p \in Proc, RecoverSettled(p)
         PROVE  (lock \in [VolumeLocks -> Proc \cup {"runtime", "client", None}])'
    BY <1>4 DEF RecoverSettled, RecoverReturn, Release
  <1>5. ASSUME NEW p \in Proc, RecoverClear(p)
         PROVE  (lock \in [VolumeLocks -> Proc \cup {"runtime", "client", None}])'
    BY <1>5 DEF RecoverClear, RecoverReturn, Release
  <1>6. ASSUME NEW p \in Proc, RecoverReady(p)
         PROVE  (lock \in [VolumeLocks -> Proc \cup {"runtime", "client", None}])'
    BY <1>6 DEF RecoverReady, RecoverReturn, Release
  <1>7. ASSUME NEW p \in Proc, RecoverRefused(p)
         PROVE  (lock \in [VolumeLocks -> Proc \cup {"runtime", "client", None}])'
    BY <1>7 DEF RecoverRefused, RecoverReturn, Release
  <1>8. ASSUME NEW p \in Proc, Fail(p)
         PROVE  (lock \in [VolumeLocks -> Proc \cup {"runtime", "client", None}])'
    BY <1>8 DEF Fail, Release
  <1>9. ASSUME NEW p \in Proc, Crash(p)
         PROVE  (lock \in [VolumeLocks -> Proc \cup {"runtime", "client", None}])'
    BY <1>9 DEF Crash, Release
  <1>10. CASE ReserveUse
    BY <1>10 DEF ReserveUse
  <1>11. CASE RuntimeEnds
    BY <1>11 DEF RuntimeEnds, MachineEnds
  <1>12. ASSUME NEW i \in Dir, TransferLock(i)
          PROVE  (lock \in [VolumeLocks -> Proc \cup {"runtime", "client", None}])'
    BY <1>12 DEF TransferLock, Hold
  <1>13. CASE TransferMark
    BY <1>13 DEF TransferMark, Drop
  <1>14. CASE TransferAfter
    BY <1>14 DEF TransferAfter, Drop
  <1>15. CASE ClientLost
    BY <1>15 DEF ClientLost, Drop
  <1>16. CASE UNCHANGED <<lock>>
    BY <1>16
  <1> QED
    BY <1>1, <1>2, <1>3, <1>4, <1>5, <1>6, <1>7, <1>8, <1>9, <1>10, <1>11,
       <1>12, <1>13, <1>14, <1>15, <1>16, LockFrame

(* So do the transactions' locks.                                          *)
LEMMA XlockTyped ==
    TransferInv /\ [Next]_vars => (xlock \in [Export -> Proc \cup {None}])'
  <1> SUFFICES ASSUME TransferInv, [Next]_vars
               PROVE  (xlock \in [Export -> Proc \cup {None}])'
    OBVIOUS
  <1> USE DEF TransferInv, ImportTypeOK, TypeOK
  <1>1. ASSUME NEW p \in Proc, captureBoundExportInspector(p)
         PROVE  (xlock \in [Export -> Proc \cup {None}])'
    <2> DEFINE t == op[p].tx
    <2>1. UNCHANGED xlock \/ xlock' = [xlock EXCEPT ![t] = p]
      BY <1>1 DEF captureBoundExportInspector
    <2> QED
      BY <2>1
  <1>2. ASSUME NEW p \in Proc, InspectorStopped(p)
         PROVE  (xlock \in [Export -> Proc \cup {None}])'
    BY <1>2 DEF InspectorStopped, XRelease
  <1>3. ASSUME NEW p \in Proc, InspectorCancelled(p)
         PROVE  (xlock \in [Export -> Proc \cup {None}])'
    BY <1>3 DEF InspectorCancelled, XRelease
  <1>4. ASSUME NEW p \in Proc, InspectorStopUnproven(p)
         PROVE  (xlock \in [Export -> Proc \cup {None}])'
    BY <1>4 DEF InspectorStopUnproven, XRelease
  <1>5. ASSUME NEW p \in Proc, PublishBegin(p)
         PROVE  (xlock \in [Export -> Proc \cup {None}])'
    <2> DEFINE t == op[p].tx
    <2>1. UNCHANGED xlock \/ xlock' = [xlock EXCEPT ![t] = p]
      BY <1>5 DEF PublishBegin
    <2> QED
      BY <2>1
  <1>6. ASSUME NEW p \in Proc, ReceiveTerminal(p)
         PROVE  (xlock \in [Export -> Proc \cup {None}])'
    <2>1. UNCHANGED xlock \/ xlock' = XRelease(p)
      BY <1>6 DEF ReceiveTerminal
    <2> QED
      BY <2>1 DEF XRelease
  <1>7. ASSUME NEW p \in Proc, PublishFinish(p)
         PROVE  (xlock \in [Export -> Proc \cup {None}])'
    BY <1>7 DEF PublishFinish, XRelease
  <1>8. ASSUME NEW p \in Proc, Fail(p)
         PROVE  (xlock \in [Export -> Proc \cup {None}])'
    BY <1>8 DEF Fail, XRelease
  <1>9. ASSUME NEW p \in Proc, Crash(p)
         PROVE  (xlock \in [Export -> Proc \cup {None}])'
    BY <1>9 DEF Crash, XRelease
  <1>10. CASE UNCHANGED <<xlock>>
    BY <1>10
  <1> QED
    BY <1>1, <1>2, <1>3, <1>4, <1>5, <1>6, <1>7, <1>8, <1>9, <1>10,
       XlockFrame

(* So does the count of faults.                                            *)
LEMMA FaultsTyped ==
    TransferInv /\ [Next]_vars => (faults \in 0..MaxFault)'
  <1> SUFFICES ASSUME TransferInv, [Next]_vars
               PROVE  (faults \in 0..MaxFault)'
    OBVIOUS
  <1> USE DEF TransferInv, ImportTypeOK, TypeOK
  <1>1. ASSUME NEW p \in Proc, InspectorCancelled(p)
         PROVE  (faults \in 0..MaxFault)'
    BY <1>1, ExportAssumption DEF InspectorCancelled
  <1>2. ASSUME NEW p \in Proc, InspectorStopUnproven(p)
         PROVE  (faults \in 0..MaxFault)'
    BY <1>2, ExportAssumption DEF InspectorStopUnproven
  <1>3. ASSUME NEW p \in Proc, Fail(p)
         PROVE  (faults \in 0..MaxFault)'
    BY <1>3, ExportAssumption DEF Fail
  <1>4. ASSUME NEW p \in Proc, Crash(p)
         PROVE  (faults \in 0..MaxFault)'
    BY <1>4, ExportAssumption DEF Crash
  <1>5. CASE UNCHANGED <<faults>>
    BY <1>5
  <1> QED
    BY <1>1, <1>2, <1>3, <1>4, <1>5, FaultsFrame

-----------------------------------------------------------------------------
(* Journals only move forward.                                             *)

(* A journal stays where it is or takes the next phase; it keeps its       *)
(* parent and selection, and its snapshot once it has claimed one.         *)
Forward(j, k) ==
    /\ k # None /\ k \in Journal /\ k.parent = j.parent /\ k.sel = j.sel
    /\ \/ k = j
       \/ j.phase = "copying" /\ k.phase \in {"ready", "aborted"}
       \/ j.phase = "ready" /\ k.phase = "inspected" /\ k.snap = j.snap
       \/ j.phase = "inspected" /\ k.phase = "published" /\ k.snap = j.snap

JournalsForward == \A t \in Export : jr[t] # None => Forward(jr[t], jr'[t])

(* A journal that is not written is where it was.                          *)
LEMMA ForwardOne ==
    ASSUME TransferInv, NEW t \in Export, jr' = [jr EXCEPT ![t] = jr'[t]],
           Forward(jr[t], jr'[t])
    PROVE  JournalsForward
  <1> SUFFICES ASSUME NEW u \in Export, jr[u] # None, u # t
               PROVE  Forward(jr[u], jr'[u])
    BY DEF JournalsForward
  <1>1. jr'[u] = jr[u] /\ jr[u] \in Journal
    BY DEF TransferInv, ImportTypeOK, TypeOK
  <1> QED
    BY <1>1 DEF Forward

(* Every journal moves forward or stays.                                   *)
LEMMA JournalLives ==
    TransferInv /\ [Next]_vars => JournalsForward
  <1> SUFFICES ASSUME TransferInv, [Next]_vars
               PROVE  JournalsForward
    OBVIOUS
  <1> USE DEF TransferInv, ImportTypeOK, TypeOK, JournalsForward
  <1>1. ASSUME NEW p \in Proc, NEW t \in Export, NEW d \in Parent,
     NEW s \in Dir, CreateJournal(p, t, d, s)
         PROVE  JournalsForward
    <2>1. jr[t] = None /\ jr' = [jr EXCEPT ![t] = jr'[t]]
      BY <1>1 DEF CreateJournal
    <2>2. ASSUME NEW u \in Export, jr[u] # None
          PROVE  Forward(jr[u], jr'[u])
      BY <2>1, <2>2 DEF Forward
    <2> QED
      BY <2>2
  <1>2. ASSUME NEW p \in Proc, AdvanceReady(p)
         PROVE  JournalsForward
    <2> DEFINE t == op[p].tx
    <2>1. /\ t \in Export /\ jr[t] \in Journal /\ ValidJournal(jr'[t])
          /\ jr' = [jr EXCEPT ![t] = jr'[t]] /\ op[p].first \in Data
          /\ jr[t].phase = "copying" /\ jr[t].snap = None
          /\ jr'[t] = [jr[t] EXCEPT !.phase = "ready", !.snap = op[p].first]
      BY <1>2
         DEF AdvanceReady, advanceExportJournalLocked, CommandExact,
             Transacting, CopyStep, ValidJournal, Claims
    <2> HIDE DEF t
    <2>2. jr'[t] = [phase |-> "ready", parent |-> jr[t].parent, sel |-> jr[t].sel, snap |-> op[p].first]
      BY <2>1 DEF Journal
    <2>3. /\ jr'[t] \in Journal /\ jr'[t].phase = "ready"
          /\ jr'[t].parent = jr[t].parent /\ jr'[t].sel = jr[t].sel
      BY <2>1, <2>2 DEF Journal, Phases
    <2>4. Forward(jr[t], jr'[t])
      BY <2>1, <2>3, ExportAssumption DEF Forward
    <2> QED
      BY <2>1, <2>4, ForwardOne
  <1>3. ASSUME NEW p \in Proc, RecoverAbort(p)
         PROVE  JournalsForward
    <2> DEFINE t == op[p].tx
    <2>1. /\ t \in Export /\ jr[t] \in Journal /\ jr'[t] = [jr[t] EXCEPT !.phase = "aborted"]
          /\ jr' = [jr EXCEPT ![t] = jr'[t]] /\ jr[t].phase = "copying"
      BY <1>3
         DEF RecoverAbort, Phase, advanceExportJournalLocked, CommandExact,
             Transacting, CopyStep, PublishStep
    <2> HIDE DEF t
    <2>2. "aborted" \in Phases
      BY DEF Phases
    <2>3. /\ jr'[t] \in Journal /\ jr'[t].phase = "aborted" /\ jr'[t].snap = jr[t].snap
          /\ jr'[t].parent = jr[t].parent /\ jr'[t].sel = jr[t].sel
      BY ONLY <2>1, <2>2, PhaseEffect
    <2>4. Forward(jr[t], jr'[t])
      BY <2>1, <2>3, ExportAssumption DEF Forward
    <2> QED
      BY <2>1, <2>4, ForwardOne
  <1>4. ASSUME NEW p \in Proc, PublishBegin(p)
         PROVE  JournalsForward
    <2>1. CASE PublishOK(op[p].tx) /\ jr[op[p].tx].phase = "ready"
      <3> DEFINE t == op[p].tx
      <3>1. /\ t \in Export /\ jr[t] \in Journal /\ jr'[t] = [jr[t] EXCEPT !.phase = "inspected"]
            /\ jr' = [jr EXCEPT ![t] = jr'[t]] /\ jr[t].phase = "ready"
        BY <1>4, <2>1
           DEF PublishBegin, Phase, advanceExportJournalLocked, CommandExact,
               Transacting, CopyStep, PublishStep
      <3> HIDE DEF t
      <3>2. "inspected" \in Phases
        BY DEF Phases
      <3>3. /\ jr'[t] \in Journal /\ jr'[t].phase = "inspected" /\ jr'[t].snap = jr[t].snap
            /\ jr'[t].parent = jr[t].parent /\ jr'[t].sel = jr[t].sel
        BY ONLY <3>1, <3>2, PhaseEffect
      <3>4. Forward(jr[t], jr'[t])
        BY <3>1, <3>3, ExportAssumption DEF Forward
      <3> QED
        BY <3>1, <3>4, ForwardOne
    <2>2. CASE ~(PublishOK(op[p].tx) /\ jr[op[p].tx].phase = "ready")
      <3>1. UNCHANGED jr
        BY <1>4, <2>2 DEF PublishBegin
      <3> QED
        BY <3>1 DEF Forward
    <2> QED
      BY <2>1, <2>2
  <1>5. ASSUME NEW p \in Proc, PublishFinish(p)
         PROVE  JournalsForward
    <2> DEFINE t == op[p].tx
    <2>1. /\ t \in Export /\ jr[t] \in Journal /\ jr'[t] = [jr[t] EXCEPT !.phase = "published"]
          /\ jr' = [jr EXCEPT ![t] = jr'[t]] /\ jr[t].phase = "inspected"
      BY <1>5
         DEF PublishFinish, Phase, advanceExportJournalLocked, CommandExact,
             Transacting, CopyStep, PublishStep
    <2> HIDE DEF t
    <2>2. "published" \in Phases
      BY DEF Phases
    <2>3. /\ jr'[t] \in Journal /\ jr'[t].phase = "published" /\ jr'[t].snap = jr[t].snap
          /\ jr'[t].parent = jr[t].parent /\ jr'[t].sel = jr[t].sel
      BY ONLY <2>1, <2>2, PhaseEffect
    <2>4. Forward(jr[t], jr'[t])
      BY <2>1, <2>3, ExportAssumption DEF Forward
    <2> QED
      BY <2>1, <2>4, ForwardOne
  <1>6. CASE UNCHANGED <<jr>>
    BY <1>6 DEF Forward
  <1> QED
    BY <1>1, <1>2, <1>3, <1>4, <1>5, <1>6, JrFrame

-----------------------------------------------------------------------------
(* How each step moves its command.                                        *)

(* Only p's command changes.                                               *)
OnlyMoves(p) ==
    op' \in [Proc -> Command] /\ \A q \in Proc : q # p => op'[q] = op[q]

(* The command keeps its transaction and what it saw.                      *)
Keeps(p) ==
    op'[p].tx = op[p].tx /\ op'[p].saw = op[p].saw /\ op'[p].first = op[p].first

LEMMA CreateReadMoves ==
    ASSUME TransferInv, NEW p \in Proc, CreateRead(p)
    PROVE  /\ OnlyMoves(p) /\ op[p].pc = "idle"
           /\ op'[p].pc = "lock"
  <1> USE DEF TransferInv, ImportTypeOK, TypeOK
  <1>1. op[p] \in Command /\ op'[p] = [Idle EXCEPT !.pc = "lock"] /\ op' = [op EXCEPT ![p] = op'[p]]
    BY DEF CreateRead
  <1>2. op'[p] = [pc |-> "lock", tx |-> None, saw |-> None, first |-> None]
    BY <1>1 DEF Command, Idle
  <1>3. op'[p] \in Command
    BY <1>2 DEF Command, PCs
  <1>4. op' \in [Proc -> Command] /\ \A q \in Proc : q # p => op'[q] = op[q]
    BY <1>1, <1>3
  <1> QED
    BY <1>2, <1>4 DEF CreateRead, OnlyMoves

LEMMA CreateJournalMoves ==
    ASSUME TransferInv, NEW p \in Proc, NEW t \in Export, NEW d \in Parent, NEW s \in Dir, CreateJournal(p, t, d, s), [Next]_vars
    PROVE  /\ OnlyMoves(p) /\ op[p].pc = "lock"
           /\ op'[p].pc = "mark" /\ op'[p].tx = t /\ op'[p].saw = jr'[t]
  <1> USE DEF TransferInv, ImportTypeOK, TypeOK
  <1>1. op[p] \in Command /\ op'[p] = [Idle EXCEPT !.pc = "mark", !.tx = t, !.saw = jr'[t]] /\ op' = [op EXCEPT ![p] = op'[p]]
    BY DEF CreateJournal
  <1>2. op'[p] = [pc |-> "mark", tx |-> t, saw |-> jr'[t], first |-> None]
    BY <1>1 DEF Command, Idle
  <1>3. jr'[t] \in Journal
    BY DEF CreateJournal, Journal, Phases
  <1>4. op'[p] \in Command
    BY <1>2, <1>3 DEF Command, PCs
  <1>5. op' \in [Proc -> Command] /\ \A q \in Proc : q # p => op'[q] = op[q]
    BY <1>1, <1>4
  <1> QED
    BY <1>2, <1>5 DEF CreateJournal, OnlyMoves

LEMMA CreateRefusedMoves ==
    ASSUME TransferInv, NEW p \in Proc, CreateRefused(p)
    PROVE  OnlyMoves(p) /\ op[p].pc = "lock" /\ op'[p].pc = "idle"
  BY ReturnEffect
     DEF TransferInv, ImportTypeOK, OnlyMoves, CreateRefused

LEMMA BeginExportSnapshotMoves ==
    ASSUME TransferInv, NEW p \in Proc, BeginExportSnapshot(p)
    PROVE  /\ OnlyMoves(p) /\ op[p].pc = "mark"
           /\ op'[p].pc = "mkdir" /\ Keeps(p)
  BY GotoEffect
     DEF TransferInv, ImportTypeOK, OnlyMoves, BeginExportSnapshot, Keeps,
         PCs

LEMMA MakeDirectoryMoves ==
    ASSUME TransferInv, NEW p \in Proc, MakeDirectory(p)
    PROVE  /\ OnlyMoves(p) /\ op[p].pc = "mkdir"
           /\ op'[p].pc = "open" /\ Keeps(p)
  BY GotoEffect
     DEF TransferInv, ImportTypeOK, OnlyMoves, MakeDirectory, Keeps, PCs

LEMMA CopyOpenMoves ==
    ASSUME TransferInv, NEW p \in Proc, CopyOpen(p)
    PROVE  /\ OnlyMoves(p) /\ op[p].pc = "open"
           /\ op'[p].pc = "copy" /\ op'[p].first = disk.data
           /\ op'[p].tx = op[p].tx /\ op'[p].saw = op[p].saw
  <1> USE DEF TransferInv, ImportTypeOK, TypeOK
  <1>1. op[p] \in Command /\ op'[p] = [op[p] EXCEPT !.pc = "copy", !.first = disk.data] /\ op' = [op EXCEPT ![p] = op'[p]]
    BY DEF CopyOpen
  <1>2. op'[p] = [pc |-> "copy", tx |-> op[p].tx, saw |-> op[p].saw, first |-> disk.data]
    BY <1>1 DEF Command, Idle
  <1>3. disk.data \in Data /\ op[p].tx \in Export \cup {None} /\ op[p].saw \in Journal \cup {None}
    BY <1>1 DEF Command
  <1>4. op'[p] \in Command
    BY <1>2, <1>3 DEF Command, PCs
  <1>5. op' \in [Proc -> Command] /\ \A q \in Proc : q # p => op'[q] = op[q]
    BY <1>1, <1>4
  <1> QED
    BY <1>2, <1>5 DEF CopyOpen, OnlyMoves

LEMMA copyExportSnapshotMoves ==
    ASSUME TransferInv, NEW p \in Proc, copyExportSnapshot(p)
    PROVE  /\ OnlyMoves(p) /\ op[p].pc = "copy"
           /\ op'[p].pc = "ready" /\ Keeps(p)
  BY GotoEffect
     DEF TransferInv, ImportTypeOK, OnlyMoves, copyExportSnapshot, Keeps, PCs

LEMMA AdvanceReadyMoves ==
    ASSUME TransferInv, NEW p \in Proc, AdvanceReady(p), [Next]_vars
    PROVE  /\ OnlyMoves(p) /\ op[p].pc = "ready"
           /\ op'[p].pc = "clear" /\ op'[p].tx = op[p].tx
  <1> USE DEF TransferInv, ImportTypeOK, TypeOK
  <1>1. op[p] \in Command /\ op'[p] = [op[p] EXCEPT !.pc = "clear", !.saw = jr'[op[p].tx]] /\ op' = [op EXCEPT ![p] = op'[p]]
    BY DEF AdvanceReady
  <1>2. op'[p] = [pc |-> "clear", tx |-> op[p].tx, saw |-> jr'[op[p].tx], first |-> op[p].first]
    BY <1>1 DEF Command, Idle
  <1>3. /\ jr'[op[p].tx] \in Journal
        /\ op[p].tx \in Export /\ op[p].first \in Data \cup {None}
    BY <1>1, JournalLives
       DEF JournalsForward, Forward, CommandExact, Transacting, AdvanceReady,
           Command
  <1>4. op'[p] \in Command
    BY <1>2, <1>3 DEF Command, PCs
  <1>5. op' \in [Proc -> Command] /\ \A q \in Proc : q # p => op'[q] = op[q]
    BY <1>1, <1>4
  <1> QED
    BY <1>2, <1>5 DEF AdvanceReady, OnlyMoves

LEMMA CreateFinishMoves ==
    ASSUME TransferInv, NEW p \in Proc, CreateFinish(p)
    PROVE  /\ OnlyMoves(p) /\ op[p].pc = "clear"
           /\ op'[p].pc = "build" /\ Keeps(p)
  BY GotoEffect
     DEF TransferInv, ImportTypeOK, OnlyMoves, CreateFinish, Keeps, PCs

LEMMA ResumeBeginMoves ==
    ASSUME TransferInv, NEW p \in Proc, NEW t \in Export, ResumeBegin(p, t)
    PROVE  /\ OnlyMoves(p) /\ op[p].pc = "idle" /\ op'[p].tx = t
           /\ op'[p].pc \in {"rlock", "readmit"}
           /\ op'[p].pc = "readmit" => jr[t].phase \in Claims /\ vol.pend # t
  <1> USE DEF TransferInv, ImportTypeOK, TypeOK
  <1> DEFINE copied == \/ jr[t].phase \in {"copying", "aborted"}
                       \/ jr[t].phase = "ready" /\ vol.pend = t
  <1>1. PICK l \in {"rlock", "readmit"} : l = IF copied THEN "rlock" ELSE "readmit"
    OBVIOUS
  <1>2. /\ op'[p] = [Idle EXCEPT !.tx = t, !.saw = jr[t], !.pc = l]
        /\ op' = [op EXCEPT ![p] = op'[p]] /\ op[p] \in Command /\ jr[t] \in Journal
    BY <1>1 DEF ResumeBegin
  <1>3. l \in PCs /\ t \in Export
    BY DEF PCs
  <1>4. op'[p] = [pc |-> l, tx |-> t, saw |-> jr[t], first |-> None]
    BY <1>2 DEF Idle
  <1>5. op'[p] \in Command /\ op'[p].pc = l /\ op'[p].tx = t
    BY <1>2, <1>3, <1>4 DEF Command
  <1>6. op' \in [Proc -> Command] /\ \A q \in Proc : q # p => op'[q] = op[q]
    BY <1>2, <1>5
  <1>7. jr[t].phase \in Phases /\ t # None
    BY <1>2, ExportAssumption DEF Journal
  <1>8. l = "readmit" => jr[t].phase \in Claims /\ vol.pend # t
    BY <1>1, <1>7 DEF Phases, Claims, PendingOwnsVolume
  <1> QED
    BY <1>5, <1>6, <1>7, <1>8 DEF ResumeBegin, OnlyMoves

LEMMA RecoverLockMoves ==
    ASSUME TransferInv, NEW p \in Proc, RecoverLock(p)
    PROVE  /\ OnlyMoves(p) /\ op[p].pc = "rlock"
           /\ op'[p].pc = "recover" /\ Keeps(p)
  BY GotoEffect
     DEF TransferInv, ImportTypeOK, OnlyMoves, RecoverLock, Keeps, PCs

LEMMA RecoverSettledMoves ==
    ASSUME TransferInv, NEW p \in Proc, RecoverSettled(p)
    PROVE  /\ OnlyMoves(p) /\ op[p].pc = "recover"
           /\ \/ op'[p].pc = "readmit" /\ Keeps(p)
              \/ op'[p].pc = "idle"
  BY GotoEffect, ReturnEffect
     DEF TransferInv, ImportTypeOK, OnlyMoves, RecoverSettled, Keeps, PCs,
         RecoverReturn

LEMMA removeExactPartialSnapshotMoves ==
    ASSUME TransferInv, NEW p \in Proc, removeExactPartialSnapshot(p)
    PROVE  /\ OnlyMoves(p) /\ op[p].pc = "recover"
           /\ op'[p].pc = "rabort" /\ Keeps(p)
  BY GotoEffect
     DEF TransferInv, ImportTypeOK, OnlyMoves, removeExactPartialSnapshot,
         Keeps, PCs

LEMMA RecoverAbortMoves ==
    ASSUME TransferInv, NEW p \in Proc, RecoverAbort(p)
    PROVE  /\ OnlyMoves(p) /\ op[p].pc = "rabort"
           /\ op'[p].pc = "rclear" /\ Keeps(p)
  BY GotoEffect
     DEF TransferInv, ImportTypeOK, OnlyMoves, RecoverAbort, Keeps, PCs

LEMMA RecoverAbortedMoves ==
    ASSUME TransferInv, NEW p \in Proc, RecoverAborted(p)
    PROVE  /\ OnlyMoves(p) /\ op[p].pc = "recover"
           /\ op'[p].pc = "rclear" /\ Keeps(p)
  BY GotoEffect
     DEF TransferInv, ImportTypeOK, OnlyMoves, RecoverAborted, Keeps, PCs

LEMMA RecoverClearMoves ==
    ASSUME TransferInv, NEW p \in Proc, RecoverClear(p)
    PROVE  OnlyMoves(p) /\ op[p].pc = "rclear" /\ op'[p].pc = "idle"
  BY ReturnEffect
     DEF TransferInv, ImportTypeOK, OnlyMoves, RecoverClear, RecoverReturn

LEMMA RecoverReadyMoves ==
    ASSUME TransferInv, NEW p \in Proc, RecoverReady(p)
    PROVE  /\ OnlyMoves(p) /\ op[p].pc = "recover"
           /\ op'[p].pc = "readmit" /\ Keeps(p)
  BY GotoEffect
     DEF TransferInv, ImportTypeOK, OnlyMoves, RecoverReady, Keeps, PCs,
         RecoverReturn

LEMMA RecoverRefusedMoves ==
    ASSUME TransferInv, NEW p \in Proc, RecoverRefused(p)
    PROVE  OnlyMoves(p) /\ op[p].pc = "recover" /\ op'[p].pc = "idle"
  BY ReturnEffect
     DEF TransferInv, ImportTypeOK, OnlyMoves, RecoverRefused, RecoverReturn

LEMMA resumeSelectedWorkspaceMoves ==
    ASSUME TransferInv, NEW p \in Proc, resumeSelectedWorkspace(p)
    PROVE  /\ OnlyMoves(p) /\ op[p].pc = "readmit"
           /\ \/ op'[p].pc = "build" /\ op'[p].tx = op[p].tx
              \/ op'[p].pc = "idle"
  <1> USE DEF TransferInv, ImportTypeOK, TypeOK
  <1>1. CASE Return(p)
    BY <1>1, ReturnEffect DEF resumeSelectedWorkspace, OnlyMoves
  <1>2. CASE op' = [op EXCEPT ![p].pc = "build", ![p].saw = jr[op[p].tx]]
    <2>1. /\ op'[p] = [op[p] EXCEPT !.pc = "build", !.saw = jr[op[p].tx]]
          /\ op' = [op EXCEPT ![p] = op'[p]] /\ op[p] \in Command
      BY <1>2
    <2>2. jr[op[p].tx] \in Journal /\ "build" \in PCs
      BY DEF resumeSelectedWorkspace, CommandExact, Transacting, PCs
    <2>3. op'[p] = [op[p] EXCEPT !.pc = "build", !.saw = jr[op[p].tx]]
      BY <2>1
    <2>4. op'[p] = [pc |-> "build", tx |-> op[p].tx, saw |-> jr[op[p].tx], first |-> op[p].first]
      BY <2>1, <2>3 DEF Command
    <2>5. op'[p] \in Command /\ op'[p].pc = "build" /\ op'[p].tx = op[p].tx
      BY <2>1, <2>2, <2>4 DEF Command
    <2> QED
      BY <2>1, <2>5 DEF resumeSelectedWorkspace, OnlyMoves
  <1> QED
    BY <1>1, <1>2 DEF resumeSelectedWorkspace

LEMMA buildAdmittedExportInspectorBundleMoves ==
    ASSUME TransferInv, NEW p \in Proc, buildAdmittedExportInspectorBundle(p)
    PROVE  /\ OnlyMoves(p) /\ op[p].pc = "build"
           /\ \/ op'[p].pc = "capture" /\ Keeps(p)
              \/ op'[p].pc = "idle"
  BY GotoEffect, ReturnEffect
     DEF TransferInv, ImportTypeOK, OnlyMoves,
         buildAdmittedExportInspectorBundle, Keeps, PCs

LEMMA captureBoundExportInspectorMoves ==
    ASSUME TransferInv, NEW p \in Proc, captureBoundExportInspector(p)
    PROVE  /\ OnlyMoves(p) /\ op[p].pc = "capture"
           /\ \/ /\ op'[p].pc = "inspect" /\ Keeps(p)
                 /\ spool[op[p].tx].st = "absent" /\ xlock[op[p].tx] = None
                 /\ prepareExportInspectorRequestLocked(op[p].tx)
                 /\ xlock' = [xlock EXCEPT ![op[p].tx] = p]
                 /\ spool' = [spool EXCEPT ![op[p].tx] = [st |-> "partial", mark |-> "absent"]]
                 /\ helper' = [helper EXCEPT ![op[p].tx] = @ + 1]
              \/ /\ op'[p].pc = "idle"
                 /\ UNCHANGED <<xlock, spool, helper>>
  <1>1. CASE prepareExportInspectorRequestLocked(op[p].tx) /\ OpenSpool(op[p].tx)
    <2>1. /\ op[p].pc = "capture" /\ Goto(p, "inspect")
          /\ spool[op[p].tx].st = "absent" /\ xlock[op[p].tx] = None
          /\ prepareExportInspectorRequestLocked(op[p].tx)
          /\ xlock' = [xlock EXCEPT ![op[p].tx] = p]
          /\ spool' = [spool EXCEPT ![op[p].tx] = [st |-> "partial", mark |-> "absent"]]
          /\ helper' = [helper EXCEPT ![op[p].tx] = @ + 1]
      BY <1>1 DEF captureBoundExportInspector, OpenSpool, XFree
    <2> QED
      BY <2>1, GotoEffect
         DEF TransferInv, ImportTypeOK, OnlyMoves, Keeps, PCs
  <1>2. CASE ~(prepareExportInspectorRequestLocked(op[p].tx) /\ OpenSpool(op[p].tx))
    <2>1. /\ op[p].pc = "capture" /\ Return(p)
          /\ UNCHANGED <<xlock, spool, helper>>
      BY <1>2 DEF captureBoundExportInspector, OpenSpool, XFree
    <2> QED
      BY <2>1, ReturnEffect DEF TransferInv, ImportTypeOK, OnlyMoves
  <1> QED
    BY <1>1, <1>2

LEMMA InspectorStoppedMoves ==
    ASSUME TransferInv, NEW p \in Proc, InspectorStopped(p)
    PROVE  /\ OnlyMoves(p) /\ op[p].pc = "inspect"
           /\ \/ /\ op'[p].pc = "publish" /\ Keeps(p)
                 /\ admitExactExportSnapshot(op[p].tx)
                 /\ spool' = [spool EXCEPT ![op[p].tx] =
                              [st |-> "full", mark |-> snap[op[p].tx].data[jr[op[p].tx].sel]]]
              \/ /\ op'[p].pc = "idle"
                 /\ spool' = [spool EXCEPT ![op[p].tx] = NoSpool]
  <1>1. CASE admitExactExportSnapshot(op[p].tx) /\ jr[op[p].tx] = op[p].saw
    <2>1. /\ op[p].pc = "inspect" /\ Goto(p, "publish")
          /\ admitExactExportSnapshot(op[p].tx)
          /\ spool' = [spool EXCEPT ![op[p].tx] =
                       [st |-> "full", mark |-> snap[op[p].tx].data[jr[op[p].tx].sel]]]
      BY <1>1 DEF InspectorStopped
    <2> QED
      BY <2>1, GotoEffect
         DEF TransferInv, ImportTypeOK, OnlyMoves, Keeps, PCs
  <1>2. CASE ~(admitExactExportSnapshot(op[p].tx) /\ jr[op[p].tx] = op[p].saw)
    <2>1. /\ op[p].pc = "inspect" /\ Return(p)
          /\ spool' = [spool EXCEPT ![op[p].tx] = NoSpool]
      BY <1>2 DEF InspectorStopped
    <2> QED
      BY <2>1, ReturnEffect DEF TransferInv, ImportTypeOK, OnlyMoves
  <1> QED
    BY <1>1, <1>2

LEMMA InspectorCancelledMoves ==
    ASSUME TransferInv, NEW p \in Proc, InspectorCancelled(p)
    PROVE  OnlyMoves(p) /\ op[p].pc = "inspect" /\ op'[p].pc = "idle"
  BY ReturnEffect
     DEF TransferInv, ImportTypeOK, OnlyMoves, InspectorCancelled

LEMMA InspectorStopUnprovenMoves ==
    ASSUME TransferInv, NEW p \in Proc, InspectorStopUnproven(p)
    PROVE  OnlyMoves(p) /\ op[p].pc = "inspect" /\ op'[p].pc = "idle"
  BY ReturnEffect
     DEF TransferInv, ImportTypeOK, OnlyMoves, InspectorStopUnproven

LEMMA PublishBeginMoves ==
    ASSUME TransferInv, NEW p \in Proc, PublishBegin(p), [Next]_vars
    PROVE  /\ OnlyMoves(p) /\ op[p].pc = "publish"
           /\ \/ /\ op'[p].pc = "receive" /\ op'[p].tx = op[p].tx
                 /\ op'[p].saw = jr'[op[p].tx] /\ jr'[op[p].tx].phase = "inspected"
                 /\ xlock[op[p].tx] = None /\ xlock' = [xlock EXCEPT ![op[p].tx] = p]
                 /\ UNCHANGED spool
              \/ /\ op'[p].pc = "idle" /\ UNCHANGED <<jr, xlock>>
                 /\ spool' = [spool EXCEPT ![op[p].tx] = NoSpool]
  <1> USE DEF TransferInv, ImportTypeOK, TypeOK
  <1>1. CASE ~PublishOK(op[p].tx)
    <2>1. /\ Return(p) /\ op[p].pc = "publish" /\ UNCHANGED <<jr, xlock>>
          /\ spool' = [spool EXCEPT ![op[p].tx] = NoSpool]
      BY <1>1 DEF PublishBegin, RemoveSpool
    <2> QED
      BY <2>1, ReturnEffect DEF OnlyMoves
  <1>2. CASE PublishOK(op[p].tx)
    <2>1. /\ op' = [op EXCEPT ![p].pc = "receive", ![p].saw = jr'[op[p].tx]]
          /\ op[p].pc = "publish" /\ op[p] \in Command /\ UNCHANGED spool
          /\ xlock[op[p].tx] = None /\ xlock' = [xlock EXCEPT ![op[p].tx] = p]
      BY <1>2 DEF PublishBegin, XFree
    <2>2. /\ op'[p] = [op[p] EXCEPT !.pc = "receive", !.saw = jr'[op[p].tx]]
          /\ op' = [op EXCEPT ![p] = op'[p]]
      BY <2>1
    <2>3. op[p].tx \in Export /\ jr[op[p].tx] # None /\ jr[op[p].tx] \in Journal
      BY <2>1 DEF CommandExact, Transacting
    <2>4. jr'[op[p].tx] \in Journal /\ "receive" \in PCs
      BY <2>3, JournalLives DEF JournalsForward, Forward, PCs
    <2>5. op'[p] = [pc |-> "receive", tx |-> op[p].tx, saw |-> jr'[op[p].tx], first |-> op[p].first]
      BY <2>1, <2>2 DEF Command
    <2>6. /\ op'[p] \in Command /\ op'[p].pc = "receive"
          /\ op'[p].tx = op[p].tx /\ op'[p].saw = jr'[op[p].tx]
      BY <2>1, <2>4, <2>5 DEF Command
    <2>7. jr'[op[p].tx].phase = "inspected"
      <3>1. CASE jr[op[p].tx].phase = "ready"
        BY <1>2, <2>3, <3>1, PhaseEffect
           DEF PublishBegin, advanceExportJournalLocked, Phase, Journal
      <3>2. CASE jr[op[p].tx].phase = "inspected"
        BY <1>2, <2>3, <3>2 DEF PublishBegin
      <3> QED
        BY <1>2, <3>1, <3>2 DEF PublishOK
    <2> QED
      BY <2>1, <2>2, <2>6, <2>7 DEF OnlyMoves
  <1> QED
    BY <1>1, <1>2

LEMMA ReceiveMoves ==
    ASSUME TransferInv, NEW p \in Proc, Receive(p)
    PROVE  /\ OnlyMoves(p) /\ op[p].pc = "receive"
           /\ op'[p].pc = "rename" /\ Keeps(p)
  BY GotoEffect
     DEF TransferInv, ImportTypeOK, OnlyMoves, Receive, Keeps, PCs

LEMMA ReceiveTerminalMoves ==
    ASSUME TransferInv, NEW p \in Proc, ReceiveTerminal(p)
    PROVE  /\ OnlyMoves(p) /\ op[p].pc = "rename"
           /\ \/ /\ op'[p].pc = "final" /\ Keeps(p)
                 /\ spool[op[p].tx].mark # "absent" /\ UNCHANGED <<spool, xlock>>
                 /\ dest[jr[op[p].tx].parent].out[op[p].tx] = "absent"
                 /\ dest' = [dest EXCEPT ![jr[op[p].tx].parent].in = @ \ {op[p].tx},
                             ![jr[op[p].tx].parent].out[op[p].tx] = spool[op[p].tx].mark]
              \/ /\ op'[p].pc = "idle"
                 /\ dest' = [dest EXCEPT ![jr[op[p].tx].parent].in = @ \ {op[p].tx}]
                 /\ spool' = [spool EXCEPT ![op[p].tx] = NoSpool] /\ xlock' = XRelease(p)
  <1>1. CASE spool[op[p].tx].mark # "absent" /\ dest[jr[op[p].tx].parent].out[op[p].tx] = "absent"
    <2>1. /\ op[p].pc = "rename" /\ Goto(p, "final")
          /\ spool[op[p].tx].mark # "absent" /\ UNCHANGED <<spool, xlock>>
          /\ dest[jr[op[p].tx].parent].out[op[p].tx] = "absent"
          /\ dest' = [dest EXCEPT ![jr[op[p].tx].parent].in = @ \ {op[p].tx},
                       ![jr[op[p].tx].parent].out[op[p].tx] = spool[op[p].tx].mark]
      BY <1>1 DEF ReceiveTerminal, RemoveSpool
    <2> QED
      BY <2>1, GotoEffect
         DEF TransferInv, ImportTypeOK, OnlyMoves, Keeps, PCs
  <1>2. CASE ~(spool[op[p].tx].mark # "absent" /\ dest[jr[op[p].tx].parent].out[op[p].tx] = "absent")
    <2>1. /\ op[p].pc = "rename" /\ Return(p)
          /\ dest' = [dest EXCEPT ![jr[op[p].tx].parent].in = @ \ {op[p].tx}]
          /\ spool' = [spool EXCEPT ![op[p].tx] = NoSpool] /\ xlock' = XRelease(p)
      BY <1>2 DEF ReceiveTerminal, RemoveSpool
    <2> QED
      BY <2>1, ReturnEffect DEF TransferInv, ImportTypeOK, OnlyMoves
  <1> QED
    BY <1>1, <1>2

LEMMA PublishFinishMoves ==
    ASSUME TransferInv, NEW p \in Proc, PublishFinish(p)
    PROVE  OnlyMoves(p) /\ op[p].pc = "final" /\ op'[p].pc = "idle"
  BY ReturnEffect
     DEF TransferInv, ImportTypeOK, OnlyMoves, PublishFinish

LEMMA FailMoves ==
    ASSUME TransferInv, NEW p \in Proc, Fail(p)
    PROVE  OnlyMoves(p) /\ op[p].pc # "idle" /\ op'[p].pc = "idle"
  BY ReturnEffect
     DEF TransferInv, ImportTypeOK, OnlyMoves, Fail

LEMMA CrashMoves ==
    ASSUME TransferInv, NEW p \in Proc, Crash(p)
    PROVE  OnlyMoves(p) /\ op[p].pc # "idle" /\ op'[p].pc = "idle"
  BY ReturnEffect
     DEF TransferInv, ImportTypeOK, OnlyMoves, Crash

(* The commands stay typed.                                                *)
LEMMA OpTyped ==
    TransferInv /\ [Next]_vars => (op \in [Proc -> Command])'
  <1> SUFFICES ASSUME TransferInv, [Next]_vars
               PROVE  (op \in [Proc -> Command])'
    OBVIOUS
  <1>1. ASSUME NEW p \in Proc, CreateRead(p)
         PROVE  (op \in [Proc -> Command])'
    BY <1>1, CreateReadMoves DEF OnlyMoves
  <1>2. ASSUME NEW p \in Proc, NEW t \in Export, NEW d \in Parent,
     NEW s \in Dir, CreateJournal(p, t, d, s)
         PROVE  (op \in [Proc -> Command])'
    BY <1>2, CreateJournalMoves DEF OnlyMoves
  <1>3. ASSUME NEW p \in Proc, CreateRefused(p)
         PROVE  (op \in [Proc -> Command])'
    BY <1>3, CreateRefusedMoves DEF OnlyMoves
  <1>4. ASSUME NEW p \in Proc, BeginExportSnapshot(p)
         PROVE  (op \in [Proc -> Command])'
    BY <1>4, BeginExportSnapshotMoves DEF OnlyMoves
  <1>5. ASSUME NEW p \in Proc, MakeDirectory(p)
         PROVE  (op \in [Proc -> Command])'
    BY <1>5, MakeDirectoryMoves DEF OnlyMoves
  <1>6. ASSUME NEW p \in Proc, CopyOpen(p)
         PROVE  (op \in [Proc -> Command])'
    BY <1>6, CopyOpenMoves DEF OnlyMoves
  <1>7. ASSUME NEW p \in Proc, copyExportSnapshot(p)
         PROVE  (op \in [Proc -> Command])'
    BY <1>7, copyExportSnapshotMoves DEF OnlyMoves
  <1>8. ASSUME NEW p \in Proc, AdvanceReady(p)
         PROVE  (op \in [Proc -> Command])'
    BY <1>8, AdvanceReadyMoves DEF OnlyMoves
  <1>9. ASSUME NEW p \in Proc, CreateFinish(p)
         PROVE  (op \in [Proc -> Command])'
    BY <1>9, CreateFinishMoves DEF OnlyMoves
  <1>10. ASSUME NEW p \in Proc, NEW t \in Export, ResumeBegin(p, t)
          PROVE  (op \in [Proc -> Command])'
    BY <1>10, ResumeBeginMoves DEF OnlyMoves
  <1>11. ASSUME NEW p \in Proc, RecoverLock(p)
          PROVE  (op \in [Proc -> Command])'
    BY <1>11, RecoverLockMoves DEF OnlyMoves
  <1>12. ASSUME NEW p \in Proc, RecoverSettled(p)
          PROVE  (op \in [Proc -> Command])'
    BY <1>12, RecoverSettledMoves DEF OnlyMoves
  <1>13. ASSUME NEW p \in Proc, removeExactPartialSnapshot(p)
          PROVE  (op \in [Proc -> Command])'
    BY <1>13, removeExactPartialSnapshotMoves DEF OnlyMoves
  <1>14. ASSUME NEW p \in Proc, RecoverAbort(p)
          PROVE  (op \in [Proc -> Command])'
    BY <1>14, RecoverAbortMoves DEF OnlyMoves
  <1>15. ASSUME NEW p \in Proc, RecoverAborted(p)
          PROVE  (op \in [Proc -> Command])'
    BY <1>15, RecoverAbortedMoves DEF OnlyMoves
  <1>16. ASSUME NEW p \in Proc, RecoverClear(p)
          PROVE  (op \in [Proc -> Command])'
    BY <1>16, RecoverClearMoves DEF OnlyMoves
  <1>17. ASSUME NEW p \in Proc, RecoverReady(p)
          PROVE  (op \in [Proc -> Command])'
    BY <1>17, RecoverReadyMoves DEF OnlyMoves
  <1>18. ASSUME NEW p \in Proc, RecoverRefused(p)
          PROVE  (op \in [Proc -> Command])'
    BY <1>18, RecoverRefusedMoves DEF OnlyMoves
  <1>19. ASSUME NEW p \in Proc, resumeSelectedWorkspace(p)
          PROVE  (op \in [Proc -> Command])'
    BY <1>19, resumeSelectedWorkspaceMoves DEF OnlyMoves
  <1>20. ASSUME NEW p \in Proc, buildAdmittedExportInspectorBundle(p)
          PROVE  (op \in [Proc -> Command])'
    BY <1>20, buildAdmittedExportInspectorBundleMoves DEF OnlyMoves
  <1>21. ASSUME NEW p \in Proc, captureBoundExportInspector(p)
          PROVE  (op \in [Proc -> Command])'
    BY <1>21, captureBoundExportInspectorMoves DEF OnlyMoves
  <1>22. ASSUME NEW p \in Proc, InspectorStopped(p)
          PROVE  (op \in [Proc -> Command])'
    BY <1>22, InspectorStoppedMoves DEF OnlyMoves
  <1>23. ASSUME NEW p \in Proc, InspectorCancelled(p)
          PROVE  (op \in [Proc -> Command])'
    BY <1>23, InspectorCancelledMoves DEF OnlyMoves
  <1>24. ASSUME NEW p \in Proc, InspectorStopUnproven(p)
          PROVE  (op \in [Proc -> Command])'
    BY <1>24, InspectorStopUnprovenMoves DEF OnlyMoves
  <1>25. ASSUME NEW p \in Proc, PublishBegin(p)
          PROVE  (op \in [Proc -> Command])'
    BY <1>25, PublishBeginMoves DEF OnlyMoves
  <1>26. ASSUME NEW p \in Proc, Receive(p)
          PROVE  (op \in [Proc -> Command])'
    BY <1>26, ReceiveMoves DEF OnlyMoves
  <1>27. ASSUME NEW p \in Proc, ReceiveTerminal(p)
          PROVE  (op \in [Proc -> Command])'
    BY <1>27, ReceiveTerminalMoves DEF OnlyMoves
  <1>28. ASSUME NEW p \in Proc, PublishFinish(p)
          PROVE  (op \in [Proc -> Command])'
    BY <1>28, PublishFinishMoves DEF OnlyMoves
  <1>29. ASSUME NEW p \in Proc, Fail(p)
          PROVE  (op \in [Proc -> Command])'
    BY <1>29, FailMoves DEF OnlyMoves
  <1>30. ASSUME NEW p \in Proc, Crash(p)
          PROVE  (op \in [Proc -> Command])'
    BY <1>30, CrashMoves DEF OnlyMoves
  <1>31. CASE UNCHANGED <<op>>
    BY <1>31 DEF TransferInv, ImportTypeOK, TypeOK
  <1> QED
    BY <1>1, <1>2, <1>3, <1>4, <1>5, <1>6, <1>7, <1>8, <1>9, <1>10, <1>11,
       <1>12, <1>13, <1>14, <1>15, <1>16, <1>17, <1>18, <1>19, <1>20, <1>21,
       <1>22, <1>23, <1>24, <1>25, <1>26, <1>27, <1>28, <1>29, <1>30, <1>31,
       OpFrame, ZenonT(60)

-----------------------------------------------------------------------------
(* The import's variables.                                                 *)

(* The captured trees stay typed.                                          *)
LEMMA SrcTyped ==
    TransferInv /\ [Next]_vars => (src \in [Dir -> BOOLEAN])'
  <1> SUFFICES ASSUME TransferInv, [Next]_vars
               PROVE  (src \in [Dir -> BOOLEAN])'
    OBVIOUS
  <1> USE DEF TransferInv, ImportTypeOK, TypeOK
  <1>1. ASSUME NEW i \in Dir, CaptureSelectedSource(i)
         PROVE  (src \in [Dir -> BOOLEAN])'
    <2>1. TRUE \in BOOLEAN
      BY Zenon
    <2> QED
      BY <1>1, <2>1 DEF CaptureSelectedSource
  <1>2. CASE UNCHANGED <<src>>
    BY <1>2
  <1> QED
    BY <1>1, <1>2, SrcFrame

(* Import journals are typed and valid.                                    *)
ImportsTyped ==
    /\ ij \in [Dir -> ImportJournal \cup {None}]
    /\ \A i \in Dir : ij[i] # None => ValidImportJournal(ij[i])

(* An import is only ever carried on: a verified one never changes.        *)
ImportForward(j, k) ==
    /\ k # None
    /\ j.phase = "verified" => k = j
    /\ j.phase = "transferring" => k.phase \in {"transferring", "verified"}

ImportsForward == \A i \in Dir : ij[i] # None => ImportForward(ij[i], ij'[i])

(* One import is carried on.                                               *)
LEMMA ImportOne ==
    ASSUME TransferInv, NEW i \in Dir, ij' = [ij EXCEPT ![i] = ij'[i]],
           ij'[i] \in ImportJournal, ValidImportJournal(ij'[i]),
           ImportForward(ij[i], ij'[i])
    PROVE  ImportsTyped' /\ ImportsForward
  <1>1. ij' \in [Dir -> ImportJournal \cup {None}]
    BY DEF TransferInv, ImportTypeOK
  <1>2. ASSUME NEW k \in Dir, k # i
        PROVE  ij'[k] = ij[k] /\ (ij[k] # None => ValidImportJournal(ij'[k]))
    BY <1>2 DEF TransferInv, ImportTypeOK, ValidImportJournal
  <1>3. ImportsTyped'
    BY <1>1, <1>2 DEF ImportsTyped, ValidImportJournal
  <1> QED
    BY <1>2, <1>3 DEF ImportsForward, ImportForward

(* Import journals stay typed and are only carried on.                     *)
LEMMA ImportLives ==
    TransferInv /\ [Next]_vars => (ImportsTyped' /\ ImportsForward)
  <1> SUFFICES ASSUME TransferInv, [Next]_vars
               PROVE  (ImportsTyped' /\ ImportsForward)
    OBVIOUS
  <1> USE DEF TransferInv, ImportTypeOK, TypeOK, ImportsTyped, ImportsForward
  <1>1. ASSUME NEW i \in Dir, BeginImport(i)
         PROVE  (ImportsTyped' /\ ImportsForward)
    <2>1. [phase |-> "captured", gen |-> run.gen, export |-> None] \in ImportJournal
      BY <1>1 DEF BeginImport, ImportJournal, ImportPhases
    <2> QED
      BY <1>1, <2>1, ImportAssumption
         DEF BeginImport, ValidImportJournal, ImportForward
  <1>2. CASE TransferMark
    <2> DEFINE i == client.tx
    <2>1. CASE UNCHANGED ij
      BY <2>1 DEF ValidImportJournal, ImportForward
    <2>2. CASE ~UNCHANGED ij
      <3>1. /\ ij[i].phase = "captured" /\ ValidImportJournal(ij'[i])
            /\ i \in Dir /\ ij[i] \in ImportJournal
            /\ ij' = [ij EXCEPT ![i] = ij'[i]]
            /\ ij'[i] = [ij[i] EXCEPT !.phase = "transferring"]
        BY <1>2, <2>2
           DEF TransferMark, advanceImportJournal, TransferExact, NoClient
      <3>2. ij'[i] \in ImportJournal
        BY <3>1 DEF ImportJournal, ImportPhases
      <3>3. ImportForward(ij[i], ij'[i])
        BY <3>1, <3>2, ImportAssumption DEF ImportForward
      <3> HIDE DEF i
      <3> QED
        BY <3>1, <3>2, <3>3, ImportOne
    <2> QED
      BY <2>1, <2>2
  <1>3. ASSUME NEW i \in Dir, NEW e \in Export, VerifyStoppedImport(i, e)
         PROVE  (ImportsTyped' /\ ImportsForward)
    <2>1. /\ ij[i].phase = "transferring" /\ ValidImportJournal(ij'[i])
          /\ ij[i] \in ImportJournal /\ ij' = [ij EXCEPT ![i] = ij'[i]]
          /\ ij'[i] = [ij[i] EXCEPT !.phase = "verified", !.export = e]
      BY <1>3 DEF VerifyStoppedImport, advanceImportJournal
    <2>2. ij'[i] = [phase |-> "verified", gen |-> ij[i].gen, export |-> e]
      BY <2>1 DEF ImportJournal
    <2>3. ij'[i] \in ImportJournal /\ ij'[i].phase = "verified"
      BY <2>1, <2>2 DEF ImportJournal, ImportPhases
    <2>4. ImportForward(ij[i], ij'[i])
      BY <2>1, <2>3, ImportAssumption DEF ImportForward
    <2> QED
      BY <2>1, <2>3, <2>4, ImportOne
  <1>4. CASE UNCHANGED <<ij>>
    BY <1>4 DEF ValidImportJournal, ImportForward
  <1> QED
    BY <1>1, <1>2, <1>3, <1>4, IjFrame

(* The client stays typed.                                                 *)
LEMMA ClientTyped ==
    TransferInv /\ [Next]_vars => (client \in [pc : {"idle", "mark", "rpc", "after"}, tx : Dir \cup {None}])'
  <1> SUFFICES ASSUME TransferInv, [Next]_vars
               PROVE  (client \in [pc : {"idle", "mark", "rpc", "after"}, tx : Dir \cup {None}])'
    OBVIOUS
  <1> USE DEF TransferInv, ImportTypeOK, TypeOK
  <1>1. ASSUME NEW i \in Dir, TransferLock(i)
         PROVE  (client \in [pc : {"idle", "mark", "rpc", "after"}, tx : Dir \cup {None}])'
    BY <1>1 DEF TransferLock
  <1>2. CASE TransferMark
    BY <1>2 DEF TransferMark
  <1>3. CASE TransferAfter
    BY <1>3 DEF TransferAfter, NoClient
  <1>4. CASE ClientLost
    BY <1>4 DEF ClientLost, NoClient
  <1>5. CASE UNCHANGED <<client>>
    BY <1>5
  <1> QED
    BY <1>1, <1>2, <1>3, <1>4, <1>5, ClientFrame

(* So does the owner's transfer.                                           *)
LEMMA OwnerTyped ==
    TransferInv /\ [Next]_vars => (owner \in [st : {"idle", "upload", "read", "done"}, tx : Dir \cup {None}])'
  <1> SUFFICES ASSUME TransferInv, [Next]_vars
               PROVE  (owner \in [st : {"idle", "upload", "read", "done"}, tx : Dir \cup {None}])'
    OBVIOUS
  <1> USE DEF TransferInv, ImportTypeOK, TypeOK
  <1>1. CASE RuntimeEnds
    BY <1>1 DEF RuntimeEnds, NoTransfer
  <1>2. CASE TransferAfter
    BY <1>2 DEF TransferAfter, NoTransfer
  <1>3. CASE OwnerBegin
    <2>1. client.tx \in Dir
      BY <1>3 DEF OwnerBegin, TransferExact, NoClient
    <2> QED
      BY <1>3, <2>1 DEF OwnerBegin
  <1>4. CASE OwnerUpload
    BY <1>4 DEF OwnerUpload, NoTransfer
  <1>5. CASE OwnerReadback
    <2>1. owner' = [owner EXCEPT !.st = "done"] \/ owner' = NoTransfer
      BY <1>5 DEF OwnerReadback
    <2> QED
      BY <2>1 DEF NoTransfer
  <1>6. CASE OwnerFails
    BY <1>6 DEF OwnerFails, NoTransfer
  <1>7. CASE UNCHANGED <<owner>>
    BY <1>7
  <1> QED
    BY <1>1, <1>2, <1>3, <1>4, <1>5, <1>6, <1>7, OwnerFrame

(* What owner and client rest on stays true.                               *)
LEMMA TransferExactKept ==
    TransferInv /\ [Next]_vars => TransferExact'
  <1> SUFFICES ASSUME TransferInv, [Next]_vars
               PROVE  TransferExact'
    OBVIOUS
  <1> USE DEF TransferInv, ImportTypeOK, TypeOK, TransferExact
  <1>1. CASE RuntimeEnds
    BY <1>1 DEF RuntimeEnds
  <1>2. ASSUME NEW i \in Dir, BeginImport(i)
         PROVE  TransferExact'
    BY <1>2, ImportLives
       DEF BeginImport, exportVars, ImportsForward, ImportForward
  <1>3. ASSUME NEW i \in Dir, TransferLock(i)
         PROVE  TransferExact'
    BY <1>3, ImportLives DEF TransferLock, ImportsForward, ImportForward
  <1>4. CASE TransferMark
    BY <1>4, ImportLives
       DEF TransferMark, ImportsForward, ImportForward, NoClient
  <1>5. CASE TransferAfter
    BY <1>5 DEF TransferAfter, NoClient, NoTransfer
  <1>6. CASE ClientLost
    BY <1>6 DEF ClientLost, NoClient
  <1>7. CASE OwnerBegin
    BY <1>7 DEF OwnerBegin, admitOwnerImport, LiveUse, NoClient
  <1>8. CASE OwnerUpload
    BY <1>8 DEF OwnerUpload, NoTransfer
  <1>9. CASE OwnerReadback
    <2>1. /\ owner' = [owner EXCEPT !.st = "done"] \/ owner' = NoTransfer
          /\ owner # NoTransfer
      BY <1>9 DEF OwnerReadback, NoTransfer
    <2> QED
      BY <1>9, <2>1 DEF OwnerReadback, exportVars, NoTransfer
  <1>10. CASE OwnerFails
    BY <1>10 DEF OwnerFails, exportVars, NoTransfer
  <1>11. ASSUME NEW i \in Dir, NEW e \in Export, VerifyStoppedImport(i, e)
          PROVE  TransferExact'
    BY <1>11, ImportLives
       DEF VerifyStoppedImport, exportVars, ImportsForward, ImportForward
  <1>12. CASE UNCHANGED <<ij, client, owner>> /\ (UNCHANGED run \/ ReserveUse)
    BY <1>12 DEF ReserveUse
  <1> QED
    BY <1>1, <1>2, <1>3, <1>4, <1>5, <1>6, <1>7, <1>8, <1>9, <1>10, <1>11,
       <1>12, RunFrame, IjFrame, ClientFrame, OwnerFrame

-----------------------------------------------------------------------------
(* The locks.                                                              *)

VolumeHeld ==
    \A p \in Proc : op[p].pc \in VolumePCs => \A l \in VolumeLocks : lock[l] = p
MachineHolds == run.live => lock["volume"] = "runtime"
TransactionHeld ==
    \A p \in Proc : op[p].pc \in SpoolPCs \ {"publish"} => xlock[op[p].tx] = p
OneSpooler ==
    \A p, q \in Proc :
        op[p].pc \in SpoolPCs /\ op[q].pc \in SpoolPCs /\ op[p].tx = op[q].tx => p = q

LEMMA LockParts == LockExact <=> VolumeHeld /\ MachineHolds /\ TransactionHeld /\ OneSpooler
  BY DEF LockExact, VolumeHeld, MachineHolds, TransactionHeld, OneSpooler

(* A command under the volume's locks holds them.                          *)
LEMMA VolumeHeldKept ==
    TransferInv /\ [Next]_vars => VolumeHeld'
  <1> SUFFICES ASSUME TransferInv, [Next]_vars
               PROVE  VolumeHeld'
    OBVIOUS
  <1> USE DEF TransferInv, LockExact, VolumeHeld
  <1>1. ASSUME NEW p \in Proc, CreateRead(p)
         PROVE  VolumeHeld'
    BY <1>1, CreateReadMoves, HolderNames
       DEF CreateRead, OnlyMoves, VolumePCs
  <1>2. ASSUME NEW p \in Proc, NEW t \in Export, NEW d \in Parent,
     NEW s \in Dir, CreateJournal(p, t, d, s)
         PROVE  VolumeHeld'
    <2>1. OnlyMoves(p) /\ \A l \in VolumeLocks : lock[l] = None /\ lock'[l] = p
      BY <1>2, CreateJournalMoves DEF CreateJournal, Take, Free
    <2>2. "volume" \in VolumeLocks /\ \A q \in Proc : q # None
      BY HolderNames DEF VolumeLocks
    <2> QED
      BY <2>1, <2>2 DEF OnlyMoves
  <1>3. ASSUME NEW p \in Proc, CreateRefused(p)
         PROVE  VolumeHeld'
    BY <1>3, CreateRefusedMoves, HolderNames
       DEF CreateRefused, OnlyMoves, VolumePCs
  <1>4. ASSUME NEW p \in Proc, BeginExportSnapshot(p)
         PROVE  VolumeHeld'
    BY <1>4, BeginExportSnapshotMoves, HolderNames
       DEF BeginExportSnapshot, OnlyMoves, VolumePCs
  <1>5. ASSUME NEW p \in Proc, MakeDirectory(p)
         PROVE  VolumeHeld'
    BY <1>5, MakeDirectoryMoves, HolderNames
       DEF MakeDirectory, OnlyMoves, VolumePCs
  <1>6. ASSUME NEW p \in Proc, CopyOpen(p)
         PROVE  VolumeHeld'
    <2>1. OnlyMoves(p) /\ UNCHANGED lock /\ op[p].pc = "open"
      BY <1>6, CopyOpenMoves DEF CopyOpen
    <2> QED
      BY <2>1 DEF OnlyMoves, VolumePCs
  <1>7. ASSUME NEW p \in Proc, copyExportSnapshot(p)
         PROVE  VolumeHeld'
    BY <1>7, copyExportSnapshotMoves, HolderNames
       DEF copyExportSnapshot, OnlyMoves, VolumePCs
  <1>8. ASSUME NEW p \in Proc, AdvanceReady(p)
         PROVE  VolumeHeld'
    <2>1. OnlyMoves(p) /\ UNCHANGED lock /\ op[p].pc = "ready"
      BY <1>8, AdvanceReadyMoves DEF AdvanceReady
    <2> QED
      BY <2>1 DEF OnlyMoves, VolumePCs
  <1>9. ASSUME NEW p \in Proc, CreateFinish(p)
         PROVE  VolumeHeld'
    BY <1>9, CreateFinishMoves, HolderNames
       DEF CreateFinish, Release, OnlyMoves, VolumePCs
  <1>10. ASSUME NEW p \in Proc, NEW t \in Export, ResumeBegin(p, t)
          PROVE  VolumeHeld'
    <2>1. OnlyMoves(p) /\ UNCHANGED lock /\ op'[p].pc \notin VolumePCs
      BY <1>10, ResumeBeginMoves DEF ResumeBegin, VolumePCs
    <2> QED
      BY <2>1 DEF OnlyMoves, VolumePCs
  <1>11. ASSUME NEW p \in Proc, RecoverLock(p)
          PROVE  VolumeHeld'
    BY <1>11, RecoverLockMoves, HolderNames
       DEF RecoverLock, Take, Free, OnlyMoves, VolumePCs
  <1>12. ASSUME NEW p \in Proc, RecoverSettled(p)
          PROVE  VolumeHeld'
    BY <1>12, RecoverSettledMoves, HolderNames
       DEF RecoverSettled, RecoverReturn, Release, OnlyMoves, VolumePCs
  <1>13. ASSUME NEW p \in Proc, removeExactPartialSnapshot(p)
          PROVE  VolumeHeld'
    BY <1>13, removeExactPartialSnapshotMoves, HolderNames
       DEF removeExactPartialSnapshot, OnlyMoves, VolumePCs
  <1>14. ASSUME NEW p \in Proc, RecoverAbort(p)
          PROVE  VolumeHeld'
    BY <1>14, RecoverAbortMoves, HolderNames
       DEF RecoverAbort, OnlyMoves, VolumePCs
  <1>15. ASSUME NEW p \in Proc, RecoverAborted(p)
          PROVE  VolumeHeld'
    BY <1>15, RecoverAbortedMoves, HolderNames
       DEF RecoverAborted, OnlyMoves, VolumePCs
  <1>16. ASSUME NEW p \in Proc, RecoverClear(p)
          PROVE  VolumeHeld'
    BY <1>16, RecoverClearMoves, HolderNames
       DEF RecoverClear, RecoverReturn, Release, OnlyMoves, VolumePCs
  <1>17. ASSUME NEW p \in Proc, RecoverReady(p)
          PROVE  VolumeHeld'
    BY <1>17, RecoverReadyMoves, HolderNames
       DEF RecoverReady, RecoverReturn, Release, OnlyMoves, VolumePCs
  <1>18. ASSUME NEW p \in Proc, RecoverRefused(p)
          PROVE  VolumeHeld'
    BY <1>18, RecoverRefusedMoves, HolderNames
       DEF RecoverRefused, RecoverReturn, Release, OnlyMoves, VolumePCs
  <1>19. ASSUME NEW p \in Proc, resumeSelectedWorkspace(p)
          PROVE  VolumeHeld'
    BY <1>19, resumeSelectedWorkspaceMoves, HolderNames
       DEF resumeSelectedWorkspace, OnlyMoves, VolumePCs
  <1>20. ASSUME NEW p \in Proc, buildAdmittedExportInspectorBundle(p)
          PROVE  VolumeHeld'
    BY <1>20, buildAdmittedExportInspectorBundleMoves, HolderNames
       DEF buildAdmittedExportInspectorBundle, OnlyMoves, VolumePCs
  <1>21. ASSUME NEW p \in Proc, captureBoundExportInspector(p)
          PROVE  VolumeHeld'
    BY <1>21, captureBoundExportInspectorMoves, HolderNames
       DEF captureBoundExportInspector, OnlyMoves, VolumePCs
  <1>22. ASSUME NEW p \in Proc, InspectorStopped(p)
          PROVE  VolumeHeld'
    BY <1>22, InspectorStoppedMoves, HolderNames
       DEF InspectorStopped, OnlyMoves, VolumePCs
  <1>23. ASSUME NEW p \in Proc, InspectorCancelled(p)
          PROVE  VolumeHeld'
    BY <1>23, InspectorCancelledMoves, HolderNames
       DEF InspectorCancelled, OnlyMoves, VolumePCs
  <1>24. ASSUME NEW p \in Proc, InspectorStopUnproven(p)
          PROVE  VolumeHeld'
    BY <1>24, InspectorStopUnprovenMoves, HolderNames
       DEF InspectorStopUnproven, OnlyMoves, VolumePCs
  <1>25. ASSUME NEW p \in Proc, PublishBegin(p)
          PROVE  VolumeHeld'
    BY <1>25, PublishBeginMoves, HolderNames
       DEF PublishBegin, OnlyMoves, VolumePCs
  <1>26. ASSUME NEW p \in Proc, Receive(p)
          PROVE  VolumeHeld'
    BY <1>26, ReceiveMoves, HolderNames DEF Receive, OnlyMoves, VolumePCs
  <1>27. ASSUME NEW p \in Proc, ReceiveTerminal(p)
          PROVE  VolumeHeld'
    BY <1>27, ReceiveTerminalMoves, HolderNames
       DEF ReceiveTerminal, OnlyMoves, VolumePCs
  <1>28. ASSUME NEW p \in Proc, PublishFinish(p)
          PROVE  VolumeHeld'
    BY <1>28, PublishFinishMoves, HolderNames
       DEF PublishFinish, OnlyMoves, VolumePCs
  <1>29. ASSUME NEW p \in Proc, Fail(p)
          PROVE  VolumeHeld'
    BY <1>29, FailMoves, HolderNames DEF Fail, Release, OnlyMoves, VolumePCs
  <1>30. ASSUME NEW p \in Proc, Crash(p)
          PROVE  VolumeHeld'
    BY <1>30, CrashMoves, HolderNames
       DEF Crash, Release, OnlyMoves, VolumePCs
  <1>31. CASE ReserveUse
    BY <1>31, HolderNames DEF ReserveUse, Free, VolumeLocks
  <1>32. CASE RuntimeEnds
    BY <1>32, HolderNames, LockParts
       DEF RuntimeEnds, MachineEnds, MachineHolds, VolumePCs, VolumeLocks
  <1>33. ASSUME NEW i \in Dir, TransferLock(i)
          PROVE  VolumeHeld'
    BY <1>33, HolderNames
       DEF TransferLock, Hold, Free, ImportLocks, VolumeLocks
  <1>34. CASE TransferMark
    BY <1>34, HolderNames DEF TransferMark, Drop, ImportLocks
  <1>35. CASE TransferAfter
    BY <1>35, HolderNames DEF TransferAfter, Drop, ImportLocks
  <1>36. CASE ClientLost
    BY <1>36, HolderNames DEF ClientLost, Drop, ImportLocks
  <1>37. CASE UNCHANGED <<op, lock>>
    BY <1>37
  <1> QED
    BY <1>1, <1>2, <1>3, <1>4, <1>5, <1>6, <1>7, <1>8, <1>9, <1>10, <1>11,
       <1>12, <1>13, <1>14, <1>15, <1>16, <1>17, <1>18, <1>19, <1>20, <1>21,
       <1>22, <1>23, <1>24, <1>25, <1>26, <1>27, <1>28, <1>29, <1>30, <1>31,
       <1>32, <1>33, <1>34, <1>35, <1>36, <1>37, OpFrame, LockFrame,
       ZenonT(60)

(* So does the machine.                                                    *)
LEMMA MachineHoldsKept ==
    TransferInv /\ [Next]_vars => MachineHolds'
  <1> SUFFICES ASSUME TransferInv, [Next]_vars
               PROVE  MachineHolds'
    OBVIOUS
  <1> USE DEF TransferInv, LockExact, MachineHolds
  <1>1. ASSUME NEW p \in Proc, NEW t \in Export, NEW d \in Parent,
     NEW s \in Dir, CreateJournal(p, t, d, s)
         PROVE  MachineHolds'
    BY <1>1 DEF CreateJournal, Free, stoppedSession
  <1>2. ASSUME NEW p \in Proc, CreateFinish(p)
         PROVE  MachineHolds'
    BY <1>2, HolderNames DEF CreateFinish, Release, VolumeLocks
  <1>3. ASSUME NEW p \in Proc, RecoverLock(p)
         PROVE  MachineHolds'
    BY <1>3, HolderNames DEF RecoverLock, Take, Free, VolumeLocks
  <1>4. ASSUME NEW p \in Proc, RecoverSettled(p)
         PROVE  MachineHolds'
    BY <1>4, HolderNames
       DEF RecoverSettled, RecoverReturn, Release, VolumeLocks
  <1>5. ASSUME NEW p \in Proc, RecoverClear(p)
         PROVE  MachineHolds'
    BY <1>5, HolderNames
       DEF RecoverClear, RecoverReturn, Release, VolumeLocks
  <1>6. ASSUME NEW p \in Proc, RecoverReady(p)
         PROVE  MachineHolds'
    BY <1>6, HolderNames
       DEF RecoverReady, RecoverReturn, Release, VolumeLocks
  <1>7. ASSUME NEW p \in Proc, RecoverRefused(p)
         PROVE  MachineHolds'
    BY <1>7, HolderNames
       DEF RecoverRefused, RecoverReturn, Release, VolumeLocks
  <1>8. ASSUME NEW p \in Proc, Fail(p)
         PROVE  MachineHolds'
    BY <1>8, HolderNames DEF Fail, Release, VolumeLocks
  <1>9. ASSUME NEW p \in Proc, Crash(p)
         PROVE  MachineHolds'
    BY <1>9, HolderNames DEF Crash, Release, VolumeLocks
  <1>10. CASE ReserveUse
    BY <1>10 DEF ReserveUse, VolumeLocks, TransferInv, ImportTypeOK, TypeOK
  <1>11. CASE RuntimeEnds
    BY <1>11 DEF RuntimeEnds, MachineEnds
  <1>12. ASSUME NEW i \in Dir, TransferLock(i)
          PROVE  MachineHolds'
    BY <1>12, HolderNames, ExportAssumption
       DEF TransferLock, Hold, Free, ImportLocks, VolumeLocks
  <1>13. CASE TransferMark
    BY <1>13, ExportAssumption
       DEF TransferMark, Drop, ImportLocks, VolumeLocks
  <1>14. CASE TransferAfter
    BY <1>14, ExportAssumption
       DEF TransferAfter, Drop, ImportLocks, VolumeLocks
  <1>15. CASE ClientLost
    BY <1>15, ExportAssumption DEF ClientLost, Drop, ImportLocks, VolumeLocks
  <1>16. CASE UNCHANGED <<run, lock>>
    BY <1>16
  <1> QED
    BY <1>1, <1>2, <1>3, <1>4, <1>5, <1>6, <1>7, <1>8, <1>9, <1>10, <1>11,
       <1>12, <1>13, <1>14, <1>15, <1>16, RunFrame, LockFrame, ZenonT(60)

(* A step of p takes no other's lock and drops only p's.                   *)
LEMMA TransactionOthers ==
    ASSUME TransferInv, NEW p \in Proc, OnlyMoves(p),
           \/ UNCHANGED xlock
           \/ xlock' = XRelease(p)
           \/ \E t \in Export : xlock[t] = None /\ xlock' = [xlock EXCEPT ![t] = p],
           op'[p].pc \in SpoolPCs \ {"publish"} => xlock'[op'[p].tx] = p
    PROVE  TransactionHeld'
  <1> SUFFICES ASSUME NEW q \in Proc, q # p, op'[q].pc \in SpoolPCs \ {"publish"}
               PROVE  xlock'[op'[q].tx] = q
    BY DEF TransactionHeld
  <1>1. op'[q] = op[q] /\ op[q].tx \in Export /\ xlock[op[q].tx] = q
    BY DEF OnlyMoves, TransferInv, LockExact, CommandExact, Transacting, SpoolPCs
  <1>2. xlock \in [Export -> Proc \cup {None}] /\ q # None
    BY HolderNames DEF TransferInv, ImportTypeOK, TypeOK
  <1> QED
    BY <1>1, <1>2 DEF XRelease

(* A capture and a publication hold their transaction's lock.              *)
LEMMA TransactionHeldKept ==
    TransferInv /\ [Next]_vars => TransactionHeld'
  <1> SUFFICES ASSUME TransferInv, [Next]_vars
               PROVE  TransactionHeld'
    OBVIOUS
  <1> USE DEF TransferInv, LockExact, TransactionHeld
  <1>1. ASSUME NEW p \in Proc, CreateRead(p)
         PROVE  TransactionHeld'
    <2>1. OnlyMoves(p) /\ op'[p].pc = "lock" /\ UNCHANGED xlock
      BY <1>1, CreateReadMoves DEF CreateRead
    <2> QED
      BY <2>1, TransactionOthers DEF SpoolPCs
  <1>2. ASSUME NEW p \in Proc, NEW t \in Export, NEW d \in Parent,
     NEW s \in Dir, CreateJournal(p, t, d, s)
         PROVE  TransactionHeld'
    <2>1. OnlyMoves(p) /\ op'[p].pc = "mark" /\ UNCHANGED xlock
      BY <1>2, CreateJournalMoves DEF CreateJournal
    <2> QED
      BY <2>1, TransactionOthers DEF SpoolPCs
  <1>3. ASSUME NEW p \in Proc, CreateRefused(p)
         PROVE  TransactionHeld'
    <2>1. OnlyMoves(p) /\ op'[p].pc = "idle" /\ UNCHANGED xlock
      BY <1>3, CreateRefusedMoves DEF CreateRefused
    <2> QED
      BY <2>1, TransactionOthers DEF SpoolPCs
  <1>4. ASSUME NEW p \in Proc, BeginExportSnapshot(p)
         PROVE  TransactionHeld'
    <2>1. OnlyMoves(p) /\ op'[p].pc = "mkdir" /\ UNCHANGED xlock
      BY <1>4, BeginExportSnapshotMoves DEF BeginExportSnapshot
    <2> QED
      BY <2>1, TransactionOthers DEF SpoolPCs
  <1>5. ASSUME NEW p \in Proc, MakeDirectory(p)
         PROVE  TransactionHeld'
    <2>1. OnlyMoves(p) /\ op'[p].pc = "open" /\ UNCHANGED xlock
      BY <1>5, MakeDirectoryMoves DEF MakeDirectory
    <2> QED
      BY <2>1, TransactionOthers DEF SpoolPCs
  <1>6. ASSUME NEW p \in Proc, CopyOpen(p)
         PROVE  TransactionHeld'
    <2>1. OnlyMoves(p) /\ op'[p].pc = "copy" /\ UNCHANGED xlock
      BY <1>6, CopyOpenMoves DEF CopyOpen
    <2> QED
      BY <2>1, TransactionOthers DEF SpoolPCs
  <1>7. ASSUME NEW p \in Proc, copyExportSnapshot(p)
         PROVE  TransactionHeld'
    <2>1. OnlyMoves(p) /\ op'[p].pc = "ready" /\ UNCHANGED xlock
      BY <1>7, copyExportSnapshotMoves DEF copyExportSnapshot
    <2> QED
      BY <2>1, TransactionOthers DEF SpoolPCs
  <1>8. ASSUME NEW p \in Proc, AdvanceReady(p)
         PROVE  TransactionHeld'
    <2>1. OnlyMoves(p) /\ op'[p].pc = "clear" /\ UNCHANGED xlock
      BY <1>8, AdvanceReadyMoves DEF AdvanceReady
    <2> QED
      BY <2>1, TransactionOthers DEF SpoolPCs
  <1>9. ASSUME NEW p \in Proc, CreateFinish(p)
         PROVE  TransactionHeld'
    <2>1. OnlyMoves(p) /\ op'[p].pc = "build" /\ UNCHANGED xlock
      BY <1>9, CreateFinishMoves DEF CreateFinish
    <2> QED
      BY <2>1, TransactionOthers DEF SpoolPCs
  <1>10. ASSUME NEW p \in Proc, NEW t \in Export, ResumeBegin(p, t)
          PROVE  TransactionHeld'
    <2>1. OnlyMoves(p) /\ op'[p].pc \in {"rlock", "readmit"} /\ UNCHANGED xlock
      BY <1>10, ResumeBeginMoves DEF ResumeBegin
    <2> QED
      BY <2>1, TransactionOthers DEF SpoolPCs
  <1>11. ASSUME NEW p \in Proc, RecoverLock(p)
          PROVE  TransactionHeld'
    <2>1. OnlyMoves(p) /\ op'[p].pc = "recover" /\ UNCHANGED xlock
      BY <1>11, RecoverLockMoves DEF RecoverLock
    <2> QED
      BY <2>1, TransactionOthers DEF SpoolPCs
  <1>12. ASSUME NEW p \in Proc, RecoverSettled(p)
          PROVE  TransactionHeld'
    <2>1. OnlyMoves(p) /\ op'[p].pc \in {"idle", "readmit"} /\ UNCHANGED xlock
      BY <1>12, RecoverSettledMoves DEF RecoverSettled
    <2> QED
      BY <2>1, TransactionOthers DEF SpoolPCs
  <1>13. ASSUME NEW p \in Proc, removeExactPartialSnapshot(p)
          PROVE  TransactionHeld'
    <2>1. OnlyMoves(p) /\ op'[p].pc = "rabort" /\ UNCHANGED xlock
      BY <1>13, removeExactPartialSnapshotMoves
         DEF removeExactPartialSnapshot
    <2> QED
      BY <2>1, TransactionOthers DEF SpoolPCs
  <1>14. ASSUME NEW p \in Proc, RecoverAbort(p)
          PROVE  TransactionHeld'
    <2>1. OnlyMoves(p) /\ op'[p].pc = "rclear" /\ UNCHANGED xlock
      BY <1>14, RecoverAbortMoves DEF RecoverAbort
    <2> QED
      BY <2>1, TransactionOthers DEF SpoolPCs
  <1>15. ASSUME NEW p \in Proc, RecoverAborted(p)
          PROVE  TransactionHeld'
    <2>1. OnlyMoves(p) /\ op'[p].pc = "rclear" /\ UNCHANGED xlock
      BY <1>15, RecoverAbortedMoves DEF RecoverAborted
    <2> QED
      BY <2>1, TransactionOthers DEF SpoolPCs
  <1>16. ASSUME NEW p \in Proc, RecoverClear(p)
          PROVE  TransactionHeld'
    <2>1. OnlyMoves(p) /\ op'[p].pc = "idle" /\ UNCHANGED xlock
      BY <1>16, RecoverClearMoves DEF RecoverClear
    <2> QED
      BY <2>1, TransactionOthers DEF SpoolPCs
  <1>17. ASSUME NEW p \in Proc, RecoverReady(p)
          PROVE  TransactionHeld'
    <2>1. OnlyMoves(p) /\ op'[p].pc = "readmit" /\ UNCHANGED xlock
      BY <1>17, RecoverReadyMoves DEF RecoverReady
    <2> QED
      BY <2>1, TransactionOthers DEF SpoolPCs
  <1>18. ASSUME NEW p \in Proc, RecoverRefused(p)
          PROVE  TransactionHeld'
    <2>1. OnlyMoves(p) /\ op'[p].pc = "idle" /\ UNCHANGED xlock
      BY <1>18, RecoverRefusedMoves DEF RecoverRefused
    <2> QED
      BY <2>1, TransactionOthers DEF SpoolPCs
  <1>19. ASSUME NEW p \in Proc, resumeSelectedWorkspace(p)
          PROVE  TransactionHeld'
    <2>1. OnlyMoves(p) /\ op'[p].pc \in {"idle", "build"} /\ UNCHANGED xlock
      BY <1>19, resumeSelectedWorkspaceMoves DEF resumeSelectedWorkspace
    <2> QED
      BY <2>1, TransactionOthers DEF SpoolPCs
  <1>20. ASSUME NEW p \in Proc, buildAdmittedExportInspectorBundle(p)
          PROVE  TransactionHeld'
    <2>1. OnlyMoves(p) /\ op'[p].pc \in {"idle", "capture"} /\ UNCHANGED xlock
      BY <1>20, buildAdmittedExportInspectorBundleMoves
         DEF buildAdmittedExportInspectorBundle
    <2> QED
      BY <2>1, TransactionOthers DEF SpoolPCs
  <1>21. ASSUME NEW p \in Proc, captureBoundExportInspector(p)
          PROVE  TransactionHeld'
    <2> DEFINE t == op[p].tx
    <2>1. CASE op'[p].pc = "idle"
      BY <1>21, <2>1, captureBoundExportInspectorMoves, TransactionOthers
         DEF SpoolPCs
    <2>2. CASE op'[p].pc # "idle"
      <3>1. /\ OnlyMoves(p) /\ op'[p].tx = t /\ op[p].pc = "capture"
            /\ xlock[t] = None /\ xlock' = [xlock EXCEPT ![t] = p]
        BY <1>21, <2>2, captureBoundExportInspectorMoves DEF Keeps
      <3>2. t \in Export /\ xlock \in [Export -> Proc \cup {None}]
        BY <3>1
           DEF TransferInv, CommandExact, Transacting, ImportTypeOK, TypeOK
      <3> HIDE DEF t
      <3> QED
        BY <3>1, <3>2, TransactionOthers
    <2> QED
      BY <2>1, <2>2
  <1>22. ASSUME NEW p \in Proc, InspectorStopped(p)
          PROVE  TransactionHeld'
    <2>1. OnlyMoves(p) /\ op'[p].pc \in {"idle", "publish"} /\ xlock' = XRelease(p)
      BY <1>22, InspectorStoppedMoves DEF InspectorStopped
    <2> QED
      BY <2>1, TransactionOthers DEF SpoolPCs
  <1>23. ASSUME NEW p \in Proc, InspectorCancelled(p)
          PROVE  TransactionHeld'
    <2>1. OnlyMoves(p) /\ op'[p].pc = "idle" /\ xlock' = XRelease(p)
      BY <1>23, InspectorCancelledMoves DEF InspectorCancelled
    <2> QED
      BY <2>1, TransactionOthers DEF SpoolPCs
  <1>24. ASSUME NEW p \in Proc, InspectorStopUnproven(p)
          PROVE  TransactionHeld'
    <2>1. OnlyMoves(p) /\ op'[p].pc = "idle" /\ xlock' = XRelease(p)
      BY <1>24, InspectorStopUnprovenMoves DEF InspectorStopUnproven
    <2> QED
      BY <2>1, TransactionOthers DEF SpoolPCs
  <1>25. ASSUME NEW p \in Proc, PublishBegin(p)
          PROVE  TransactionHeld'
    <2> DEFINE t == op[p].tx
    <2>1. CASE op'[p].pc = "idle"
      BY <1>25, <2>1, PublishBeginMoves, TransactionOthers DEF SpoolPCs
    <2>2. CASE op'[p].pc # "idle"
      <3>1. /\ OnlyMoves(p) /\ op'[p].tx = t /\ op[p].pc = "publish"
            /\ xlock[t] = None /\ xlock' = [xlock EXCEPT ![t] = p]
        BY <1>25, <2>2, PublishBeginMoves DEF Keeps
      <3>2. t \in Export /\ xlock \in [Export -> Proc \cup {None}]
        BY <3>1
           DEF TransferInv, CommandExact, Transacting, ImportTypeOK, TypeOK
      <3> HIDE DEF t
      <3> QED
        BY <3>1, <3>2, TransactionOthers
    <2> QED
      BY <2>1, <2>2
  <1>26. ASSUME NEW p \in Proc, Receive(p)
          PROVE  TransactionHeld'
    <2>1. OnlyMoves(p) /\ op[p].pc = "receive" /\ Keeps(p) /\ UNCHANGED xlock
      BY <1>26, ReceiveMoves DEF Receive
    <2> QED
      BY <2>1, TransactionOthers DEF SpoolPCs, Keeps
  <1>27. ASSUME NEW p \in Proc, ReceiveTerminal(p)
          PROVE  TransactionHeld'
    <2>1. CASE op'[p].pc = "idle"
      BY <1>27, <2>1, ReceiveTerminalMoves, TransactionOthers
         DEF SpoolPCs, ReceiveTerminal
    <2>2. CASE op'[p].pc # "idle"
      <3>1. OnlyMoves(p) /\ op[p].pc = "rename" /\ Keeps(p) /\ UNCHANGED xlock
        BY <1>27, <2>2, ReceiveTerminalMoves
      <3> QED
        BY <3>1, TransactionOthers DEF SpoolPCs, Keeps
    <2> QED
      BY <2>1, <2>2
  <1>28. ASSUME NEW p \in Proc, PublishFinish(p)
          PROVE  TransactionHeld'
    <2>1. OnlyMoves(p) /\ op'[p].pc = "idle" /\ xlock' = XRelease(p)
      BY <1>28, PublishFinishMoves DEF PublishFinish
    <2> QED
      BY <2>1, TransactionOthers DEF SpoolPCs
  <1>29. ASSUME NEW p \in Proc, Fail(p)
          PROVE  TransactionHeld'
    <2>1. OnlyMoves(p) /\ op'[p].pc = "idle" /\ xlock' = XRelease(p)
      BY <1>29, FailMoves DEF Fail
    <2> QED
      BY <2>1, TransactionOthers DEF SpoolPCs
  <1>30. ASSUME NEW p \in Proc, Crash(p)
          PROVE  TransactionHeld'
    <2>1. OnlyMoves(p) /\ op'[p].pc = "idle" /\ xlock' = XRelease(p)
      BY <1>30, CrashMoves DEF Crash
    <2> QED
      BY <2>1, TransactionOthers DEF SpoolPCs
  <1>31. CASE UNCHANGED <<op, xlock>>
    BY <1>31
  <1> QED
    BY <1>1, <1>2, <1>3, <1>4, <1>5, <1>6, <1>7, <1>8, <1>9, <1>10, <1>11,
       <1>12, <1>13, <1>14, <1>15, <1>16, <1>17, <1>18, <1>19, <1>20, <1>21,
       <1>22, <1>23, <1>24, <1>25, <1>26, <1>27, <1>28, <1>29, <1>30, <1>31,
       OpFrame, XlockFrame, ZenonT(60)

(* A spool has one owner.                                                  *)
LEMMA OneSpoolerKept ==
    TransferInv /\ [Next]_vars => OneSpooler'
  <1> SUFFICES ASSUME TransferInv, [Next]_vars
               PROVE  OneSpooler'
    OBVIOUS
  <1> USE DEF TransferInv, LockExact, OneSpooler
  <1>1. ASSUME NEW p \in Proc, CreateRead(p)
         PROVE  OneSpooler'
    BY <1>1, CreateReadMoves DEF OnlyMoves, Keeps, SpoolPCs
  <1>2. ASSUME NEW p \in Proc, NEW t \in Export, NEW d \in Parent,
     NEW s \in Dir, CreateJournal(p, t, d, s)
         PROVE  OneSpooler'
    <2>1. OnlyMoves(p) /\ op'[p].pc = "mark"
      BY <1>2, CreateJournalMoves
    <2> QED
      BY <2>1 DEF OnlyMoves, SpoolPCs
  <1>3. ASSUME NEW p \in Proc, CreateRefused(p)
         PROVE  OneSpooler'
    BY <1>3, CreateRefusedMoves DEF OnlyMoves, Keeps, SpoolPCs
  <1>4. ASSUME NEW p \in Proc, BeginExportSnapshot(p)
         PROVE  OneSpooler'
    BY <1>4, BeginExportSnapshotMoves DEF OnlyMoves, Keeps, SpoolPCs
  <1>5. ASSUME NEW p \in Proc, MakeDirectory(p)
         PROVE  OneSpooler'
    BY <1>5, MakeDirectoryMoves DEF OnlyMoves, Keeps, SpoolPCs
  <1>6. ASSUME NEW p \in Proc, CopyOpen(p)
         PROVE  OneSpooler'
    BY <1>6, CopyOpenMoves DEF OnlyMoves, Keeps, SpoolPCs
  <1>7. ASSUME NEW p \in Proc, copyExportSnapshot(p)
         PROVE  OneSpooler'
    BY <1>7, copyExportSnapshotMoves DEF OnlyMoves, Keeps, SpoolPCs
  <1>8. ASSUME NEW p \in Proc, AdvanceReady(p)
         PROVE  OneSpooler'
    BY <1>8, AdvanceReadyMoves DEF OnlyMoves, Keeps, SpoolPCs
  <1>9. ASSUME NEW p \in Proc, CreateFinish(p)
         PROVE  OneSpooler'
    BY <1>9, CreateFinishMoves DEF OnlyMoves, Keeps, SpoolPCs
  <1>10. ASSUME NEW p \in Proc, NEW t \in Export, ResumeBegin(p, t)
          PROVE  OneSpooler'
    BY <1>10, ResumeBeginMoves DEF OnlyMoves, Keeps, SpoolPCs
  <1>11. ASSUME NEW p \in Proc, RecoverLock(p)
          PROVE  OneSpooler'
    BY <1>11, RecoverLockMoves DEF OnlyMoves, Keeps, SpoolPCs
  <1>12. ASSUME NEW p \in Proc, RecoverSettled(p)
          PROVE  OneSpooler'
    BY <1>12, RecoverSettledMoves DEF OnlyMoves, Keeps, SpoolPCs
  <1>13. ASSUME NEW p \in Proc, removeExactPartialSnapshot(p)
          PROVE  OneSpooler'
    BY <1>13, removeExactPartialSnapshotMoves DEF OnlyMoves, Keeps, SpoolPCs
  <1>14. ASSUME NEW p \in Proc, RecoverAbort(p)
          PROVE  OneSpooler'
    BY <1>14, RecoverAbortMoves DEF OnlyMoves, Keeps, SpoolPCs
  <1>15. ASSUME NEW p \in Proc, RecoverAborted(p)
          PROVE  OneSpooler'
    BY <1>15, RecoverAbortedMoves DEF OnlyMoves, Keeps, SpoolPCs
  <1>16. ASSUME NEW p \in Proc, RecoverClear(p)
          PROVE  OneSpooler'
    BY <1>16, RecoverClearMoves DEF OnlyMoves, Keeps, SpoolPCs
  <1>17. ASSUME NEW p \in Proc, RecoverReady(p)
          PROVE  OneSpooler'
    BY <1>17, RecoverReadyMoves DEF OnlyMoves, Keeps, SpoolPCs
  <1>18. ASSUME NEW p \in Proc, RecoverRefused(p)
          PROVE  OneSpooler'
    BY <1>18, RecoverRefusedMoves DEF OnlyMoves, Keeps, SpoolPCs
  <1>19. ASSUME NEW p \in Proc, resumeSelectedWorkspace(p)
          PROVE  OneSpooler'
    BY <1>19, resumeSelectedWorkspaceMoves DEF OnlyMoves, Keeps, SpoolPCs
  <1>20. ASSUME NEW p \in Proc, buildAdmittedExportInspectorBundle(p)
          PROVE  OneSpooler'
    BY <1>20, buildAdmittedExportInspectorBundleMoves
       DEF OnlyMoves, Keeps, SpoolPCs
  <1>21. ASSUME NEW p \in Proc, captureBoundExportInspector(p)
          PROVE  OneSpooler'
    <2>1. CASE op'[p].pc = "idle"
      BY <1>21, <2>1, captureBoundExportInspectorMoves
         DEF OnlyMoves, SpoolPCs
    <2>2. CASE op'[p].pc # "idle"
      <3>1. spool[op[p].tx].st = "absent"
        BY <1>21, <2>2, captureBoundExportInspectorMoves
      <3>2. \A q \in Proc : op[q].pc \in SpoolPCs => spool[op[q].tx].st # "absent"
        BY DEF CommandExact, PublishStep, SpoolPCs
      <3> QED
        BY <1>21, <2>2, <3>1, <3>2, captureBoundExportInspectorMoves
           DEF OnlyMoves, Keeps, SpoolPCs
    <2> QED
      BY <2>1, <2>2
  <1>22. ASSUME NEW p \in Proc, InspectorStopped(p)
          PROVE  OneSpooler'
    <2>1. /\ OnlyMoves(p) /\ op[p].pc = "inspect"
          /\ op'[p].pc = "idle" \/ Keeps(p)
      BY <1>22, InspectorStoppedMoves
    <2> QED
      BY <2>1 DEF OnlyMoves, Keeps, SpoolPCs
  <1>23. ASSUME NEW p \in Proc, InspectorCancelled(p)
          PROVE  OneSpooler'
    BY <1>23, InspectorCancelledMoves DEF OnlyMoves, Keeps, SpoolPCs
  <1>24. ASSUME NEW p \in Proc, InspectorStopUnproven(p)
          PROVE  OneSpooler'
    BY <1>24, InspectorStopUnprovenMoves DEF OnlyMoves, Keeps, SpoolPCs
  <1>25. ASSUME NEW p \in Proc, PublishBegin(p)
          PROVE  OneSpooler'
    BY <1>25, PublishBeginMoves DEF OnlyMoves, Keeps, SpoolPCs
  <1>26. ASSUME NEW p \in Proc, Receive(p)
          PROVE  OneSpooler'
    BY <1>26, ReceiveMoves DEF OnlyMoves, Keeps, SpoolPCs
  <1>27. ASSUME NEW p \in Proc, ReceiveTerminal(p)
          PROVE  OneSpooler'
    <2>1. /\ OnlyMoves(p) /\ op[p].pc = "rename"
          /\ op'[p].pc = "idle" \/ Keeps(p)
      BY <1>27, ReceiveTerminalMoves
    <2> QED
      BY <2>1 DEF OnlyMoves, Keeps, SpoolPCs
  <1>28. ASSUME NEW p \in Proc, PublishFinish(p)
          PROVE  OneSpooler'
    BY <1>28, PublishFinishMoves DEF OnlyMoves, Keeps, SpoolPCs
  <1>29. ASSUME NEW p \in Proc, Fail(p)
          PROVE  OneSpooler'
    BY <1>29, FailMoves DEF OnlyMoves, Keeps, SpoolPCs
  <1>30. ASSUME NEW p \in Proc, Crash(p)
          PROVE  OneSpooler'
    BY <1>30, CrashMoves DEF OnlyMoves, Keeps, SpoolPCs
  <1>31. CASE UNCHANGED <<op>>
    BY <1>31
  <1> QED
    BY <1>1, <1>2, <1>3, <1>4, <1>5, <1>6, <1>7, <1>8, <1>9, <1>10, <1>11,
       <1>12, <1>13, <1>14, <1>15, <1>16, <1>17, <1>18, <1>19, <1>20, <1>21,
       <1>22, <1>23, <1>24, <1>25, <1>26, <1>27, <1>28, <1>29, <1>30, <1>31,
       OpFrame, ZenonT(60)

-----------------------------------------------------------------------------
(* What a command has established stays true while others take steps.      *)

LEMMA OneUnderLocks ==
    ASSUME TransferInv, NEW p \in Proc, NEW q \in Proc,
           op[p].pc \in VolumePCs, op[q].pc \in VolumePCs
    PROVE  p = q
  BY DEF TransferInv, LockExact, VolumeLocks

LEMMA OccupiedVolume ==
    ASSUME TransferInv, NEW q \in Proc, op[q].pc \in VolumePCs
    PROVE  ~Free(VolumeLocks) /\ ~Free({"session", "storage"}) /\ ~run.live
  BY HolderNames DEF TransferInv, LockExact, VolumeLocks, Free

(* The owner of a transfer has a running machine.                          *)
LEMMA TransferRuns ==
    ASSUME TransferInv, owner.st # "idle"
    PROVE  run.live
  BY DEF TransferInv, TransferExact, NoTransfer

(* Under its locks the marker does not change.                             *)
LEMMA PendKept ==
    ASSUME TransferInv, NEW q \in Proc, op'[q] = op[q],
           op[q].pc \in VolumePCs, [Next]_vars
    PROVE  vol'.pend = vol.pend
  <1>1. ASSUME NEW p \in Proc, BeginExportSnapshot(p)
         PROVE  vol'.pend = vol.pend
    <2>1. op[p].pc \in VolumePCs /\ op'[p].pc # op[p].pc
      BY <1>1, BeginExportSnapshotMoves DEF VolumePCs
    <2> QED
      BY <2>1, OneUnderLocks
  <1>2. ASSUME NEW p \in Proc, CreateFinish(p)
         PROVE  vol'.pend = vol.pend
    <2>1. op[p].pc \in VolumePCs /\ op'[p].pc # op[p].pc
      BY <1>2, CreateFinishMoves DEF VolumePCs
    <2> QED
      BY <2>1, OneUnderLocks
  <1>3. ASSUME NEW p \in Proc, RecoverClear(p)
         PROVE  vol'.pend = vol.pend
    <2>1. op[p].pc \in VolumePCs /\ op'[p].pc # op[p].pc
      BY <1>3, RecoverClearMoves DEF VolumePCs
    <2> QED
      BY <2>1, OneUnderLocks
  <1>4. ASSUME NEW p \in Proc, RecoverReady(p)
         PROVE  vol'.pend = vol.pend
    <2>1. op[p].pc \in VolumePCs /\ op'[p].pc # op[p].pc
      BY <1>4, RecoverReadyMoves DEF VolumePCs
    <2> QED
      BY <2>1, OneUnderLocks
  <1>5. CASE ReserveUse
    BY <1>5, OccupiedVolume DEF ReserveUse
  <1>6. CASE ReleaseUseAfterObservedStop
    BY <1>6, OccupiedVolume DEF ReleaseUseAfterObservedStop
  <1>7. CASE Attach
    BY <1>7, OccupiedVolume DEF Attach
  <1>8. CASE Detach
    BY <1>8, OccupiedVolume DEF Detach
  <1>9. CASE UNCHANGED <<vol>>
    BY <1>9
  <1> QED
    BY <1>1, <1>2, <1>3, <1>4, <1>5, <1>6, <1>7, <1>8, <1>9, VolFrame

(* Nor does the disk.                                                      *)
LEMMA DiskKept ==
    ASSUME TransferInv, NEW q \in Proc, op'[q] = op[q],
           op[q].pc \in VolumePCs, [Next]_vars
    PROVE  UNCHANGED disk
  <1>1. CASE ReserveUse
    BY <1>1, OccupiedVolume DEF ReserveUse
  <1>2. CASE RuntimeEnds
    BY <1>2, OccupiedVolume DEF RuntimeEnds, MachineEnds
  <1>3. CASE GuestStep
    BY <1>3, OccupiedVolume DEF GuestStep, GuestWrite
  <1>4. CASE OwnerBegin
    BY <1>4, OccupiedVolume DEF OwnerBegin, admitOwnerImport, LiveUse
  <1>5. CASE OwnerUpload
    BY <1>5, OccupiedVolume, TransferRuns DEF OwnerUpload
  <1>6. CASE UNCHANGED <<disk>>
    BY <1>6
  <1> QED
    BY <1>1, <1>2, <1>3, <1>4, <1>5, <1>6, DiskFrame

(* Nor do the copies.                                                      *)
LEMMA SnapKept ==
    ASSUME TransferInv, NEW q \in Proc, op'[q] = op[q],
           op[q].pc \in VolumePCs, [Next]_vars
    PROVE  UNCHANGED snap
  <1>1. ASSUME NEW p \in Proc, MakeDirectory(p)
         PROVE  UNCHANGED snap
    <2>1. op[p].pc \in VolumePCs /\ op'[p].pc # op[p].pc
      BY <1>1, MakeDirectoryMoves DEF VolumePCs
    <2> QED
      BY <2>1, OneUnderLocks
  <1>2. ASSUME NEW p \in Proc, CopyOpen(p)
         PROVE  UNCHANGED snap
    <2>1. op[p].pc \in VolumePCs /\ op'[p].pc # op[p].pc
      BY <1>2, CopyOpenMoves DEF VolumePCs
    <2> QED
      BY <2>1, OneUnderLocks
  <1>3. ASSUME NEW p \in Proc, copyExportSnapshot(p)
         PROVE  UNCHANGED snap
    <2>1. op[p].pc \in VolumePCs /\ op'[p].pc # op[p].pc
      BY <1>3, copyExportSnapshotMoves DEF VolumePCs
    <2> QED
      BY <2>1, OneUnderLocks
  <1>4. ASSUME NEW p \in Proc, removeExactPartialSnapshot(p)
         PROVE  UNCHANGED snap
    <2>1. op[p].pc \in VolumePCs /\ op'[p].pc # op[p].pc
      BY <1>4, removeExactPartialSnapshotMoves DEF VolumePCs
    <2> QED
      BY <2>1, OneUnderLocks
  <1>5. CASE UNCHANGED <<snap>>
    BY <1>5
  <1> QED
    BY <1>1, <1>2, <1>3, <1>4, <1>5, SnapFrame

(* Nor does a journal that has not claimed its copy.                       *)
LEMMA UnclaimedKept ==
    ASSUME TransferInv, NEW q \in Proc, op'[q] = op[q],
           op[q].pc \in VolumePCs,
           jr[op[q].tx].phase \in {"copying", "aborted"}, [Next]_vars
    PROVE  jr'[op[q].tx] = jr[op[q].tx]
  <1>1. ASSUME NEW p \in Proc, NEW t \in Export, NEW d \in Parent,
     NEW s \in Dir, CreateJournal(p, t, d, s)
         PROVE  jr'[op[q].tx] = jr[op[q].tx]
    BY <1>1, OccupiedVolume DEF CreateJournal
  <1>2. ASSUME NEW p \in Proc, AdvanceReady(p)
         PROVE  jr'[op[q].tx] = jr[op[q].tx]
    <2>1. op[p].pc \in VolumePCs /\ op'[p].pc # op[p].pc
      BY <1>2, AdvanceReadyMoves DEF VolumePCs
    <2> QED
      BY <2>1, OneUnderLocks
  <1>3. ASSUME NEW p \in Proc, RecoverAbort(p)
         PROVE  jr'[op[q].tx] = jr[op[q].tx]
    <2>1. op[p].pc \in VolumePCs /\ op'[p].pc # op[p].pc
      BY <1>3, RecoverAbortMoves DEF VolumePCs
    <2> QED
      BY <2>1, OneUnderLocks
  <1>4. ASSUME NEW p \in Proc, PublishBegin(p)
         PROVE  jr'[op[q].tx] = jr[op[q].tx]
    <2>1. jr[op[p].tx].phase \in Claims
      BY <1>4
         DEF PublishBegin, TransferInv, CommandExact, PublishStep, SpoolPCs
    <2>2. op[p].tx # op[q].tx
      BY <2>1 DEF Claims
    <2>3. UNCHANGED jr \/ \E k : jr' = [jr EXCEPT ![op[p].tx] = k]
      BY <1>4 DEF PublishBegin, advanceExportJournalLocked
    <2>4. op[p].tx \in Export /\ op[q].tx \in Export /\ jr \in [Export -> Journal \cup {None}]
      BY <1>4
         DEF PublishBegin, TransferInv, CommandExact, Transacting, VolumePCs,
             ImportTypeOK, TypeOK
    <2> QED
      BY <2>2, <2>3, <2>4
  <1>5. ASSUME NEW p \in Proc, PublishFinish(p)
         PROVE  jr'[op[q].tx] = jr[op[q].tx]
    <2>1. jr[op[p].tx].phase \in Claims
      BY <1>5
         DEF PublishFinish, TransferInv, CommandExact, PublishStep, SpoolPCs
    <2>2. op[p].tx # op[q].tx
      BY <2>1 DEF Claims
    <2>3. UNCHANGED jr \/ \E k : jr' = [jr EXCEPT ![op[p].tx] = k]
      BY <1>5 DEF PublishFinish, advanceExportJournalLocked
    <2>4. op[p].tx \in Export /\ op[q].tx \in Export /\ jr \in [Export -> Journal \cup {None}]
      BY <1>5
         DEF PublishFinish, TransferInv, CommandExact, Transacting,
             VolumePCs, ImportTypeOK, TypeOK
    <2> QED
      BY <2>2, <2>3, <2>4
  <1>6. CASE UNCHANGED <<jr>>
    BY <1>6
  <1> QED
    BY <1>1, <1>2, <1>3, <1>4, <1>5, <1>6, JrFrame

LEMMA CopyStepKept ==
    ASSUME TransferInv, NEW q \in Proc, op'[q] = op[q], [Next]_vars
    PROVE  CopyStep(q)'
  <1>1. CASE op[q].pc \notin VolumePCs
    BY <1>1 DEF VolumePCs, CopyStep
  <1>2. CASE op[q].pc \in VolumePCs
    <2>1. vol'.pend = vol.pend /\ UNCHANGED <<disk, snap>>
      BY <1>2, PendKept, DiskKept, SnapKept
    <2>2. jr[op[q].tx].phase \in {"copying", "aborted"} => jr'[op[q].tx] = jr[op[q].tx]
      BY <1>2, UnclaimedKept
    <2>3. CopyStep(q)
      BY DEF TransferInv, CommandExact
    <2> QED
      BY <2>1, <2>2, <2>3 DEF CopyStep
  <1> QED
    BY <1>1, <1>2

(* The spool a command owns is left to it.                                 *)
LEMMA SpoolKept ==
    ASSUME TransferInv, NEW q \in Proc, op'[q] = op[q],
           op[q].pc \in SpoolPCs, [Next]_vars
    PROVE  spool'[op[q].tx] = spool[op[q].tx]
  <1>1. /\ op[q].tx \in Export /\ spool \in [Export -> Spool]
        /\ helper \in [Export -> 0..2] /\ jr \in [Export -> Journal \cup {None}]
    BY DEF TransferInv, CommandExact, Transacting, SpoolPCs, ImportTypeOK,
       TypeOK
  <1>2. ASSUME NEW p \in Proc, captureBoundExportInspector(p)
         PROVE  spool'[op[q].tx] = spool[op[q].tx]
    <2>1. \/ UNCHANGED spool
          \/ /\ spool[op[p].tx].st = "absent"
             /\ spool' = [spool EXCEPT ![op[p].tx] = [st |-> "partial", mark |-> "absent"]]
      BY <1>2, captureBoundExportInspectorMoves
    <2>2. spool[op[q].tx].st # "absent"
      BY DEF TransferInv, CommandExact, PublishStep, SpoolPCs
    <2> QED
      BY <2>1, <2>2, <1>1
  <1>3. ASSUME NEW p \in Proc, InspectorStopped(p)
         PROVE  spool'[op[q].tx] = spool[op[q].tx]
    <2>1. op[p].tx # op[q].tx
      BY <1>3, InspectorStoppedMoves DEF TransferInv, LockExact, SpoolPCs
    <2>2. \E r : spool' = [spool EXCEPT ![op[p].tx] = r]
      BY <1>3 DEF InspectorStopped, RemoveSpool
    <2> QED
      BY <2>1, <2>2, <1>1
  <1>4. ASSUME NEW p \in Proc, InspectorCancelled(p)
         PROVE  spool'[op[q].tx] = spool[op[q].tx]
    <2>1. op[p].tx # op[q].tx
      BY <1>4, InspectorCancelledMoves DEF TransferInv, LockExact, SpoolPCs
    <2>2. spool' = [spool EXCEPT ![op[p].tx] = NoSpool]
      BY <1>4 DEF InspectorCancelled, RemoveSpool
    <2> QED
      BY <2>1, <2>2, <1>1
  <1>5. ASSUME NEW p \in Proc, PublishBegin(p)
         PROVE  spool'[op[q].tx] = spool[op[q].tx]
    <2>1. op[p].tx # op[q].tx
      BY <1>5, PublishBeginMoves DEF TransferInv, LockExact, SpoolPCs
    <2>2. UNCHANGED spool \/ spool' = [spool EXCEPT ![op[p].tx] = NoSpool]
      BY <1>5 DEF PublishBegin, RemoveSpool
    <2> QED
      BY <2>1, <2>2, <1>1
  <1>6. ASSUME NEW p \in Proc, ReceiveTerminal(p)
         PROVE  spool'[op[q].tx] = spool[op[q].tx]
    <2>1. op[p].tx # op[q].tx
      BY <1>6, ReceiveTerminalMoves DEF TransferInv, LockExact, SpoolPCs
    <2>2. UNCHANGED spool \/ spool' = [spool EXCEPT ![op[p].tx] = NoSpool]
      BY <1>6 DEF ReceiveTerminal, RemoveSpool
    <2> QED
      BY <2>1, <2>2, <1>1
  <1>7. ASSUME NEW p \in Proc, PublishFinish(p)
         PROVE  spool'[op[q].tx] = spool[op[q].tx]
    <2>1. op[p].tx # op[q].tx
      BY <1>7, PublishFinishMoves DEF TransferInv, LockExact, SpoolPCs
    <2>2. spool' = [spool EXCEPT ![op[p].tx] = NoSpool]
      BY <1>7 DEF PublishFinish, RemoveSpool
    <2> QED
      BY <2>1, <2>2, <1>1
  <1>8. ASSUME NEW p \in Proc, Fail(p)
         PROVE  spool'[op[q].tx] = spool[op[q].tx]
    <2>1. UNCHANGED spool \/ (op[p].pc \in SpoolPCs /\ spool' = [spool EXCEPT ![op[p].tx] = NoSpool])
      BY <1>8 DEF Fail, RemoveSpool, SpoolPCs
    <2>2. op[p].pc \in SpoolPCs => op[p].tx # op[q].tx
      BY <1>8, FailMoves DEF TransferInv, LockExact, SpoolPCs
    <2> QED
      BY <2>1, <2>2, <1>1
  <1>9. CASE UNCHANGED <<spool>>
    BY <1>9
  <1> QED
    BY <1>2, <1>3, <1>4, <1>5, <1>6, <1>7, <1>8, <1>9, SpoolFrame

(* So is its machine.                                                      *)
LEMMA HelperKept ==
    ASSUME TransferInv, NEW q \in Proc, op'[q] = op[q],
           op[q].pc = "inspect", [Next]_vars
    PROVE  helper'[op[q].tx] = helper[op[q].tx]
  <1>1. /\ op[q].tx \in Export /\ spool \in [Export -> Spool]
        /\ helper \in [Export -> 0..2] /\ jr \in [Export -> Journal \cup {None}]
    BY DEF TransferInv, CommandExact, Transacting, SpoolPCs, ImportTypeOK,
       TypeOK
  <1>2. ASSUME NEW p \in Proc, captureBoundExportInspector(p)
         PROVE  helper'[op[q].tx] = helper[op[q].tx]
    <2>1. \/ UNCHANGED helper
          \/ /\ spool[op[p].tx].st = "absent"
             /\ helper' = [helper EXCEPT ![op[p].tx] = @ + 1]
      BY <1>2, captureBoundExportInspectorMoves
    <2>2. spool[op[q].tx].st # "absent"
      BY DEF TransferInv, CommandExact, PublishStep
    <2> QED
      BY <2>1, <2>2, <1>1
  <1>3. ASSUME NEW p \in Proc, InspectorStopped(p)
         PROVE  helper'[op[q].tx] = helper[op[q].tx]
    <2>1. op[p].tx # op[q].tx
      BY <1>3, InspectorStoppedMoves DEF TransferInv, LockExact, SpoolPCs
    <2>2. helper' = [helper EXCEPT ![op[p].tx] = @ - 1]
      BY <1>3 DEF InspectorStopped, RemoveSpool
    <2> QED
      BY <2>1, <2>2, <1>1
  <1>4. ASSUME NEW p \in Proc, InspectorCancelled(p)
         PROVE  helper'[op[q].tx] = helper[op[q].tx]
    <2>1. op[p].tx # op[q].tx
      BY <1>4, InspectorCancelledMoves DEF TransferInv, LockExact, SpoolPCs
    <2>2. helper' = [helper EXCEPT ![op[p].tx] = @ - 1]
      BY <1>4 DEF InspectorCancelled, RemoveSpool
    <2> QED
      BY <2>1, <2>2, <1>1
  <1>5. ASSUME NEW t \in Export, HelperEnds(t)
         PROVE  helper'[op[q].tx] = helper[op[q].tx]
    <2>1. t # op[q].tx /\ helper' = [helper EXCEPT ![t] = @ - 1]
      BY <1>5 DEF HelperEnds
    <2> QED
      BY <2>1, <1>1
  <1>6. CASE UNCHANGED <<helper>>
    BY <1>6
  <1> QED
    BY <1>2, <1>3, <1>4, <1>5, <1>6, HelperFrame

(* So is the journal of a publication.                                     *)
LEMMA IntentKept ==
    ASSUME TransferInv, NEW q \in Proc, op'[q] = op[q],
           op[q].pc \in {"receive", "rename", "final"}, [Next]_vars
    PROVE  jr'[op[q].tx] = jr[op[q].tx]
  <1>1. /\ op[q].tx \in Export /\ spool \in [Export -> Spool]
        /\ helper \in [Export -> 0..2] /\ jr \in [Export -> Journal \cup {None}]
    BY DEF TransferInv, CommandExact, Transacting, SpoolPCs, ImportTypeOK,
       TypeOK
  <1>2. ASSUME NEW p \in Proc, NEW t \in Export, NEW d \in Parent,
     NEW s \in Dir, CreateJournal(p, t, d, s)
         PROVE  jr'[op[q].tx] = jr[op[q].tx]
    <2>1. jr[t] = None /\ jr' = [jr EXCEPT ![t] = jr'[t]]
      BY <1>2 DEF CreateJournal, TransferInv, ImportTypeOK, TypeOK
    <2>2. jr[op[q].tx] # None
      BY DEF TransferInv, CommandExact, Transacting
    <2> QED
      BY <2>1, <2>2, <1>1
  <1>3. ASSUME NEW p \in Proc, AdvanceReady(p)
         PROVE  jr'[op[q].tx] = jr[op[q].tx]
    <2>1. /\ op[p].tx \in Export /\ jr[op[p].tx].phase = "copying"
          /\ jr' = [jr EXCEPT ![op[p].tx] = jr'[op[p].tx]]
      BY <1>3, <1>1
         DEF AdvanceReady, advanceExportJournalLocked, TransferInv,
             CommandExact, Transacting, CopyStep
    <2>2. jr[op[q].tx].phase = "inspected"
      BY DEF TransferInv, CommandExact, PublishStep
    <2> QED
      BY <2>1, <2>2, <1>1
  <1>4. ASSUME NEW p \in Proc, RecoverAbort(p)
         PROVE  jr'[op[q].tx] = jr[op[q].tx]
    <2>1. /\ op[p].tx \in Export /\ jr[op[p].tx].phase = "copying"
          /\ jr' = [jr EXCEPT ![op[p].tx] = jr'[op[p].tx]]
      BY <1>4, <1>1
         DEF RecoverAbort, advanceExportJournalLocked, TransferInv,
             CommandExact, Transacting, CopyStep
    <2>2. jr[op[q].tx].phase = "inspected"
      BY DEF TransferInv, CommandExact, PublishStep
    <2> QED
      BY <2>1, <2>2, <1>1
  <1>5. ASSUME NEW p \in Proc, PublishBegin(p)
         PROVE  jr'[op[q].tx] = jr[op[q].tx]
    <2>1. \/ UNCHANGED jr
          \/ xlock[op[p].tx] = None /\ jr' = [jr EXCEPT ![op[p].tx] = jr'[op[p].tx]]
      <3>1. op[p].tx \in Export
        BY <1>5 DEF PublishBegin, TransferInv, CommandExact, Transacting
      <3> QED
        BY <1>5, <3>1, <1>1
           DEF PublishBegin, XFree, advanceExportJournalLocked
    <2>2. xlock[op[q].tx] # None
      BY HolderNames DEF TransferInv, LockExact, SpoolPCs
    <2> QED
      BY <2>1, <2>2, <1>1
  <1>6. ASSUME NEW p \in Proc, PublishFinish(p)
         PROVE  jr'[op[q].tx] = jr[op[q].tx]
    <2>1. op[p].tx # op[q].tx
      BY <1>6, PublishFinishMoves DEF TransferInv, LockExact, SpoolPCs
    <2>2. \E k : jr' = [jr EXCEPT ![op[p].tx] = k]
      BY <1>6 DEF PublishFinish, advanceExportJournalLocked
    <2> QED
      BY <2>1, <2>2, <1>1
  <1>7. CASE UNCHANGED <<jr>>
    BY <1>7
  <1> QED
    BY <1>2, <1>3, <1>4, <1>5, <1>6, <1>7, JrFrame

(* An output that stands is never replaced.                                *)
LEMMA OutputKept ==
    ASSUME TransferInv, NEW d \in Parent, NEW t \in Export,
           dest[d].out[t] # "absent", [Next]_vars
    PROVE  dest'[d].out[t] = dest[d].out[t]
  <1>1. dest \in [Parent -> Destination]
    BY DEF TransferInv, ImportTypeOK, TypeOK
  <1>2. ASSUME NEW p \in Proc, Receive(p)
         PROVE  dest'[d].out[t] = dest[d].out[t]
    <2>1. PICK u, k : dest' = [dest EXCEPT ![u].in = k]
      BY <1>2 DEF Receive
    <2> QED
      BY <2>1, <1>1 DEF Destination
  <1>3. ASSUME NEW p \in Proc, ReceiveTerminal(p)
         PROVE  dest'[d].out[t] = dest[d].out[t]
    <2> DEFINE u == op[p].tx
               c == jr[u].parent
               m == spool[u].mark
    <2>1. CASE op'[p].pc = "idle"
      <3>1. dest' = [dest EXCEPT ![c].in = @ \ {u}]
        BY <1>3, <2>1, ReceiveTerminalMoves
      <3> HIDE DEF c, u
      <3> QED
        BY <3>1, <1>1 DEF Destination
    <2>2. CASE op'[p].pc # "idle"
      <3>1. /\ dest' = [dest EXCEPT ![c].in = @ \ {u}, ![c].out[u] = m]
            /\ dest[c].out[u] = "absent" /\ op[p].pc = "rename"
        BY <1>3, <2>2, ReceiveTerminalMoves
      <3>2. u \in Export /\ jr[u] \in Journal /\ spool[u] \in Spool
        BY <3>1
           DEF TransferInv, CommandExact, Transacting, ImportTypeOK, TypeOK
      <3>3. c \in Parent /\ m \in Mark
        BY <3>2 DEF Journal, Spool
      <3> HIDE DEF c, u, m
      <3>4. dest[c] \in Destination
        BY <1>1, <3>3
      <3>5. dest'[c].out = [dest[c].out EXCEPT ![u] = m]
        BY ONLY <1>1, <3>1, <3>3, <3>4 DEF Destination
      <3>6. \A x \in Parent : x # c => dest'[x] = dest[x]
        BY ONLY <1>1, <3>1
      <3>7. dest[c].out \in [Export -> Mark]
        BY <1>1, <3>3 DEF Destination
      <3>8. CASE d = c
        BY <3>1, <3>7, <3>8, <3>5
      <3> QED
        BY <3>6, <3>8
    <2> QED
      BY <2>1, <2>2
  <1>4. ASSUME NEW p \in Proc, Fail(p)
         PROVE  dest'[d].out[t] = dest[d].out[t]
    <2>1. UNCHANGED dest \/ \E u, k : dest' = [dest EXCEPT ![u].in = k]
      BY <1>4 DEF Fail
    <2> QED
      BY <2>1, <1>1 DEF Destination
  <1>5. CASE UNCHANGED <<dest>>
    BY <1>5
  <1> QED
    BY <1>2, <1>3, <1>4, <1>5, DestFrame

(* A claimed copy is never marked again.                                   *)
LEMMA PendFresh ==
    ASSUME TransferInv, NEW t \in Export, jr[t].phase \in Claims,
           vol.pend # t, [Next]_vars
    PROVE  vol'.pend # t
  <1>1. vol \in [att : BOOLEAN, use : 0..MaxGen, pend : Export \cup {None}] /\ t # None
    BY ExportAssumption DEF TransferInv, ImportTypeOK, TypeOK
  <1>2. ASSUME NEW p \in Proc, BeginExportSnapshot(p)
         PROVE  vol'.pend # t
    <2>1. vol'.pend = op[p].tx /\ jr[op[p].tx].phase = "copying"
      BY <1>2, <1>1
         DEF BeginExportSnapshot, saveRecordTransition, TransferInv,
             CommandExact, CopyStep
    <2> QED
      BY <2>1 DEF Claims
  <1>3. ASSUME NEW p \in Proc, CreateFinish(p)
         PROVE  vol'.pend # t
    BY <1>3, <1>1
       DEF CreateFinish, finishExportSnapshotPending, saveRecordTransition
  <1>4. ASSUME NEW p \in Proc, RecoverClear(p)
         PROVE  vol'.pend # t
    BY <1>4, <1>1 DEF RecoverClear, saveRecordTransition
  <1>5. ASSUME NEW p \in Proc, RecoverReady(p)
         PROVE  vol'.pend # t
    BY <1>5, <1>1
       DEF RecoverReady, finishExportSnapshotPending, saveRecordTransition
  <1>6. CASE ReserveUse
    BY <1>6, <1>1 DEF ReserveUse, saveRecordTransition
  <1>7. CASE ReleaseUseAfterObservedStop
    BY <1>7, <1>1 DEF ReleaseUseAfterObservedStop, saveRecordTransition
  <1>8. CASE Attach
    BY <1>8, <1>1 DEF Attach, saveRecordTransition
  <1>9. CASE Detach
    BY <1>9, <1>1 DEF Detach, saveRecordTransition
  <1>10. CASE UNCHANGED <<vol>>
    BY <1>10
  <1> QED
    BY <1>2, <1>3, <1>4, <1>5, <1>6, <1>7, <1>8, <1>9, <1>10, VolFrame

LEMMA ClaimsKept ==
    ASSUME TransferInv, [Next]_vars, NEW t \in Export, jr[t] # None, jr[t].phase \in Claims
    PROVE  jr'[t] # None /\ jr'[t].phase \in Claims /\ jr'[t].snap = jr[t].snap /\ jr'[t].sel = jr[t].sel
  BY JournalLives DEF JournalsForward, Forward, Claims

LEMMA PublishStepKept ==
    ASSUME TransferInv, NEW q \in Proc, op'[q] = op[q], [Next]_vars
    PROVE  PublishStep(q)'
  <1> DEFINE t == op[q].tx
  <1>1. CASE op[q].pc \notin SpoolPCs \cup {"readmit", "build", "capture"}
    BY <1>1 DEF SpoolPCs, PublishStep
  <1>2. CASE op[q].pc \in SpoolPCs \cup {"readmit", "build", "capture"}
    <2>1. /\ t \in Export /\ jr[t] # None /\ jr[t] \in Journal
          /\ jr[t].phase \in Claims /\ vol.pend # t
      BY <1>2 DEF TransferInv, CommandExact, Transacting, PublishStep, SpoolPCs, ImportTypeOK, TypeOK
    <2>2. jr'[t].phase \in Claims /\ vol'.pend # t
      BY <2>1, ClaimsKept, PendFresh
    <2>3. op[q].pc \in SpoolPCs => spool'[t] = spool[t]
      BY SpoolKept
    <2>4. op[q].pc = "inspect" => helper'[t] = helper[t]
      BY HelperKept
    <2>5. op[q].pc \in {"receive", "rename", "final"} => jr'[t] = jr[t]
      BY IntentKept
    <2>6. jr[t].parent \in Parent
      BY <2>1 DEF Journal
    <2>7. dest[jr[t].parent].out[t] # "absent" => dest'[jr[t].parent].out[t] # "absent"
      BY <2>1, <2>6, OutputKept
    <2>8. PublishStep(q)
      BY DEF TransferInv, CommandExact
    <2>9. op[q].pc = "inspect" => op[q].pc \in SpoolPCs
      BY DEF SpoolPCs
    <2> QED
      BY <2>2, <2>3, <2>4, <2>5, <2>7, <2>8, <2>9 DEF PublishStep
  <1> QED
    BY <1>1, <1>2

LEMMA TransactingKept ==
    ASSUME TransferInv, NEW q \in Proc, op'[q] = op[q], [Next]_vars
    PROVE  Transacting(q)'
  BY JournalLives DEF TransferInv, CommandExact, Transacting, JournalsForward, Forward

-----------------------------------------------------------------------------
(* What a command establishes by its own step.                             *)

Established(p) == Transacting(p) /\ CopyStep(p) /\ PublishStep(p)

LEMMA IdleEstablished ==
    ASSUME NEW p \in Proc, op'[p].pc \in {"idle", "lock"}
    PROVE  Established(p)'
  BY DEF Established, Transacting, CopyStep, PublishStep, SpoolPCs

LEMMA RecoverEstablished ==
    ASSUME NEW p \in Proc, op'[p].pc \in {"rlock", "recover"},
           op'[p].tx \in Export, jr'[op'[p].tx] # None
    PROVE  Established(p)'
  BY DEF Established, Transacting, CopyStep, PublishStep, SpoolPCs

LEMMA ClaimEstablished ==
    ASSUME TransferInv, [Next]_vars, NEW p \in Proc,
           op'[p].pc \in {"readmit", "build", "capture"}, op'[p].tx \in Export,
           jr[op'[p].tx] # None, jr[op'[p].tx].phase \in Claims, vol'.pend # op'[p].tx
    PROVE  Established(p)'
  <1>1. jr'[op'[p].tx] # None /\ jr'[op'[p].tx].phase \in Claims
    BY ClaimsKept
  <1> QED
    BY <1>1 DEF Established, Transacting, CopyStep, PublishStep, SpoolPCs

LEMMA CreateReadEstablishes ==
    ASSUME TransferInv, NEW p \in Proc, CreateRead(p), [Next]_vars
    PROVE  Established(p)'
  BY CreateReadMoves, IdleEstablished

LEMMA CreateJournalEstablishes ==
    ASSUME TransferInv, NEW p \in Proc, NEW t \in Export, NEW d \in Parent, NEW s \in Dir, CreateJournal(p, t, d, s), [Next]_vars
    PROVE  Established(p)'
  <1>1. op'[p].pc = "mark" /\ op'[p].tx = t /\ op'[p].saw = jr'[t]
    BY CreateJournalMoves
  <1>2. jr'[t] = [phase |-> "copying", parent |-> d, sel |-> s, snap |-> None]
    BY DEF CreateJournal, TransferInv, ImportTypeOK, TypeOK
  <1>3. jr'[t] \in Journal /\ jr'[t].phase = "copying"
    BY <1>2 DEF Journal, Phases
  <1> QED
    BY <1>1, <1>3, ExportAssumption
       DEF Established, Transacting, CopyStep, PublishStep, SpoolPCs

LEMMA CreateRefusedEstablishes ==
    ASSUME TransferInv, NEW p \in Proc, CreateRefused(p), [Next]_vars
    PROVE  Established(p)'
  BY CreateRefusedMoves, IdleEstablished

LEMMA BeginExportSnapshotEstablishes ==
    ASSUME TransferInv, NEW p \in Proc, BeginExportSnapshot(p), [Next]_vars
    PROVE  Established(p)'
  <1> DEFINE t == op[p].tx
  <1>1. op[p].pc = "mark" /\ op'[p].pc = "mkdir" /\ op'[p].tx = t /\ op'[p].saw = op[p].saw
    BY BeginExportSnapshotMoves DEF Keeps
  <1>2. t \in Export /\ jr[t] # None /\ jr[t] = op[p].saw /\ jr[t].phase = "copying"
    BY <1>1 DEF TransferInv, CommandExact, Transacting, CopyStep
  <1>3. UNCHANGED jr /\ vol'.pend = t
    BY <1>1, <1>2
       DEF BeginExportSnapshot, saveRecordTransition, TransferInv,
           ImportTypeOK, TypeOK
  <1> HIDE DEF t
  <1> QED
    BY <1>1, <1>2, <1>3
       DEF Established, Transacting, CopyStep, PublishStep, SpoolPCs

LEMMA MakeDirectoryEstablishes ==
    ASSUME TransferInv, NEW p \in Proc, MakeDirectory(p), [Next]_vars
    PROVE  Established(p)'
  <1> DEFINE t == op[p].tx
  <1>1. op[p].pc = "mkdir" /\ op'[p].pc = "open" /\ op'[p].tx = t /\ op'[p].saw = op[p].saw
    BY MakeDirectoryMoves DEF Keeps
  <1>2. t \in Export /\ jr[t] # None /\ jr[t] = op[p].saw /\ jr[t].phase = "copying"
    BY <1>1 DEF TransferInv, CommandExact, Transacting, CopyStep
  <1>3. UNCHANGED jr /\ vol'.pend = t
    BY <1>1, <1>2 DEF MakeDirectory, TransferInv, CommandExact, CopyStep
  <1> HIDE DEF t
  <1> QED
    BY <1>1, <1>2, <1>3
       DEF Established, Transacting, CopyStep, PublishStep, SpoolPCs

LEMMA CopyOpenEstablishes ==
    ASSUME TransferInv, NEW p \in Proc, CopyOpen(p), [Next]_vars
    PROVE  Established(p)'
  <1> DEFINE t == op[p].tx
  <1>1. op[p].pc = "open" /\ op'[p].pc = "copy" /\ op'[p].tx = t /\ op'[p].saw = op[p].saw /\ op'[p].first = disk.data
    BY CopyOpenMoves DEF Keeps
  <1>2. t \in Export /\ jr[t] # None /\ jr[t] = op[p].saw /\ jr[t].phase = "copying"
    BY <1>1 DEF TransferInv, CommandExact, Transacting, CopyStep
  <1>3. UNCHANGED jr /\ vol'.pend = t /\ disk.data \in Data
    BY <1>1, <1>2
       DEF CopyOpen, CommandExact, CopyStep, TransferInv, ImportTypeOK,
           TypeOK
  <1> HIDE DEF t
  <1> QED
    BY <1>1, <1>2, <1>3
       DEF Established, Transacting, CopyStep, PublishStep, SpoolPCs

LEMMA copyExportSnapshotEstablishes ==
    ASSUME TransferInv, NEW p \in Proc, copyExportSnapshot(p), [Next]_vars
    PROVE  Established(p)'
  <1> DEFINE t == op[p].tx
  <1>1. op[p].pc = "copy" /\ op'[p].pc = "ready" /\ op'[p].tx = t /\ op'[p].saw = op[p].saw /\ op'[p].first = op[p].first
    BY copyExportSnapshotMoves DEF Keeps
  <1>2. t \in Export /\ jr[t] # None /\ jr[t] = op[p].saw /\ jr[t].phase = "copying"
    BY <1>1 DEF TransferInv, CommandExact, Transacting, CopyStep
  <1>3. UNCHANGED jr /\ vol'.pend = t /\ op[p].first \in Data
        /\ disk'.data = op[p].first /\ snap'[t] = [st |-> "full", data |-> op[p].first]
    BY <1>1, <1>2
       DEF copyExportSnapshot, verifyExportSource, CommandExact, CopyStep,
           TransferInv, ImportTypeOK, TypeOK
  <1> HIDE DEF t
  <1> QED
    BY <1>1, <1>2, <1>3
       DEF Established, Transacting, CopyStep, PublishStep, SpoolPCs

LEMMA AdvanceReadyEstablishes ==
    ASSUME TransferInv, NEW p \in Proc, AdvanceReady(p), [Next]_vars
    PROVE  Established(p)'
  <1> DEFINE t == op[p].tx
  <1>1. op[p].pc = "ready" /\ op'[p].pc = "clear" /\ op'[p].tx = t
    BY AdvanceReadyMoves
  <1>2. t \in Export /\ jr[t] # None /\ vol.pend = t
    BY <1>1 DEF TransferInv, CommandExact, Transacting, CopyStep
  <1>3. jr'[t] # None /\ vol'.pend = t
    BY <1>2, JournalLives DEF AdvanceReady, JournalsForward, Forward
  <1> HIDE DEF t
  <1> QED
    BY <1>1, <1>2, <1>3
       DEF Established, Transacting, CopyStep, PublishStep, SpoolPCs

LEMMA CreateFinishEstablishes ==
    ASSUME TransferInv, NEW p \in Proc, CreateFinish(p), [Next]_vars
    PROVE  Established(p)'
  <1> DEFINE t == op[p].tx
  <1>1. op[p].pc = "clear" /\ op'[p].pc \in {"idle", "readmit", "build", "capture"}
        /\ (op'[p].pc # "idle" => op'[p].tx = t)
    BY CreateFinishMoves DEF Keeps
  <1>2. t \in Export /\ jr[t] # None /\ t # None
    BY <1>1, ExportAssumption DEF TransferInv, CommandExact, Transacting
  <1>3. op'[p].pc # "idle" => jr[t].phase \in Claims /\ vol'.pend # t
    BY <1>1, <1>2
       DEF CreateFinish, finishExportSnapshotPending, saveRecordTransition,
           Claims, TransferInv, ImportTypeOK, TypeOK
  <1> QED
    BY <1>1, <1>2, <1>3, IdleEstablished, ClaimEstablished

LEMMA ResumeBeginEstablishes ==
    ASSUME TransferInv, NEW p \in Proc, NEW t \in Export, ResumeBegin(p, t), [Next]_vars
    PROVE  Established(p)'
  <1>1. /\ op'[p].tx = t /\ op'[p].pc \in {"rlock", "readmit"}
        /\ op'[p].pc = "readmit" => jr[t].phase \in Claims /\ vol.pend # t
    BY ResumeBeginMoves
  <1>2. UNCHANGED <<jr, vol>> /\ jr[t] # None
    BY DEF ResumeBegin
  <1> QED
    BY <1>1, <1>2, RecoverEstablished, ClaimEstablished

LEMMA RecoverLockEstablishes ==
    ASSUME TransferInv, NEW p \in Proc, RecoverLock(p), [Next]_vars
    PROVE  Established(p)'
  <1>1. op[p].pc = "rlock" /\ op'[p].pc = "recover" /\ op'[p].tx = op[p].tx
    BY RecoverLockMoves DEF Keeps
  <1>2. op[p].tx \in Export /\ jr[op[p].tx] # None /\ UNCHANGED jr
    BY <1>1 DEF RecoverLock, TransferInv, CommandExact, Transacting
  <1> QED
    BY <1>1, <1>2, RecoverEstablished

LEMMA RecoverSettledEstablishes ==
    ASSUME TransferInv, NEW p \in Proc, RecoverSettled(p), [Next]_vars
    PROVE  Established(p)'
  <1> DEFINE t == op[p].tx
  <1>1. op[p].pc = "recover" /\ op'[p].pc \in {"idle", "readmit", "build", "capture"}
        /\ (op'[p].pc # "idle" => op'[p].tx = t)
    BY RecoverSettledMoves DEF Keeps
  <1>2. t \in Export /\ jr[t] # None /\ t # None
    BY <1>1, ExportAssumption DEF TransferInv, CommandExact, Transacting
  <1>3. op'[p].pc # "idle" => jr[t].phase \in Claims /\ vol'.pend # t
    BY <1>1, <1>2, ReturnEffect
       DEF RecoverSettled, RecoverReturn, Claims, TransferInv, ImportTypeOK,
           TypeOK
  <1> QED
    BY <1>1, <1>2, <1>3, IdleEstablished, ClaimEstablished

LEMMA removeExactPartialSnapshotEstablishes ==
    ASSUME TransferInv, NEW p \in Proc, removeExactPartialSnapshot(p), [Next]_vars
    PROVE  Established(p)'
  <1> DEFINE t == op[p].tx
  <1>1. op[p].pc = "recover" /\ op'[p].pc = "rabort" /\ op'[p].tx = t
    BY removeExactPartialSnapshotMoves DEF Keeps
  <1>2. t \in Export /\ jr[t] # None /\ jr[t] \in Journal
    BY <1>1 DEF TransferInv, CommandExact, Transacting, ImportTypeOK, TypeOK
  <1>3. /\ jr'[t].phase = "copying" /\ UNCHANGED vol
        /\ vol.pend \in {None, t} /\ snap'[t].st = "absent"
    BY <1>1, <1>2
       DEF removeExactPartialSnapshot, RecoverBinding,
           requireAbsentSnapshotDirectory, TransferInv, ImportTypeOK, TypeOK
  <1>4. jr'[t] # None
    BY <1>2, JournalLives DEF JournalsForward, Forward
  <1> HIDE DEF t
  <1> QED
    BY <1>1, <1>2, <1>3, <1>4
       DEF Established, Transacting, CopyStep, PublishStep, SpoolPCs

LEMMA RecoverAbortEstablishes ==
    ASSUME TransferInv, NEW p \in Proc, RecoverAbort(p), [Next]_vars
    PROVE  Established(p)'
  <1> DEFINE t == op[p].tx
  <1>1. op[p].pc = "rabort" /\ op'[p].pc = "rclear" /\ op'[p].tx = t
    BY RecoverAbortMoves DEF Keeps
  <1>2. t \in Export /\ jr[t] # None /\ jr[t] \in Journal
    BY <1>1 DEF TransferInv, CommandExact, Transacting, ImportTypeOK, TypeOK
  <1>3. /\ jr'[t].phase = "aborted" /\ UNCHANGED vol
        /\ vol.pend \in {None, t} /\ snap'[t].st = "absent"
    BY <1>1, <1>2, PhaseEffect
       DEF RecoverAbort, advanceExportJournalLocked, Phase, Phases, Journal,
           CommandExact, CopyStep, TransferInv, ImportTypeOK, TypeOK
  <1>4. jr'[t] # None
    BY <1>2, JournalLives DEF JournalsForward, Forward
  <1> HIDE DEF t
  <1> QED
    BY <1>1, <1>2, <1>3, <1>4
       DEF Established, Transacting, CopyStep, PublishStep, SpoolPCs

LEMMA RecoverAbortedEstablishes ==
    ASSUME TransferInv, NEW p \in Proc, RecoverAborted(p), [Next]_vars
    PROVE  Established(p)'
  <1> DEFINE t == op[p].tx
  <1>1. op[p].pc = "recover" /\ op'[p].pc = "rclear" /\ op'[p].tx = t
    BY RecoverAbortedMoves DEF Keeps
  <1>2. t \in Export /\ jr[t] # None /\ jr[t] \in Journal
    BY <1>1 DEF TransferInv, CommandExact, Transacting, ImportTypeOK, TypeOK
  <1>3. /\ jr'[t].phase = "aborted" /\ UNCHANGED vol
        /\ vol.pend \in {None, t} /\ snap'[t].st = "absent"
    BY <1>1, <1>2 DEF RecoverAborted, requireAbsentSnapshotDirectory
  <1>4. jr'[t] # None
    BY <1>2, JournalLives DEF JournalsForward, Forward
  <1> HIDE DEF t
  <1> QED
    BY <1>1, <1>2, <1>3, <1>4
       DEF Established, Transacting, CopyStep, PublishStep, SpoolPCs

LEMMA RecoverClearEstablishes ==
    ASSUME TransferInv, NEW p \in Proc, RecoverClear(p), [Next]_vars
    PROVE  Established(p)'
  BY RecoverClearMoves, IdleEstablished

LEMMA RecoverReadyEstablishes ==
    ASSUME TransferInv, NEW p \in Proc, RecoverReady(p), [Next]_vars
    PROVE  Established(p)'
  <1> DEFINE t == op[p].tx
  <1>1. op[p].pc = "recover" /\ op'[p].pc \in {"idle", "readmit", "build", "capture"}
        /\ (op'[p].pc # "idle" => op'[p].tx = t)
    BY RecoverReadyMoves DEF Keeps
  <1>2. t \in Export /\ jr[t] # None /\ t # None
    BY <1>1, ExportAssumption DEF TransferInv, CommandExact, Transacting
  <1>3. op'[p].pc # "idle" => jr[t].phase \in Claims /\ vol'.pend # t
    BY <1>1, <1>2
       DEF RecoverReady, finishExportSnapshotPending, saveRecordTransition,
           Claims, TransferInv, ImportTypeOK, TypeOK
  <1> QED
    BY <1>1, <1>2, <1>3, IdleEstablished, ClaimEstablished

LEMMA RecoverRefusedEstablishes ==
    ASSUME TransferInv, NEW p \in Proc, RecoverRefused(p), [Next]_vars
    PROVE  Established(p)'
  BY RecoverRefusedMoves, IdleEstablished

LEMMA resumeSelectedWorkspaceEstablishes ==
    ASSUME TransferInv, NEW p \in Proc, resumeSelectedWorkspace(p), [Next]_vars
    PROVE  Established(p)'
  <1> DEFINE t == op[p].tx
  <1>1. op[p].pc = "readmit" /\ op'[p].pc \in {"idle", "readmit", "build", "capture"}
        /\ (op'[p].pc # "idle" => op'[p].tx = t)
    BY resumeSelectedWorkspaceMoves DEF Keeps
  <1>2. t \in Export /\ jr[t] # None /\ t # None
    BY <1>1, ExportAssumption DEF TransferInv, CommandExact, Transacting
  <1>3. op'[p].pc # "idle" => jr[t].phase \in Claims /\ vol'.pend # t
    BY <1>1, <1>2
       DEF resumeSelectedWorkspace, TransferInv, CommandExact, PublishStep
  <1> QED
    BY <1>1, <1>2, <1>3, IdleEstablished, ClaimEstablished

LEMMA buildAdmittedExportInspectorBundleEstablishes ==
    ASSUME TransferInv, NEW p \in Proc, buildAdmittedExportInspectorBundle(p), [Next]_vars
    PROVE  Established(p)'
  <1> DEFINE t == op[p].tx
  <1>1. op[p].pc = "build" /\ op'[p].pc \in {"idle", "readmit", "build", "capture"}
        /\ (op'[p].pc # "idle" => op'[p].tx = t)
    BY buildAdmittedExportInspectorBundleMoves DEF Keeps
  <1>2. t \in Export /\ jr[t] # None /\ t # None
    BY <1>1, ExportAssumption DEF TransferInv, CommandExact, Transacting
  <1>3. op'[p].pc # "idle" => jr[t].phase \in Claims /\ vol'.pend # t
    BY <1>1, <1>2
       DEF buildAdmittedExportInspectorBundle, TransferInv, CommandExact,
           PublishStep
  <1> QED
    BY <1>1, <1>2, <1>3, IdleEstablished, ClaimEstablished

LEMMA captureBoundExportInspectorEstablishes ==
    ASSUME TransferInv, NEW p \in Proc, captureBoundExportInspector(p), [Next]_vars
    PROVE  Established(p)'
  <1>1. CASE op'[p].pc = "idle"
    BY <1>1, IdleEstablished
  <1> DEFINE t == op[p].tx
  <1> SUFFICES ASSUME op'[p].pc # "idle"
               PROVE  Established(p)'
    BY <1>1
  <1>2. op[p].pc = "capture" /\ op'[p].pc = "inspect" /\ op'[p].tx = t
    BY captureBoundExportInspectorMoves DEF Keeps
  <1>3. /\ t \in Export /\ jr[t] # None /\ jr[t] \in Journal
        /\ jr[t].phase \in Claims /\ vol.pend # t
    BY <1>2
       DEF TransferInv, CommandExact, Transacting, PublishStep, SpoolPCs,
           ImportTypeOK, TypeOK
  <1>4. jr'[t] # None /\ jr'[t].phase \in Claims /\ vol'.pend # t
    BY <1>3, ClaimsKept, PendFresh
  <1>5. spool'[t].st = "partial" /\ helper'[t] = 1
    <2>1. /\ spool' = [spool EXCEPT ![t] = [st |-> "partial", mark |-> "absent"]]
          /\ helper' = [helper EXCEPT ![t] = @ + 1] /\ spool[t].st = "absent"
      BY captureBoundExportInspectorMoves
    <2>2. helper[t] = 0 /\ spool \in [Export -> Spool] /\ helper \in [Export -> 0..2]
      BY <1>3, <2>1 DEF TransferInv, SpoolExact, ImportTypeOK, TypeOK
    <2> HIDE DEF t
    <2> QED
      BY <1>3, <2>1, <2>2
  <1> HIDE DEF t
  <1> QED
    BY <1>2, <1>3, <1>4, <1>5
       DEF Established, Transacting, CopyStep, PublishStep, SpoolPCs

LEMMA InspectorStoppedEstablishes ==
    ASSUME TransferInv, NEW p \in Proc, InspectorStopped(p), [Next]_vars
    PROVE  Established(p)'
  <1>1. CASE op'[p].pc = "idle"
    BY <1>1, IdleEstablished
  <1> DEFINE t == op[p].tx
  <1> SUFFICES ASSUME op'[p].pc # "idle"
               PROVE  Established(p)'
    BY <1>1
  <1>2. op[p].pc = "inspect" /\ op'[p].pc = "publish" /\ op'[p].tx = t
    BY InspectorStoppedMoves DEF Keeps
  <1>3. /\ t \in Export /\ jr[t] # None /\ jr[t] \in Journal
        /\ jr[t].phase \in Claims /\ vol.pend # t
    BY <1>2
       DEF TransferInv, CommandExact, Transacting, PublishStep, SpoolPCs,
           ImportTypeOK, TypeOK
  <1>4. jr'[t] # None /\ jr'[t].phase \in Claims /\ vol'.pend # t
    BY <1>3, ClaimsKept, PendFresh
  <1>5. spool'[t].st = "full"
    <2>1. \E m : spool' = [spool EXCEPT ![t] = [st |-> "full", mark |-> m]]
      BY InspectorStoppedMoves
    <2>2. spool \in [Export -> Spool]
      BY DEF TransferInv, ImportTypeOK, TypeOK
    <2> HIDE DEF t
    <2> QED
      BY <1>3, <2>1, <2>2
  <1> HIDE DEF t
  <1> QED
    BY <1>2, <1>3, <1>4, <1>5
       DEF Established, Transacting, CopyStep, PublishStep, SpoolPCs

LEMMA InspectorCancelledEstablishes ==
    ASSUME TransferInv, NEW p \in Proc, InspectorCancelled(p), [Next]_vars
    PROVE  Established(p)'
  BY InspectorCancelledMoves, IdleEstablished

LEMMA InspectorStopUnprovenEstablishes ==
    ASSUME TransferInv, NEW p \in Proc, InspectorStopUnproven(p), [Next]_vars
    PROVE  Established(p)'
  BY InspectorStopUnprovenMoves, IdleEstablished

LEMMA PublishBeginEstablishes ==
    ASSUME TransferInv, NEW p \in Proc, PublishBegin(p), [Next]_vars
    PROVE  Established(p)'
  <1>1. CASE op'[p].pc = "idle"
    BY <1>1, IdleEstablished
  <1> DEFINE t == op[p].tx
  <1> SUFFICES ASSUME op'[p].pc # "idle"
               PROVE  Established(p)'
    BY <1>1
  <1>2. op[p].pc = "publish" /\ op'[p].pc = "receive" /\ op'[p].tx = t
    BY PublishBeginMoves DEF Keeps
  <1>3. /\ t \in Export /\ jr[t] # None /\ jr[t] \in Journal
        /\ jr[t].phase \in Claims /\ vol.pend # t
    BY <1>2
       DEF TransferInv, CommandExact, Transacting, PublishStep, SpoolPCs,
           ImportTypeOK, TypeOK
  <1>4. jr'[t] # None /\ jr'[t].phase \in Claims /\ vol'.pend # t
    BY <1>3, ClaimsKept, PendFresh
  <1>5. spool'[t].st = "full" /\ jr'[t] = op'[p].saw /\ jr'[t].phase = "inspected"
    BY <1>2, PublishBeginMoves
       DEF TransferInv, CommandExact, PublishStep, SpoolPCs
  <1> HIDE DEF t
  <1> QED
    BY <1>2, <1>3, <1>4, <1>5
       DEF Established, Transacting, CopyStep, PublishStep, SpoolPCs

LEMMA ReceiveEstablishes ==
    ASSUME TransferInv, NEW p \in Proc, Receive(p), [Next]_vars
    PROVE  Established(p)'
  <1> DEFINE t == op[p].tx
  <1>1. op[p].pc = "receive" /\ op'[p].pc = "rename" /\ op'[p].tx = t
    BY ReceiveMoves DEF Keeps
  <1>2. /\ t \in Export /\ jr[t] # None /\ jr[t] \in Journal
        /\ jr[t].phase \in Claims /\ vol.pend # t
    BY <1>1
       DEF TransferInv, CommandExact, Transacting, PublishStep, SpoolPCs,
           ImportTypeOK, TypeOK
  <1>3. jr'[t] # None /\ jr'[t].phase \in Claims /\ vol'.pend # t
    BY <1>2, ClaimsKept, PendFresh
  <1>4. /\ spool'[t].st = "full" /\ op'[p].saw = op[p].saw
        /\ jr'[t] = op[p].saw /\ jr'[t].phase = "inspected"
    BY <1>1, ReceiveMoves
       DEF Receive, Keeps, TransferInv, CommandExact, PublishStep, SpoolPCs
  <1> HIDE DEF t
  <1> QED
    BY <1>1, <1>2, <1>3, <1>4
       DEF Established, Transacting, CopyStep, PublishStep, SpoolPCs

LEMMA ReceiveTerminalEstablishes ==
    ASSUME TransferInv, NEW p \in Proc, ReceiveTerminal(p), [Next]_vars
    PROVE  Established(p)'
  <1>1. CASE op'[p].pc = "idle"
    BY <1>1, IdleEstablished
  <1> DEFINE t == op[p].tx
  <1> SUFFICES ASSUME op'[p].pc # "idle"
               PROVE  Established(p)'
    BY <1>1
  <1>2. op[p].pc = "rename" /\ op'[p].pc = "final" /\ op'[p].tx = t
    BY ReceiveTerminalMoves DEF Keeps
  <1>3. /\ t \in Export /\ jr[t] # None /\ jr[t] \in Journal
        /\ jr[t].phase \in Claims /\ vol.pend # t
    BY <1>2
       DEF TransferInv, CommandExact, Transacting, PublishStep, SpoolPCs,
           ImportTypeOK, TypeOK
  <1>4. jr'[t] # None /\ jr'[t].phase \in Claims /\ vol'.pend # t
    BY <1>3, ClaimsKept, PendFresh
  <1>5. /\ spool'[t].st = "full" /\ op'[p].saw = op[p].saw
        /\ jr'[t] = op[p].saw /\ jr'[t].phase = "inspected"
        /\ dest'[jr'[t].parent].out[t] # "absent"
    <2> DEFINE c == jr[t].parent
               m == spool[t].mark
    <2>1. /\ spool'[t].st = "full" /\ op'[p].saw = op[p].saw
          /\ jr'[t] = op[p].saw /\ jr'[t].phase = "inspected" /\ jr'[t] = jr[t]
      BY <1>2, ReceiveTerminalMoves
         DEF ReceiveTerminal, Keeps, TransferInv, CommandExact, PublishStep,
             SpoolPCs
    <2>2. m # "absent" /\ dest' = [dest EXCEPT ![c].in = @ \ {t}, ![c].out[t] = m]
      BY <1>2, ReceiveTerminalMoves
    <2>3. /\ c \in Parent /\ m \in Mark /\ dest \in [Parent -> Destination]
          /\ dest[c].out \in [Export -> Mark]
      BY <1>3
         DEF Journal, Spool, Destination, TransferInv, ImportTypeOK, TypeOK
    <2>4. jr'[t].parent = c
      BY <2>1
    <2> HIDE DEF t, c, m
    <2>5. dest[c] \in Destination
      BY <2>3
    <2>6. dest'[c].out = [dest[c].out EXCEPT ![t] = m]
      BY ONLY <1>3, <2>2, <2>3, <2>5 DEF Destination
    <2> QED
      BY <1>3, <2>1, <2>2, <2>3, <2>4, <2>6
  <1> HIDE DEF t
  <1> QED
    BY <1>2, <1>3, <1>4, <1>5
       DEF Established, Transacting, CopyStep, PublishStep, SpoolPCs

LEMMA PublishFinishEstablishes ==
    ASSUME TransferInv, NEW p \in Proc, PublishFinish(p), [Next]_vars
    PROVE  Established(p)'
  BY PublishFinishMoves, IdleEstablished

LEMMA FailEstablishes ==
    ASSUME TransferInv, NEW p \in Proc, Fail(p), [Next]_vars
    PROVE  Established(p)'
  BY FailMoves, IdleEstablished

LEMMA CrashEstablishes ==
    ASSUME TransferInv, NEW p \in Proc, Crash(p), [Next]_vars
    PROVE  Established(p)'
  BY CrashMoves, IdleEstablished

(* Every command rests on what is still true.                              *)
LEMMA CommandExactKept ==
    TransferInv /\ [Next]_vars => CommandExact'
  <1> SUFFICES ASSUME TransferInv, [Next]_vars, NEW q \in Proc
               PROVE  Established(q)'
    BY DEF CommandExact, Established
  <1>1. op'[q] = op[q] => Established(q)'
    BY TransactingKept, CopyStepKept, PublishStepKept DEF Established
  <1>2. ASSUME NEW p \in Proc, CreateRead(p)
         PROVE  Established(q)'
    BY <1>1, <1>2, CreateReadMoves, CreateReadEstablishes DEF OnlyMoves
  <1>3. ASSUME NEW p \in Proc, NEW t \in Export, NEW d \in Parent,
     NEW s \in Dir, CreateJournal(p, t, d, s)
         PROVE  Established(q)'
    BY <1>1, <1>3, CreateJournalMoves, CreateJournalEstablishes DEF OnlyMoves
  <1>4. ASSUME NEW p \in Proc, CreateRefused(p)
         PROVE  Established(q)'
    BY <1>1, <1>4, CreateRefusedMoves, CreateRefusedEstablishes DEF OnlyMoves
  <1>5. ASSUME NEW p \in Proc, BeginExportSnapshot(p)
         PROVE  Established(q)'
    BY <1>1, <1>5, BeginExportSnapshotMoves, BeginExportSnapshotEstablishes
       DEF OnlyMoves
  <1>6. ASSUME NEW p \in Proc, MakeDirectory(p)
         PROVE  Established(q)'
    BY <1>1, <1>6, MakeDirectoryMoves, MakeDirectoryEstablishes DEF OnlyMoves
  <1>7. ASSUME NEW p \in Proc, CopyOpen(p)
         PROVE  Established(q)'
    BY <1>1, <1>7, CopyOpenMoves, CopyOpenEstablishes DEF OnlyMoves
  <1>8. ASSUME NEW p \in Proc, copyExportSnapshot(p)
         PROVE  Established(q)'
    BY <1>1, <1>8, copyExportSnapshotMoves, copyExportSnapshotEstablishes
       DEF OnlyMoves
  <1>9. ASSUME NEW p \in Proc, AdvanceReady(p)
         PROVE  Established(q)'
    BY <1>1, <1>9, AdvanceReadyMoves, AdvanceReadyEstablishes DEF OnlyMoves
  <1>10. ASSUME NEW p \in Proc, CreateFinish(p)
          PROVE  Established(q)'
    BY <1>1, <1>10, CreateFinishMoves, CreateFinishEstablishes DEF OnlyMoves
  <1>11. ASSUME NEW p \in Proc, NEW t \in Export, ResumeBegin(p, t)
          PROVE  Established(q)'
    BY <1>1, <1>11, ResumeBeginMoves, ResumeBeginEstablishes DEF OnlyMoves
  <1>12. ASSUME NEW p \in Proc, RecoverLock(p)
          PROVE  Established(q)'
    BY <1>1, <1>12, RecoverLockMoves, RecoverLockEstablishes DEF OnlyMoves
  <1>13. ASSUME NEW p \in Proc, RecoverSettled(p)
          PROVE  Established(q)'
    BY <1>1, <1>13, RecoverSettledMoves, RecoverSettledEstablishes
       DEF OnlyMoves
  <1>14. ASSUME NEW p \in Proc, removeExactPartialSnapshot(p)
          PROVE  Established(q)'
    BY <1>1, <1>14, removeExactPartialSnapshotMoves,
       removeExactPartialSnapshotEstablishes
       DEF OnlyMoves
  <1>15. ASSUME NEW p \in Proc, RecoverAbort(p)
          PROVE  Established(q)'
    BY <1>1, <1>15, RecoverAbortMoves, RecoverAbortEstablishes DEF OnlyMoves
  <1>16. ASSUME NEW p \in Proc, RecoverAborted(p)
          PROVE  Established(q)'
    BY <1>1, <1>16, RecoverAbortedMoves, RecoverAbortedEstablishes
       DEF OnlyMoves
  <1>17. ASSUME NEW p \in Proc, RecoverClear(p)
          PROVE  Established(q)'
    BY <1>1, <1>17, RecoverClearMoves, RecoverClearEstablishes DEF OnlyMoves
  <1>18. ASSUME NEW p \in Proc, RecoverReady(p)
          PROVE  Established(q)'
    BY <1>1, <1>18, RecoverReadyMoves, RecoverReadyEstablishes DEF OnlyMoves
  <1>19. ASSUME NEW p \in Proc, RecoverRefused(p)
          PROVE  Established(q)'
    BY <1>1, <1>19, RecoverRefusedMoves, RecoverRefusedEstablishes
       DEF OnlyMoves
  <1>20. ASSUME NEW p \in Proc, resumeSelectedWorkspace(p)
          PROVE  Established(q)'
    BY <1>1, <1>20, resumeSelectedWorkspaceMoves,
       resumeSelectedWorkspaceEstablishes
       DEF OnlyMoves
  <1>21. ASSUME NEW p \in Proc, buildAdmittedExportInspectorBundle(p)
          PROVE  Established(q)'
    BY <1>1, <1>21, buildAdmittedExportInspectorBundleMoves,
       buildAdmittedExportInspectorBundleEstablishes
       DEF OnlyMoves
  <1>22. ASSUME NEW p \in Proc, captureBoundExportInspector(p)
          PROVE  Established(q)'
    BY <1>1, <1>22, captureBoundExportInspectorMoves,
       captureBoundExportInspectorEstablishes
       DEF OnlyMoves
  <1>23. ASSUME NEW p \in Proc, InspectorStopped(p)
          PROVE  Established(q)'
    BY <1>1, <1>23, InspectorStoppedMoves, InspectorStoppedEstablishes
       DEF OnlyMoves
  <1>24. ASSUME NEW p \in Proc, InspectorCancelled(p)
          PROVE  Established(q)'
    BY <1>1, <1>24, InspectorCancelledMoves, InspectorCancelledEstablishes
       DEF OnlyMoves
  <1>25. ASSUME NEW p \in Proc, InspectorStopUnproven(p)
          PROVE  Established(q)'
    BY <1>1, <1>25, InspectorStopUnprovenMoves,
       InspectorStopUnprovenEstablishes
       DEF OnlyMoves
  <1>26. ASSUME NEW p \in Proc, PublishBegin(p)
          PROVE  Established(q)'
    BY <1>1, <1>26, PublishBeginMoves, PublishBeginEstablishes DEF OnlyMoves
  <1>27. ASSUME NEW p \in Proc, Receive(p)
          PROVE  Established(q)'
    BY <1>1, <1>27, ReceiveMoves, ReceiveEstablishes DEF OnlyMoves
  <1>28. ASSUME NEW p \in Proc, ReceiveTerminal(p)
          PROVE  Established(q)'
    BY <1>1, <1>28, ReceiveTerminalMoves, ReceiveTerminalEstablishes
       DEF OnlyMoves
  <1>29. ASSUME NEW p \in Proc, PublishFinish(p)
          PROVE  Established(q)'
    BY <1>1, <1>29, PublishFinishMoves, PublishFinishEstablishes
       DEF OnlyMoves
  <1>30. ASSUME NEW p \in Proc, Fail(p)
          PROVE  Established(q)'
    BY <1>1, <1>30, FailMoves, FailEstablishes DEF OnlyMoves
  <1>31. ASSUME NEW p \in Proc, Crash(p)
          PROVE  Established(q)'
    BY <1>1, <1>31, CrashMoves, CrashEstablishes DEF OnlyMoves
  <1> QED
    BY <1>1, <1>2, <1>3, <1>4, <1>5, <1>6, <1>7, <1>8, <1>9, <1>10, <1>11,
       <1>12, <1>13, <1>14, <1>15, <1>16, <1>17, <1>18, <1>19, <1>20, <1>21,
       <1>22, <1>23, <1>24, <1>25, <1>26, <1>27, <1>28, <1>29, <1>30, <1>31,
       OpFrame, ZenonT(60)

-----------------------------------------------------------------------------
(* Copies.                                                                 *)

CopyGood(u) ==
    /\ jr[u] = None => snap[u].st = "absent"
    /\ jr[u] # None =>
        /\ jr[u].phase = "copying" /\ vol.pend # u => snap[u].st = "absent"
        /\ jr[u].phase = "aborted" => snap[u].st = "absent"
        /\ jr[u].phase \in Claims => snap[u].st = "full" /\ snap[u].data = jr[u].snap
        /\ jr[u].phase = "ready" /\ vol.pend = u => jr[u].snap = disk.data

LEMMA CopyParts == CopyExact <=> \A u \in Export : CopyGood(u)
  BY DEF CopyExact, CopyGood

(* A transaction that a step does not touch.                               *)
LEMMA CopyOthers ==
    ASSUME TransferInv, NEW u \in Export, jr'[u] = jr[u], snap'[u] = snap[u],
           vol'.pend = u <=> vol.pend = u,
           disk'.data = disk.data \/ vol.pend # u
    PROVE  CopyGood(u)'
  <1>1. CopyGood(u)
    BY CopyParts DEF TransferInv
  <1> QED
    BY <1>1 DEF CopyGood

(* Every copy stays what its journal says.                                 *)
LEMMA CopyGoodKept ==
    ASSUME TransferInv, NEW u \in Export, [Next]_vars
    PROVE  CopyGood(u)'
  <1>1. /\ jr \in [Export -> Journal \cup {None}] /\ snap \in [Export -> Copy]
        /\ vol \in [att : BOOLEAN, use : 0..MaxGen, pend : Export \cup {None}]
        /\ disk \in [data : Data, clean : BOOLEAN] /\ u # None
    BY ExportAssumption DEF TransferInv, ImportTypeOK, TypeOK
  <1>2. CopyGood(u)
    BY CopyParts DEF TransferInv
  <1>3. ASSUME NEW p \in Proc, NEW t \in Export, NEW d \in Parent,
     NEW s \in Dir, CreateJournal(p, t, d, s)
         PROVE  CopyGood(u)'
    <2>1. /\ jr[t] = None /\ UNCHANGED <<vol, disk, snap>>
          /\ jr' = [jr EXCEPT ![t] = [phase |-> "copying", parent |-> d, sel |-> s, snap |-> None]]
      BY <1>3 DEF CreateJournal
    <2>2. CASE u = t
      BY <1>1, <1>2, <2>1, <2>2 DEF CopyGood, Claims
    <2>3. CASE u # t
      BY <1>1, <2>1, <2>3, CopyOthers
    <2> QED
      BY <2>2, <2>3
  <1>4. ASSUME NEW p \in Proc, BeginExportSnapshot(p)
         PROVE  CopyGood(u)'
    <2> DEFINE t == op[p].tx
    <2>1. /\ t \in Export /\ jr[t] # None /\ UNCHANGED <<jr, disk, snap>>
      BY <1>4, BeginExportSnapshotMoves
         DEF BeginExportSnapshot, TransferInv, CommandExact, Transacting
    <2>2. vol.pend = None /\ vol'.pend = t /\ jr[t].phase = "copying"
      BY <1>4, BeginExportSnapshotMoves, <1>1
         DEF BeginExportSnapshot, saveRecordTransition, checkBindings,
             TransferInv, CommandExact, CopyStep
    <2> HIDE DEF t
    <2>3. CASE u = t
      BY <1>1, <1>2, <2>1, <2>2, <2>3 DEF CopyGood, Claims
    <2>4. CASE u # t
      BY <1>1, <2>1, <2>2, <2>4, CopyOthers
    <2> QED
      BY <2>3, <2>4
  <1>5. ASSUME NEW p \in Proc, MakeDirectory(p)
         PROVE  CopyGood(u)'
    <2> DEFINE t == op[p].tx
    <2>1. /\ t \in Export /\ jr[t] # None /\ UNCHANGED <<vol, disk, jr>>
          /\ jr[t].phase = "copying"
      BY <1>5, MakeDirectoryMoves
         DEF MakeDirectory, TransferInv, CommandExact, Transacting, CopyStep
    <2>2. vol.pend = t
      BY <1>5, MakeDirectoryMoves
         DEF MakeDirectory, TransferInv, CommandExact, CopyStep
    <2>3. UNCHANGED snap \/ \E k : snap' = [snap EXCEPT ![t].st = k]
      BY <1>5 DEF MakeDirectory
    <2> HIDE DEF t
    <2>4. CASE u = t
      BY <1>1, <1>2, <2>1, <2>2, <2>4 DEF CopyGood, Claims
    <2>5. CASE u # t
      BY <1>1, <2>1, <2>3, <2>5, CopyOthers
    <2> QED
      BY <2>4, <2>5
  <1>6. ASSUME NEW p \in Proc, CopyOpen(p)
         PROVE  CopyGood(u)'
    <2> DEFINE t == op[p].tx
    <2>1. /\ t \in Export /\ jr[t] # None /\ UNCHANGED <<vol, disk, jr>>
          /\ jr[t].phase = "copying"
      BY <1>6, CopyOpenMoves
         DEF CopyOpen, TransferInv, CommandExact, Transacting, CopyStep
    <2>2. vol.pend = t
      BY <1>6, CopyOpenMoves
         DEF CopyOpen, TransferInv, CommandExact, CopyStep
    <2>3. UNCHANGED snap \/ \E k : snap' = [snap EXCEPT ![t].st = k]
      BY <1>6 DEF CopyOpen
    <2> HIDE DEF t
    <2>4. CASE u = t
      BY <1>1, <1>2, <2>1, <2>2, <2>4 DEF CopyGood, Claims
    <2>5. CASE u # t
      BY <1>1, <2>1, <2>3, <2>5, CopyOthers
    <2> QED
      BY <2>4, <2>5
  <1>7. ASSUME NEW p \in Proc, copyExportSnapshot(p)
         PROVE  CopyGood(u)'
    <2> DEFINE t == op[p].tx
    <2>1. /\ t \in Export /\ jr[t] # None /\ UNCHANGED <<vol, disk, jr>>
          /\ jr[t].phase = "copying"
      BY <1>7, copyExportSnapshotMoves
         DEF copyExportSnapshot, TransferInv, CommandExact, Transacting,
             CopyStep
    <2>2. vol.pend = t
      BY <1>7, copyExportSnapshotMoves
         DEF copyExportSnapshot, TransferInv, CommandExact, CopyStep
    <2>3. UNCHANGED snap \/ \E k : snap' = [snap EXCEPT ![t] = k]
      BY <1>7 DEF copyExportSnapshot
    <2> HIDE DEF t
    <2>4. CASE u = t
      BY <1>1, <1>2, <2>1, <2>2, <2>4 DEF CopyGood, Claims
    <2>5. CASE u # t
      BY <1>1, <2>1, <2>3, <2>5, CopyOthers
    <2> QED
      BY <2>4, <2>5
  <1>8. ASSUME NEW p \in Proc, AdvanceReady(p)
         PROVE  CopyGood(u)'
    <2> DEFINE t == op[p].tx
    <2>1. /\ t \in Export /\ jr[t] # None /\ jr[t] \in Journal /\ UNCHANGED <<vol, disk, snap>>
          /\ snap[t].st = "full" /\ snap[t].data = op[p].first /\ disk.data = op[p].first
      BY <1>8, <1>1, AdvanceReadyMoves
         DEF AdvanceReady, TransferInv, CommandExact, Transacting, CopyStep
    <2>2. UNCHANGED jr \/ \E k : jr' = [jr EXCEPT ![t] = k]
      BY <1>8 DEF AdvanceReady, advanceExportJournalLocked
    <2>3. jr'[t] # None /\ jr'[t].phase = "ready" /\ jr'[t].snap = op[p].first
      <3>1. jr'[t] = [jr[t] EXCEPT !.phase = "ready", !.snap = op[p].first]
        BY <1>8, <1>1, <2>1 DEF AdvanceReady, advanceExportJournalLocked
      <3>2. jr'[t] = [phase |-> "ready", parent |-> jr[t].parent, sel |-> jr[t].sel, snap |-> op[p].first]
        BY <2>1, <3>1 DEF Journal
      <3>3. jr'[t] # None
        BY <2>1, JournalLives DEF JournalsForward, Forward
      <3> QED
        BY <3>2, <3>3
    <2> HIDE DEF t
    <2>4. CASE u = t
      BY <1>1, <1>2, <2>1, <2>3, <2>4 DEF CopyGood, Claims
    <2>5. CASE u # t
      BY <1>1, <2>1, <2>2, <2>5, CopyOthers
    <2> QED
      BY <2>4, <2>5
  <1>9. ASSUME NEW p \in Proc, CreateFinish(p)
         PROVE  CopyGood(u)'
    <2> DEFINE t == op[p].tx
    <2>1. /\ t \in Export /\ jr[t] # None /\ UNCHANGED <<jr, disk, snap>>
      BY <1>9, CreateFinishMoves
         DEF CreateFinish, TransferInv, CommandExact, Transacting
    <2>2. vol.pend = t /\ vol'.pend = None /\ jr[t].phase = "ready"
      BY <1>9, CreateFinishMoves, <1>1
         DEF CreateFinish, finishExportSnapshotPending, saveRecordTransition,
             TransferInv, CommandExact, CopyStep
    <2> HIDE DEF t
    <2>3. CASE u = t
      BY <1>1, <1>2, <2>1, <2>2, <2>3 DEF CopyGood, Claims
    <2>4. CASE u # t
      BY <1>1, <2>1, <2>2, <2>4, CopyOthers
    <2> QED
      BY <2>3, <2>4
  <1>10. ASSUME NEW p \in Proc, removeExactPartialSnapshot(p)
         PROVE  CopyGood(u)'
    <2> DEFINE t == op[p].tx
    <2>1. /\ t \in Export /\ jr[t] # None /\ UNCHANGED <<vol, disk, jr>>
          /\ jr[t].phase = "copying"
      BY <1>10, removeExactPartialSnapshotMoves
         DEF removeExactPartialSnapshot, TransferInv, CommandExact,
             Transacting, CopyStep
    <2>2. snap'[t].st = "absent"
      BY <1>10, removeExactPartialSnapshotMoves
         DEF removeExactPartialSnapshot, TransferInv, CommandExact, CopyStep,
             requireAbsentSnapshotDirectory, Transacting, ImportTypeOK,
             TypeOK
    <2>3. UNCHANGED snap \/ \E k : snap' = [snap EXCEPT ![t] = k]
      BY <1>10 DEF removeExactPartialSnapshot
    <2> HIDE DEF t
    <2>4. CASE u = t
      BY <1>1, <1>2, <2>1, <2>2, <2>4 DEF CopyGood, Claims
    <2>5. CASE u # t
      BY <1>1, <2>1, <2>3, <2>5, CopyOthers
    <2> QED
      BY <2>4, <2>5
  <1>11. ASSUME NEW p \in Proc, RecoverAbort(p)
         PROVE  CopyGood(u)'
    <2> DEFINE t == op[p].tx
    <2>1. /\ t \in Export /\ jr[t] # None /\ jr[t] \in Journal /\ UNCHANGED <<vol, disk, snap>>
          /\ snap[t].st = "absent"
      BY <1>11, <1>1, RecoverAbortMoves
         DEF RecoverAbort, TransferInv, CommandExact, Transacting, CopyStep
    <2>2. UNCHANGED jr \/ \E k : jr' = [jr EXCEPT ![t] = k]
      BY <1>11 DEF RecoverAbort, advanceExportJournalLocked
    <2>3. jr'[t] # None /\ jr'[t].phase = "aborted"
      <3>1. jr'[t] = [jr[t] EXCEPT !.phase = "aborted"]
        BY <1>11, <1>1, <2>1
           DEF RecoverAbort, advanceExportJournalLocked, Phase
      <3>2. jr'[t] # None
        BY <2>1, JournalLives DEF JournalsForward, Forward
      <3> QED
        BY <2>1, <3>1, <3>2 DEF Journal
    <2> HIDE DEF t
    <2>4. CASE u = t
      BY <1>1, <1>2, <2>1, <2>3, <2>4 DEF CopyGood, Claims
    <2>5. CASE u # t
      BY <1>1, <2>1, <2>2, <2>5, CopyOthers
    <2> QED
      BY <2>4, <2>5
  <1>12. ASSUME NEW p \in Proc, RecoverClear(p)
          PROVE  CopyGood(u)'
    <2> DEFINE t == op[p].tx
    <2>1. /\ t \in Export /\ jr[t] # None /\ UNCHANGED <<jr, disk, snap>>
      BY <1>12, RecoverClearMoves
         DEF RecoverClear, TransferInv, CommandExact, Transacting
    <2>2. vol.pend \in {None, t} /\ vol'.pend = None /\ jr[t].phase = "aborted"
      BY <1>12, RecoverClearMoves, <1>1
         DEF RecoverClear, saveRecordTransition, TransferInv, CommandExact,
             CopyStep
    <2> HIDE DEF t
    <2>3. CASE u = t
      BY <1>1, <1>2, <2>1, <2>2, <2>3 DEF CopyGood, Claims
    <2>4. CASE u # t
      BY <1>1, <2>1, <2>2, <2>4, CopyOthers
    <2> QED
      BY <2>3, <2>4
  <1>13. ASSUME NEW p \in Proc, RecoverReady(p)
          PROVE  CopyGood(u)'
    <2> DEFINE t == op[p].tx
    <2>1. /\ t \in Export /\ jr[t] # None /\ UNCHANGED <<jr, disk, snap>>
      BY <1>13, RecoverReadyMoves
         DEF RecoverReady, TransferInv, CommandExact, Transacting
    <2>2. vol.pend = t /\ vol'.pend = None /\ jr[t].phase = "ready"
      BY <1>13, RecoverReadyMoves, <1>1
         DEF RecoverReady, finishExportSnapshotPending, saveRecordTransition,
             TransferInv, CommandExact, CopyStep
    <2> HIDE DEF t
    <2>3. CASE u = t
      BY <1>1, <1>2, <2>1, <2>2, <2>3 DEF CopyGood, Claims
    <2>4. CASE u # t
      BY <1>1, <2>1, <2>2, <2>4, CopyOthers
    <2> QED
      BY <2>3, <2>4
  <1>14. ASSUME NEW p \in Proc, PublishBegin(p)
          PROVE  CopyGood(u)'
    <2> DEFINE t == op[p].tx
    <2>1. /\ t \in Export /\ jr[t] # None /\ jr[t] \in Journal /\ UNCHANGED <<vol, disk, snap>>
          /\ jr[t].phase \in Claims /\ vol.pend # t
      BY <1>14, <1>1, PublishBeginMoves
         DEF PublishBegin, TransferInv, CommandExact, Transacting,
             PublishStep, SpoolPCs
    <2>2. UNCHANGED jr \/ \E k : jr' = [jr EXCEPT ![t] = k]
      BY <1>14 DEF PublishBegin, advanceExportJournalLocked
    <2>3. jr'[t] # None /\ jr'[t].phase \in Claims /\ jr'[t].snap = jr[t].snap
      BY <2>1, ClaimsKept
    <2> HIDE DEF t
    <2>4. CASE u = t
      BY <1>1, <1>2, <2>1, <2>3, <2>4 DEF CopyGood, Claims
    <2>5. CASE u # t
      BY <1>1, <2>1, <2>2, <2>5, CopyOthers
    <2> QED
      BY <2>4, <2>5
  <1>15. ASSUME NEW p \in Proc, PublishFinish(p)
          PROVE  CopyGood(u)'
    <2> DEFINE t == op[p].tx
    <2>1. /\ t \in Export /\ jr[t] # None /\ jr[t] \in Journal /\ UNCHANGED <<vol, disk, snap>>
          /\ jr[t].phase \in Claims /\ vol.pend # t
      BY <1>15, <1>1, PublishFinishMoves
         DEF PublishFinish, TransferInv, CommandExact, Transacting,
             PublishStep, SpoolPCs
    <2>2. UNCHANGED jr \/ \E k : jr' = [jr EXCEPT ![t] = k]
      BY <1>15 DEF PublishFinish, advanceExportJournalLocked
    <2>3. jr'[t] # None /\ jr'[t].phase \in Claims /\ jr'[t].snap = jr[t].snap
      BY <2>1, ClaimsKept
    <2> HIDE DEF t
    <2>4. CASE u = t
      BY <1>1, <1>2, <2>1, <2>3, <2>4 DEF CopyGood, Claims
    <2>5. CASE u # t
      BY <1>1, <2>1, <2>2, <2>5, CopyOthers
    <2> QED
      BY <2>4, <2>5
  <1>16. CASE ReserveUse
    <2>1. vol'.pend = vol.pend /\ disk'.data = disk.data /\ UNCHANGED <<jr, snap>>
      BY <1>16, <1>1 DEF ReserveUse, saveRecordTransition
    <2> QED
      BY <2>1, CopyOthers
  <1>17. CASE ReleaseUseAfterObservedStop
    <2>1. vol'.pend = vol.pend /\ disk'.data = disk.data /\ UNCHANGED <<jr, snap>>
      BY <1>17, <1>1 DEF ReleaseUseAfterObservedStop, saveRecordTransition
    <2> QED
      BY <2>1, CopyOthers
  <1>18. CASE Attach
    <2>1. vol'.pend = vol.pend /\ disk'.data = disk.data /\ UNCHANGED <<jr, snap>>
      BY <1>18, <1>1 DEF Attach, saveRecordTransition
    <2> QED
      BY <2>1, CopyOthers
  <1>19. CASE Detach
    <2>1. vol'.pend = vol.pend /\ disk'.data = disk.data /\ UNCHANGED <<jr, snap>>
      BY <1>19, <1>1 DEF Detach, saveRecordTransition
    <2> QED
      BY <2>1, CopyOthers
  <1>20. CASE RuntimeEnds
    <2>1. disk'.data = disk.data /\ UNCHANGED <<vol, jr, snap>>
      BY <1>20, <1>1 DEF RuntimeEnds, MachineEnds
    <2> QED
      BY <2>1, CopyOthers
  <1>21. CASE GuestStep
    <2>1. run.live /\ UNCHANGED <<vol, jr, snap>>
      BY <1>21, TransferRuns DEF GuestStep, GuestWrite
    <2>2. vol.pend # u
      BY <1>1, <2>1 DEF TransferInv, PendingOwnsVolume
    <2> QED
      BY <2>1, <2>2, CopyOthers
  <1>22. CASE OwnerBegin
    <2>1. run.live /\ UNCHANGED <<vol, jr, snap>>
      BY <1>22, TransferRuns DEF OwnerBegin, admitOwnerImport, LiveUse
    <2>2. vol.pend # u
      BY <1>1, <2>1 DEF TransferInv, PendingOwnsVolume
    <2> QED
      BY <2>1, <2>2, CopyOthers
  <1>23. CASE OwnerUpload
    <2>1. run.live /\ UNCHANGED <<vol, jr, snap>>
      BY <1>23, TransferRuns DEF OwnerUpload
    <2>2. vol.pend # u
      BY <1>1, <2>1 DEF TransferInv, PendingOwnsVolume
    <2> QED
      BY <2>1, <2>2, CopyOthers
  <1>24. CASE UNCHANGED <<vol, disk, jr, snap>>
    BY <1>2, <1>24 DEF CopyGood
  <1> QED
    BY <1>3, <1>4, <1>5, <1>6, <1>7, <1>8, <1>9, <1>10, <1>11, <1>12, <1>13,
       <1>14, <1>15, <1>16, <1>17, <1>18, <1>19, <1>20, <1>21, <1>22, <1>23,
       <1>24, VolFrame, DiskFrame, JrFrame, SnapFrame, ZenonT(60)

-----------------------------------------------------------------------------
(* Spools and inspectors.                                                  *)

SpoolGood(u) ==
    /\ spool[u].st # "absent" => jr[u] # None /\ jr[u].phase \in Claims
    /\ spool[u].st # "partial" => helper[u] = 0
    /\ spool[u].st = "full" => spool[u].mark = jr[u].snap[jr[u].sel]
    /\ helper[u] <= 1

LEMMA SpoolParts == SpoolExact /\ OneInspector <=> \A u \in Export : SpoolGood(u)
  BY DEF SpoolExact, OneInspector, SpoolGood

LEMMA SpoolOthers ==
    ASSUME TransferInv, [Next]_vars, NEW u \in Export,
           spool'[u] = spool[u], helper'[u] = helper[u]
    PROVE  SpoolGood(u)'
  <1>1. SpoolGood(u)
    BY SpoolParts DEF TransferInv
  <1> QED
    BY <1>1, ClaimsKept DEF SpoolGood

LEMMA SpoolGone ==
    ASSUME NEW u \in Export, spool'[u] = NoSpool, helper'[u] = 0
    PROVE  SpoolGood(u)'
  BY DEF SpoolGood, NoSpool

(* Every spool stays what its journal selects.                             *)
LEMMA SpoolGoodKept ==
    ASSUME TransferInv, NEW u \in Export, [Next]_vars
    PROVE  SpoolGood(u)'
  <1>1. spool \in [Export -> Spool] /\ helper \in [Export -> 0..2]
    BY DEF TransferInv, ImportTypeOK, TypeOK
  <1>2. SpoolGood(u)
    BY SpoolParts DEF TransferInv
  <1>3. ASSUME NEW p \in Proc, captureBoundExportInspector(p)
         PROVE  SpoolGood(u)'
    <2> DEFINE t == op[p].tx
    <2>1. t \in Export /\ jr[t] # None /\ jr[t] \in Journal /\ jr[t].phase \in Claims
      BY <1>3, captureBoundExportInspectorMoves
         DEF TransferInv, CommandExact, Transacting, PublishStep, SpoolPCs,
             ImportTypeOK, TypeOK
    <2>2. \/ UNCHANGED <<spool, helper>>
          \/ /\ spool[t].st = "absent" /\ helper' = [helper EXCEPT ![t] = @ + 1]
             /\ spool' = [spool EXCEPT ![t] = [st |-> "partial", mark |-> "absent"]]
      BY <1>3, captureBoundExportInspectorMoves
         DEF captureBoundExportInspector
    <2>3. jr'[t] # None /\ jr'[t].phase \in Claims
      BY <2>1, ClaimsKept
    <2>4. CASE u = t
      <3>1. CASE UNCHANGED <<spool, helper>>
        BY <3>1, SpoolOthers
      <3>2. CASE ~UNCHANGED <<spool, helper>>
        <4>1. helper[t] = 0 /\ spool'[t].st = "partial" /\ helper'[t] = 1
          BY <1>1, <1>2, <2>1, <2>2, <2>4, <3>2 DEF SpoolGood
        <4> HIDE DEF t
        <4> QED
          BY <2>3, <2>4, <4>1 DEF SpoolGood
      <3> QED
        BY <3>1, <3>2
    <2>5. CASE u # t
      <3> HIDE DEF t
      <3> QED
        BY <1>1, <2>1, <2>2, <2>5, SpoolOthers
    <2> QED
      BY <2>4, <2>5
  <1>4. ASSUME NEW p \in Proc, InspectorStopped(p)
         PROVE  SpoolGood(u)'
    <2> DEFINE t == op[p].tx
    <2>1. t \in Export /\ jr[t] # None /\ jr[t] \in Journal /\ jr[t].phase \in Claims
      BY <1>4, InspectorStoppedMoves
         DEF TransferInv, CommandExact, Transacting, PublishStep, SpoolPCs,
             ImportTypeOK, TypeOK
    <2>2. /\ helper' = [helper EXCEPT ![t] = @ - 1]
          /\ \/ spool' = [spool EXCEPT ![t] = NoSpool]
             \/ /\ admitExactExportSnapshot(t)
                /\ spool' = [spool EXCEPT ![t] = [st |-> "full", mark |-> snap[t].data[jr[t].sel]]]
      BY <1>4, InspectorStoppedMoves DEF InspectorStopped
    <2>3. helper[t] = 1 /\ UNCHANGED jr
      BY <1>4 DEF InspectorStopped, TransferInv, CommandExact, PublishStep
    <2>4. helper'[t] = 0 /\ UNCHANGED jr
      BY <1>1, <2>1, <2>2, <2>3
    <2>5. CASE u = t
      <3>1. CASE spool' = [spool EXCEPT ![t] = NoSpool]
        BY <1>1, <2>4, <2>5, <3>1, SpoolGone
      <3>2. CASE spool' # [spool EXCEPT ![t] = NoSpool]
        <4>1. spool'[t] = [st |-> "full", mark |-> jr[t].snap[jr[t].sel]]
          BY <1>1, <2>1, <2>2, <3>2 DEF admitExactExportSnapshot
        <4> HIDE DEF t
        <4> QED
          BY <2>1, <2>4, <2>5, <4>1 DEF SpoolGood
      <3> QED
        BY <3>1, <3>2
    <2>6. CASE u # t
      <3> HIDE DEF t
      <3> QED
        BY <1>1, <2>1, <2>2, <2>6, SpoolOthers
    <2> QED
      BY <2>5, <2>6
  <1>5. ASSUME NEW p \in Proc, InspectorCancelled(p)
         PROVE  SpoolGood(u)'
    <2> DEFINE t == op[p].tx
    <2>1. t \in Export /\ jr[t] # None /\ jr[t] \in Journal /\ jr[t].phase \in Claims
      BY <1>5, InspectorCancelledMoves
         DEF TransferInv, CommandExact, Transacting, PublishStep, SpoolPCs,
             ImportTypeOK, TypeOK
    <2>2. helper' = [helper EXCEPT ![t] = @ - 1] /\ spool' = [spool EXCEPT ![t] = NoSpool]
      BY <1>5, InspectorCancelledMoves DEF InspectorCancelled
    <2>3. helper'[t] = 0
      BY <1>5, <1>1, <2>1, <2>2
         DEF InspectorCancelled, TransferInv, CommandExact, PublishStep
    <2>4. CASE u = t
      BY <1>1, <2>1, <2>2, <2>3, <2>4, SpoolGone, SpoolOthers
    <2>5. CASE u # t
      <3> HIDE DEF t
      <3> QED
        BY <1>1, <2>1, <2>2, <2>5, SpoolOthers
    <2> QED
      BY <2>4, <2>5
  <1>6. ASSUME NEW p \in Proc, PublishBegin(p)
         PROVE  SpoolGood(u)'
    <2> DEFINE t == op[p].tx
    <2>1. t \in Export /\ jr[t] # None /\ jr[t] \in Journal /\ jr[t].phase \in Claims
      BY <1>6, PublishBeginMoves
         DEF TransferInv, CommandExact, Transacting, PublishStep, SpoolPCs,
             ImportTypeOK, TypeOK
    <2>2. UNCHANGED helper /\ (UNCHANGED spool \/ spool' = [spool EXCEPT ![t] = NoSpool])
      BY <1>6, PublishBeginMoves DEF PublishBegin
    <2>3. helper'[t] = 0
      BY <1>6, <1>1, <2>1, <2>2
         DEF PublishBegin, TransferInv, CommandExact, PublishStep, SpoolPCs,
             SpoolExact
    <2>4. CASE u = t
      BY <1>1, <2>1, <2>2, <2>3, <2>4, SpoolGone, SpoolOthers
    <2>5. CASE u # t
      <3> HIDE DEF t
      <3> QED
        BY <1>1, <2>1, <2>2, <2>5, SpoolOthers
    <2> QED
      BY <2>4, <2>5
  <1>7. ASSUME NEW p \in Proc, ReceiveTerminal(p)
         PROVE  SpoolGood(u)'
    <2> DEFINE t == op[p].tx
    <2>1. t \in Export /\ jr[t] # None /\ jr[t] \in Journal /\ jr[t].phase \in Claims
      BY <1>7, ReceiveTerminalMoves
         DEF TransferInv, CommandExact, Transacting, PublishStep, SpoolPCs,
             ImportTypeOK, TypeOK
    <2>2. UNCHANGED helper /\ (UNCHANGED spool \/ spool' = [spool EXCEPT ![t] = NoSpool])
      BY <1>7, ReceiveTerminalMoves DEF ReceiveTerminal
    <2>3. helper'[t] = 0
      BY <1>7, <1>1, <2>1, <2>2
         DEF ReceiveTerminal, TransferInv, CommandExact, PublishStep,
             SpoolPCs, SpoolExact
    <2>4. CASE u = t
      BY <1>1, <2>1, <2>2, <2>3, <2>4, SpoolGone, SpoolOthers
    <2>5. CASE u # t
      <3> HIDE DEF t
      <3> QED
        BY <1>1, <2>1, <2>2, <2>5, SpoolOthers
    <2> QED
      BY <2>4, <2>5
  <1>8. ASSUME NEW p \in Proc, PublishFinish(p)
         PROVE  SpoolGood(u)'
    <2> DEFINE t == op[p].tx
    <2>1. t \in Export /\ jr[t] # None /\ jr[t] \in Journal /\ jr[t].phase \in Claims
      BY <1>8, PublishFinishMoves
         DEF TransferInv, CommandExact, Transacting, PublishStep, SpoolPCs,
             ImportTypeOK, TypeOK
    <2>2. UNCHANGED helper /\ spool' = [spool EXCEPT ![t] = NoSpool]
      BY <1>8, PublishFinishMoves DEF PublishFinish, RemoveSpool
    <2>3. helper'[t] = 0
      BY <1>8, <1>1, <2>1, <2>2
         DEF PublishFinish, TransferInv, CommandExact, PublishStep, SpoolPCs,
             SpoolExact
    <2>4. CASE u = t
      BY <1>1, <2>1, <2>2, <2>3, <2>4, SpoolGone, SpoolOthers
    <2>5. CASE u # t
      <3> HIDE DEF t
      <3> QED
        BY <1>1, <2>1, <2>2, <2>5, SpoolOthers
    <2> QED
      BY <2>4, <2>5
  <1>9. ASSUME NEW p \in Proc, Fail(p)
         PROVE  SpoolGood(u)'
    <2> DEFINE t == op[p].tx
    <2>1. CASE UNCHANGED spool
      BY <1>9, <2>1, SpoolOthers DEF Fail
    <2>2. CASE ~UNCHANGED spool
      <3>1. /\ op[p].pc \in SpoolPCs \ {"inspect"} /\ UNCHANGED helper
            /\ spool' = [spool EXCEPT ![t] = NoSpool]
        BY <1>9, <2>2 DEF Fail, RemoveSpool, SpoolPCs
      <3>2. t \in Export /\ spool[t].st = "full"
        BY <3>1
           DEF TransferInv, CommandExact, Transacting, PublishStep, SpoolPCs
      <3> HIDE DEF t
      <3>3. CASE u = t
        BY <1>1, <1>2, <3>1, <3>2, <3>3, SpoolGone DEF SpoolGood
      <3>4. CASE u # t
        BY <1>1, <3>1, <3>4, SpoolOthers
      <3> QED
        BY <3>3, <3>4
    <2> QED
      BY <2>1, <2>2
  <1>10. ASSUME NEW t \in Export, HelperEnds(t)
         PROVE  SpoolGood(u)'
    <2>1. helper[t] > 0 /\ helper' = [helper EXCEPT ![t] = @ - 1] /\ UNCHANGED <<spool, jr>>
      BY <1>10 DEF HelperEnds
    <2>2. CASE u = t
      BY <1>1, <1>2, <2>1, <2>2 DEF SpoolGood
    <2>3. CASE u # t
      BY <1>1, <2>1, <2>3, SpoolOthers
    <2> QED
      BY <2>2, <2>3
  <1>11. CASE UNCHANGED <<spool, helper>>
    BY <1>11, SpoolOthers
  <1> QED
    BY <1>3, <1>4, <1>5, <1>6, <1>7, <1>8, <1>9, <1>10, <1>11, SpoolFrame,
       HelperFrame, ZenonT(60)

-----------------------------------------------------------------------------
(* The marker.                                                             *)

(* A marked volume stays idle and its transaction in its copy stage.       *)
LEMMA PendingOwnsVolumeKept ==
    ASSUME TransferInv, [Next]_vars
    PROVE  PendingOwnsVolume'
  <1> USE DEF PendingOwnsVolume
  <1>1. /\ jr \in [Export -> Journal \cup {None}]
        /\ vol \in [att : BOOLEAN, use : 0..MaxGen, pend : Export \cup {None}]
    BY DEF TransferInv, ImportTypeOK, TypeOK
  <1>2. ASSUME NEW p \in Proc, NEW t \in Export, NEW d \in Parent,
     NEW s \in Dir, CreateJournal(p, t, d, s)
         PROVE  PendingOwnsVolume'
    <2>1. UNCHANGED <<vol, run>>
      BY <1>2 DEF CreateJournal
    <2>2. vol.pend # None => jr[vol.pend] # None /\ vol.pend \in Export
      BY <1>1 DEF TransferInv, PendingOwnsVolume
    <2>3. vol.pend # None => /\ jr'[vol.pend] # None
                             /\ jr'[vol.pend].phase \in {"copying", "ready", "aborted"}
      BY <1>2 DEF CreateJournal
    <2> QED
      BY <2>1, <2>3 DEF TransferInv, PendingOwnsVolume
  <1>3. ASSUME NEW p \in Proc, BeginExportSnapshot(p)
         PROVE  PendingOwnsVolume'
    <2>1. op[p].tx \in Export /\ jr[op[p].tx] # None /\ jr[op[p].tx].phase = "copying" /\ ~run.live
      BY <1>3, OccupiedVolume
         DEF BeginExportSnapshot, TransferInv, CommandExact, Transacting,
             CopyStep, VolumePCs
    <2>2. vol.att /\ vol.use = 0 /\ vol' = [vol EXCEPT !.pend = op[p].tx] /\ UNCHANGED <<jr, run>>
      BY <1>3 DEF BeginExportSnapshot, saveRecordTransition, checkBindings
    <2> QED
      BY <1>1, <2>1, <2>2
  <1>4. ASSUME NEW p \in Proc, AdvanceReady(p)
         PROVE  PendingOwnsVolume'
    <2>1. UNCHANGED <<vol, run>>
      BY <1>4 DEF AdvanceReady
    <2>2. vol.pend # None => jr[vol.pend] # None /\ vol.pend \in Export
      BY <1>1 DEF TransferInv, PendingOwnsVolume
    <2>3. vol.pend # None => /\ jr'[vol.pend] # None
                             /\ jr'[vol.pend].phase \in {"copying", "ready", "aborted"}
      <3>1. jr'[op[p].tx].phase \in {"ready", "aborted"} /\ jr'[op[p].tx] # None /\ op[p].tx \in Export
        <4>1. op[p].pc = "ready" /\ op[p].tx \in Export /\ jr[op[p].tx] # None /\ jr[op[p].tx] = op[p].saw
          BY <1>4
             DEF AdvanceReady, TransferInv, CommandExact, Transacting,
                 CopyStep
        <4>2. Forward(jr[op[p].tx], jr'[op[p].tx]) /\ jr[op[p].tx] \in Journal
          BY <1>1, <4>1, JournalLives DEF JournalsForward
        <4>3. jr'[op[p].tx] = [jr[op[p].tx] EXCEPT !.phase = "ready", !.snap = op[p].first]
          BY <1>4, <1>1, <4>1 DEF AdvanceReady, advanceExportJournalLocked
        <4> QED
          BY <4>1, <4>2, <4>3 DEF Forward, Journal
      <3>2. \E k : jr' = [jr EXCEPT ![op[p].tx] = k]
        BY <1>4 DEF AdvanceReady, advanceExportJournalLocked
      <3>3. vol.pend # None /\ vol.pend # op[p].tx => jr'[vol.pend] = jr[vol.pend]
        BY <1>1, <2>2, <3>1, <3>2
      <3> QED
        BY <2>2, <3>1, <3>3 DEF TransferInv, PendingOwnsVolume
    <2> QED
      BY <2>1, <2>3 DEF TransferInv, PendingOwnsVolume
  <1>5. ASSUME NEW p \in Proc, CreateFinish(p)
         PROVE  PendingOwnsVolume'
    <2>1. vol'.pend = None
      BY <1>5, <1>1
         DEF CreateFinish, finishExportSnapshotPending, saveRecordTransition
    <2> QED
      BY <2>1
  <1>6. ASSUME NEW p \in Proc, RecoverAbort(p)
         PROVE  PendingOwnsVolume'
    <2>1. UNCHANGED <<vol, run>>
      BY <1>6 DEF RecoverAbort
    <2>2. vol.pend # None => jr[vol.pend] # None /\ vol.pend \in Export
      BY <1>1 DEF TransferInv, PendingOwnsVolume
    <2>3. vol.pend # None => /\ jr'[vol.pend] # None
                             /\ jr'[vol.pend].phase \in {"copying", "ready", "aborted"}
      <3>1. jr'[op[p].tx].phase \in {"ready", "aborted"} /\ jr'[op[p].tx] # None /\ op[p].tx \in Export
        BY <1>6, RecoverAbortEstablishes, RecoverAbortMoves
           DEF Established, Transacting, CopyStep, Keeps, VolumePCs
      <3>2. \E k : jr' = [jr EXCEPT ![op[p].tx] = k]
        BY <1>6 DEF RecoverAbort, advanceExportJournalLocked
      <3>3. vol.pend # None /\ vol.pend # op[p].tx => jr'[vol.pend] = jr[vol.pend]
        BY <1>1, <2>2, <3>1, <3>2
      <3> QED
        BY <2>2, <3>1, <3>3 DEF TransferInv, PendingOwnsVolume
    <2> QED
      BY <2>1, <2>3 DEF TransferInv, PendingOwnsVolume
  <1>7. ASSUME NEW p \in Proc, RecoverClear(p)
         PROVE  PendingOwnsVolume'
    <2>1. vol'.pend = None
      BY <1>7, <1>1 DEF RecoverClear, saveRecordTransition
    <2> QED
      BY <2>1
  <1>8. ASSUME NEW p \in Proc, RecoverReady(p)
         PROVE  PendingOwnsVolume'
    <2>1. vol'.pend = None
      BY <1>8, <1>1
         DEF RecoverReady, finishExportSnapshotPending, saveRecordTransition
    <2> QED
      BY <2>1
  <1>9. ASSUME NEW p \in Proc, PublishBegin(p)
         PROVE  PendingOwnsVolume'
    <2>1. UNCHANGED <<vol, run>>
      BY <1>9 DEF PublishBegin
    <2>2. vol.pend # None => jr[vol.pend] # None /\ vol.pend \in Export
      BY <1>1 DEF TransferInv, PendingOwnsVolume
    <2>3. vol.pend # None => /\ jr'[vol.pend] # None
                             /\ jr'[vol.pend].phase \in {"copying", "ready", "aborted"}
      <3>1. op[p].tx # vol.pend /\ op[p].tx \in Export
        BY <1>9
           DEF PublishBegin, TransferInv, CommandExact, Transacting,
               PublishStep, SpoolPCs
      <3>2. UNCHANGED jr \/ \E k : jr' = [jr EXCEPT ![op[p].tx] = k]
        BY <1>9 DEF PublishBegin, advanceExportJournalLocked
      <3>3. vol.pend # None => jr'[vol.pend] = jr[vol.pend]
        BY <1>1, <2>2, <3>1, <3>2
      <3> QED
        BY <2>2, <3>3 DEF TransferInv, PendingOwnsVolume
    <2> QED
      BY <2>1, <2>3 DEF TransferInv, PendingOwnsVolume
  <1>10. ASSUME NEW p \in Proc, PublishFinish(p)
         PROVE  PendingOwnsVolume'
    <2>1. UNCHANGED <<vol, run>>
      BY <1>10 DEF PublishFinish
    <2>2. vol.pend # None => jr[vol.pend] # None /\ vol.pend \in Export
      BY <1>1 DEF TransferInv, PendingOwnsVolume
    <2>3. vol.pend # None => /\ jr'[vol.pend] # None
                             /\ jr'[vol.pend].phase \in {"copying", "ready", "aborted"}
      <3>1. op[p].tx # vol.pend /\ op[p].tx \in Export
        BY <1>10
           DEF PublishFinish, TransferInv, CommandExact, Transacting,
               PublishStep, SpoolPCs
      <3>2. UNCHANGED jr \/ \E k : jr' = [jr EXCEPT ![op[p].tx] = k]
        BY <1>10 DEF PublishFinish, advanceExportJournalLocked
      <3>3. vol.pend # None => jr'[vol.pend] = jr[vol.pend]
        BY <1>1, <2>2, <3>1, <3>2
      <3> QED
        BY <2>2, <3>3 DEF TransferInv, PendingOwnsVolume
    <2> QED
      BY <2>1, <2>3 DEF TransferInv, PendingOwnsVolume
  <1>11. CASE ReserveUse
    <2>1. vol'.pend = None
      BY <1>11, <1>1 DEF ReserveUse, saveRecordTransition
    <2> QED
      BY <2>1
  <1>12. CASE ReleaseUseAfterObservedStop
    <2>1. vol.use # 0 /\ vol'.pend = vol.pend
      BY <1>12, <1>1 DEF ReleaseUseAfterObservedStop, saveRecordTransition
    <2> QED
      BY <2>1 DEF TransferInv, PendingOwnsVolume
  <1>13. CASE Attach
    <2>1. vol'.pend = None
      BY <1>13, <1>1 DEF Attach, saveRecordTransition
    <2> QED
      BY <2>1
  <1>14. CASE Detach
    <2>1. vol'.pend = None
      BY <1>14, <1>1 DEF Detach, saveRecordTransition
    <2> QED
      BY <2>1
  <1>15. CASE RuntimeEnds
    <2>1. run.live /\ UNCHANGED vol
      BY <1>15 DEF RuntimeEnds, MachineEnds
    <2> QED
      BY <2>1 DEF TransferInv, PendingOwnsVolume
  <1>16. CASE UNCHANGED <<vol, run, jr>>
    BY <1>16 DEF TransferInv
  <1> QED
    BY <1>2, <1>3, <1>4, <1>5, <1>6, <1>7, <1>8, <1>9, <1>10, <1>11, <1>12,
       <1>13, <1>14, <1>15, <1>16, VolFrame, RunFrame, JrFrame, ZenonT(60)

-----------------------------------------------------------------------------
(* Outputs.                                                                *)

PublishedGood(u) ==
    /\ \A d \in Parent : dest[d].out[u] # "absent" =>
          /\ jr[u] # None /\ jr[u].parent = d
          /\ jr[u].phase \in {"inspected", "published"}
          /\ dest[d].out[u] = jr[u].snap[jr[u].sel]
    /\ (jr[u] # None /\ jr[u].phase = "published") => dest[jr[u].parent].out[u] # "absent"

LEMMA PublishedParts == PublishedExact <=> \A u \in Export : PublishedGood(u)
  BY DEF PublishedExact, PublishedGood

(* A transaction whose outputs stay and whose journal is not published now.*)
LEMMA PublishedOthers ==
    ASSUME TransferInv, NEW u \in Export, PublishedGood(u), [Next]_vars,
           \A d \in Parent : dest'[d].out[u] = dest[d].out[u],
           jr'[u].phase = "published" => jr'[u] = jr[u],
           jr[u] = None => jr'[u] = None
    PROVE  PublishedGood(u)'
  <1>1. CASE jr[u] = None
    BY <1>1 DEF PublishedGood
  <1>2. CASE jr[u] # None
    <2>1. Forward(jr[u], jr'[u]) /\ jr[u] \in Journal
      BY <1>2, JournalLives DEF JournalsForward, TransferInv, ImportTypeOK, TypeOK
    <2>2. jr[u].parent \in Parent
      BY <2>1 DEF Journal
    <2> QED
      BY <1>2, <2>1, <2>2 DEF PublishedGood, Forward
  <1> QED
    BY <1>1, <1>2

(* Every output stays what its journal selects.                            *)
LEMMA PublishedGoodKept ==
    ASSUME TransferInv, NEW u \in Export, PublishedGood(u), [Next]_vars
    PROVE  PublishedGood(u)'
  <1>1. jr \in [Export -> Journal \cup {None}] /\ dest \in [Parent -> Destination]
    BY DEF TransferInv, ImportTypeOK, TypeOK
  <1>2. ASSUME NEW p \in Proc, NEW t \in Export, NEW d \in Parent,
     NEW s \in Dir, CreateJournal(p, t, d, s)
         PROVE  PublishedGood(u)'
    <2>1. /\ UNCHANGED dest /\ jr[t] = None
          /\ jr' = [jr EXCEPT ![t] = [phase |-> "copying", parent |-> d, sel |-> s, snap |-> None]]
      BY <1>2 DEF CreateJournal
    <2>2. CASE u = t
      BY <1>1, <2>1, <2>2 DEF PublishedGood
    <2>3. CASE u # t
      BY <1>1, <2>1, <2>3 DEF PublishedGood
    <2> QED
      BY <2>2, <2>3
  <1>3. ASSUME NEW p \in Proc, AdvanceReady(p)
         PROVE  PublishedGood(u)'
    <2> DEFINE t == op[p].tx
    <2>1. /\ t \in Export /\ jr[t] # None /\ UNCHANGED dest
          /\ UNCHANGED jr \/ \E k : jr' = [jr EXCEPT ![t] = k]
      BY <1>3
         DEF AdvanceReady, advanceExportJournalLocked, TransferInv,
             CommandExact, Transacting
    <2>2. jr'[t].phase # "published"
      <3>1. jr[t].phase = "copying"
        BY <1>3 DEF AdvanceReady, TransferInv, CommandExact, CopyStep
      <3>2. Forward(jr[t], jr'[t])
        BY <2>1, JournalLives DEF JournalsForward
      <3> QED
        BY <3>1, <3>2 DEF Forward
    <2> HIDE DEF t
    <2>3. CASE u = t
      BY <1>1, <2>1, <2>2, <2>3, PublishedOthers
    <2>4. CASE u # t
      BY <1>1, <2>1, <2>4, PublishedOthers
    <2> QED
      BY <2>3, <2>4
  <1>4. ASSUME NEW p \in Proc, RecoverAbort(p)
         PROVE  PublishedGood(u)'
    <2> DEFINE t == op[p].tx
    <2>1. /\ t \in Export /\ jr[t] # None /\ UNCHANGED dest
          /\ UNCHANGED jr \/ \E k : jr' = [jr EXCEPT ![t] = k]
      BY <1>4
         DEF RecoverAbort, advanceExportJournalLocked, TransferInv,
             CommandExact, Transacting
    <2>2. jr'[t].phase # "published"
      <3>1. jr[t].phase = "copying"
        BY <1>4 DEF RecoverAbort, TransferInv, CommandExact, CopyStep
      <3>2. Forward(jr[t], jr'[t])
        BY <2>1, JournalLives DEF JournalsForward
      <3> QED
        BY <3>1, <3>2 DEF Forward
    <2> HIDE DEF t
    <2>3. CASE u = t
      BY <1>1, <2>1, <2>2, <2>3, PublishedOthers
    <2>4. CASE u # t
      BY <1>1, <2>1, <2>4, PublishedOthers
    <2> QED
      BY <2>3, <2>4
  <1>5. ASSUME NEW p \in Proc, PublishBegin(p)
         PROVE  PublishedGood(u)'
    <2> DEFINE t == op[p].tx
    <2>1. /\ t \in Export /\ jr[t] # None /\ UNCHANGED dest
          /\ UNCHANGED jr \/ \E k : jr' = [jr EXCEPT ![t] = k]
      BY <1>5
         DEF PublishBegin, advanceExportJournalLocked, TransferInv,
             CommandExact, Transacting
    <2>2. UNCHANGED jr \/ jr'[t].phase = "inspected"
      BY <1>5, PublishBeginMoves
    <2> HIDE DEF t
    <2>3. CASE u = t
      BY <2>1, <2>2, <2>3, PublishedOthers
    <2>4. CASE u # t
      BY <1>1, <2>1, <2>4, PublishedOthers
    <2> QED
      BY <2>3, <2>4
  <1>6. ASSUME NEW p \in Proc, Receive(p)
         PROVE  PublishedGood(u)'
    <2>1. UNCHANGED jr /\ \E x, k : dest' = [dest EXCEPT ![x].in = k]
      BY <1>6 DEF Receive
    <2>2. \A d \in Parent : dest'[d].out[u] = dest[d].out[u]
      BY <1>1, <2>1 DEF Destination
    <2> QED
      BY <2>1, <2>2, PublishedOthers
  <1>7. ASSUME NEW p \in Proc, ReceiveTerminal(p)
         PROVE  PublishedGood(u)'
    <2> DEFINE t == op[p].tx
               c == jr[t].parent
               m == spool[t].mark
    <2>1. UNCHANGED jr
      BY <1>7 DEF ReceiveTerminal
    <2>2. CASE op'[p].pc = "idle"
      <3>1. dest' = [dest EXCEPT ![c].in = @ \ {t}]
        BY <1>7, <2>2, ReceiveTerminalMoves
      <3>2. \E x, k : dest' = [dest EXCEPT ![x].in = k]
        BY <3>1
      <3>3. \A d \in Parent : dest'[d].out[u] = dest[d].out[u]
        BY <1>1, <3>2 DEF Destination
      <3> QED
        BY <2>1, <3>3, PublishedOthers
    <2>3. CASE op'[p].pc # "idle"
      <3>1. /\ dest' = [dest EXCEPT ![c].in = @ \ {t}, ![c].out[t] = m]
            /\ m # "absent" /\ op[p].pc = "rename"
        BY <1>7, <2>3, ReceiveTerminalMoves
      <3>2. /\ t \in Export /\ jr[t] # None /\ jr[t] \in Journal /\ jr[t].phase = "inspected"
            /\ spool[t].st = "full" /\ spool[t] \in Spool
        BY <3>1, <1>1
           DEF TransferInv, CommandExact, Transacting, PublishStep, SpoolPCs,
               ImportTypeOK, TypeOK
      <3>3. m = jr[t].snap[jr[t].sel] /\ c \in Parent /\ m \in Mark
        BY <3>2 DEF TransferInv, SpoolExact, Journal, Spool
      <3>4. c = jr[t].parent
        OBVIOUS
      <3> HIDE DEF t, c, m
      <3>5. dest[c] \in Destination /\ dest[c].out \in [Export -> Mark]
        BY <1>1, <3>3 DEF Destination
      <3>6. dest'[c].out = [dest[c].out EXCEPT ![t] = m]
        BY ONLY <1>1, <3>1, <3>3, <3>5 DEF Destination
      <3>7. \A x \in Parent : x # c => dest'[x] = dest[x]
        BY ONLY <1>1, <3>1
      <3>8. dest'[c].out[t] = m /\ \A v \in Export : v # t => dest'[c].out[v] = dest[c].out[v]
        BY <3>2, <3>5, <3>6
      <3>9. CASE u = t
        <4>1. jr'[t] = jr[t]
          BY <2>1
        <4>2. ASSUME NEW d \in Parent, dest'[d].out[t] # "absent"
              PROVE  jr'[t].parent = d /\ dest'[d].out[t] = jr'[t].snap[jr'[t].sel]
          <5>1. CASE d = c
            BY <3>3, <3>4, <3>8, <4>1, <5>1
          <5>2. CASE d # c
            BY <3>4, <3>7, <3>9, <4>1, <4>2, <5>2 DEF PublishedGood
          <5> QED
            BY <5>1, <5>2
        <4>3. dest'[jr'[t].parent].out[t] # "absent"
          BY <3>1, <3>4, <3>8, <4>1
        <4> QED
          BY <3>2, <3>9, <4>1, <4>2, <4>3 DEF PublishedGood
      <3>10. CASE u # t
        <4>1. \A d \in Parent : dest'[d].out[u] = dest[d].out[u]
          BY <3>7, <3>8, <3>10
        <4> QED
          BY <2>1, <4>1, PublishedOthers
      <3> QED
        BY <3>9, <3>10
    <2> QED
      BY <2>2, <2>3
  <1>8. ASSUME NEW p \in Proc, PublishFinish(p)
         PROVE  PublishedGood(u)'
    <2> DEFINE t == op[p].tx
    <2>1. /\ t \in Export /\ jr[t] # None /\ UNCHANGED dest
          /\ UNCHANGED jr \/ \E k : jr' = [jr EXCEPT ![t] = k]
      BY <1>8
         DEF PublishFinish, advanceExportJournalLocked, TransferInv,
             CommandExact, Transacting
    <2>2. /\ dest[jr[t].parent].out[t] # "absent" /\ Forward(jr[t], jr'[t])
          /\ jr[t].phase = "inspected" /\ jr[t] \in Journal
      BY <1>8, <1>1, <2>1, JournalLives
         DEF PublishFinish, JournalsForward, TransferInv, CommandExact,
             PublishStep
    <2> HIDE DEF t
    <2>3. CASE u = t
      <3>1. jr[t].parent \in Parent
        BY <2>2 DEF Journal
      <3>2. /\ jr'[t] # None /\ jr'[t].parent = jr[t].parent /\ jr'[t].sel = jr[t].sel
            /\ jr'[t].snap = jr[t].snap /\ jr'[t].phase \in {"inspected", "published"}
        BY <2>2 DEF Forward
      <3> QED
        BY <2>1, <2>2, <2>3, <3>1, <3>2 DEF PublishedGood
    <2>4. CASE u # t
      BY <1>1, <2>1, <2>4, PublishedOthers
    <2> QED
      BY <2>3, <2>4
  <1>9. ASSUME NEW p \in Proc, Fail(p)
         PROVE  PublishedGood(u)'
    <2>1. UNCHANGED jr /\ (UNCHANGED dest \/ \E x, k : dest' = [dest EXCEPT ![x].in = k])
      BY <1>9 DEF Fail
    <2>2. \A d \in Parent : dest'[d].out[u] = dest[d].out[u]
      BY <1>1, <2>1 DEF Destination
    <2> QED
      BY <2>1, <2>2, PublishedOthers
  <1>10. CASE UNCHANGED <<jr, dest>>
    BY <1>10 DEF PublishedGood
  <1> QED
    BY <1>2, <1>3, <1>4, <1>5, <1>6, <1>7, <1>8, <1>9, <1>10, JrFrame,
       DestFrame, ZenonT(60)

-----------------------------------------------------------------------------
(* Intent and evidence.                                                    *)

(* Bytes of a transfer appear only behind its intent.                      *)
LEMMA IntentKeptFirst ==
    ASSUME TransferInv, IntentBeforeEffect, [Next]_vars
    PROVE  IntentBeforeEffect'
  <1> USE DEF IntentBeforeEffect
  <1>1. disk \in [data : Data, clean : BOOLEAN]
    BY DEF TransferInv, ImportTypeOK, TypeOK
  <1>2. \A k \in Dir : ij[k] # None /\ ij[k].phase \in {"transferring", "verified"} =>
                          ij'[k] # None /\ ij'[k].phase \in {"transferring", "verified"}
    BY ImportLives DEF ImportsForward, ImportForward
  <1>3. CASE ReserveUse
    <2>1. disk'.data = disk.data
      BY <1>3, <1>1 DEF ReserveUse
    <2> QED
      BY <1>2, <2>1
  <1>4. CASE RuntimeEnds
    <2>1. disk'.data = disk.data
      BY <1>4, <1>1 DEF RuntimeEnds, MachineEnds
    <2> QED
      BY <1>2, <2>1
  <1>5. CASE GuestStep
    <2>1. PICK x \in Dir, m \in {"absent", "other"} : disk' = [disk EXCEPT !.data[x] = m]
      BY <1>5 DEF GuestStep, GuestWrite
    <2>2. \A k \in Dir : disk'.data[k] = IF k = x THEN m ELSE disk.data[k]
      BY <1>1, <2>1 DEF Data
    <2> QED
      BY <1>2, <2>2
  <1>6. ASSUME NEW i \in Dir, BeginImport(i)
         PROVE  IntentBeforeEffect'
    <2>1. disk'.data = disk.data
      BY <1>6, <1>1 DEF BeginImport, exportVars
    <2> QED
      BY <1>2, <2>1
  <1>7. CASE TransferMark
    <2>1. disk'.data = disk.data
      BY <1>7, <1>1 DEF TransferMark
    <2> QED
      BY <1>2, <2>1
  <1>8. CASE OwnerBegin
    <2>1. /\ client.tx \in Dir /\ ij[client.tx] # None /\ ij[client.tx].phase = "transferring"
          /\ UNCHANGED ij /\ disk' = [disk EXCEPT !.data[client.tx] = "partial"]
      BY <1>8
         DEF OwnerBegin, admitOwnerImport, TransferInv, TransferExact,
             NoClient
    <2>2. \A k \in Dir : k # client.tx => disk'.data[k] = disk.data[k]
      BY <1>1, <2>1 DEF Data
    <2> QED
      BY <2>1, <2>2
  <1>9. CASE OwnerUpload
    <2>1. /\ owner.tx \in Dir /\ ij[owner.tx] # None /\ ij[owner.tx].phase \in {"transferring", "verified"}
          /\ UNCHANGED ij /\ disk' = [disk EXCEPT !.data[owner.tx] = "exact"]
      BY <1>9 DEF OwnerUpload, TransferInv, TransferExact, NoTransfer
    <2>2. \A k \in Dir : k # owner.tx => disk'.data[k] = disk.data[k]
      BY <1>1, <2>1 DEF Data
    <2> QED
      BY <2>1, <2>2
  <1>10. ASSUME NEW i \in Dir, NEW e \in Export, VerifyStoppedImport(i, e)
         PROVE  IntentBeforeEffect'
    <2>1. disk'.data = disk.data
      BY <1>10, <1>1 DEF VerifyStoppedImport, exportVars
    <2> QED
      BY <1>2, <2>1
  <1>11. CASE UNCHANGED <<disk, ij>>
    BY <1>11
  <1> QED
    BY <1>3, <1>4, <1>5, <1>6, <1>7, <1>8, <1>9, <1>10, <1>11, DiskFrame,
       IjFrame, ZenonT(60)

EvidenceGood(k) ==
    ij[k] # None /\ ij[k].phase = "verified" =>
        /\ jr[ij[k].export] # None /\ jr[ij[k].export].phase = "published"
        /\ jr[ij[k].export].snap[k] = "exact"
        /\ owner.tx # k

LEMMA EvidenceParts == VerifiedEvidence <=> \A k \in Dir : EvidenceGood(k)
  BY DEF VerifiedEvidence, EvidenceGood

(* A published journal is final.                                           *)
LEMMA PublishedFinal ==
    ASSUME TransferInv, [Next]_vars, NEW t \in Export, jr[t] # None, jr[t].phase = "published"
    PROVE  jr'[t] = jr[t]
  BY JournalLives DEF JournalsForward, Forward

(* The evidence of an import that was verified before the step.            *)
LEMMA EvidenceOthers ==
    ASSUME TransferInv, [Next]_vars, NEW k \in Dir, EvidenceGood(k),
           ij'[k] = ij[k] \/ ij'[k] = None \/ ij'[k].phase # "verified",
           owner'.tx = k => owner.tx = k
    PROVE  EvidenceGood(k)'
  <1> SUFFICES ASSUME ij'[k] # None, ij'[k].phase = "verified"
               PROVE  EvidenceGood(k)'
    BY DEF EvidenceGood
  <1>1. ij'[k] = ij[k] /\ ij[k] \in ImportJournal /\ ValidImportJournal(ij[k])
    BY DEF TransferInv, ImportTypeOK
  <1>2. ij[k].export \in Export
    BY <1>1 DEF ImportJournal, ValidImportJournal
  <1>3. jr'[ij[k].export] = jr[ij[k].export]
    BY <1>1, <1>2, PublishedFinal DEF EvidenceGood
  <1> QED
    BY <1>1, <1>3 DEF EvidenceGood

(* A verified import keeps its evidence.                                   *)
LEMMA EvidenceKept ==
    ASSUME TransferInv, PublishedExact, NEW k \in Dir, EvidenceGood(k),
           [Next]_vars
    PROVE  EvidenceGood(k)'
  <1>1. /\ ij \in [Dir -> ImportJournal \cup {None}] /\ k # None
        /\ jr \in [Export -> Journal \cup {None}]
        /\ owner \in [st : {"idle", "upload", "read", "done"}, tx : Dir \cup {None}]
    BY ImportAssumption DEF TransferInv, ImportTypeOK, TypeOK
  <1>2. CASE RuntimeEnds
    <2>1. UNCHANGED ij /\ owner'.tx \in {None, owner.tx}
      BY <1>2, <1>1 DEF RuntimeEnds, NoTransfer
    <2> QED
      BY <1>1, <2>1, EvidenceOthers
  <1>3. ASSUME NEW i \in Dir, BeginImport(i)
         PROVE  EvidenceGood(k)'
    <2>1. ij' = [ij EXCEPT ![i] = [phase |-> "captured", gen |-> run.gen, export |-> None]] /\ UNCHANGED owner
      BY <1>3 DEF BeginImport
    <2> QED
      BY <1>1, <2>1, EvidenceOthers
  <1>4. CASE TransferMark
    <2>1. \/ UNCHANGED <<ij, owner>>
          \/ /\ UNCHANGED owner /\ client.tx \in Dir /\ ij[client.tx] # None
             /\ ij' = [ij EXCEPT ![client.tx] = [ij[client.tx] EXCEPT !.phase = "transferring"]]
      BY <1>4
         DEF TransferMark, advanceImportJournal, TransferInv, TransferExact,
             NoClient
    <2>2. ij'[k] = ij[k] \/ ij'[k].phase = "transferring"
      BY <1>1, <2>1 DEF ImportJournal
    <2> QED
      BY <2>1, <2>2, EvidenceOthers
  <1>5. CASE TransferAfter
    <2>1. UNCHANGED ij /\ owner'.tx \in {None, owner.tx}
      BY <1>5, <1>1 DEF TransferAfter, NoTransfer
    <2> QED
      BY <1>1, <2>1, EvidenceOthers
  <1>6. CASE OwnerBegin
    <2>1. UNCHANGED <<ij, jr>> /\ owner'.tx = client.tx /\ ij[client.tx].phase = "transferring"
      BY <1>6 DEF OwnerBegin, admitOwnerImport
    <2> QED
      BY <2>1 DEF EvidenceGood
  <1>7. CASE OwnerUpload
    <2>1. UNCHANGED ij /\ owner'.tx \in {None, owner.tx}
      BY <1>7, <1>1 DEF OwnerUpload
    <2> QED
      BY <1>1, <2>1, EvidenceOthers
  <1>8. CASE OwnerReadback
    <2>1. UNCHANGED ij /\ owner'.tx \in {None, owner.tx}
      BY <1>8, <1>1 DEF OwnerReadback, NoTransfer
    <2> QED
      BY <1>1, <2>1, EvidenceOthers
  <1>9. CASE OwnerFails
    <2>1. UNCHANGED ij /\ owner'.tx \in {None, owner.tx}
      BY <1>9, <1>1 DEF OwnerFails, NoTransfer
    <2> QED
      BY <1>1, <2>1, EvidenceOthers
  <1>10. ASSUME NEW i \in Dir, NEW e \in Export, VerifyStoppedImport(i, e)
         PROVE  EvidenceGood(k)'
    <2>1. /\ UNCHANGED <<jr, owner>> /\ ij[i] \in ImportJournal
          /\ ij' = [ij EXCEPT ![i] = [ij[i] EXCEPT !.phase = "verified", !.export = e]]
      BY <1>10, <1>1 DEF VerifyStoppedImport, advanceImportJournal, exportVars
    <2>2. CASE k # i
      BY <1>1, <2>1, <2>2, EvidenceOthers
    <2>3. CASE k = i
      <3>1. ij'[i].export = e
        BY <1>1, <2>1 DEF ImportJournal
      <3>2. /\ jr[e] # None /\ jr[e].phase = "published" /\ jr[e].sel = i /\ ~run.live
            /\ dest[jr[e].parent].out[e] = "exact"
        BY <1>10
           DEF VerifyStoppedImport, admitStoppedImportExport, stoppedSession,
               ComparePublishedTree
      <3>3. jr[e] \in Journal
        BY <1>1, <3>2
      <3>4. jr[e].parent \in Parent
        BY <3>3 DEF Journal
      <3>5. jr[e].snap[i] = "exact"
        BY <3>2, <3>4 DEF PublishedExact
      <3>6. owner.tx # i
        BY <1>1, <2>3, <3>2 DEF TransferInv, TransferExact, NoTransfer
      <3> QED
        BY <2>1, <2>3, <3>1, <3>2, <3>5, <3>6 DEF EvidenceGood
    <2> QED
      BY <2>2, <2>3
  <1>11. CASE UNCHANGED <<ij, owner>>
    BY <1>11, EvidenceOthers
  <1> QED
    BY <1>2, <1>3, <1>4, <1>5, <1>6, <1>7, <1>8, <1>9, <1>10, <1>11, IjFrame,
       OwnerFrame, ZenonT(60)

-----------------------------------------------------------------------------
(* The theorems.                                                           *)

Facts == TransferInv /\ PublishedExact /\ IntentBeforeEffect /\ VerifiedEvidence

LEMMA InitFacts == Init => Facts
  <1> SUFFICES ASSUME Init
               PROVE  Facts
    OBVIOUS
  <1> USE DEF Init, ExportInit
  <1>1. /\ NoData \in Data /\ NoSpool \in Spool /\ Idle \in Command
        /\ [st |-> "absent", data |-> NoData] \in Copy
        /\ [in |-> {}, out |-> [t \in Export |-> "absent"]] \in Destination
    BY DEF NoData, Data, Mark, NoSpool, Spool, Idle, Command, PCs, Copy, Destination
  <1>2. 0 \in 0..MaxGen /\ 0 \in 0..MaxFault /\ 0 \in 0..2
    BY ExportAssumption
  <1>3. TRUE \in BOOLEAN /\ FALSE \in BOOLEAN
    BY Zenon
  <1>4. TypeOK
    BY <1>1, <1>2, <1>3 DEF TypeOK
  <1>5. ImportTypeOK
    BY <1>4, <1>3 DEF ImportTypeOK, NoClient, NoTransfer
  <1>6. PendingOwnsVolume /\ OneInspector
    BY DEF PendingOwnsVolume, OneInspector
  <1>7. LockExact
    BY DEF LockExact, Idle, VolumePCs, SpoolPCs
  <1>8. CopyExact /\ SpoolExact
    BY DEF CopyExact, SpoolExact, NoSpool
  <1>9. CommandExact
    BY DEF CommandExact, Transacting, CopyStep, PublishStep, SpoolPCs, Idle
  <1>10. TransferExact
    BY DEF TransferExact
  <1>11. PublishedExact
    BY DEF PublishedExact
  <1>12. IntentBeforeEffect
    BY DEF IntentBeforeEffect, NoData
  <1>13. VerifiedEvidence
    BY DEF VerifiedEvidence
  <1> QED
    BY <1>5, <1>6, <1>7, <1>8, <1>9, <1>10, <1>11, <1>12, <1>13 DEF Facts, TransferInv

LEMMA NextFacts == Facts /\ [Next]_vars => Facts'
  <1> SUFFICES ASSUME Facts, [Next]_vars
               PROVE  Facts'
    OBVIOUS
  <1>1. TransferInv /\ PublishedExact /\ IntentBeforeEffect /\ VerifiedEvidence
    BY DEF Facts
  <1>2. TypeOK'
    BY <1>1, VolTyped, RunTyped, DiskTyped, JournalTyped, SnapTyped, SpoolTyped, DestTyped, HelperTyped, LockTyped, XlockTyped, OpTyped, FaultsTyped DEF TypeOK, JournalsTyped
  <1>3. ImportTypeOK'
    BY <1>1, <1>2, SrcTyped, ImportLives, ClientTyped, OwnerTyped DEF ImportTypeOK, ImportsTyped
  <1>4. PendingOwnsVolume'
    BY <1>1, PendingOwnsVolumeKept
  <1>5. LockExact'
    <2>1. VolumeHeld' /\ MachineHolds' /\ TransactionHeld' /\ OneSpooler'
      BY <1>1, VolumeHeldKept, MachineHoldsKept, TransactionHeldKept, OneSpoolerKept
    <2> QED
      BY <2>1 DEF LockExact, VolumeHeld, MachineHolds, TransactionHeld, OneSpooler
  <1>6. CopyExact'
    <2>1. \A u \in Export : CopyGood(u)'
      BY <1>1, CopyGoodKept
    <2> QED
      BY <2>1 DEF CopyExact, CopyGood
  <1>7. SpoolExact' /\ OneInspector'
    <2>1. \A u \in Export : SpoolGood(u)'
      BY <1>1, SpoolGoodKept
    <2> QED
      BY <2>1 DEF SpoolExact, OneInspector, SpoolGood
  <1>8. CommandExact' /\ TransferExact'
    BY <1>1, CommandExactKept, TransferExactKept
  <1>9. PublishedExact'
    <2>1. \A u \in Export : PublishedGood(u)'
      BY <1>1, PublishedParts, PublishedGoodKept
    <2> QED
      BY <2>1 DEF PublishedExact, PublishedGood
  <1>10. IntentBeforeEffect'
    BY <1>1, IntentKeptFirst
  <1>11. VerifiedEvidence'
    <2>1. \A k \in Dir : EvidenceGood(k)'
      BY <1>1, EvidenceParts, EvidenceKept
    <2> QED
      BY <2>1 DEF VerifiedEvidence, EvidenceGood
  <1>12. TransferInv'
    BY <1>3, <1>4, <1>5, <1>6, <1>7, <1>8 DEF TransferInv
  <1> QED
    BY <1>9, <1>10, <1>11, <1>12 DEF Facts

LEMMA AlwaysFacts == Spec => []Facts
  BY InitFacts, NextFacts, PTL DEF Spec

(* Types hold; a marked volume is idle and its transaction still in its    *)
(* copy stage; at most one inspector reads a snapshot; and locks, copies,  *)
(* spools and what each command has established always agree               *)
(* (export_copy.go createExportSnapshot, export_recover.go,               *)
(* export_run.go).                                                         *)
THEOREM TransferInvariance == Spec => []TransferInv
  BY AlwaysFacts, PTL DEF Facts

(* What stands under a destination parent is exactly the selected part of  *)
(* the claimed snapshot, appears only behind a durable inspected journal,  *)
(* and a published journal always has its output (export_publish.go).      *)
THEOREM PublishedIsExact == Spec => []PublishedExact
  BY AlwaysFacts, PTL DEF Facts

(* The bytes of an import are in the workspace only after its journal says *)
(* transferring (import_transfer.go).                                      *)
THEOREM IntentIsFirst == Spec => []IntentBeforeEffect
  BY AlwaysFacts, PTL DEF Facts

(* A verified import rests on a published export whose snapshot held       *)
(* exactly the captured bytes, and nothing transfers into its directory    *)
(* again (import_verify.go).                                               *)
THEOREM VerifiedIsEvident == Spec => []VerifiedEvidence
  BY AlwaysFacts, PTL DEF Facts

(* How a marker may go.                                                    *)
ReleaseStep ==
    vol.pend # None /\ vol'.pend = None =>
        LET t == vol.pend IN
        \/ jr[t].phase = "ready" /\ snap[t].st = "full"
           /\ snap[t].data = jr[t].snap /\ jr[t].snap = disk.data
        \/ jr[t].phase = "aborted" /\ snap[t].st = "absent"

(* Only a finished or an aborted copy stage drops the marker.              *)
LEMMA ReleaseSteps ==
    ASSUME TransferInv, [Next]_vars
    PROVE  ReleaseStep
  <1> USE DEF ReleaseStep
  <1>1. vol \in [att : BOOLEAN, use : 0..MaxGen, pend : Export \cup {None}] /\ None \notin Export
    BY ExportAssumption DEF TransferInv, ImportTypeOK, TypeOK
  <1>2. ASSUME NEW p \in Proc, BeginExportSnapshot(p)
         PROVE  ReleaseStep
    BY <1>2, <1>1
       DEF BeginExportSnapshot, saveRecordTransition, checkBindings
  <1>3. ASSUME NEW p \in Proc, CreateFinish(p)
         PROVE  ReleaseStep
    <2>1. vol.pend = op[p].tx /\ jr[op[p].tx].phase = "ready" /\ op[p].tx \in Export
          /\ jr[op[p].tx] # None
      BY <1>3
         DEF CreateFinish, finishExportSnapshotPending, TransferInv,
             CommandExact, Transacting
    <2>2. CopyGood(op[p].tx)
      BY <2>1, CopyParts DEF TransferInv
    <2> QED
      BY <2>1, <2>2 DEF CopyGood, Claims
  <1>4. ASSUME NEW p \in Proc, RecoverClear(p)
         PROVE  ReleaseStep
    <2>1. vol.pend \in {None, op[p].tx} /\ snap[op[p].tx].st = "absent" /\ jr[op[p].tx].phase = "aborted"
      BY <1>4 DEF RecoverClear, TransferInv, CommandExact, CopyStep
    <2> QED
      BY <2>1
  <1>5. ASSUME NEW p \in Proc, RecoverReady(p)
         PROVE  ReleaseStep
    <2>1. vol.pend = op[p].tx /\ jr[op[p].tx].phase = "ready" /\ op[p].tx \in Export
          /\ jr[op[p].tx] # None
      BY <1>5
         DEF RecoverReady, finishExportSnapshotPending, TransferInv,
             CommandExact, Transacting
    <2>2. CopyGood(op[p].tx)
      BY <2>1, CopyParts DEF TransferInv
    <2> QED
      BY <2>1, <2>2 DEF CopyGood, Claims
  <1>6. CASE ReserveUse
    BY <1>6, <1>1 DEF ReserveUse, saveRecordTransition
  <1>7. CASE ReleaseUseAfterObservedStop
    BY <1>7, <1>1 DEF ReleaseUseAfterObservedStop, saveRecordTransition
  <1>8. CASE Attach
    BY <1>8, <1>1 DEF Attach, saveRecordTransition
  <1>9. CASE Detach
    BY <1>9, <1>1 DEF Detach, saveRecordTransition
  <1>10. CASE UNCHANGED <<vol>>
    BY <1>10
  <1> QED
    BY <1>2, <1>3, <1>4, <1>5, <1>6, <1>7, <1>8, <1>9, <1>10, VolFrame

(* The marker of a volume is dropped exactly: with a ready snapshot that   *)
(* is the volume's content at that moment, or with no copy left            *)
(* (export_copy.go finishExportSnapshotPending, export_recover.go).        *)
THEOREM ReleasedExactly == Spec => PendingReleaseExact
  <1>1. TransferInv /\ [Next]_vars => [ReleaseStep]_exportVars
    BY ReleaseSteps
  <1>2. [][ReleaseStep]_exportVars => PendingReleaseExact
    BY PTL DEF ReleaseStep, PendingReleaseExact
  <1> QED
    BY <1>1, <1>2, TransferInvariance, PTL DEF Spec

=============================================================================
