--------------------------- MODULE ActionAttempts ---------------------------
(***************************************************************************)
(* The recipe actions of one session (internal/session/action_*.go): the   *)
(* durable attempts on the host, the call through the supervisor's control *)
(* socket (internal/supervisor/control.go) to the runtime owner            *)
(* (internal/sessionruntime/action_owner.go), and the claim, the command   *)
(* and the receipt in the guest (internal/guestproto/action_*.go).         *)
(*                                                                         *)
(* A step of the recipe is <<phase, number>>; the recipe of a session is   *)
(* bound to its system disk, so an attempt's recipe digest is implied by   *)
(* its system.  Every process may die between two steps, a call may time   *)
(* out while its command goes on, a guest may reboot, a machine may vanish.*)
(***************************************************************************)
EXTENDS Naturals, Sequences, FiniteSets, SequencesExt

CONSTANTS
    Client,      \* boxwarden processes
    Attempt,     \* attempt UUIDs
    Helper,      \* runs of the guest helper
    Once,        \* number of once steps of the recipe
    Startup,     \* number of startup steps
    Reconfigure, \* number of reconfigure steps
    None,
    MaxGen,      \* bound: runtime generations
    MaxObj,      \* bound: system disks of the session
    MaxFault     \* bound: faults of any kind

ASSUME ActionAssumption ==
    /\ None \notin Client \cup Attempt \cup Helper
    /\ {Once, Startup, Reconfigure, MaxGen, MaxObj, MaxFault} \subseteq Nat
    /\ MaxObj > 0

VARIABLES
    rec,      \* the session record: state, system, generation
    rebuild,  \* a rebuild journal exists
    live,     \* the exact machine runs and is observed ready
    att,      \* action-attempts/<session>/<attempt>.json
    tmp,      \* attempts whose unpublished temporary was left behind
    lock,     \* holder of the transition and session locks
    op,       \* what each client does
    queue,    \* accepted connections the control server has not handled
    srv,      \* the call the control server handles
    claim,    \* the guest's <attempt>.claim
    receipt,  \* the guest's <attempt>.receipt
    helper,   \* the guest helpers
    runs, ended, \* history: commands started and finished
    faults

hostVars == <<rec, rebuild, live, att, tmp, lock, op>>
guestVars == <<claim, receipt, helper, runs, ended>>
vars == <<hostVars, queue, srv, guestVars, faults>>

Numbered(phase, n) == [i \in 1..n |-> <<phase, i>>]

(* The automatic steps in the order of the plan, and all steps.            *)
Automatic == Numbered("once", Once) \o Numbered("startup", Startup)
Step == Range(Automatic) \cup Range(Numbered("reconfigure", Reconfigure))

States == {"reserved", "succeeded", "indeterminate", "skipped"}
Unresolved == {"reserved", "indeterminate"}
Attempts == [step : Step, obj : 1..MaxObj, gen : 1..MaxGen, state : States]

Occurrence == [step : Step, obj : 1..MaxObj, gen : 1..MaxGen]
Occ(a) == [step |-> att[a].step, obj |-> att[a].obj, gen |-> att[a].gen]

Known == {a \in Attempt : att[a] # None}

Records == [st : {"running", "stopping", "stopped"}, obj : 1..MaxObj, gen : 0..MaxGen]

(* No attempt file is not an attempt.                                      *)
ASSUME NoneAssumption == None \notin Attempts

NoOp == [pc |-> "idle", kind |-> None, a |-> None, step |-> None, saw |-> None]
NoCall == [a |-> None, kind |-> None, h |-> None]
NoHelper == [a |-> None, pc |-> "none"]

OpPCs == {"idle", "plan", "exec", "reserve", "rename", "send", "wait", "fresh",
          "record", "doubt"}
Ops == [pc : OpPCs, kind : {None, "auto", "run", "retry"}, a : Attempt \cup {None},
        step : Step \cup {None}, saw : Records \cup {None}]
Calls == [a : Attempt \cup {None}, kind : {None, "run", "retry"}, h : Helper \cup {None}]
Requests == [a : Attempt, kind : {"run", "retry"}]
Helpers == [a : Attempt \cup {None},
            pc : {"none", "claim", "write", "run", "command", "publish", "unlink", "ok",
                  "error"}]

TypeOK ==
    /\ rec \in Records
    /\ rebuild \in BOOLEAN /\ live \in BOOLEAN
    /\ att \in [Attempt -> Attempts \cup {None}]
    /\ tmp \in SUBSET Attempt
    /\ lock \in Client \cup {None}
    /\ op \in [Client -> Ops]
    /\ queue \in Seq(Requests)
    /\ srv \in Calls
    /\ claim \in [Attempt -> {"none", "partial", "exact"}]
    /\ receipt \in [Attempt -> {"none", "linked", "exact"}]
    /\ helper \in [Helper -> Helpers]
    /\ runs \in [Occurrence -> Nat] /\ ended \in SUBSET Occurrence
    /\ faults \in 0..MaxFault

Init ==
    /\ rec = [st |-> "stopped", obj |-> 1, gen |-> 0]
    /\ rebuild = FALSE /\ live = FALSE
    /\ att = [a \in Attempt |-> None] /\ tmp = {}
    /\ lock = None /\ op = [c \in Client |-> NoOp]
    /\ queue = <<>> /\ srv = NoCall
    /\ claim = [a \in Attempt |-> "none"] /\ receipt = [a \in Attempt |-> "none"]
    /\ helper = [h \in Helper |-> NoHelper]
    /\ runs = [o \in Occurrence |-> 0] /\ ended = {}
    /\ faults = 0

-----------------------------------------------------------------------------
(* Admission on the host.                                                  *)

actionMatchesRunningRecord(x) ==
    rec.st = "running" /\ x.obj = rec.obj /\ x.gen = rec.gen
(* Mutant: an attempt may be skipped while its session still stops.        *)
MutactionMatchesStoppedRecord(x) == rec.st # "running" /\ x.obj = rec.obj

actionMatchesStoppedRecord(x) == rec.st = "stopped" /\ x.obj = rec.obj

(* A left-over temporary is passed over only beside its published attempt. *)
publishedActionAttemptTemporary(a) == a \in Known

(* The whole registry must be explained before anything is planned.        *)
listActionAttemptsForRecord == \A a \in tmp : publishedActionAttemptTemporary(a)

(* Same work: a once step of a system, any other step of a generation.     *)
SameWork(x, y) ==
    x.step = y.step /\ x.obj = y.obj /\ (y.step[1] = "once" \/ x.gen = y.gen)

rejectActionReplay(x) ==
    listActionAttemptsForRecord /\ \A a \in Known : ~SameWork(att[a], x)

Settled(step) ==
    \E a \in Known : /\ att[a].obj = rec.obj /\ att[a].step = step
                     /\ step[1] = "startup" => att[a].gen = rec.gen
                     /\ att[a].state \in {"succeeded", "skipped"}

(* Attempts the planner cannot explain: two for the same work, or a step   *)
(* completed before an earlier one.                                        *)
PlanConflict ==
    \/ \E a, b \in Known :
          a # b /\ att[a].obj = rec.obj /\ att[a].step \in Range(Automatic) /\ SameWork(att[a], att[b])
    \/ \E i, j \in DOMAIN Automatic : i < j /\ Settled(Automatic[j]) /\ ~Settled(Automatic[i])

(* An unresolved attempt on this system, of any phase, blocks the plan.    *)
PlanBlocked ==
    \/ ~listActionAttemptsForRecord
    \/ \E a \in Known : att[a].obj = rec.obj /\ att[a].state \in Unresolved
    \/ PlanConflict

(* The plan: the places of the steps that are not settled, in this order.  *)
PlanAutomaticActions == {i \in DOMAIN Automatic : ~Settled(Automatic[i])}
NextAutomatic(step) ==
    \E i \in PlanAutomaticActions :
        Automatic[i] = step /\ \A j \in PlanAutomaticActions : i <= j

(* The supervisor answers a snapshot only when it handles nothing else.    *)
requireFreshActionReady == live /\ srv = NoCall /\ queue = <<>>

advanceActionAttempt(a, expected, next) ==
    /\ att[a].state = expected
    /\ \/ expected = "reserved"
       \/ expected = "indeterminate" /\ next \in {"succeeded", "skipped"}
    /\ next = "succeeded" => actionMatchesRunningRecord(att[a])
    /\ next = "skipped" => actionMatchesStoppedRecord(att[a])
    /\ att' = [att EXCEPT ![a].state = next]

Goto(c, pc) == op' = [op EXCEPT ![c].pc = pc]
Return(c) == /\ op' = [op EXCEPT ![c] = NoOp]
             /\ lock' = IF lock = c THEN None ELSE lock

-----------------------------------------------------------------------------
(* RunAutomaticActions and ExecuteAction.                                  *)

RunAutomaticActions(c) ==
    /\ op[c].pc = "idle" /\ rec.st = "running"
    /\ op' = [op EXCEPT ![c] = [NoOp EXCEPT !.pc = "plan", !.kind = "auto", !.saw = rec]]
    /\ UNCHANGED <<rec, rebuild, live, att, tmp, lock, queue, srv, guestVars, faults>>

(* The plan is read under the session lock, which is then released.        *)
LoadAutomaticActionPlan(c) ==
    /\ op[c].pc = "plan"
    /\ lock = None
    /\ IF rec # op[c].saw \/ PlanBlocked \/ PlanAutomaticActions = {}
       THEN op' = [op EXCEPT ![c] = NoOp]
       ELSE \E s \in Step : /\ NextAutomatic(s)
                            /\ op' = [op EXCEPT ![c].pc = "exec", ![c].step = s]
    /\ UNCHANGED <<rec, rebuild, live, att, tmp, lock, queue, srv, guestVars, faults>>

(* Mutant: an operator may name any automatic step.                        *)
MutExecuteAdmitted(step) ==
    /\ rec.st = "running" /\ ~rebuild
    /\ step[1] \in {"once", "startup"} => ~PlanBlocked

(* Everything is checked again under the locks held to the end; an         *)
(* automatic step must still be the next one.                              *)
ExecuteAdmitted(step) ==
    /\ rec.st = "running" /\ ~rebuild
    /\ step[1] \in {"once", "startup"} =>
          ~PlanBlocked /\ NextAutomatic(step)

(* The step comes from the plan, or from session action run <phase> <id>.  *)
ExecuteAction(c, step) ==
    /\ \/ op[c].pc = "exec" /\ step = op[c].step
       \/ op[c].pc = "idle"
    /\ lock = None
    /\ IF ExecuteAdmitted(step) /\ requireFreshActionReady
       THEN /\ lock' = c
            /\ op' = [op EXCEPT ![c].pc = "reserve", ![c].step = step,
                         ![c].kind = IF @ = None THEN "run" ELSE @]
       ELSE op' = [op EXCEPT ![c] = NoOp] /\ UNCHANGED lock
    /\ UNCHANGED <<rec, rebuild, live, att, tmp, queue, srv, guestVars, faults>>

NewAttempt(c) == [step |-> op[c].step, obj |-> rec.obj, gen |-> rec.gen, state |-> "reserved"]

(* The attempt is written beside its name and renamed without replacing.   *)
ReserveActionAttempt(c, a) ==
    /\ op[c].pc = "reserve"
    /\ att[a] = None /\ a \notin tmp
    /\ actionMatchesRunningRecord(NewAttempt(c))
    /\ rejectActionReplay(NewAttempt(c))
    /\ tmp' = tmp \cup {a}
    /\ op' = [op EXCEPT ![c].pc = "rename", ![c].a = a]
    /\ UNCHANGED <<rec, rebuild, live, att, lock, queue, srv, guestVars, faults>>

ReserveRefused(c) ==
    /\ op[c].pc = "reserve"
    /\ ~rejectActionReplay(NewAttempt(c))
    /\ Return(c)
    /\ UNCHANGED <<rec, rebuild, live, att, tmp, queue, srv, guestVars, faults>>

PublishAttempt(c) ==
    LET a == op[c].a IN
    /\ op[c].pc = "rename"
    /\ att' = [att EXCEPT ![a] = NewAttempt(c)]
    /\ tmp' = tmp \ {a}
    /\ Goto(c, "send")
    /\ UNCHANGED <<rec, rebuild, live, lock, queue, srv, guestVars, faults>>

Kind(c) == IF op[c].kind = "retry" THEN "retry" ELSE "run"

callAction(c) ==
    /\ op[c].pc = "send"
    /\ IF live THEN queue' = Append(queue, [a |-> op[c].a, kind |-> Kind(c)]) /\ Goto(c, "wait")
       ELSE UNCHANGED queue /\ Goto(c, "doubt")
    /\ UNCHANGED <<rec, rebuild, live, att, tmp, lock, srv, guestVars, faults>>

(* The deadline passes, the connection breaks or the reply was an error.   *)
CallFails(c) ==
    /\ op[c].pc = "wait"
    /\ \/ faults < MaxFault /\ faults' = faults + 1
       \/ ~live /\ UNCHANGED faults
    /\ Goto(c, "doubt")
    /\ UNCHANGED <<rec, rebuild, live, att, tmp, lock, queue, srv, guestVars>>

(* Readiness is proved again after the receipt came back.                  *)
FreshAfter(c) ==
    /\ op[c].pc = "fresh"
    /\ Goto(c, IF requireFreshActionReady THEN "record" ELSE "doubt")
    /\ UNCHANGED <<rec, rebuild, live, att, tmp, lock, queue, srv, guestVars, faults>>

RecordSuccess(c) ==
    LET a == op[c].a IN
    /\ op[c].pc = "record"
    /\ advanceActionAttempt(a, att[a].state, "succeeded")
    /\ IF op[c].kind = "auto"
       THEN /\ op' = [op EXCEPT ![c].pc = "plan", ![c].a = None]
            /\ lock' = None
       ELSE Return(c)
    /\ UNCHANGED <<rec, rebuild, live, tmp, queue, srv, guestVars, faults>>

(* A run in doubt is made indeterminate; a retry leaves it so.             *)
indeterminateAction(c) ==
    LET a == op[c].a IN
    /\ op[c].pc = "doubt"
    /\ IF Kind(c) = "run"
       THEN advanceActionAttempt(a, "reserved", "indeterminate")
       ELSE UNCHANGED att
    /\ Return(c)
    /\ UNCHANGED <<rec, rebuild, live, tmp, queue, srv, guestVars, faults>>

(* RetryAction: the original attempt, on the generation it was made for,   *)
(* made indeterminate before it is sent again.                             *)
RetryAction(c, a) ==
    /\ op[c].pc = "idle" /\ lock = None
    /\ a \in Known /\ att[a].state \in Unresolved
    /\ actionMatchesRunningRecord(att[a]) /\ ~rebuild
    /\ requireFreshActionReady
    /\ IF att[a].state = "reserved"
       THEN advanceActionAttempt(a, "reserved", "indeterminate")
       ELSE UNCHANGED att
    /\ lock' = c
    /\ op' = [op EXCEPT ![c] = [NoOp EXCEPT !.pc = "send", !.kind = "retry", !.a = a]]
    /\ UNCHANGED <<rec, rebuild, live, tmp, queue, srv, guestVars, faults>>

SkipAction(a) ==
    /\ lock = None
    /\ a \in Known /\ att[a].state \in Unresolved
    /\ actionMatchesStoppedRecord(att[a])
    /\ advanceActionAttempt(a, att[a].state, "skipped")
    /\ UNCHANGED <<rec, rebuild, live, tmp, lock, op, queue, srv, guestVars, faults>>

-----------------------------------------------------------------------------
(* The control server and the runtime owner: one call at a time.           *)

Expected(kind) == IF kind = "retry" THEN "indeterminate" ELSE "reserved"

(* The owner reads record, rebuild gate and attempt by itself.             *)
admitOwnerActionState(a, kind) ==
    /\ actionMatchesRunningRecord(att[a]) /\ ~rebuild
    /\ att[a].state = Expected(kind)

Waiting(a) == {c \in Client : op[c].pc = "wait" /\ op[c].a = a}
Answer(a, pc) ==
    op' = [c \in Client |-> IF c \in Waiting(a) THEN [op[c] EXCEPT !.pc = pc] ELSE op[c]]

(* A request is bound to the generation and may have outlived its client.  *)
handleControl ==
    LET q == Head(queue) IN
    /\ queue # <<>> /\ srv = NoCall /\ live
    /\ queue' = Tail(queue)
    /\ IF admitOwnerActionState(q.a, q.kind)
       THEN \E h \in Helper :
              /\ helper[h] = NoHelper
              /\ helper' = [helper EXCEPT ![h] = [a |-> q.a, pc |-> "claim"]]
              /\ srv' = [a |-> q.a, kind |-> q.kind, h |-> h]
              /\ UNCHANGED op
       ELSE Answer(q.a, "doubt") /\ UNCHANGED <<helper, srv>>
    /\ UNCHANGED <<rec, rebuild, live, att, tmp, lock, claim, receipt, runs, ended, faults>>

(* A request whose deadline passed while it was queued is dropped.         *)
ExpiredRequest ==
    /\ queue # <<>> /\ Waiting(Head(queue).a) = {}
    /\ queue' = Tail(queue)
    /\ UNCHANGED <<hostVars, srv, guestVars, faults>>

runAction ==
    /\ srv # NoCall /\ live
    /\ helper[srv.h].pc \in {"ok", "error"}
    /\ Answer(srv.a, IF helper[srv.h].pc = "ok" /\ admitOwnerActionState(srv.a, srv.kind)
                     THEN "fresh" ELSE "doubt")
    /\ helper' = [helper EXCEPT ![srv.h] = NoHelper]
    /\ srv' = NoCall
    /\ UNCHANGED <<rec, rebuild, live, att, tmp, lock, queue, claim, receipt, runs, ended, faults>>

(* The owner gives the call up; the command in the guest may go on.        *)
ServerTimeout ==
    /\ srv # NoCall
    /\ faults < MaxFault /\ faults' = faults + 1
    /\ Answer(srv.a, "doubt")
    /\ srv' = NoCall
    /\ UNCHANGED <<rec, rebuild, live, att, tmp, lock, queue, guestVars>>

-----------------------------------------------------------------------------
(* The guest helper: claim, command, receipt.                              *)

HelperGoto(h, pc) == helper' = [helper EXCEPT ![h].pc = pc]

(* The claim is created exclusively; its name appears before its bytes.    *)
ClaimNew(h) ==
    LET a == helper[h].a IN
    /\ helper[h].pc = "claim"
    /\ claim[a] = "none" /\ receipt[a] = "none"
    /\ claim' = [claim EXCEPT ![a] = "partial"]
    /\ HelperGoto(h, "write")
    /\ UNCHANGED <<hostVars, queue, srv, receipt, runs, ended, faults>>

ClaimDurable(h) ==
    /\ helper[h].pc = "write"
    /\ claim' = [claim EXCEPT ![helper[h].a] = "exact"]
    /\ HelperGoto(h, "run")
    /\ UNCHANGED <<hostVars, queue, srv, receipt, runs, ended, faults>>

(* Mutant: a claim without a receipt is executed again.                    *)
MutClaimExisting(h) ==
    LET a == helper[h].a IN
    /\ helper[h].pc = "claim"
    /\ claim[a] # "none" \/ receipt[a] # "none"
    /\ HelperGoto(h, IF receipt[a] = "exact" THEN "ok" ELSE "run")
    /\ UNCHANGED <<hostVars, queue, srv, claim, receipt, runs, ended, faults>>

(* An existing claim never grants permission to execute: it yields the     *)
(* exact receipt, or an error.                                             *)
ClaimExisting(h) ==
    LET a == helper[h].a IN
    /\ helper[h].pc = "claim"
    /\ claim[a] # "none" \/ receipt[a] # "none"
    /\ HelperGoto(h, IF claim[a] = "exact" /\ receipt[a] = "exact" THEN "ok" ELSE "error")
    /\ UNCHANGED <<hostVars, queue, srv, claim, receipt, runs, ended, faults>>

RunCommand(h) ==
    LET o == Occ(helper[h].a) IN
    /\ helper[h].pc = "run"
    /\ runs' = [runs EXCEPT ![o] = @ + 1]
    /\ HelperGoto(h, "command")
    /\ UNCHANGED <<hostVars, queue, srv, claim, receipt, ended, faults>>

(* Mutant: the helper answers before it publishes the receipt.             *)
MutCommandExits(h, ok) ==
    /\ helper[h].pc = "command"
    /\ ended' = IF ok THEN ended \cup {Occ(helper[h].a)} ELSE ended
    /\ HelperGoto(h, IF ok THEN "ok" ELSE "error")
    /\ UNCHANGED <<hostVars, queue, srv, claim, receipt, runs, faults>>

CommandExits(h, ok) ==
    /\ helper[h].pc = "command"
    /\ ended' = IF ok THEN ended \cup {Occ(helper[h].a)} ELSE ended
    /\ HelperGoto(h, IF ok THEN "publish" ELSE "error")
    /\ UNCHANGED <<hostVars, queue, srv, claim, receipt, runs, faults>>

(* The receipt is linked into place; until its temporary name is removed   *)
(* the file has two links and no reader accepts it.                        *)
PublishActionSuccess(h) ==
    LET a == helper[h].a IN
    /\ helper[h].pc = "publish"
    /\ IF claim[a] = "exact" /\ receipt[a] = "none"
       THEN receipt' = [receipt EXCEPT ![a] = "linked"] /\ HelperGoto(h, "unlink")
       ELSE UNCHANGED receipt /\ HelperGoto(h, "error")
    /\ UNCHANGED <<hostVars, queue, srv, claim, runs, ended, faults>>

(* The temporary name goes and the directory is synced, in one step; a     *)
(* failure between the two is left out.                                    *)
ReceiptDurable(h) ==
    /\ helper[h].pc = "unlink"
    /\ receipt' = [receipt EXCEPT ![helper[h].a] = "exact"]
    /\ HelperGoto(h, "ok")
    /\ UNCHANGED <<hostVars, queue, srv, claim, runs, ended, faults>>

(* A helper nobody waits for any more exits.                               *)
HelperExits(h) ==
    /\ helper[h].pc \in {"ok", "error"} /\ srv.h # h
    /\ helper' = [helper EXCEPT ![h] = NoHelper]
    /\ UNCHANGED <<hostVars, queue, srv, claim, receipt, runs, ended, faults>>

-----------------------------------------------------------------------------
(* Faults.                                                                 *)

HelperDies(h) ==
    /\ helper[h].pc \notin {"none", "ok", "error"}
    /\ faults < MaxFault /\ faults' = faults + 1
    /\ IF srv.h = h THEN HelperGoto(h, "error") ELSE helper' = [helper EXCEPT ![h] = NoHelper]
    /\ UNCHANGED <<hostVars, queue, srv, claim, receipt, runs, ended>>

NoHelpers == helper' = [h \in Helper |-> NoHelper]

(* A guest that restarts under its machine keeps what was synced.          *)
GuestReboot ==
    /\ live
    /\ faults < MaxFault /\ faults' = faults + 1
    /\ NoHelpers
    /\ claim' = [a \in Attempt |-> IF claim[a] = "partial" THEN "none" ELSE claim[a]]
    /\ srv' = NoCall /\ Answer(srv.a, "doubt")
    /\ UNCHANGED <<rec, rebuild, live, att, tmp, lock, queue, receipt, runs, ended>>

MachineDies ==
    /\ live
    /\ faults < MaxFault /\ faults' = faults + 1
    /\ live' = FALSE /\ NoHelpers
    /\ queue' = <<>> /\ srv' = NoCall
    /\ UNCHANGED <<rec, rebuild, att, tmp, lock, op, claim, receipt, runs, ended>>

(* A killed client frees its locks and leaves its temporary; one that      *)
(* returns an error before the rename removes it.                          *)
ClientDies(c) ==
    /\ op[c].pc # "idle"
    /\ faults < MaxFault /\ faults' = faults + 1
    /\ Return(c)
    /\ tmp' \in IF op[c].pc = "rename" THEN {tmp, tmp \ {op[c].a}} ELSE {tmp}
    /\ UNCHANGED <<rec, rebuild, live, att, queue, srv, guestVars>>

-----------------------------------------------------------------------------
(* The session around the actions (SessionLifecycle, SessionRebuild).      *)

Start ==
    /\ lock = None
    /\ rec.st = "stopped" /\ rec.gen < MaxGen
    /\ rec' = [rec EXCEPT !.st = "running", !.gen = @ + 1]
    /\ live' = TRUE
    /\ UNCHANGED <<rebuild, att, tmp, lock, op, queue, srv, guestVars, faults>>

StopIntent ==
    /\ lock = None /\ rec.st = "running"
    /\ rec' = [rec EXCEPT !.st = "stopping"]
    /\ UNCHANGED <<rebuild, live, att, tmp, lock, op, queue, srv, guestVars, faults>>

(* The stop is a call of the same server; the stopped state is published   *)
(* only once the machine is reaped.                                        *)
Stopped ==
    /\ lock = None /\ rec.st = "stopping"
    /\ ~live \/ srv = NoCall
    /\ rec' = [rec EXCEPT !.st = "stopped"]
    /\ live' = FALSE /\ NoHelpers
    /\ queue' = <<>> /\ srv' = NoCall
    /\ UNCHANGED <<rebuild, att, tmp, lock, op, claim, receipt, runs, ended, faults>>

RebuildCutover ==
    /\ lock = None /\ rec.st = "stopped" /\ ~rebuild /\ rec.obj < MaxObj
    /\ rec' = [rec EXCEPT !.obj = @ + 1]
    /\ rebuild' = TRUE
    /\ UNCHANGED <<live, att, tmp, lock, op, queue, srv, guestVars, faults>>

RebuildRetired ==
    /\ lock = None /\ rec.st = "running" /\ rebuild
    /\ rebuild' = FALSE
    /\ UNCHANGED <<rec, live, att, tmp, lock, op, queue, srv, guestVars, faults>>

-----------------------------------------------------------------------------
Next ==
    \/ \E c \in Client :
         \/ RunAutomaticActions(c) \/ LoadAutomaticActionPlan(c)
         \/ \E s \in Step : ExecuteAction(c, s)
         \/ \E a \in Attempt : ReserveActionAttempt(c, a) \/ RetryAction(c, a)
         \/ ReserveRefused(c) \/ PublishAttempt(c) \/ callAction(c) \/ CallFails(c)
         \/ FreshAfter(c) \/ RecordSuccess(c) \/ indeterminateAction(c) \/ ClientDies(c)
    \/ \E a \in Attempt : SkipAction(a)
    \/ handleControl \/ ExpiredRequest \/ runAction \/ ServerTimeout
    \/ \E h \in Helper :
         \/ ClaimNew(h) \/ ClaimDurable(h) \/ ClaimExisting(h) \/ RunCommand(h)
         \/ \E ok \in BOOLEAN : CommandExits(h, ok)
         \/ PublishActionSuccess(h) \/ ReceiptDurable(h) \/ HelperExits(h) \/ HelperDies(h)
    \/ GuestReboot \/ MachineDies
    \/ Start \/ StopIntent \/ Stopped \/ RebuildCutover \/ RebuildRetired

Spec == Init /\ [][Next]_vars

-----------------------------------------------------------------------------
(* Properties.                                                             *)

In(state) == {Occ(a) : a \in {b \in Known : att[b].state = state}}

(* An automatic step is due after the earlier steps of the plan: of the    *)
(* same system, and for startup steps of the same generation.              *)
DueBefore(p, o) ==
    /\ p.obj = o.obj /\ p.gen = o.gen
    /\ \E i, j \in DOMAIN Automatic : i < j /\ Automatic[i] = p.step /\ Automatic[j] = o.step

Promise == INSTANCE ActionOnce WITH
    Before <- DueBefore, Same <- SameWork,
    confirmed <- In("succeeded"), skipped <- In("skipped")

(* Replays, lost replies, dead processes and rebuilds notwithstanding,     *)
(* commands run at most once per system or generation, in order, and only  *)
(* a command that ended well is recorded as succeeded (ActionOnce).        *)
RunsOnce == Promise!Spec

(* A recorded success has its durable claim and readable exact receipt in  *)
(* the guest: the host never takes a partly published one for an answer.   *)
SuccessHasReceipt ==
    \A a \in Known : att[a].state = "succeeded" =>
        claim[a] = "exact" /\ receipt[a] = "exact"

(* The attempts never contradict each other: the planner's refusals of     *)
(* conflicting or out-of-order attempts, which no retry could ever clear,  *)
(* are unreachable.                                                        *)
PlanExplained == ~PlanConflict

(* Once an attempt is skipped or its system is no longer the session's,    *)
(* nothing works on it any more: no queued call, no call, no helper.       *)
SettledQuiet ==
    \A a \in Known :
        att[a].state = "skipped" \/ att[a].obj # rec.obj \/ att[a].gen # rec.gen =>
            /\ srv.a # a
            /\ \A i \in DOMAIN queue : queue[i].a # a
            /\ \A h \in Helper : helper[h].a # a

(* The locks are held from the admission of an action to its end, and what *)
(* was admitted stays so: the session runs, the steps before it are        *)
(* settled, the work is new, the attempt is the caller's, and a good       *)
(* answer was given for an exact receipt.                                  *)
Calling == {"send", "wait", "fresh", "record", "doubt"}
Locked == {"reserve", "rename"} \cup Calling
SettledBefore(step) ==
    \A i, j \in DOMAIN Automatic : Automatic[j] = step /\ i < j => Settled(Automatic[i])
ClientExact(c) ==
    /\ op[c].pc \in Locked <=> lock = c
    /\ op[c].pc = "idle" => op[c].kind = None
    /\ op[c].pc \in {"plan", "exec"} => op[c].kind = "auto"
    /\ op[c].pc \in Locked => rec.st = "running"
    /\ op[c].pc \in {"reserve", "rename"} =>
          /\ op[c].step \in Step /\ op[c].kind \in {"auto", "run"}
          /\ SettledBefore(op[c].step)
    /\ op[c].pc = "rename" =>
          /\ op[c].a \in Attempt \ Known
          /\ \A a \in Known : ~SameWork(att[a], NewAttempt(c))
    /\ op[c].pc \in Calling =>
          /\ op[c].a \in Known /\ att[op[c].a].state = Expected(Kind(c))
          /\ att[op[c].a].obj = rec.obj /\ att[op[c].a].gen = rec.gen
    /\ op[c].pc \in {"fresh", "record"} =>
          claim[op[c].a] = "exact" /\ receipt[op[c].a] = "exact"

(* No two attempts are for the same work, none is of the future, and the   *)
(* steps before an attempt that counts for the plan are settled.           *)
AttemptExact ==
    /\ rec.st # "stopped" => rec.gen > 0
    /\ \A a \in Known : att[a].obj <= rec.obj /\ att[a].gen <= rec.gen
    /\ \A a, b \in Known : SameWork(att[a], att[b]) => a = b
    /\ \A a \in Known :
          att[a].obj = rec.obj /\ (att[a].step[1] = "once" \/ att[a].gen = rec.gen) =>
             SettledBefore(att[a].step)

(* Nothing is under way on a machine that does not run, and a call is for  *)
(* a published attempt and has its helper.                                 *)
CallExact ==
    /\ rec.st = "stopped" => ~live
    /\ ~live => srv = NoCall /\ queue = <<>> /\ \A h \in Helper : helper[h] = NoHelper
    /\ srv # NoCall =>
          /\ srv.a \in Known /\ srv.h \in Helper
          /\ helper[srv.h].a = srv.a
    /\ \A i \in DOMAIN queue : queue[i].a \in Known

(* A helper past the exclusive claim is alone with its attempt, and the    *)
(* files of the attempt are what its stage says.                           *)
Working == {"write", "run", "command", "publish", "unlink"}
HelperExact(h) ==
    LET a == helper[h].a IN
    /\ IF helper[h].pc = "none" THEN a = None ELSE a \in Known
    /\ helper[h].pc \in Working =>
          \A g \in Helper : helper[g].a = a /\ helper[g].pc \in Working => g = h
    /\ helper[h].pc = "write" => claim[a] = "partial"
    /\ helper[h].pc \in {"write", "run", "command", "publish"} => receipt[a] = "none"
    /\ helper[h].pc = "unlink" => receipt[a] = "linked"
    /\ helper[h].pc \in Working \ {"write"} => claim[a] = "exact"
    /\ helper[h].pc = "command" => runs[Occ(a)] = 1
    /\ helper[h].pc = "publish" => Occ(a) \in ended
    /\ helper[h].pc = "ok" => claim[a] = "exact" /\ receipt[a] = "exact"

(* A command that was started has the durable claim of its one attempt,    *)
(* which no helper is about to run, and a receipt is of a command that     *)
(* ended well.                                                             *)
RunExact ==
    /\ \A o \in Occurrence : runs[o] # 0 =>
          \E a \in Known :
             /\ Occ(a) = o /\ claim[a] = "exact"
             /\ \A h \in Helper : helper[h].a = a => helper[h].pc # "run"
    /\ \A a \in Attempt : receipt[a] # "none" =>
          a \in Known /\ claim[a] = "exact" /\ Occ(a) \in ended

(* Well typed, nothing works on an attempt that is settled, and what each  *)
(* process relies on holds (action_attempt.go actionMatchesStoppedRecord,  *)
(* action_skip.go, action_service.go, guestproto/action_store.go).         *)
ActionInv ==
    /\ TypeOK /\ SettledQuiet
    /\ AttemptExact /\ CallExact /\ RunExact
    /\ \A c \in Client : ClientExact(c)
    /\ \A h \in Helper : HelperExact(h)
=============================================================================
