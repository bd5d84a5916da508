----------------------- MODULE ActionAttemptsProofs ------------------------
(***************************************************************************)
(* What ActionAttempts promises holds for any number of clients, attempts, *)
(* helpers, steps, generations, systems and faults.                        *)
(*                                                                         *)
(* ActionInv is inductive. SettledQuiet and SuccessHasReceipt alone are    *)
(* not: that an attempt which is worked on is not settled needs the locks  *)
(* a client holds from admission to its end (ClientExact), that a machine  *)
(* that does not run has nothing under way (CallExact) and that a helper   *)
(* has its attempt's files as its stage says (HelperExact); that a command *)
(* runs once needs that an attempt's work is its own (AttemptExact) and    *)
(* that a started command has left the durable claim of that attempt       *)
(* (RunExact). PlanExplained follows from AttemptExact. With the invariant *)
(* every step is a step of ActionOnce or a stutter, which is the           *)
(* refinement RunsOnce.                                                    *)
(***************************************************************************)
EXTENDS ActionAttempts, SequenceTheorems, TLAPS


(* The automatic steps are distinct steps of the recipe, all once steps    *)
(* before all startup steps.                                               *)
LEMMA PlanOrder ==
    /\ DOMAIN Automatic \subseteq Nat
    /\ \A i \in DOMAIN Automatic : Automatic[i] \in Step /\ Automatic[i][1] \in {"once", "startup"}
    /\ \A i, j \in DOMAIN Automatic : i < j /\ Automatic[j][1] = "once" => Automatic[i][1] = "once"
    /\ \A i, j \in DOMAIN Automatic : Automatic[i] = Automatic[j] => i = j
  <1> DEFINE A == Numbered("once", Once)
             B == Numbered("startup", Startup)
  <1>1. Once \in Nat /\ Startup \in Nat
    BY ActionAssumption
  <1>2. A \in Seq({"once", "startup"} \X Nat) /\ Len(A) = Once /\ \A i \in 1..Once : A[i] = <<"once", i>>
    BY <1>1 DEF Numbered
  <1>3. B \in Seq({"once", "startup"} \X Nat) /\ Len(B) = Startup /\ \A i \in 1..Startup : B[i] = <<"startup", i>>
    BY <1>1 DEF Numbered
  <1>4. Automatic = A \o B
    BY DEF Automatic
  <1> HIDE DEF A, B
  <1>5. /\ DOMAIN Automatic = 1..(Once + Startup)
        /\ \A i \in 1..(Once + Startup) :
              Automatic[i] = IF i <= Once THEN <<"once", i>> ELSE <<"startup", i - Once>>
    <2>1. Len(Automatic) = Once + Startup /\ Automatic \in Seq({"once", "startup"} \X Nat)
      BY <1>1, <1>2, <1>3, <1>4, ConcatProperties
    <2>2. \A i \in 1..(Once + Startup) : Automatic[i] = IF i <= Once THEN A[i] ELSE B[i - Once]
      BY <1>1, <1>2, <1>3, <1>4, ConcatProperties
    <2>3. \A i \in 1..(Once + Startup) : i > Once => i - Once \in 1..Startup
      BY <1>1
    <2> QED
      BY <1>1, <1>2, <1>3, <2>1, <2>2, <2>3
  <1>6. \A i \in DOMAIN Automatic : Automatic[i] \in Step
    BY DEF Step, Range
  <1> QED
    BY <1>1, <1>5, <1>6

(* Every change the steps make to a client keeps its type.                 *)
LEMMA OpTyped ==
    ASSUME TypeOK
    PROVE  /\ NoOp \in Ops
           /\ \A c \in Client : [op EXCEPT ![c] = NoOp] \in [Client -> Ops]
           /\ \A c \in Client, pc \in OpPCs : Goto(c, pc) => op' \in [Client -> Ops]
           /\ \A c \in Client : Return(c) =>
                 op' \in [Client -> Ops] /\ lock' \in Client \cup {None}
           /\ \A a, pc : pc \in OpPCs /\ Answer(a, pc) => op' \in [Client -> Ops]
  <1>1. NoOp \in Ops
    BY DEF NoOp, Ops, OpPCs
  <1>2. ASSUME NEW c \in Client
        PROVE  [op EXCEPT ![c] = NoOp] \in [Client -> Ops]
    BY <1>1 DEF TypeOK
  <1>3. ASSUME NEW r \in Ops, NEW pc \in OpPCs
        PROVE  [r EXCEPT !.pc = pc] \in Ops
    BY DEF Ops
  <1>4. ASSUME NEW c \in Client, NEW pc \in OpPCs, Goto(c, pc)
        PROVE  op' \in [Client -> Ops]
    BY <1>3, <1>4 DEF Goto, TypeOK
  <1>5. ASSUME NEW a, NEW pc, pc \in OpPCs, Answer(a, pc)
        PROVE  op' \in [Client -> Ops]
    BY <1>3, <1>5 DEF Answer, TypeOK
  <1>6. ASSUME NEW c \in Client, Return(c)
        PROVE  op' \in [Client -> Ops] /\ lock' \in Client \cup {None}
    BY <1>2, <1>6 DEF Return, TypeOK
  <1> QED
    BY <1>1, <1>2, <1>4, <1>5, <1>6

(* So does a client that goes on with a step.                              *)
LEMMA OpStepTyped ==
    ASSUME TypeOK, NEW c \in Client, NEW pc \in OpPCs, NEW s \in Step
    PROVE  /\ [op EXCEPT ![c].pc = pc, ![c].step = s] \in [Client -> Ops]
           /\ [op EXCEPT ![c].pc = pc, ![c].step = s,
                         ![c].kind = IF @ = None THEN "run" ELSE @] \in [Client -> Ops]
  <1>1. op[c] \in Ops
    BY DEF TypeOK
  <1>2. [op[c] EXCEPT !.pc = pc, !.step = s] \in Ops
    BY <1>1 DEF Ops
  <1>3. [op[c] EXCEPT !.pc = pc, !.step = s,
                      !.kind = IF @ = None THEN "run" ELSE @] \in Ops
    BY <1>1 DEF Ops
  <1> QED
    BY <1>2, <1>3 DEF TypeOK

(* And one that goes on with an attempt.                                   *)
LEMMA OpCallTyped ==
    ASSUME TypeOK, NEW c \in Client, NEW pc \in OpPCs, NEW a \in Attempt \cup {None}
    PROVE  [op EXCEPT ![c].pc = pc, ![c].a = a] \in [Client -> Ops]
  <1>1. op[c] \in Ops
    BY DEF TypeOK
  <1>2. [op[c] EXCEPT !.pc = pc, !.a = a] \in Ops
    BY <1>1 DEF Ops
  <1> QED
    BY <1>2 DEF TypeOK

(* A queue keeps its type when a request is added or taken.                *)
LEMMA QueueTyped ==
    ASSUME NEW S, NEW q \in Seq(S)
    PROVE  /\ \A x \in S : Append(q, x) \in Seq(S)
           /\ q # <<>> => Head(q) \in S /\ Tail(q) \in Seq(S)
  OBVIOUS

(* So does every change to a helper.                                       *)
LEMMA HelperTyped ==
    ASSUME TypeOK
    PROVE  /\ NoHelper \in Helpers
           /\ \A h \in Helper : [helper EXCEPT ![h] = NoHelper] \in [Helper -> Helpers]
           /\ \A h \in Helper, pc \in {"claim", "write", "run", "command", "publish",
                                       "unlink", "ok", "error"} :
                 HelperGoto(h, pc) => helper' \in [Helper -> Helpers]
           /\ NoHelpers => helper' \in [Helper -> Helpers]
  <1>1. NoHelper \in Helpers
    BY DEF NoHelper, Helpers
  <1>2. ASSUME NEW h \in Helper, NEW pc \in {"claim", "write", "run", "command",
                                             "publish", "unlink", "ok", "error"},
               HelperGoto(h, pc)
        PROVE  helper' \in [Helper -> Helpers]
    <2>1. ASSUME NEW r \in Helpers
          PROVE  [r EXCEPT !.pc = pc] \in Helpers
      BY DEF Helpers
    <2> QED
      BY <1>2, <2>1 DEF HelperGoto, TypeOK
  <1> QED
    BY <1>1, <1>2 DEF TypeOK, NoHelpers

(* And every change to an attempt.                                         *)
LEMMA AttTyped ==
    ASSUME TypeOK, NEW a \in Known, NEW n \in States, NEW e, advanceActionAttempt(a, e, n)
    PROVE  att' \in [Attempt -> Attempts \cup {None}]
  <1>1. a \in Attempt /\ att[a] \in Attempts
    BY DEF Known, TypeOK
  <1>2. [att[a] EXCEPT !.state = n] \in Attempts
    BY <1>1 DEF Attempts
  <1> QED
    BY <1>1, <1>2 DEF TypeOK, advanceActionAttempt

(* Every step keeps the types: an attempt is published for a step of the   *)
(* recipe and an existing generation, and a call is made and handled for a *)
(* published attempt.                                                      *)
LEMMA TypeStep ==
    ActionInv /\ [Next]_vars => TypeOK'
  <1> SUFFICES ASSUME ActionInv, [Next]_vars
               PROVE  TypeOK'
    OBVIOUS
  <1> TypeOK
    BY DEF ActionInv
  <1>1. ASSUME NEW c \in Client, RunAutomaticActions(c)
         PROVE  TypeOK'
    <2>1. op' \in [Client -> Ops]
      BY <1>1, OpTyped DEF RunAutomaticActions, NoOp, Ops, OpPCs, TypeOK
    <2> QED
      BY <1>1, <2>1 DEF RunAutomaticActions, TypeOK, hostVars, guestVars
  <1>2. ASSUME NEW c \in Client, LoadAutomaticActionPlan(c)
         PROVE  TypeOK'
    <2>1. op' \in [Client -> Ops]
      <3>1. CASE op' = [op EXCEPT ![c] = NoOp]
        BY <3>1, OpTyped
      <3>2. CASE \E s \in Step : op' = [op EXCEPT ![c].pc = "exec",
                                        ![c].step = s]
        <4>1. PICK s \in Step : op' = [op EXCEPT ![c].pc = "exec",
                                       ![c].step = s]
          BY <3>2
        <4>2. "exec" \in OpPCs
          BY DEF OpPCs
        <4> QED
          BY <4>1, <4>2, OpStepTyped
      <3> QED
        BY <1>2, <3>1, <3>2 DEF LoadAutomaticActionPlan
    <2> QED
      BY <1>2, <2>1 DEF LoadAutomaticActionPlan, TypeOK, hostVars, guestVars
  <1>3. ASSUME NEW c \in Client, NEW s \in Step, ExecuteAction(c, s)
         PROVE  TypeOK'
    <2>1. op' \in [Client -> Ops]
      <3>1. CASE op' = [op EXCEPT ![c] = NoOp]
        BY <3>1, OpTyped
      <3>2. CASE op' = [op EXCEPT ![c].pc = "reserve", ![c].step = s,
                                  ![c].kind = IF @ = None THEN "run" ELSE @]
        <4>1. "reserve" \in OpPCs
          BY DEF OpPCs
        <4> QED
          BY <3>2, <4>1, OpStepTyped
      <3> QED
        BY <1>3, <3>1, <3>2 DEF ExecuteAction
    <2>2. lock' \in Client \cup {None}
      BY <1>3 DEF ExecuteAction, TypeOK
    <2> QED
      BY <1>3, <2>1, <2>2 DEF ExecuteAction, TypeOK, hostVars, guestVars
  <1>4. ASSUME NEW c \in Client, NEW a \in Attempt, ReserveActionAttempt(c,
                                                                         a)
         PROVE  TypeOK'
    <2>1. op' \in [Client -> Ops]
      BY <1>4, OpCallTyped DEF ReserveActionAttempt, OpPCs, TypeOK
    <2> QED
      BY <1>4, <2>1 DEF ReserveActionAttempt, TypeOK, hostVars, guestVars
  <1>5. ASSUME NEW c \in Client, NEW a \in Attempt, RetryAction(c, a)
         PROVE  TypeOK'
    <2>1. op' \in [Client -> Ops]
      BY <1>5 DEF RetryAction, NoOp, Ops, OpPCs, TypeOK
    <2>2. att' \in [Attempt -> Attempts \cup {None}]
      BY <1>5, AttTyped DEF RetryAction, States, TypeOK
    <2> QED
      BY <1>5, <2>1, <2>2 DEF RetryAction, TypeOK, hostVars, guestVars
  <1>6. ASSUME NEW c \in Client, ReserveRefused(c)
         PROVE  TypeOK'
    <2>1. op' \in [Client -> Ops] /\ lock' \in Client \cup {None}
      BY <1>6, OpTyped DEF ReserveRefused, TypeOK
    <2> QED
      BY <1>6, <2>1 DEF ReserveRefused, TypeOK, hostVars, guestVars
  <1>7. ASSUME NEW c \in Client, PublishAttempt(c)
         PROVE  TypeOK'
    <2>1. op' \in [Client -> Ops]
      BY <1>7, OpTyped DEF PublishAttempt, OpPCs, TypeOK
    <2>2. op[c].step \in Step /\ rec.gen \in 1..MaxGen /\ op[c].a \in Attempt
      BY <1>7, ActionAssumption
         DEF PublishAttempt, ActionInv, ClientExact, Locked, AttemptExact,
             TypeOK, Records
    <2>3. NewAttempt(c) \in Attempts
      BY <2>2 DEF NewAttempt, Attempts, States, TypeOK, Records
    <2>4. att' \in [Attempt -> Attempts \cup {None}]
      BY <1>7, <2>2, <2>3 DEF PublishAttempt, TypeOK
    <2> QED
      BY <1>7, <2>1, <2>4 DEF PublishAttempt, TypeOK, hostVars, guestVars
  <1>8. ASSUME NEW c \in Client, callAction(c)
         PROVE  TypeOK'
    <2>1. op' \in [Client -> Ops]
      BY <1>8, OpTyped DEF callAction, OpPCs, TypeOK
    <2>2. [a |-> op[c].a, kind |-> Kind(c)] \in Requests
      BY <1>8
         DEF callAction, ActionInv, ClientExact, Calling, Known, Kind,
             Requests
    <2>3. queue' \in Seq(Requests)
      <3>1. CASE queue' = Append(queue, [a |-> op[c].a, kind |-> Kind(c)])
        BY <3>1, <2>2, QueueTyped DEF TypeOK
      <3>2. CASE UNCHANGED queue
        BY <3>2 DEF TypeOK
      <3> QED
        BY <1>8, <3>1, <3>2 DEF callAction
    <2> QED
      BY <1>8, <2>1, <2>3 DEF callAction, TypeOK, hostVars, guestVars
  <1>9. ASSUME NEW c \in Client, CallFails(c)
         PROVE  TypeOK'
    <2>1. op' \in [Client -> Ops]
      BY <1>9, OpTyped DEF CallFails, OpPCs, TypeOK
    <2>2. faults' \in 0..MaxFault
      BY <1>9, ActionAssumption DEF CallFails, TypeOK
    <2> QED
      BY <1>9, <2>1, <2>2 DEF CallFails, TypeOK, hostVars, guestVars
  <1>10. ASSUME NEW c \in Client, FreshAfter(c)
          PROVE  TypeOK'
    <2>1. op' \in [Client -> Ops]
      BY <1>10, OpTyped DEF FreshAfter, OpPCs, TypeOK
    <2> QED
      BY <1>10, <2>1 DEF FreshAfter, TypeOK, hostVars, guestVars
  <1>11. ASSUME NEW c \in Client, RecordSuccess(c)
          PROVE  TypeOK'
    <2>1. op' \in [Client -> Ops] /\ lock' \in Client \cup {None}
      <3>1. CASE Return(c)
        BY <3>1, OpTyped
      <3>2. CASE op' = [op EXCEPT ![c].pc = "plan",
                        ![c].a = None] /\ lock' = None
        BY <3>2, OpCallTyped DEF OpPCs
      <3> QED
        BY <1>11, <3>1, <3>2 DEF RecordSuccess
    <2>2. op[c].a \in Known
      BY <1>11 DEF RecordSuccess, ActionInv, ClientExact, Calling
    <2>3. att' \in [Attempt -> Attempts \cup {None}]
      BY <1>11, AttTyped, <2>2 DEF RecordSuccess, States, TypeOK
    <2> QED
      BY <1>11, <2>1, <2>3 DEF RecordSuccess, TypeOK, hostVars, guestVars
  <1>12. ASSUME NEW c \in Client, indeterminateAction(c)
          PROVE  TypeOK'
    <2>1. op' \in [Client -> Ops] /\ lock' \in Client \cup {None}
      BY <1>12, OpTyped DEF indeterminateAction, TypeOK
    <2>2. op[c].a \in Known
      BY <1>12 DEF indeterminateAction, ActionInv, ClientExact, Calling
    <2>3. att' \in [Attempt -> Attempts \cup {None}]
      BY <1>12, AttTyped, <2>2 DEF indeterminateAction, States, TypeOK
    <2> QED
      BY <1>12, <2>1, <2>3
         DEF indeterminateAction, TypeOK, hostVars, guestVars
  <1>13. ASSUME NEW c \in Client, ClientDies(c)
          PROVE  TypeOK'
    <2>1. op' \in [Client -> Ops] /\ lock' \in Client \cup {None}
      BY <1>13, OpTyped DEF ClientDies, TypeOK
    <2>2. tmp' \in SUBSET Attempt
      BY <1>13 DEF ClientDies, TypeOK
    <2>3. faults' \in 0..MaxFault
      BY <1>13, ActionAssumption DEF ClientDies, TypeOK
    <2> QED
      BY <1>13, <2>1, <2>2, <2>3 DEF ClientDies, TypeOK, hostVars, guestVars
  <1>14. ASSUME NEW a \in Attempt, SkipAction(a)
          PROVE  TypeOK'
    <2>1. att' \in [Attempt -> Attempts \cup {None}]
      BY <1>14, AttTyped DEF SkipAction, States, TypeOK
    <2> QED
      BY <1>14, <2>1 DEF SkipAction, TypeOK, hostVars, guestVars
  <1>15. CASE handleControl
    <2>1. queue' \in Seq(Requests) /\ Head(queue) \in Requests
      BY <1>15, QueueTyped DEF handleControl, TypeOK
    <2>2. op' \in [Client -> Ops]
      BY <1>15, OpTyped DEF handleControl, OpPCs, TypeOK
    <2>3. helper' \in [Helper -> Helpers]
      <3>1. \A h \in Helper : [a |-> Head(queue).a,
                               pc |-> "claim"] \in Helpers
        BY <2>1 DEF Helpers, Requests
      <3> QED
        BY <1>15, <3>1 DEF handleControl, TypeOK
    <2>4. srv' \in Calls
      BY <1>15, <2>1 DEF handleControl, Calls, Requests, TypeOK
    <2> QED
      BY <1>15, <2>1, <2>2, <2>3, <2>4
         DEF handleControl, TypeOK, hostVars, guestVars
  <1>16. CASE ExpiredRequest
    <2>1. queue' \in Seq(Requests)
      BY <1>16, QueueTyped DEF ExpiredRequest, TypeOK
    <2> QED
      BY <1>16, <2>1 DEF ExpiredRequest, TypeOK, hostVars, guestVars
  <1>17. CASE runAction
    <2>1. op' \in [Client -> Ops]
      BY <1>17, OpTyped DEF runAction, OpPCs, TypeOK
    <2>2. helper' \in [Helper -> Helpers]
      BY <1>17, HelperTyped DEF runAction, TypeOK
    <2>3. srv' \in Calls
      BY <1>17 DEF runAction, Calls, NoCall, TypeOK
    <2> QED
      BY <1>17, <2>1, <2>2, <2>3 DEF runAction, TypeOK, hostVars, guestVars
  <1>18. CASE ServerTimeout
    <2>1. op' \in [Client -> Ops]
      BY <1>18, OpTyped DEF ServerTimeout, OpPCs, TypeOK
    <2>2. srv' \in Calls
      BY <1>18 DEF ServerTimeout, Calls, NoCall, TypeOK
    <2>3. faults' \in 0..MaxFault
      BY <1>18, ActionAssumption DEF ServerTimeout, TypeOK
    <2> QED
      BY <1>18, <2>1, <2>2, <2>3
         DEF ServerTimeout, TypeOK, hostVars, guestVars
  <1>19. ASSUME NEW h \in Helper, ClaimNew(h)
          PROVE  TypeOK'
    <2>1. helper' \in [Helper -> Helpers]
      BY <1>19, HelperTyped DEF ClaimNew, TypeOK
    <2> QED
      BY <1>19, <2>1 DEF ClaimNew, TypeOK, hostVars, guestVars
  <1>20. ASSUME NEW h \in Helper, ClaimDurable(h)
          PROVE  TypeOK'
    <2>1. helper' \in [Helper -> Helpers]
      BY <1>20, HelperTyped DEF ClaimDurable, TypeOK
    <2> QED
      BY <1>20, <2>1 DEF ClaimDurable, TypeOK, hostVars, guestVars
  <1>21. ASSUME NEW h \in Helper, ClaimExisting(h)
          PROVE  TypeOK'
    <2>1. helper' \in [Helper -> Helpers]
      BY <1>21, HelperTyped DEF ClaimExisting, TypeOK
    <2> QED
      BY <1>21, <2>1 DEF ClaimExisting, TypeOK, hostVars, guestVars
  <1>22. ASSUME NEW h \in Helper, RunCommand(h)
          PROVE  TypeOK'
    <2>1. helper' \in [Helper -> Helpers]
      BY <1>22, HelperTyped DEF RunCommand, TypeOK
    <2>2. helper[h].a \in Known
      BY <1>22 DEF RunCommand, ActionInv, HelperExact
    <2>3. Occ(helper[h].a) \in Occurrence
      BY <2>2 DEF Known, Occ, Occurrence, Attempts, TypeOK
    <2>4. runs' \in [Occurrence -> Nat]
      BY <1>22, <2>3 DEF RunCommand, TypeOK
    <2> QED
      BY <1>22, <2>1, <2>4 DEF RunCommand, TypeOK, hostVars, guestVars
  <1>23. ASSUME NEW h \in Helper, NEW ok \in BOOLEAN, CommandExits(h, ok)
          PROVE  TypeOK'
    <2>1. helper' \in [Helper -> Helpers]
      BY <1>23, HelperTyped DEF CommandExits, TypeOK
    <2>2. helper[h].a \in Known
      BY <1>23 DEF CommandExits, ActionInv, HelperExact
    <2>3. Occ(helper[h].a) \in Occurrence
      BY <2>2 DEF Known, Occ, Occurrence, Attempts, TypeOK
    <2>4. ended' \in SUBSET Occurrence
      BY <1>23, <2>3 DEF CommandExits, TypeOK
    <2> QED
      BY <1>23, <2>1, <2>4 DEF CommandExits, TypeOK, hostVars, guestVars
  <1>24. ASSUME NEW h \in Helper, PublishActionSuccess(h)
          PROVE  TypeOK'
    <2>1. helper' \in [Helper -> Helpers]
      BY <1>24, HelperTyped DEF PublishActionSuccess, TypeOK
    <2> QED
      BY <1>24, <2>1 DEF PublishActionSuccess, TypeOK, hostVars, guestVars
  <1>25. ASSUME NEW h \in Helper, ReceiptDurable(h)
          PROVE  TypeOK'
    <2>1. helper' \in [Helper -> Helpers]
      BY <1>25, HelperTyped DEF ReceiptDurable, TypeOK
    <2> QED
      BY <1>25, <2>1 DEF ReceiptDurable, TypeOK, hostVars, guestVars
  <1>26. ASSUME NEW h \in Helper, HelperExits(h)
          PROVE  TypeOK'
    <2>1. helper' \in [Helper -> Helpers]
      BY <1>26, HelperTyped DEF HelperExits, TypeOK
    <2> QED
      BY <1>26, <2>1 DEF HelperExits, TypeOK, hostVars, guestVars
  <1>27. ASSUME NEW h \in Helper, HelperDies(h)
          PROVE  TypeOK'
    <2>1. helper' \in [Helper -> Helpers]
      BY <1>27, HelperTyped DEF HelperDies, TypeOK
    <2>2. faults' \in 0..MaxFault
      BY <1>27, ActionAssumption DEF HelperDies, TypeOK
    <2> QED
      BY <1>27, <2>1, <2>2 DEF HelperDies, TypeOK, hostVars, guestVars
  <1>28. CASE GuestReboot
    <2>1. op' \in [Client -> Ops]
      BY <1>28, OpTyped DEF GuestReboot, OpPCs, TypeOK
    <2>2. helper' \in [Helper -> Helpers]
      BY <1>28, HelperTyped DEF GuestReboot, TypeOK
    <2>3. srv' \in Calls
      BY <1>28 DEF GuestReboot, Calls, NoCall, TypeOK
    <2>4. claim' \in [Attempt -> {"none", "partial", "exact"}]
      BY <1>28 DEF GuestReboot, TypeOK
    <2>5. faults' \in 0..MaxFault
      BY <1>28, ActionAssumption DEF GuestReboot, TypeOK
    <2> QED
      BY <1>28, <2>1, <2>2, <2>3, <2>4, <2>5
         DEF GuestReboot, TypeOK, hostVars, guestVars
  <1>29. CASE MachineDies
    <2>1. live' \in BOOLEAN
      BY <1>29, Zenon DEF MachineDies
    <2>2. helper' \in [Helper -> Helpers]
      BY <1>29, HelperTyped DEF MachineDies, TypeOK
    <2>3. srv' \in Calls
      BY <1>29 DEF MachineDies, Calls, NoCall, TypeOK
    <2>4. faults' \in 0..MaxFault
      BY <1>29, ActionAssumption DEF MachineDies, TypeOK
    <2> QED
      BY <1>29, <2>1, <2>2, <2>3, <2>4
         DEF MachineDies, TypeOK, hostVars, guestVars
  <1>30. CASE Start
    <2>1. live' \in BOOLEAN
      BY <1>30, Zenon DEF Start
    <2>2. rec.gen + 1 \in 0..MaxGen
      BY <1>30, ActionAssumption DEF Start, Records, TypeOK
    <2>3. rec' \in Records
      BY <1>30, <2>2 DEF Start, Records, TypeOK
    <2> QED
      BY <1>30, <2>1, <2>2, <2>3 DEF Start, TypeOK, hostVars, guestVars
  <1>31. CASE StopIntent
    <2>1. rec' \in Records
      BY <1>31 DEF StopIntent, Records, TypeOK
    <2> QED
      BY <1>31, <2>1 DEF StopIntent, TypeOK, hostVars, guestVars
  <1>32. CASE Stopped
    <2>1. live' \in BOOLEAN
      BY <1>32, Zenon DEF Stopped
    <2>2. rec' \in Records
      BY <1>32 DEF Stopped, Records, TypeOK
    <2>3. helper' \in [Helper -> Helpers]
      BY <1>32, HelperTyped DEF Stopped, TypeOK
    <2>4. srv' \in Calls
      BY <1>32 DEF Stopped, Calls, NoCall, TypeOK
    <2> QED
      BY <1>32, <2>1, <2>2, <2>3, <2>4
         DEF Stopped, TypeOK, hostVars, guestVars
  <1>33. CASE RebuildCutover
    <2>1. rebuild' \in BOOLEAN
      BY <1>33, Zenon DEF RebuildCutover
    <2>2. rec' \in Records
      BY <1>33, ActionAssumption DEF RebuildCutover, Records, TypeOK
    <2> QED
      BY <1>33, <2>1, <2>2 DEF RebuildCutover, TypeOK, hostVars, guestVars
  <1>34. CASE RebuildRetired
    <2>1. rebuild' \in BOOLEAN
      BY <1>34, Zenon DEF RebuildRetired
    <2> QED
      BY <1>34, <2>1 DEF RebuildRetired, TypeOK, hostVars, guestVars
  <1>35. CASE UNCHANGED vars
    BY <1>35 DEF vars, hostVars, guestVars, TypeOK
  <1> QED
    BY <1>1, <1>2, <1>3, <1>4, <1>5, <1>6, <1>7, <1>8, <1>9, <1>10, <1>11,
       <1>12, <1>13, <1>14, <1>15, <1>16, <1>17, <1>18, <1>19, <1>20, <1>21,
       <1>22, <1>23, <1>24, <1>25, <1>26, <1>27, <1>28, <1>29, <1>30, <1>31,
       <1>32, <1>33, <1>34, <1>35
       DEF Next

(* An attempt that advances was unresolved; its work stays the same, other *)
(* attempts stay as they are, and what was settled stays settled.          *)
LEMMA Advance ==
    ASSUME TypeOK, NEW a \in Known, NEW e, NEW n \in States,
           advanceActionAttempt(a, e, n), UNCHANGED rec
    PROVE  /\ Known' = Known
           /\ att[a].state = e /\ e \in Unresolved /\ att'[a].state = n
           /\ \A b \in Known : /\ att'[b].step = att[b].step
                               /\ att'[b].obj = att[b].obj
                               /\ att'[b].gen = att[b].gen
                               /\ b # a => att'[b].state = att[b].state
           /\ \A s : Settled(s) => Settled(s)'
           /\ \A b \in Known : Occ(b)' = Occ(b)
  <1>1. a \in Attempt /\ att[a] \in Attempts
    BY DEF Known, TypeOK
  <1>2. /\ att' = [att EXCEPT ![a].state = n] /\ att[a].state = e
        /\ e \in Unresolved
    BY DEF advanceActionAttempt, Unresolved
  <1>3. att'[a] = [att[a] EXCEPT !.state = n] /\ \A b \in Attempt \ {a} : att'[b] = att[b]
    BY <1>1, <1>2 DEF TypeOK
  <1>4. /\ att'[a].step = att[a].step /\ att'[a].obj = att[a].obj
        /\ att'[a].gen = att[a].gen /\ att'[a].state = n
    BY <1>1, <1>3 DEF Attempts
  <1>5. att'[a] \in Attempts
    BY <1>1, <1>3 DEF Attempts
  <1>6. Known' = Known
    BY <1>1, <1>3, <1>5, NoneAssumption DEF Known
  <1>7. \A b \in Known : /\ att'[b].step = att[b].step
                         /\ att'[b].obj = att[b].obj
                         /\ att'[b].gen = att[b].gen
                         /\ b # a => att'[b].state = att[b].state
    BY <1>3, <1>4 DEF Known
  <1>8. \A s : Settled(s) => Settled(s)'
    BY <1>2, <1>6, <1>7 DEF Settled, Unresolved
  <1> QED
    BY <1>2, <1>4, <1>6, <1>7, <1>8 DEF Occ

(* A published attempt is new, its work is new and due, and the others     *)
(* stay as they are.                                                       *)
LEMMA Publication ==
    ASSUME ActionInv, NEW c \in Client, PublishAttempt(c)
    PROVE  /\ op[c].a \in Attempt \ Known /\ op[c].step \in Step
           /\ rec.st = "running" /\ UNCHANGED rec
           /\ NewAttempt(c) \in Attempts /\ att'[op[c].a] = NewAttempt(c)
           /\ \A b \in Known : ~SameWork(att[b], NewAttempt(c))
           /\ SettledBefore(op[c].step)
           /\ Known' = Known \cup {op[c].a}
           /\ \A b \in Known : att'[b] = att[b] /\ Occ(b)' = Occ(b)
           /\ \A s : Settled(s) => Settled(s)'
  <1> DEFINE n == op[c].a
  <1>1. /\ n \in Attempt \ Known /\ op[c].step \in Step /\ rec.st = "running"
        /\ \A b \in Known : ~SameWork(att[b], NewAttempt(c))
        /\ SettledBefore(op[c].step) /\ UNCHANGED rec
    BY DEF PublishAttempt, ActionInv, ClientExact, Locked
  <1>2. att'[n] = NewAttempt(c) /\ \A b \in Attempt \ {n} : att'[b] = att[b]
    BY <1>1 DEF PublishAttempt, ActionInv, TypeOK
  <1>3. rec.gen \in 1..MaxGen /\ rec \in Records
    BY <1>1, ActionAssumption DEF ActionInv, AttemptExact, TypeOK, Records
  <1>4. NewAttempt(c) \in Attempts
    BY <1>1, <1>3 DEF NewAttempt, Attempts, States, Records
  <1>5. Known' = Known \cup {n}
    BY <1>1, <1>2, <1>4, NoneAssumption DEF Known
  <1>6. \A b \in Known : att'[b] = att[b] /\ Occ(b)' = Occ(b)
    BY <1>1, <1>2 DEF Known, Occ
  <1>7. \A s : Settled(s) => Settled(s)'
    BY <1>1, <1>5, <1>6 DEF Settled
  <1> QED
    BY <1>1, <1>2, <1>4, <1>5, <1>6, <1>7

(* The attempts are as exact as before where neither they nor the record   *)
(* of the session change.                                                  *)
LEMMA AttemptFrame ==
    AttemptExact /\ UNCHANGED <<rec, att>> => AttemptExact'
  BY DEF AttemptExact, SettledBefore, Settled, Known

(* Every step keeps the attempts apart and in order: an attempt is         *)
(* published under the locks that were held since its work was found to be *)
(* new and due, a settled attempt stays settled, and a new generation or a *)
(* new system starts from nothing (action_attempt.go rejectActionReplay,   *)
(* action_plan.go PlanAutomaticActions).                                   *)
LEMMA AttemptStep ==
    ActionInv /\ [Next]_vars => AttemptExact'
  <1> SUFFICES ASSUME ActionInv, [Next]_vars
               PROVE  AttemptExact'
    OBVIOUS
  <1> TypeOK
    BY DEF ActionInv
  <1>1. ASSUME NEW c \in Client, NEW a \in Attempt, RetryAction(c, a)
         PROVE  AttemptExact'
    <2>1. a \in Known /\ UNCHANGED rec
      BY <1>1 DEF RetryAction, ActionInv, ClientExact, Calling
    <2>2. CASE advanceActionAttempt(a, "reserved", "indeterminate")
      BY <1>1, <2>1, <2>2, Advance
         DEF AttemptExact, SettledBefore, SameWork, Known, Settled,
             ActionInv, States
    <2>3. CASE UNCHANGED att
      BY <1>1, <2>1, <2>3
         DEF AttemptExact, SettledBefore, SameWork, Known, Settled, ActionInv
    <2> QED
      BY <1>1, <2>2, <2>3 DEF RetryAction
  <1>2. ASSUME NEW c \in Client, PublishAttempt(c)
         PROVE  AttemptExact'
    <2> DEFINE n == op[c].a
    <2>1. /\ n \in Attempt \ Known /\ op[c].step \in Step /\ rec.st = "running"
          /\ \A b \in Known : ~SameWork(att[b], NewAttempt(c))
          /\ SettledBefore(op[c].step) /\ UNCHANGED rec /\ att'[n] = NewAttempt(c)
          /\ rec \in Records
      BY <1>2, Publication DEF ActionInv, TypeOK
    <2>4. /\ att'[n].step = op[c].step /\ att'[n].obj = rec.obj /\ att'[n].gen = rec.gen
      BY <2>1 DEF NewAttempt
    <2>6. \A s : Settled(s) => Settled(s)'
      BY <1>2, Publication
    <2>7. \A b \in Known' \ {n} : b \in Known /\ att'[b] = att[b]
      BY <1>2, Publication
    <2> HIDE DEF n
    <2>9. \A b \in Known' : att'[b].obj <= rec'.obj /\ att'[b].gen <= rec'.gen
      BY <2>1, <2>4, <2>7 DEF ActionInv, AttemptExact, Records
    <2>10. \A b, d \in Known' : SameWork(att'[b], att'[d]) => b = d
      <3> SUFFICES ASSUME NEW b \in Known', NEW d \in Known', b # d,
                          SameWork(att'[b], att'[d])
                   PROVE  FALSE
        OBVIOUS
      <3>1. CASE b # n /\ d # n
        BY <3>1, <2>7 DEF ActionInv, AttemptExact
      <3>2. CASE b = n
        BY <3>2, <2>1, <2>7 DEF SameWork
      <3>3. CASE d = n
        BY <3>3, <2>1, <2>7
      <3> QED
        BY <3>1, <3>2, <3>3
    <2>11. \A b \in Known' :
              att'[b].obj = rec'.obj /\ (att'[b].step[1] = "once" \/ att'[b].gen = rec'.gen)
                => \A i, j \in DOMAIN Automatic :
                      Automatic[j] = att'[b].step /\ i < j => Settled(Automatic[i])'
      BY <2>1, <2>4, <2>6, <2>7 DEF ActionInv, AttemptExact, SettledBefore
    <2> QED
      BY <2>1, <2>9, <2>10, <2>11 DEF AttemptExact, ActionInv, SettledBefore
  <1>3. ASSUME NEW c \in Client, RecordSuccess(c)
         PROVE  AttemptExact'
    <2>1. op[c].a \in Known /\ UNCHANGED rec
      BY <1>3 DEF RecordSuccess, ActionInv, ClientExact, Calling
    <2>2. advanceActionAttempt(op[c].a, att[op[c].a].state, "succeeded")
      BY <1>3 DEF RecordSuccess
    <2> QED
      BY <1>3, <2>1, <2>2, Advance
         DEF AttemptExact, SettledBefore, SameWork, Known, Settled,
             ActionInv, States
  <1>4. ASSUME NEW c \in Client, indeterminateAction(c)
         PROVE  AttemptExact'
    <2>1. op[c].a \in Known /\ UNCHANGED rec
      BY <1>4 DEF indeterminateAction, ActionInv, ClientExact, Calling
    <2>2. CASE advanceActionAttempt(op[c].a, "reserved", "indeterminate")
      BY <1>4, <2>1, <2>2, Advance
         DEF AttemptExact, SettledBefore, SameWork, Known, Settled,
             ActionInv, States
    <2>3. CASE UNCHANGED att
      BY <1>4, <2>1, <2>3
         DEF AttemptExact, SettledBefore, SameWork, Known, Settled, ActionInv
    <2> QED
      BY <1>4, <2>2, <2>3 DEF indeterminateAction
  <1>5. ASSUME NEW a \in Attempt, SkipAction(a)
         PROVE  AttemptExact'
    <2>1. a \in Known /\ UNCHANGED rec
      BY <1>5 DEF SkipAction, ActionInv, ClientExact, Calling
    <2>2. advanceActionAttempt(a, att[a].state, "skipped")
      BY <1>5 DEF SkipAction
    <2> QED
      BY <1>5, <2>1, <2>2, Advance
         DEF AttemptExact, SettledBefore, SameWork, Known, Settled,
             ActionInv, States
  <1>6. CASE Start
    <2>1. /\ rec \in Records /\ rec'.obj = rec.obj /\ rec'.gen = rec.gen + 1
          /\ UNCHANGED att /\ Known' = Known
      BY <1>6 DEF Start, ActionInv, TypeOK, Records, Known
    <2>2. ASSUME NEW b \in Known, att[b].obj = rec.obj,
       att[b].step[1] = "once",
                 NEW i \in DOMAIN Automatic, NEW j \in DOMAIN Automatic,
                 Automatic[j] = att[b].step, i < j
          PROVE  Settled(Automatic[i])'
      <3>1. Automatic[i][1] = "once" /\ Settled(Automatic[i])
        BY <2>2, PlanOrder DEF ActionInv, AttemptExact, SettledBefore
      <3> QED
        BY <2>1, <3>1 DEF Settled
    <2>3. \A b \in Known : att[b].gen <= rec.gen /\ att[b].gen \in Nat /\ rec.gen \in Nat
      BY <2>1, ActionAssumption
         DEF ActionInv, AttemptExact, TypeOK, Records, Attempts, Known
    <2>4. \A b \in Known : att[b].gen # rec'.gen
      BY <2>1, <2>3
    <2>5. \A b, d \in Known : SameWork(att[b], att[d]) => b = d
      BY DEF ActionInv, AttemptExact
    <2>6. /\ rec'.gen > 0
          /\ \A b \in Known : att[b].obj <= rec'.obj /\ att[b].gen <= rec'.gen
      BY <2>1, <2>3, ActionAssumption DEF ActionInv, AttemptExact, Records
    <2> QED
      BY <2>1, <2>2, <2>4, <2>5, <2>6 DEF AttemptExact, SettledBefore
  <1>7. CASE StopIntent
    <2>1. /\ rec'.obj = rec.obj /\ rec'.gen = rec.gen /\ UNCHANGED att /\ Known' = Known
          /\ rec'.st # "stopped" => rec.st # "stopped"
      BY <1>7 DEF StopIntent, ActionInv, TypeOK, Records, Known
    <2> QED
      BY <2>1 DEF AttemptExact, SettledBefore, Settled, ActionInv
  <1>8. CASE Stopped
    <2>1. /\ rec'.obj = rec.obj /\ rec'.gen = rec.gen /\ UNCHANGED att /\ Known' = Known
          /\ rec'.st # "stopped" => rec.st # "stopped"
      BY <1>8 DEF Stopped, ActionInv, TypeOK, Records, Known
    <2> QED
      BY <2>1 DEF AttemptExact, SettledBefore, Settled, ActionInv
  <1>9. CASE RebuildCutover
    <2>1. /\ rec \in Records /\ rec'.obj = rec.obj + 1 /\ rec'.gen = rec.gen
          /\ rec'.st = rec.st /\ UNCHANGED att /\ Known' = Known
      BY <1>9 DEF RebuildCutover, ActionInv, TypeOK, Records, Known
    <2>2. \A b \in Known : att[b].obj <= rec.obj /\ att[b].obj \in Nat /\ rec.obj \in Nat
      BY <2>1, ActionAssumption
         DEF ActionInv, AttemptExact, TypeOK, Records, Attempts, Known
    <2> QED
      BY <2>1, <2>2 DEF AttemptExact, ActionInv
  <1>10. CASE UNCHANGED <<rec, att>>
    <2> AttemptExact
      BY DEF ActionInv
    <2> QED
      BY <1>10, AttemptFrame
  <1> QED
    BY <1>1, <1>2, <1>3, <1>4, <1>5, <1>6, <1>7, <1>8, <1>9, <1>10,
       ZenonT(60)
       DEF Next, RunAutomaticActions, LoadAutomaticActionPlan, ExecuteAction,
           ReserveActionAttempt, ReserveRefused, callAction, CallFails,
           FreshAfter, ClientDies, handleControl, ExpiredRequest, runAction,
           ServerTimeout, ClaimNew, ClaimDurable, ClaimExisting, RunCommand,
           CommandExits, PublishActionSuccess, ReceiptDurable, HelperExits,
           HelperDies, GuestReboot, MachineDies, RebuildRetired, vars,
           hostVars

(* What is in a queue after a request was added or taken was there before, *)
(* but for the one that was added.                                         *)
LEMMA QueueElements ==
    ASSUME NEW S, NEW q \in Seq(S)
    PROVE  /\ \A x \in S : \A i \in DOMAIN Append(q, x) :
                 Append(q, x)[i] = x \/ \E j \in DOMAIN q : Append(q, x)[i] = q[j]
           /\ q # <<>> => \E j \in DOMAIN q : Head(q) = q[j]
           /\ q # <<>> => \A i \in DOMAIN Tail(q) : \E j \in DOMAIN q : Tail(q)[i] = q[j]
  <1>1. ASSUME NEW x \in S, NEW i \in DOMAIN Append(q, x)
        PROVE  Append(q, x)[i] = x \/ \E j \in DOMAIN q : Append(q, x)[i] = q[j]
    <2>1. i \in 1..(Len(q) + 1)
      OBVIOUS
    <2>2. CASE i = Len(q) + 1
      BY <2>2
    <2>3. CASE i # Len(q) + 1
      <3>1. i \in DOMAIN q
        BY <2>1, <2>3
      <3> QED
        BY <3>1
    <2> QED
      BY <2>2, <2>3
  <1>2. ASSUME q # <<>>
        PROVE  1 \in DOMAIN q /\ Head(q) = q[1]
    BY <1>2
  <1>3. ASSUME q # <<>>, NEW i \in DOMAIN Tail(q)
        PROVE  i + 1 \in DOMAIN q /\ Tail(q)[i] = q[i + 1]
    BY <1>3
  <1> QED
    BY <1>1, <1>2, <1>3

(* A helper that goes on keeps its attempt, and the others stay put.       *)
LEMMA HelperMove ==
    ASSUME TypeOK, NEW h \in Helper, NEW pc, HelperGoto(h, pc)
    PROVE  /\ helper'[h].a = helper[h].a /\ helper'[h].pc = pc
           /\ \A g \in Helper \ {h} : helper'[g] = helper[g]
  BY DEF HelperGoto, TypeOK, Helpers

(* Calls are as exact as before where nothing they speak about changes.    *)
LEMMA CallFrame ==
    CallExact /\ UNCHANGED <<rec, live, srv, queue, helper, att>> => CallExact'
  BY DEF CallExact, Known

(* Every step keeps calls to published attempts and their helpers, and     *)
(* leaves nothing under way on a machine that does not run (control.go     *)
(* handleControl, action_owner.go runAction).                              *)
LEMMA CallStep ==
    ActionInv /\ [Next]_vars => CallExact'
  <1> SUFFICES ASSUME ActionInv, [Next]_vars
               PROVE  CallExact'
    OBVIOUS
  <1>1. ASSUME NEW c \in Client, NEW a \in Attempt, RetryAction(c, a)
         PROVE  CallExact'
    <2>1. a \in Known /\ UNCHANGED rec
      BY <1>1 DEF RetryAction, ActionInv, ClientExact, Calling
    <2>2. CASE advanceActionAttempt(a, "reserved", "indeterminate")
      BY <1>1, <2>1, <2>2, Advance
         DEF CallExact, RetryAction, hostVars, guestVars, ActionInv, States
    <2>3. CASE UNCHANGED att
      BY <1>1, <2>1, <2>3, CallFrame
         DEF CallExact, RetryAction, hostVars, guestVars, ActionInv
    <2> QED
      BY <1>1, <2>2, <2>3 DEF RetryAction
  <1>2. ASSUME NEW c \in Client, PublishAttempt(c)
         PROVE  CallExact'
    BY <1>2, Publication
       DEF PublishAttempt, CallExact, NoCall, NoHelper, Known, Calls,
           Helpers, Records, HelperExact, ClientExact, Calling, Requests,
           ActionInv, guestVars, TypeOK
  <1>3. ASSUME NEW c \in Client, callAction(c)
         PROVE  CallExact'
    <2>1. CASE UNCHANGED queue
      BY <1>3, <2>1, CallFrame DEF callAction, ActionInv, guestVars
    <2>2. CASE queue' = Append(queue, [a |-> op[c].a,
                                       kind |-> Kind(c)]) /\ live
      <3>1. [a |-> op[c].a,
             kind |-> Kind(c)] \in Requests /\ op[c].a \in Known
        BY <1>3
           DEF callAction, ActionInv, ClientExact, Calling, Known, Kind,
               Requests
      <3>2. queue \in Seq(Requests)
        BY DEF ActionInv, TypeOK
      <3>3. \A i \in DOMAIN queue' : queue'[i].a = op[c].a \/ \E j \in DOMAIN queue : queue'[i] = queue[j]
        BY <2>2, <3>1, <3>2, QueueElements
      <3> QED
        BY <1>3, <2>2, <3>1, <3>3
           DEF callAction, CallExact, ActionInv, Known, guestVars
    <2> QED
      BY <1>3, <2>1, <2>2 DEF callAction
  <1>4. ASSUME NEW c \in Client, RecordSuccess(c)
         PROVE  CallExact'
    <2>1. op[c].a \in Known /\ UNCHANGED rec
      BY <1>4 DEF RecordSuccess, ActionInv, ClientExact, Calling
    <2>2. advanceActionAttempt(op[c].a, att[op[c].a].state, "succeeded")
      BY <1>4 DEF RecordSuccess
    <2> QED
      BY <1>4, <2>1, <2>2, Advance
         DEF CallExact, RecordSuccess, hostVars, guestVars, ActionInv, States
  <1>5. ASSUME NEW c \in Client, indeterminateAction(c)
         PROVE  CallExact'
    <2>1. op[c].a \in Known /\ UNCHANGED rec
      BY <1>5 DEF indeterminateAction, ActionInv, ClientExact, Calling
    <2>2. CASE advanceActionAttempt(op[c].a, "reserved", "indeterminate")
      BY <1>5, <2>1, <2>2, Advance
         DEF CallExact, indeterminateAction, hostVars, guestVars, ActionInv,
             States
    <2>3. CASE UNCHANGED att
      BY <1>5, <2>1, <2>3, CallFrame
         DEF CallExact, indeterminateAction, hostVars, guestVars, ActionInv
    <2> QED
      BY <1>5, <2>2, <2>3 DEF indeterminateAction
  <1>6. ASSUME NEW a \in Attempt, SkipAction(a)
         PROVE  CallExact'
    <2>1. a \in Known /\ UNCHANGED rec
      BY <1>6 DEF SkipAction, ActionInv, ClientExact, Calling
    <2>2. advanceActionAttempt(a, att[a].state, "skipped")
      BY <1>6 DEF SkipAction
    <2> QED
      BY <1>6, <2>1, <2>2, Advance
         DEF CallExact, SkipAction, hostVars, guestVars, ActionInv, States
  <1>7. CASE handleControl
    BY <1>7
       DEF handleControl, Answer, Waiting, CallExact, NoCall, NoHelper,
           Known, Calls, Helpers, Records, HelperExact, ClientExact, Calling,
           Requests, ActionInv, TypeOK, hostVars, guestVars
  <1>8. CASE ExpiredRequest
    BY <1>8
       DEF ExpiredRequest, CallExact, NoCall, NoHelper, Known, Calls,
           Helpers, Records, HelperExact, ClientExact, Calling, Requests,
           ActionInv, TypeOK, hostVars, guestVars
  <1>9. CASE runAction
    BY <1>9
       DEF runAction, Answer, Waiting, CallExact, NoCall, NoHelper, Known,
           Calls, Helpers, Records, HelperExact, ClientExact, Calling,
           Requests, ActionInv, TypeOK, hostVars, guestVars
  <1>10. CASE ServerTimeout
    BY <1>10
       DEF ServerTimeout, Answer, Waiting, CallExact, NoCall, NoHelper,
           Known, Calls, Helpers, Records, HelperExact, ClientExact, Calling,
           Requests, ActionInv, TypeOK, hostVars, guestVars
  <1>11. ASSUME NEW h \in Helper, ClaimNew(h)
          PROVE  CallExact'
    <2>1. helper'[h].a = helper[h].a /\ \A g \in Helper \ {h} : helper'[g] = helper[g]
      BY <1>11 DEF ClaimNew, HelperGoto, ActionInv, TypeOK, Helpers
    <2>2. helper[h].pc # "none"
      BY <1>11 DEF ClaimNew
    <2> QED
      BY <1>11, <2>1, <2>2
         DEF ClaimNew, CallExact, Known, ActionInv, hostVars, guestVars,
             NoHelper
  <1>12. ASSUME NEW h \in Helper, ClaimDurable(h)
          PROVE  CallExact'
    <2>1. helper'[h].a = helper[h].a /\ \A g \in Helper \ {h} : helper'[g] = helper[g]
      BY <1>12 DEF ClaimDurable, HelperGoto, ActionInv, TypeOK, Helpers
    <2>2. helper[h].pc # "none"
      BY <1>12 DEF ClaimDurable
    <2> QED
      BY <1>12, <2>1, <2>2
         DEF ClaimDurable, CallExact, Known, ActionInv, hostVars, guestVars,
             NoHelper
  <1>13. ASSUME NEW h \in Helper, ClaimExisting(h)
          PROVE  CallExact'
    <2>1. helper'[h].a = helper[h].a /\ \A g \in Helper \ {h} : helper'[g] = helper[g]
      BY <1>13 DEF ClaimExisting, HelperGoto, ActionInv, TypeOK, Helpers
    <2>2. helper[h].pc # "none"
      BY <1>13 DEF ClaimExisting
    <2> QED
      BY <1>13, <2>1, <2>2
         DEF ClaimExisting, CallExact, Known, ActionInv, hostVars, guestVars,
             NoHelper
  <1>14. ASSUME NEW h \in Helper, RunCommand(h)
          PROVE  CallExact'
    <2>1. helper'[h].a = helper[h].a /\ \A g \in Helper \ {h} : helper'[g] = helper[g]
      BY <1>14 DEF RunCommand, HelperGoto, ActionInv, TypeOK, Helpers
    <2>2. helper[h].pc # "none"
      BY <1>14 DEF RunCommand
    <2> QED
      BY <1>14, <2>1, <2>2
         DEF RunCommand, CallExact, Known, ActionInv, hostVars, guestVars,
             NoHelper
  <1>15. ASSUME NEW h \in Helper, NEW ok \in BOOLEAN, CommandExits(h, ok)
          PROVE  CallExact'
    <2>1. helper'[h].a = helper[h].a /\ \A g \in Helper \ {h} : helper'[g] = helper[g]
      BY <1>15 DEF CommandExits, HelperGoto, ActionInv, TypeOK, Helpers
    <2>2. helper[h].pc # "none"
      BY <1>15 DEF CommandExits
    <2> QED
      BY <1>15, <2>1, <2>2
         DEF CommandExits, CallExact, Known, ActionInv, hostVars, guestVars,
             NoHelper
  <1>16. ASSUME NEW h \in Helper, PublishActionSuccess(h)
          PROVE  CallExact'
    <2>1. helper'[h].a = helper[h].a /\ \A g \in Helper \ {h} : helper'[g] = helper[g]
      BY <1>16
         DEF PublishActionSuccess, HelperGoto, ActionInv, TypeOK, Helpers
    <2>2. helper[h].pc # "none"
      BY <1>16 DEF PublishActionSuccess
    <2> QED
      BY <1>16, <2>1, <2>2
         DEF PublishActionSuccess, CallExact, Known, ActionInv, hostVars,
             guestVars, NoHelper
  <1>17. ASSUME NEW h \in Helper, ReceiptDurable(h)
          PROVE  CallExact'
    <2>1. helper'[h].a = helper[h].a /\ \A g \in Helper \ {h} : helper'[g] = helper[g]
      BY <1>17 DEF ReceiptDurable, HelperGoto, ActionInv, TypeOK, Helpers
    <2>2. helper[h].pc # "none"
      BY <1>17 DEF ReceiptDurable
    <2> QED
      BY <1>17, <2>1, <2>2
         DEF ReceiptDurable, CallExact, Known, ActionInv, hostVars,
             guestVars, NoHelper
  <1>18. ASSUME NEW h \in Helper, HelperExits(h)
          PROVE  CallExact'
    BY <1>18
       DEF HelperExits, CallExact, NoCall, NoHelper, Known, Calls, Helpers,
           Records, HelperExact, ClientExact, Calling, Requests, ActionInv,
           TypeOK, hostVars, guestVars
  <1>19. ASSUME NEW h \in Helper, HelperDies(h)
          PROVE  CallExact'
    <2>1. CASE HelperGoto(h, "error")
      BY <1>19, <2>1, HelperMove
         DEF HelperDies, CallExact, Known, ActionInv, hostVars, guestVars,
             TypeOK, NoHelper
    <2>2. CASE helper' = [helper EXCEPT ![h] = NoHelper] /\ srv.h # h
      BY <1>19, <2>2, ActionAssumption
         DEF HelperDies, CallExact, Known, ActionInv, hostVars, guestVars,
             TypeOK, NoHelper
    <2> QED
      BY <1>19, <2>1, <2>2 DEF HelperDies
  <1>20. CASE GuestReboot
    BY <1>20
       DEF GuestReboot, NoHelpers, Answer, Waiting, CallExact, NoCall,
           NoHelper, Known, Calls, Helpers, Records, HelperExact,
           ClientExact, Calling, Requests, ActionInv, TypeOK, hostVars,
           guestVars
  <1>21. CASE MachineDies
    BY <1>21
       DEF MachineDies, NoHelpers, CallExact, NoCall, NoHelper, Known, Calls,
           Helpers, Records, HelperExact, ClientExact, Calling, Requests,
           ActionInv, TypeOK, hostVars, guestVars
  <1>22. CASE Start
    BY <1>22
       DEF Start, CallExact, NoCall, NoHelper, Known, Calls, Helpers,
           Records, HelperExact, ClientExact, Calling, Requests, ActionInv,
           TypeOK, hostVars, guestVars
  <1>23. CASE StopIntent
    BY <1>23
       DEF StopIntent, CallExact, NoCall, NoHelper, Known, Calls, Helpers,
           Records, HelperExact, ClientExact, Calling, Requests, ActionInv,
           TypeOK, hostVars, guestVars
  <1>24. CASE Stopped
    BY <1>24
       DEF Stopped, NoHelpers, CallExact, NoCall, NoHelper, Known, Calls,
           Helpers, Records, HelperExact, ClientExact, Calling, Requests,
           ActionInv, TypeOK, hostVars, guestVars
  <1>25. CASE RebuildCutover
    BY <1>25
       DEF RebuildCutover, CallExact, NoCall, NoHelper, Known, Calls,
           Helpers, Records, HelperExact, ClientExact, Calling, Requests,
           ActionInv, TypeOK, hostVars, guestVars
  <1>26. CASE UNCHANGED <<rec, live, srv, queue, helper, att>>
    <2> CallExact
      BY DEF ActionInv
    <2> QED
      BY <1>26, CallFrame
  <1> QED
    BY <1>1, <1>2, <1>3, <1>4, <1>5, <1>6, <1>7, <1>8, <1>9, <1>10, <1>11,
       <1>12, <1>13, <1>14, <1>15, <1>16, <1>17, <1>18, <1>19, <1>20, <1>21,
       <1>22, <1>23, <1>24, <1>25, <1>26, ZenonT(60)
       DEF Next, RunAutomaticActions, LoadAutomaticActionPlan, ExecuteAction,
           ReserveActionAttempt, ReserveRefused, CallFails, FreshAfter,
           ClientDies, RebuildRetired, vars, hostVars, guestVars

(* So is their absence.                                                    *)
LEMMA QuietFrame ==
    SettledQuiet /\ UNCHANGED <<rec, srv, queue, helper, att>> => SettledQuiet'
  BY DEF SettledQuiet, Known

(* No step starts work on a settled attempt, or settles one that is worked *)
(* on: the server admits an attempt of the running generation only, and an *)
(* operator skips one only after the machine was reaped (action_owner.go   *)
(* admitOwnerAction, action_skip.go SkipAction).                           *)
LEMMA QuietStep ==
    ActionInv /\ [Next]_vars => SettledQuiet'
  <1> SUFFICES ASSUME ActionInv, [Next]_vars
               PROVE  SettledQuiet'
    OBVIOUS
  <1>1. ASSUME NEW c \in Client, NEW a \in Attempt, RetryAction(c, a)
         PROVE  SettledQuiet'
    <2>1. a \in Known /\ UNCHANGED rec
      BY <1>1 DEF RetryAction, ActionInv, ClientExact, Calling
    <2>2. CASE advanceActionAttempt(a, "reserved", "indeterminate")
      BY <1>1, <2>1, <2>2, Advance, ActionAssumption
         DEF SettledQuiet, CallExact, NoCall, NoHelper,
             actionMatchesStoppedRecord, RetryAction, hostVars, guestVars,
             ActionInv, States
    <2>3. CASE UNCHANGED att
      BY <1>1, <2>1, <2>3, QuietFrame
         DEF SettledQuiet, CallExact, NoCall, NoHelper,
             actionMatchesStoppedRecord, RetryAction, hostVars, guestVars,
             ActionInv
    <2> QED
      BY <1>1, <2>2, <2>3 DEF RetryAction
  <1>2. ASSUME NEW c \in Client, PublishAttempt(c)
         PROVE  SettledQuiet'
    BY <1>2, Publication, ActionAssumption
       DEF PublishAttempt, SettledQuiet, CallExact, NoCall, NoHelper, Known,
           Calls, Helpers, Records, HelperExact, ClientExact, Calling,
           Requests, ActionInv, guestVars, TypeOK
  <1>3. ASSUME NEW c \in Client, callAction(c)
         PROVE  SettledQuiet'
    <2>1. CASE UNCHANGED queue
      BY <1>3, <2>1, QuietFrame DEF callAction, ActionInv, guestVars
    <2>2. CASE queue' = Append(queue, [a |-> op[c].a,
                                       kind |-> Kind(c)]) /\ live
      <3>1. [a |-> op[c].a,
             kind |-> Kind(c)] \in Requests /\ op[c].a \in Known
        BY <1>3
           DEF callAction, ActionInv, ClientExact, Calling, Known, Kind,
               Requests
      <3>2. queue \in Seq(Requests)
        BY DEF ActionInv, TypeOK
      <3>3. \A i \in DOMAIN queue' : queue'[i].a = op[c].a \/ \E j \in DOMAIN queue : queue'[i] = queue[j]
        BY <2>2, <3>1, <3>2, QueueElements
      <3> QED
        BY <1>3, <2>2, <3>1, <3>3
           DEF callAction, SettledQuiet, ClientExact, Calling, Expected,
               ActionInv, Known, guestVars
    <2> QED
      BY <1>3, <2>1, <2>2 DEF callAction
  <1>4. ASSUME NEW c \in Client, RecordSuccess(c)
         PROVE  SettledQuiet'
    <2>1. op[c].a \in Known /\ UNCHANGED rec
      BY <1>4 DEF RecordSuccess, ActionInv, ClientExact, Calling
    <2>2. advanceActionAttempt(op[c].a, att[op[c].a].state, "succeeded")
      BY <1>4 DEF RecordSuccess
    <2> QED
      BY <1>4, <2>1, <2>2, Advance, ActionAssumption
         DEF SettledQuiet, CallExact, NoCall, NoHelper,
             actionMatchesStoppedRecord, RecordSuccess, hostVars, guestVars,
             ActionInv, States
  <1>5. ASSUME NEW c \in Client, indeterminateAction(c)
         PROVE  SettledQuiet'
    <2>1. op[c].a \in Known /\ UNCHANGED rec
      BY <1>5 DEF indeterminateAction, ActionInv, ClientExact, Calling
    <2>2. CASE advanceActionAttempt(op[c].a, "reserved", "indeterminate")
      BY <1>5, <2>1, <2>2, Advance, ActionAssumption
         DEF SettledQuiet, CallExact, NoCall, NoHelper,
             actionMatchesStoppedRecord, indeterminateAction, hostVars,
             guestVars, ActionInv, States
    <2>3. CASE UNCHANGED att
      BY <1>5, <2>1, <2>3, QuietFrame
         DEF SettledQuiet, CallExact, NoCall, NoHelper,
             actionMatchesStoppedRecord, indeterminateAction, hostVars,
             guestVars, ActionInv
    <2> QED
      BY <1>5, <2>2, <2>3 DEF indeterminateAction
  <1>6. ASSUME NEW a \in Attempt, SkipAction(a)
         PROVE  SettledQuiet'
    <2>1. a \in Known /\ UNCHANGED rec
      BY <1>6 DEF SkipAction, ActionInv, ClientExact, Calling
    <2>2. advanceActionAttempt(a, att[a].state, "skipped")
      BY <1>6 DEF SkipAction
    <2> QED
      BY <1>6, <2>1, <2>2, Advance, ActionAssumption
         DEF SettledQuiet, CallExact, NoCall, NoHelper,
             actionMatchesStoppedRecord, SkipAction, hostVars, guestVars,
             ActionInv, States
  <1>7. CASE handleControl
    <2> DEFINE r == Head(queue)
    <2>1. queue \in Seq(Requests) /\ queue # <<>>
      BY <1>7 DEF ActionInv, TypeOK, handleControl
    <2>2. /\ \E j \in DOMAIN queue : r = queue[j]
          /\ \A i \in DOMAIN queue' : \E j \in DOMAIN queue : queue'[i] = queue[j]
      BY <1>7, <2>1, QueueElements DEF handleControl
    <2> HIDE DEF r
    <2>3. CASE UNCHANGED <<helper, srv>>
      BY <1>7, <2>2, <2>3 DEF handleControl, SettledQuiet, ActionInv, Known
    <2>4. CASE /\ admitOwnerActionState(r.a, r.kind) /\ srv'.a = r.a
               /\ \E h \in Helper :
                    helper' = [helper EXCEPT ![h] = [a |-> r.a, pc |-> "claim"]]
      BY <1>7, <2>2, <2>4
         DEF handleControl, SettledQuiet, ActionInv, Known,
             admitOwnerActionState,
             actionMatchesRunningRecord, Expected, TypeOK
    <2> QED
      BY <1>7, <2>3, <2>4 DEF handleControl, r
  <1>8. CASE ExpiredRequest
    <2>1. queue \in Seq(Requests)
      BY <1>8 DEF ActionInv, TypeOK
    <2>2. \A i \in DOMAIN queue' : \E j \in DOMAIN queue : queue'[i] = queue[j]
      BY <1>8, <2>1, QueueElements DEF ExpiredRequest
    <2> QED
      BY <1>8, <2>2
         DEF ExpiredRequest, SettledQuiet, ActionInv, Known, hostVars,
             guestVars
  <1>9. CASE runAction
    BY <1>9, ActionAssumption
       DEF runAction, Answer, Waiting, SettledQuiet, CallExact, NoCall,
           NoHelper, Known, Calls, Helpers, Records, HelperExact,
           ClientExact, Calling, Requests, ActionInv, TypeOK, hostVars,
           guestVars
  <1>10. CASE ServerTimeout
    BY <1>10, ActionAssumption
       DEF ServerTimeout, Answer, Waiting, SettledQuiet, CallExact, NoCall,
           NoHelper, Known, Calls, Helpers, Records, HelperExact,
           ClientExact, Calling, Requests, ActionInv, TypeOK, hostVars,
           guestVars
  <1>11. ASSUME NEW h \in Helper, ClaimNew(h)
          PROVE  SettledQuiet'
    <2>1. helper'[h].a = helper[h].a /\ \A g \in Helper \ {h} : helper'[g] = helper[g]
      BY <1>11 DEF ClaimNew, HelperGoto, ActionInv, TypeOK, Helpers
    <2>2. helper[h].pc # "none"
      BY <1>11 DEF ClaimNew
    <2> QED
      BY <1>11, <2>1, <2>2
         DEF ClaimNew, SettledQuiet, Known, ActionInv, hostVars, guestVars,
             NoHelper
  <1>12. ASSUME NEW h \in Helper, ClaimDurable(h)
          PROVE  SettledQuiet'
    <2>1. helper'[h].a = helper[h].a /\ \A g \in Helper \ {h} : helper'[g] = helper[g]
      BY <1>12 DEF ClaimDurable, HelperGoto, ActionInv, TypeOK, Helpers
    <2>2. helper[h].pc # "none"
      BY <1>12 DEF ClaimDurable
    <2> QED
      BY <1>12, <2>1, <2>2
         DEF ClaimDurable, SettledQuiet, Known, ActionInv, hostVars,
             guestVars, NoHelper
  <1>13. ASSUME NEW h \in Helper, ClaimExisting(h)
          PROVE  SettledQuiet'
    <2>1. helper'[h].a = helper[h].a /\ \A g \in Helper \ {h} : helper'[g] = helper[g]
      BY <1>13 DEF ClaimExisting, HelperGoto, ActionInv, TypeOK, Helpers
    <2>2. helper[h].pc # "none"
      BY <1>13 DEF ClaimExisting
    <2> QED
      BY <1>13, <2>1, <2>2
         DEF ClaimExisting, SettledQuiet, Known, ActionInv, hostVars,
             guestVars, NoHelper
  <1>14. ASSUME NEW h \in Helper, RunCommand(h)
          PROVE  SettledQuiet'
    <2>1. helper'[h].a = helper[h].a /\ \A g \in Helper \ {h} : helper'[g] = helper[g]
      BY <1>14 DEF RunCommand, HelperGoto, ActionInv, TypeOK, Helpers
    <2>2. helper[h].pc # "none"
      BY <1>14 DEF RunCommand
    <2> QED
      BY <1>14, <2>1, <2>2
         DEF RunCommand, SettledQuiet, Known, ActionInv, hostVars, guestVars,
             NoHelper
  <1>15. ASSUME NEW h \in Helper, NEW ok \in BOOLEAN, CommandExits(h, ok)
          PROVE  SettledQuiet'
    <2>1. helper'[h].a = helper[h].a /\ \A g \in Helper \ {h} : helper'[g] = helper[g]
      BY <1>15 DEF CommandExits, HelperGoto, ActionInv, TypeOK, Helpers
    <2>2. helper[h].pc # "none"
      BY <1>15 DEF CommandExits
    <2> QED
      BY <1>15, <2>1, <2>2
         DEF CommandExits, SettledQuiet, Known, ActionInv, hostVars,
             guestVars, NoHelper
  <1>16. ASSUME NEW h \in Helper, PublishActionSuccess(h)
          PROVE  SettledQuiet'
    <2>1. helper'[h].a = helper[h].a /\ \A g \in Helper \ {h} : helper'[g] = helper[g]
      BY <1>16
         DEF PublishActionSuccess, HelperGoto, ActionInv, TypeOK, Helpers
    <2>2. helper[h].pc # "none"
      BY <1>16 DEF PublishActionSuccess
    <2> QED
      BY <1>16, <2>1, <2>2
         DEF PublishActionSuccess, SettledQuiet, Known, ActionInv, hostVars,
             guestVars, NoHelper
  <1>17. ASSUME NEW h \in Helper, ReceiptDurable(h)
          PROVE  SettledQuiet'
    <2>1. helper'[h].a = helper[h].a /\ \A g \in Helper \ {h} : helper'[g] = helper[g]
      BY <1>17 DEF ReceiptDurable, HelperGoto, ActionInv, TypeOK, Helpers
    <2>2. helper[h].pc # "none"
      BY <1>17 DEF ReceiptDurable
    <2> QED
      BY <1>17, <2>1, <2>2
         DEF ReceiptDurable, SettledQuiet, Known, ActionInv, hostVars,
             guestVars, NoHelper
  <1>18. ASSUME NEW h \in Helper, HelperExits(h)
          PROVE  SettledQuiet'
    BY <1>18, ActionAssumption
       DEF HelperExits, SettledQuiet, CallExact, NoCall, NoHelper, Known,
           Calls, Helpers, Records, HelperExact, ClientExact, Calling,
           Requests, ActionInv, TypeOK, hostVars, guestVars
  <1>19. ASSUME NEW h \in Helper, HelperDies(h)
          PROVE  SettledQuiet'
    <2>1. CASE HelperGoto(h, "error")
      BY <1>19, <2>1, HelperMove
         DEF HelperDies, SettledQuiet, Known, ActionInv, hostVars, guestVars,
             TypeOK, NoHelper
    <2>2. CASE helper' = [helper EXCEPT ![h] = NoHelper] /\ srv.h # h
      BY <1>19, <2>2, ActionAssumption
         DEF HelperDies, SettledQuiet, Known, ActionInv, hostVars, guestVars,
             TypeOK, NoHelper
    <2> QED
      BY <1>19, <2>1, <2>2 DEF HelperDies
  <1>20. CASE GuestReboot
    BY <1>20, ActionAssumption
       DEF GuestReboot, NoHelpers, Answer, Waiting, SettledQuiet, CallExact,
           NoCall, NoHelper, Known, Calls, Helpers, Records, HelperExact,
           ClientExact, Calling, Requests, ActionInv, TypeOK, hostVars,
           guestVars
  <1>21. CASE MachineDies
    BY <1>21, ActionAssumption
       DEF MachineDies, NoHelpers, SettledQuiet, CallExact, NoCall, NoHelper,
           Known, Calls, Helpers, Records, HelperExact, ClientExact, Calling,
           Requests, ActionInv, TypeOK, hostVars, guestVars
  <1>22. CASE Start
    BY <1>22, ActionAssumption
       DEF Start, SettledQuiet, CallExact, NoCall, NoHelper, Known, Calls,
           Helpers, Records, HelperExact, ClientExact, Calling, Requests,
           ActionInv, TypeOK, hostVars, guestVars
  <1>23. CASE StopIntent
    BY <1>23, ActionAssumption
       DEF StopIntent, SettledQuiet, CallExact, NoCall, NoHelper, Known,
           Calls, Helpers, Records, HelperExact, ClientExact, Calling,
           Requests, ActionInv, TypeOK, hostVars, guestVars
  <1>24. CASE Stopped
    BY <1>24, ActionAssumption
       DEF Stopped, NoHelpers, SettledQuiet, CallExact, NoCall, NoHelper,
           Known, Calls, Helpers, Records, HelperExact, ClientExact, Calling,
           Requests, ActionInv, TypeOK, hostVars, guestVars
  <1>25. CASE RebuildCutover
    BY <1>25, ActionAssumption
       DEF RebuildCutover, SettledQuiet, CallExact, NoCall, NoHelper, Known,
           Calls, Helpers, Records, HelperExact, ClientExact, Calling,
           Requests, ActionInv, TypeOK, hostVars, guestVars
  <1>26. CASE UNCHANGED <<rec, srv, queue, helper, att>>
    <2> SettledQuiet
      BY DEF ActionInv
    <2> QED
      BY <1>26, QuietFrame
  <1> QED
    BY <1>1, <1>2, <1>3, <1>4, <1>5, <1>6, <1>7, <1>8, <1>9, <1>10, <1>11,
       <1>12, <1>13, <1>14, <1>15, <1>16, <1>17, <1>18, <1>19, <1>20, <1>21,
       <1>22, <1>23, <1>24, <1>25, <1>26, ZenonT(60)
       DEF Next, RunAutomaticActions, LoadAutomaticActionPlan, ExecuteAction,
           ReserveActionAttempt, ReserveRefused, CallFails, FreshAfter,
           ClientDies, RebuildRetired, vars, hostVars, guestVars

(* A helper relies on the same where nothing it speaks about changes.      *)
LEMMA HelperFrame ==
    ASSUME NEW q \in Helper, HelperExact(q),
           UNCHANGED <<helper, att, claim, receipt, runs, ended>>
    PROVE  HelperExact(q)'
  BY DEF HelperExact, Known, Occ

(* The work of an attempt is its own: no other attempt has it, and before  *)
(* its helper runs the command nobody has run it.                          *)
LEMMA WorkIsOwn ==
    ASSUME ActionInv
    PROVE  /\ \A a \in Known : a \in Attempt /\ att[a] \in Attempts /\ Occ(a) \in Occurrence
           /\ \A a, b \in Known : SameWork(Occ(a), Occ(b)) => a = b
           /\ \A a, b \in Known : Occ(a) = Occ(b) => a = b
           /\ \A h \in Helper : helper[h].pc = "run" =>
                 \A p \in Occurrence : SameWork(p, Occ(helper[h].a)) => runs[p] = 0
  <1>1. \A a \in Known : a \in Attempt /\ att[a] \in Attempts
    BY DEF ActionInv, TypeOK, Known
  <1>2. \A a \in Known : Occ(a) \in Occurrence
    BY <1>1 DEF Occ, Occurrence, Attempts
  <1>3. \A a, b \in Known : SameWork(Occ(a), Occ(b)) => a = b
    BY DEF ActionInv, AttemptExact, Occ, SameWork
  <1>4. ASSUME NEW a \in Known, NEW b \in Known, Occ(a) = Occ(b)
        PROVE  a = b
    <2>1. att[a].step = att[b].step /\ att[a].obj = att[b].obj /\ att[a].gen = att[b].gen
      BY <1>4 DEF Occ
    <2> QED
      BY <2>1 DEF ActionInv, AttemptExact, SameWork
  <1>5. ASSUME NEW h \in Helper, helper[h].pc = "run",
               NEW p \in Occurrence, SameWork(p, Occ(helper[h].a)), runs[p] # 0
        PROVE  FALSE
    <2>1. PICK a \in Known : Occ(a) = p /\ \A g \in Helper : helper[g].a = a => helper[g].pc # "run"
      BY <1>5 DEF ActionInv, RunExact
    <2>2. helper[h].a \in Known
      BY <1>5 DEF ActionInv, HelperExact
    <2> QED
      BY <1>3, <1>5, <2>1, <2>2
  <1> QED
    BY <1>1, <1>2, <1>3, <1>4, <1>5

(* No step, its own or another's, takes from a helper what its stage       *)
(* relies on: the claim is created exclusively, and a guest that restarts  *)
(* has no helpers (action_store.go ClaimAction, PublishActionSuccess).     *)
LEMMA HelperStep ==
    ASSUME ActionInv, NEW q \in Helper, [Next]_vars
    PROVE  HelperExact(q)'
  <1>1. ASSUME NEW c \in Client, NEW a \in Attempt, RetryAction(c, a)
         PROVE  HelperExact(q)'
    <2>1. a \in Known /\ UNCHANGED rec
      BY <1>1 DEF RetryAction, ActionInv, ClientExact, Calling
    <2>2. CASE advanceActionAttempt(a, "reserved", "indeterminate")
      BY <1>1, <2>1, <2>2, Advance
         DEF HelperExact, Known, RetryAction, hostVars, guestVars, ActionInv,
             States
    <2>3. CASE UNCHANGED att
      BY <1>1, <2>1, <2>3, HelperFrame
         DEF HelperExact, Known, RetryAction, hostVars, guestVars, ActionInv
    <2> QED
      BY <1>1, <2>2, <2>3 DEF RetryAction
  <1>2. ASSUME NEW c \in Client, PublishAttempt(c)
         PROVE  HelperExact(q)'
    <2>1. /\ \A b \in Known : b \in Known' /\ att'[b] = att[b]
          /\ UNCHANGED <<claim, receipt, helper, runs, ended>>
      BY <1>2, Publication DEF PublishAttempt, guestVars
    <2> QED
      BY <2>1 DEF ActionInv, HelperExact, Occ
  <1>3. ASSUME NEW c \in Client, RecordSuccess(c)
         PROVE  HelperExact(q)'
    <2>1. op[c].a \in Known /\ UNCHANGED rec
      BY <1>3 DEF RecordSuccess, ActionInv, ClientExact, Calling
    <2>2. advanceActionAttempt(op[c].a, att[op[c].a].state, "succeeded")
      BY <1>3 DEF RecordSuccess
    <2> QED
      BY <1>3, <2>1, <2>2, Advance
         DEF HelperExact, Known, RecordSuccess, hostVars, guestVars,
             ActionInv, States
  <1>4. ASSUME NEW c \in Client, indeterminateAction(c)
         PROVE  HelperExact(q)'
    <2>1. op[c].a \in Known /\ UNCHANGED rec
      BY <1>4 DEF indeterminateAction, ActionInv, ClientExact, Calling
    <2>2. CASE advanceActionAttempt(op[c].a, "reserved", "indeterminate")
      BY <1>4, <2>1, <2>2, Advance
         DEF HelperExact, Known, indeterminateAction, hostVars, guestVars,
             ActionInv, States
    <2>3. CASE UNCHANGED att
      BY <1>4, <2>1, <2>3, HelperFrame
         DEF HelperExact, Known, indeterminateAction, hostVars, guestVars,
             ActionInv
    <2> QED
      BY <1>4, <2>2, <2>3 DEF indeterminateAction
  <1>5. ASSUME NEW a \in Attempt, SkipAction(a)
         PROVE  HelperExact(q)'
    <2>1. a \in Known /\ UNCHANGED rec
      BY <1>5 DEF SkipAction, ActionInv, ClientExact, Calling
    <2>2. advanceActionAttempt(a, att[a].state, "skipped")
      BY <1>5 DEF SkipAction
    <2> QED
      BY <1>5, <2>1, <2>2, Advance
         DEF HelperExact, Known, SkipAction, hostVars, guestVars, ActionInv,
             States
  <1>6. CASE handleControl
    <2> DEFINE r == Head(queue)
    <2>1. queue \in Seq(Requests) /\ queue # <<>>
      BY <1>6 DEF ActionInv, TypeOK, handleControl
    <2>2. r.a \in Known /\ UNCHANGED <<att, claim, receipt, runs, ended>>
      BY <1>6, <2>1, QueueElements DEF handleControl, ActionInv, CallExact
    <2> HIDE DEF r
    <2>3. CASE UNCHANGED helper
      BY <2>2, <2>3, HelperFrame DEF ActionInv
    <2>4. CASE \E h \in Helper :
                 /\ helper[h] = NoHelper
                 /\ helper' = [helper EXCEPT ![h] = [a |-> r.a, pc |-> "claim"]]
      <3>1. PICK h \in Helper :
                /\ helper[h] = NoHelper
                /\ helper' = [helper EXCEPT ![h] = [a |-> r.a, pc |-> "claim"]]
        BY <2>4
      <3>2. /\ helper'[h].a = r.a /\ helper'[h].pc = "claim"
            /\ \A g \in Helper \ {h} : helper'[g] = helper[g]
        BY <3>1 DEF ActionInv, TypeOK
      <3> QED
        BY <2>2, <3>2 DEF ActionInv, HelperExact, Working, Known, Occ
    <2> QED
      BY <1>6, <2>3, <2>4 DEF handleControl, r
  <1>7. CASE runAction
    BY <1>7
       DEF runAction, Answer, Waiting, HelperExact, Working, RunExact, Known,
           Occ, NoHelper, Helpers, CallExact, ActionInv, TypeOK, hostVars,
           guestVars
  <1>8. ASSUME NEW h \in Helper, ClaimNew(h)
         PROVE  HelperExact(q)'
    BY <1>8
       DEF ClaimNew, HelperGoto, HelperExact, Working, RunExact, Known, Occ,
           NoHelper, Helpers, CallExact, ActionInv, TypeOK, hostVars,
           guestVars
  <1>9. ASSUME NEW h \in Helper, ClaimDurable(h)
         PROVE  HelperExact(q)'
    BY <1>9
       DEF ClaimDurable, HelperGoto, HelperExact, Working, RunExact, Known,
           Occ, NoHelper, Helpers, CallExact, ActionInv, TypeOK, hostVars,
           guestVars
  <1>10. ASSUME NEW h \in Helper, ClaimExisting(h)
          PROVE  HelperExact(q)'
    BY <1>10
       DEF ClaimExisting, HelperGoto, HelperExact, Working, RunExact, Known,
           Occ, NoHelper, Helpers, CallExact, ActionInv, TypeOK, hostVars,
           guestVars
  <1>11. ASSUME NEW h \in Helper, RunCommand(h)
          PROVE  HelperExact(q)'
    <2> DEFINE a == helper[h].a
    <2>1. /\ helper'[h].a = a /\ helper'[h].pc \in {"command"}
          /\ \A g \in Helper \ {h} : helper'[g] = helper[g]
      BY <1>11 DEF RunCommand, HelperGoto, ActionInv, TypeOK, Helpers
    <2>2. a \in Known /\ a \in Attempt
      BY <1>11 DEF RunCommand, ActionInv, HelperExact, Known
    <2>3. Occ(a) \in Occurrence /\ runs[Occ(a)] = 0
      BY <1>11, <2>2, WorkIsOwn DEF RunCommand, SameWork
    <2>4. /\ runs'[Occ(a)] = 1
          /\ \A p \in Occurrence \ {Occ(a)} : runs'[p] = runs[p]
          /\ UNCHANGED <<att, claim, receipt, ended>>
      BY <1>11, <2>3 DEF RunCommand, ActionInv, TypeOK, hostVars
    <2> HIDE DEF a
    <2>5. CASE q = h
      BY <1>11, <2>1, <2>2, <2>4, <2>5
         DEF RunCommand, ActionInv, HelperExact, Working, Known, Occ, a
    <2>6. CASE q # h
      <3>1. helper[q].pc = "command" => Occ(helper[q].a) # Occ(a) /\ Occ(helper[q].a) \in Occurrence
        BY <1>11, <2>2, <2>6, WorkIsOwn
           DEF RunCommand, ActionInv, HelperExact, Working, a
      <3>2. helper[q].pc = "command" => runs'[Occ(helper[q].a)] = 1
        BY <2>4, <3>1 DEF ActionInv, HelperExact
      <3> QED
        BY <1>11, <2>1, <2>4, <2>6, <3>2
           DEF RunCommand, ActionInv, HelperExact, Working, Known, Occ, a
    <2> QED
      BY <2>5, <2>6
  <1>12. ASSUME NEW h \in Helper, NEW ok \in BOOLEAN, CommandExits(h, ok)
          PROVE  HelperExact(q)'
    BY <1>12
       DEF CommandExits, HelperGoto, HelperExact, Working, RunExact, Known,
           Occ, NoHelper, Helpers, CallExact, ActionInv, TypeOK, hostVars,
           guestVars
  <1>13. ASSUME NEW h \in Helper, PublishActionSuccess(h)
          PROVE  HelperExact(q)'
    <2> DEFINE a == helper[h].a
    <2>1. /\ helper'[h].a = a /\ helper'[h].pc \in {"unlink", "error"}
          /\ \A g \in Helper \ {h} : helper'[g] = helper[g]
      BY <1>13
         DEF PublishActionSuccess, HelperGoto, ActionInv, TypeOK, Helpers
    <2>2. a \in Known /\ a \in Attempt
      BY <1>13 DEF PublishActionSuccess, ActionInv, HelperExact, Known
    <2>3. /\ UNCHANGED <<att, claim, runs, ended>>
          /\ \A b \in Attempt \ {a} : receipt'[b] = receipt[b]
          /\ helper'[h].pc = "unlink" => receipt'[a] = "linked" /\ claim[a] = "exact"
          /\ helper'[h].pc = "error" => receipt' = receipt
      BY <1>13, <2>1, <2>2
         DEF PublishActionSuccess, ActionInv, TypeOK, hostVars, HelperGoto,
             Helpers
    <2> HIDE DEF a
    <2>4. CASE q = h
      BY <1>13, <2>1, <2>2, <2>3, <2>4
         DEF PublishActionSuccess, ActionInv, HelperExact, Working, Known,
             Occ, a
    <2>5. CASE q # h
      <3>1. helper[q].a = a => helper[q].pc \notin Working /\ helper[q].pc # "ok"
        BY <1>13, <2>5
           DEF PublishActionSuccess, ActionInv, HelperExact, Working, a
      <3>2. helper[q].pc # "none" => helper[q].a \in Attempt
        BY DEF ActionInv, HelperExact, Known
      <3> QED
        BY <2>1, <2>3, <2>5, <3>1, <3>2
           DEF ActionInv, HelperExact, Working, Known, Occ
    <2> QED
      BY <2>4, <2>5
  <1>14. ASSUME NEW h \in Helper, ReceiptDurable(h)
          PROVE  HelperExact(q)'
    BY <1>14
       DEF ReceiptDurable, HelperGoto, HelperExact, Working, RunExact, Known,
           Occ, NoHelper, Helpers, CallExact, ActionInv, TypeOK, hostVars,
           guestVars
  <1>15. ASSUME NEW h \in Helper, HelperExits(h)
          PROVE  HelperExact(q)'
    BY <1>15
       DEF HelperExits, HelperExact, Working, RunExact, Known, Occ, NoHelper,
           Helpers, CallExact, ActionInv, TypeOK, hostVars, guestVars
  <1>16. ASSUME NEW h \in Helper, HelperDies(h)
          PROVE  HelperExact(q)'
    <2> DEFINE a == helper[h].a
    <2>1. CASE helper'[h].a = a /\ helper'[h].pc = "error" /\ \A g \in Helper \ {h} : helper'[g] = helper[g]
      BY <1>16, <2>1
         DEF HelperDies, HelperExact, Working, Occ, Known, ActionInv,
             hostVars
    <2>2. CASE helper' = [helper EXCEPT ![h] = NoHelper]
      <3>1. helper'[h] = NoHelper /\ \A g \in Helper \ {h} : helper'[g] = helper[g]
        BY <2>2 DEF ActionInv, TypeOK
      <3>2. helper'[h].a = None /\ helper'[h].pc = "none"
        BY <3>1 DEF NoHelper
      <3> QED
        BY <1>16, <3>1, <3>2
           DEF HelperDies, HelperExact, Working, Occ, Known, ActionInv,
               hostVars
    <2> QED
      BY <1>16, <2>1, <2>2, HelperMove DEF HelperDies, ActionInv
  <1>17. CASE GuestReboot
    BY <1>17
       DEF GuestReboot, NoHelpers, Answer, Waiting, HelperExact, Working,
           RunExact, Known, Occ, NoHelper, Helpers, CallExact, ActionInv,
           TypeOK, hostVars, guestVars
  <1>18. CASE MachineDies
    BY <1>18
       DEF MachineDies, NoHelpers, HelperExact, Working, RunExact, Known,
           Occ, NoHelper, Helpers, CallExact, ActionInv, TypeOK, hostVars,
           guestVars
  <1>19. CASE Stopped
    BY <1>19
       DEF Stopped, NoHelpers, HelperExact, Working, RunExact, Known, Occ,
           NoHelper, Helpers, CallExact, ActionInv, TypeOK, hostVars,
           guestVars
  <1>20. CASE UNCHANGED <<helper, att, claim, receipt, runs, ended>>
    <2> HelperExact(q)
      BY DEF ActionInv
    <2> QED
      BY <1>20, HelperFrame
  <1> QED
    BY <1>1, <1>2, <1>3, <1>4, <1>5, <1>6, <1>7, <1>8, <1>9, <1>10, <1>11,
       <1>12, <1>13, <1>14, <1>15, <1>16, <1>17, <1>18, <1>19, <1>20,
       ZenonT(60)
       DEF Next, RunAutomaticActions, LoadAutomaticActionPlan, ExecuteAction,
           ReserveActionAttempt, ReserveRefused, callAction, CallFails,
           FreshAfter, ClientDies, ExpiredRequest, ServerTimeout, Start,
           StopIntent, RebuildCutover, RebuildRetired, vars, hostVars,
           guestVars

(* So do the started commands.                                             *)
LEMMA RunFrame ==
    RunExact /\ UNCHANGED <<helper, att, claim, receipt, runs, ended>> => RunExact'
  BY DEF RunExact, Known, Occ

(* A started command keeps its durable claim, and a receipt is linked only *)
(* after its command ended well (action_exec.go ExecuteAction).            *)
LEMMA RunStep ==
    ActionInv /\ [Next]_vars => RunExact'
  <1> SUFFICES ASSUME ActionInv, [Next]_vars
               PROVE  RunExact'
    OBVIOUS
  <1>1. ASSUME NEW c \in Client, NEW a \in Attempt, RetryAction(c, a)
         PROVE  RunExact'
    <2>1. a \in Known /\ UNCHANGED rec
      BY <1>1 DEF RetryAction, ActionInv, ClientExact, Calling
    <2>2. CASE advanceActionAttempt(a, "reserved", "indeterminate")
      BY <1>1, <2>1, <2>2, Advance
         DEF RunExact, Known, RetryAction, hostVars, guestVars, ActionInv,
             States
    <2>3. CASE UNCHANGED att
      BY <1>1, <2>1, <2>3, RunFrame
         DEF RunExact, Known, RetryAction, hostVars, guestVars, ActionInv
    <2> QED
      BY <1>1, <2>2, <2>3 DEF RetryAction
  <1>2. ASSUME NEW c \in Client, PublishAttempt(c)
         PROVE  RunExact'
    <2>1. /\ \A b \in Known : b \in Known' /\ att'[b] = att[b] /\ Occ(b)' = Occ(b)
          /\ UNCHANGED <<claim, receipt, helper, runs, ended>>
      BY <1>2, Publication DEF PublishAttempt, guestVars
    <2>2. ASSUME NEW w \in Occurrence, runs[w] # 0
          PROVE  \E b \in Known' : /\ Occ(b)' = w /\ claim'[b] = "exact"
                                   /\ \A g \in Helper : helper'[g].a = b => helper'[g].pc # "run"
      BY <2>1, <2>2 DEF ActionInv, RunExact
    <2>3. \A b \in Attempt : receipt[b] # "none" => b \in Known /\ claim[b] = "exact" /\ Occ(b) \in ended
      BY DEF ActionInv, RunExact
    <2> QED
      BY <2>1, <2>2, <2>3 DEF RunExact
  <1>3. ASSUME NEW c \in Client, RecordSuccess(c)
         PROVE  RunExact'
    <2>1. op[c].a \in Known /\ UNCHANGED rec
      BY <1>3 DEF RecordSuccess, ActionInv, ClientExact, Calling
    <2>2. advanceActionAttempt(op[c].a, att[op[c].a].state, "succeeded")
      BY <1>3 DEF RecordSuccess
    <2> QED
      BY <1>3, <2>1, <2>2, Advance
         DEF RunExact, Known, RecordSuccess, hostVars, guestVars, ActionInv,
             States
  <1>4. ASSUME NEW c \in Client, indeterminateAction(c)
         PROVE  RunExact'
    <2>1. op[c].a \in Known /\ UNCHANGED rec
      BY <1>4 DEF indeterminateAction, ActionInv, ClientExact, Calling
    <2>2. CASE advanceActionAttempt(op[c].a, "reserved", "indeterminate")
      BY <1>4, <2>1, <2>2, Advance
         DEF RunExact, Known, indeterminateAction, hostVars, guestVars,
             ActionInv, States
    <2>3. CASE UNCHANGED att
      BY <1>4, <2>1, <2>3, RunFrame
         DEF RunExact, Known, indeterminateAction, hostVars, guestVars,
             ActionInv
    <2> QED
      BY <1>4, <2>2, <2>3 DEF indeterminateAction
  <1>5. ASSUME NEW a \in Attempt, SkipAction(a)
         PROVE  RunExact'
    <2>1. a \in Known /\ UNCHANGED rec
      BY <1>5 DEF SkipAction, ActionInv, ClientExact, Calling
    <2>2. advanceActionAttempt(a, att[a].state, "skipped")
      BY <1>5 DEF SkipAction
    <2> QED
      BY <1>5, <2>1, <2>2, Advance
         DEF RunExact, Known, SkipAction, hostVars, guestVars, ActionInv,
             States
  <1>6. CASE handleControl
    <2> DEFINE r == Head(queue)
    <2>1. queue \in Seq(Requests) /\ queue # <<>>
      BY <1>6 DEF ActionInv, TypeOK, handleControl
    <2>2. r.a \in Known /\ UNCHANGED <<att, claim, receipt, runs, ended>>
      BY <1>6, <2>1, QueueElements DEF handleControl, ActionInv, CallExact
    <2> HIDE DEF r
    <2>3. CASE UNCHANGED helper
      BY <2>2, <2>3, RunFrame DEF ActionInv
    <2>4. CASE \E h \in Helper :
                 /\ helper[h] = NoHelper
                 /\ helper' = [helper EXCEPT ![h] = [a |-> r.a, pc |-> "claim"]]
      <3>1. PICK h \in Helper :
                /\ helper[h] = NoHelper
                /\ helper' = [helper EXCEPT ![h] = [a |-> r.a, pc |-> "claim"]]
        BY <2>4
      <3>2. /\ helper'[h].a = r.a /\ helper'[h].pc = "claim"
            /\ \A g \in Helper \ {h} : helper'[g] = helper[g]
        BY <3>1 DEF ActionInv, TypeOK
      <3> QED
        BY <2>2, <3>2 DEF ActionInv, RunExact, Known, Occ
    <2> QED
      BY <1>6, <2>3, <2>4 DEF handleControl, r
  <1>7. CASE runAction
    BY <1>7
       DEF runAction, Answer, Waiting, HelperExact, Working, RunExact, Known,
           Occ, NoHelper, Helpers, CallExact, ActionInv, TypeOK, hostVars,
           guestVars
  <1>8. ASSUME NEW h \in Helper, ClaimNew(h)
         PROVE  RunExact'
    BY <1>8
       DEF ClaimNew, HelperGoto, HelperExact, Working, RunExact, Known, Occ,
           NoHelper, Helpers, CallExact, ActionInv, TypeOK, hostVars,
           guestVars
  <1>9. ASSUME NEW h \in Helper, ClaimDurable(h)
         PROVE  RunExact'
    <2> DEFINE a == helper[h].a
    <2>1. /\ helper'[h].a = a /\ helper'[h].pc \in {"run"}
          /\ \A g \in Helper \ {h} : helper'[g] = helper[g]
      BY <1>9 DEF ClaimDurable, HelperGoto, ActionInv, TypeOK, Helpers
    <2>2. a \in Known /\ a \in Attempt
      BY <1>9 DEF ClaimDurable, ActionInv, HelperExact, Known
    <2>3. /\ UNCHANGED <<att, receipt, runs, ended>> /\ claim[a] = "partial"
          /\ claim'[a] = "exact" /\ \A b \in Attempt \ {a} : claim'[b] = claim[b]
      BY <1>9, <2>1, <2>2
         DEF ClaimDurable, ActionInv, TypeOK, hostVars, HelperExact
    <2> HIDE DEF a
    <2>4. \A b \in Known : Occ(b)' = Occ(b) /\ b \in Known' /\ b \in Attempt
      BY <2>3 DEF Occ, Known
    <2>5. ASSUME NEW w \in Occurrence, runs[w] # 0
          PROVE  \E b \in Known' : /\ Occ(b)' = w /\ claim'[b] = "exact"
                                   /\ \A g \in Helper : helper'[g].a = b => helper'[g].pc # "run"
      <3>1. PICK b \in Known : /\ Occ(b) = w /\ claim[b] = "exact"
                               /\ \A g \in Helper : helper[g].a = b => helper[g].pc # "run"
        BY <2>5 DEF ActionInv, RunExact
      <3> QED
        BY <3>1, <2>1, <2>3, <2>4
    <2> QED
      BY <2>2, <2>3, <2>4, <2>5 DEF RunExact, ActionInv, Occ, Known
  <1>10. ASSUME NEW h \in Helper, ClaimExisting(h)
          PROVE  RunExact'
    BY <1>10
       DEF ClaimExisting, HelperGoto, HelperExact, Working, RunExact, Known,
           Occ, NoHelper, Helpers, CallExact, ActionInv, TypeOK, hostVars,
           guestVars
  <1>11. ASSUME NEW h \in Helper, RunCommand(h)
          PROVE  RunExact'
    <2> DEFINE a == helper[h].a
    <2>1. /\ helper'[h].a = a /\ helper'[h].pc \in {"command"}
          /\ \A g \in Helper \ {h} : helper'[g] = helper[g]
      BY <1>11 DEF RunCommand, HelperGoto, ActionInv, TypeOK, Helpers
    <2>2. a \in Known /\ a \in Attempt
      BY <1>11 DEF RunCommand, ActionInv, HelperExact, Known
    <2>3. /\ UNCHANGED <<att, claim, receipt, ended>> /\ claim[a] = "exact"
          /\ \A w \in Occurrence \ {Occ(a)} : runs'[w] = runs[w]
          /\ \A g \in Helper : helper'[g].a = a => helper'[g].pc # "run"
      <3>1. /\ UNCHANGED <<att, claim, receipt, ended>> /\ claim[a] = "exact"
            /\ runs' = [runs EXCEPT ![Occ(a)] = @ + 1] /\ runs \in [Occurrence -> Nat]
        BY <1>11
           DEF RunCommand, ActionInv, TypeOK, hostVars, HelperExact, Working
      <3>2. \A g \in Helper : helper[g].a = a /\ g # h => helper[g].pc # "run"
        BY <1>11 DEF RunCommand, ActionInv, HelperExact, Working
      <3> QED
        BY <2>1, <3>1, <3>2
    <2>4. \A b \in Known : Occ(b)' = Occ(b) /\ b \in Known'
      BY <2>3 DEF Occ, Known
    <2> HIDE DEF a
    <2>5. ASSUME NEW w \in Occurrence, runs'[w] # 0
          PROVE  \E b \in Known' : /\ Occ(b)' = w /\ claim'[b] = "exact"
                                   /\ \A g \in Helper : helper'[g].a = b => helper'[g].pc # "run"
      <3>1. CASE w = Occ(a)
        BY <3>1, <2>2, <2>3, <2>4
      <3>2. CASE w # Occ(a)
        <4>1. PICK b \in Known : /\ Occ(b) = w /\ claim[b] = "exact"
                                 /\ \A g \in Helper : helper[g].a = b => helper[g].pc # "run"
          BY <2>3, <2>5, <3>2 DEF ActionInv, RunExact
        <4> QED
          BY <4>1, <2>1, <2>3, <2>4
      <3> QED
        BY <3>1, <3>2
    <2> QED
      BY <2>3, <2>4, <2>5 DEF RunExact, ActionInv, Occ, Known
  <1>12. ASSUME NEW h \in Helper, NEW ok \in BOOLEAN, CommandExits(h, ok)
          PROVE  RunExact'
    BY <1>12
       DEF CommandExits, HelperGoto, HelperExact, Working, RunExact, Known,
           Occ, NoHelper, Helpers, CallExact, ActionInv, TypeOK, hostVars,
           guestVars
  <1>13. ASSUME NEW h \in Helper, PublishActionSuccess(h)
          PROVE  RunExact'
    <2> DEFINE a == helper[h].a
    <2>1. /\ helper'[h].a = a /\ helper'[h].pc \in {"unlink", "error"}
          /\ \A g \in Helper \ {h} : helper'[g] = helper[g]
      BY <1>13
         DEF PublishActionSuccess, HelperGoto, ActionInv, TypeOK, Helpers
    <2>2. a \in Known /\ a \in Attempt
      BY <1>13 DEF PublishActionSuccess, ActionInv, HelperExact, Known
    <2>3. /\ UNCHANGED <<att, claim, runs, ended>>
          /\ \A b \in Attempt : receipt'[b] = receipt[b] \/ b = a
          /\ claim[a] = "exact" /\ Occ(a) \in ended
      BY <1>13, <2>1, <2>2
         DEF PublishActionSuccess, ActionInv, TypeOK, hostVars, HelperExact,
             Working
    <2> HIDE DEF a
    <2> QED
      BY <2>1, <2>2, <2>3 DEF RunExact, ActionInv, Occ, Known
  <1>14. ASSUME NEW h \in Helper, ReceiptDurable(h)
          PROVE  RunExact'
    <2> DEFINE a == helper[h].a
    <2>1. /\ helper'[h].a = a /\ helper'[h].pc \in {"ok"}
          /\ \A g \in Helper \ {h} : helper'[g] = helper[g]
      BY <1>14 DEF ReceiptDurable, HelperGoto, ActionInv, TypeOK, Helpers
    <2>2. a \in Known /\ a \in Attempt
      BY <1>14 DEF ReceiptDurable, ActionInv, HelperExact, Known
    <2>3. /\ UNCHANGED <<att, claim, runs, ended>>
          /\ \A b \in Attempt : receipt'[b] = receipt[b] \/ b = a
          /\ claim[a] = "exact" /\ Occ(a) \in ended
      BY <1>14, <2>1, <2>2
         DEF ReceiptDurable, ActionInv, TypeOK, hostVars, HelperExact,
             Working, RunExact
    <2> HIDE DEF a
    <2> QED
      BY <2>1, <2>2, <2>3 DEF RunExact, ActionInv, Occ, Known
  <1>15. ASSUME NEW h \in Helper, HelperExits(h)
          PROVE  RunExact'
    BY <1>15
       DEF HelperExits, HelperExact, Working, RunExact, Known, Occ, NoHelper,
           Helpers, CallExact, ActionInv, TypeOK, hostVars, guestVars
  <1>16. ASSUME NEW h \in Helper, HelperDies(h)
          PROVE  RunExact'
    <2>1. CASE HelperGoto(h, "error")
      BY <1>16, <2>1, HelperMove
         DEF HelperDies, RunExact, Occ, Known, ActionInv, hostVars,
             guestVars, TypeOK, NoHelper
    <2>2. CASE helper' = [helper EXCEPT ![h] = NoHelper] /\ srv.h # h
      BY <1>16, <2>2, ActionAssumption
         DEF HelperDies, RunExact, Occ, Known, ActionInv, hostVars,
             guestVars, TypeOK, NoHelper
    <2> QED
      BY <1>16, <2>1, <2>2 DEF HelperDies
  <1>17. CASE GuestReboot
    BY <1>17
       DEF GuestReboot, NoHelpers, Answer, Waiting, HelperExact, Working,
           RunExact, Known, Occ, NoHelper, Helpers, CallExact, ActionInv,
           TypeOK, hostVars, guestVars
  <1>18. CASE MachineDies
    BY <1>18
       DEF MachineDies, NoHelpers, HelperExact, Working, RunExact, Known,
           Occ, NoHelper, Helpers, CallExact, ActionInv, TypeOK, hostVars,
           guestVars
  <1>19. CASE Stopped
    BY <1>19
       DEF Stopped, NoHelpers, HelperExact, Working, RunExact, Known, Occ,
           NoHelper, Helpers, CallExact, ActionInv, TypeOK, hostVars,
           guestVars
  <1>20. CASE UNCHANGED <<helper, att, claim, receipt, runs, ended>>
    <2> RunExact
      BY DEF ActionInv
    <2> QED
      BY <1>20, RunFrame
  <1> QED
    BY <1>1, <1>2, <1>3, <1>4, <1>5, <1>6, <1>7, <1>8, <1>9, <1>10, <1>11,
       <1>12, <1>13, <1>14, <1>15, <1>16, <1>17, <1>18, <1>19, <1>20,
       ZenonT(60)
       DEF Next, RunAutomaticActions, LoadAutomaticActionPlan, ExecuteAction,
           ReserveActionAttempt, ReserveRefused, callAction, CallFails,
           FreshAfter, ClientDies, ExpiredRequest, ServerTimeout, Start,
           StopIntent, RebuildCutover, RebuildRetired, vars, hostVars,
           guestVars

(* And the recorded successes.                                             *)
LEMMA SuccessFrame ==
    SuccessHasReceipt /\ UNCHANGED <<att, claim, receipt>> => SuccessHasReceipt'
  BY DEF SuccessHasReceipt, Known

(* A recorded success keeps its claim and its receipt, and is recorded     *)
(* only after a good answer and a fresh proof of readiness                 *)
(* (action_service.go ExecuteAction).                                      *)
LEMMA SuccessStep ==
    ActionInv /\ SuccessHasReceipt /\ [Next]_vars => SuccessHasReceipt'
  <1> SUFFICES ASSUME ActionInv, SuccessHasReceipt, [Next]_vars
               PROVE  SuccessHasReceipt'
    OBVIOUS
  <1>1. ASSUME NEW c \in Client, NEW a \in Attempt, RetryAction(c, a)
         PROVE  SuccessHasReceipt'
    <2>1. a \in Known /\ UNCHANGED rec
      BY <1>1 DEF RetryAction, ActionInv, ClientExact, Calling
    <2>2. CASE advanceActionAttempt(a, "reserved", "indeterminate")
      BY <1>1, <2>1, <2>2, Advance
         DEF SuccessHasReceipt, ClientExact, RetryAction, hostVars,
             guestVars, ActionInv, States
    <2>3. CASE UNCHANGED att
      BY <1>1, <2>1, <2>3, SuccessFrame
         DEF SuccessHasReceipt, ClientExact, RetryAction, hostVars,
             guestVars, ActionInv
    <2> QED
      BY <1>1, <2>2, <2>3 DEF RetryAction
  <1>2. ASSUME NEW c \in Client, PublishAttempt(c)
         PROVE  SuccessHasReceipt'
    <2>1. /\ Known' = Known \cup {op[c].a} /\ \A b \in Known : att'[b] = att[b]
          /\ att'[op[c].a] = NewAttempt(c)
      BY <1>2, Publication
    <2>2. att'[op[c].a].state = "reserved"
      BY <2>1 DEF NewAttempt
    <2> QED
      BY <1>2, <2>1, <2>2 DEF PublishAttempt, SuccessHasReceipt, guestVars
  <1>3. ASSUME NEW c \in Client, RecordSuccess(c)
         PROVE  SuccessHasReceipt'
    <2>1. op[c].a \in Known /\ UNCHANGED rec
      BY <1>3 DEF RecordSuccess, ActionInv, ClientExact, Calling
    <2>2. advanceActionAttempt(op[c].a, att[op[c].a].state, "succeeded")
      BY <1>3 DEF RecordSuccess
    <2> QED
      BY <1>3, <2>1, <2>2, Advance
         DEF SuccessHasReceipt, ClientExact, RecordSuccess, hostVars,
             guestVars, ActionInv, States
  <1>4. ASSUME NEW c \in Client, indeterminateAction(c)
         PROVE  SuccessHasReceipt'
    <2>1. op[c].a \in Known /\ UNCHANGED rec
      BY <1>4 DEF indeterminateAction, ActionInv, ClientExact, Calling
    <2>2. CASE advanceActionAttempt(op[c].a, "reserved", "indeterminate")
      BY <1>4, <2>1, <2>2, Advance
         DEF SuccessHasReceipt, ClientExact, indeterminateAction, hostVars,
             guestVars, ActionInv, States
    <2>3. CASE UNCHANGED att
      BY <1>4, <2>1, <2>3, SuccessFrame
         DEF SuccessHasReceipt, ClientExact, indeterminateAction, hostVars,
             guestVars, ActionInv
    <2> QED
      BY <1>4, <2>2, <2>3 DEF indeterminateAction
  <1>5. ASSUME NEW a \in Attempt, SkipAction(a)
         PROVE  SuccessHasReceipt'
    <2>1. a \in Known /\ UNCHANGED rec
      BY <1>5 DEF SkipAction, ActionInv, ClientExact, Calling
    <2>2. advanceActionAttempt(a, att[a].state, "skipped")
      BY <1>5 DEF SkipAction
    <2> QED
      BY <1>5, <2>1, <2>2, Advance
         DEF SuccessHasReceipt, ClientExact, SkipAction, hostVars, guestVars,
             ActionInv, States
  <1>6. ASSUME NEW h \in Helper, ClaimNew(h)
         PROVE  SuccessHasReceipt'
    BY <1>6
       DEF ClaimNew, HelperGoto, SuccessHasReceipt, HelperExact, Known,
           Working, ActionInv, TypeOK, hostVars, guestVars
  <1>7. ASSUME NEW h \in Helper, ClaimDurable(h)
         PROVE  SuccessHasReceipt'
    BY <1>7
       DEF ClaimDurable, HelperGoto, SuccessHasReceipt, HelperExact, Known,
           Working, ActionInv, TypeOK, hostVars, guestVars
  <1>8. ASSUME NEW h \in Helper, PublishActionSuccess(h)
         PROVE  SuccessHasReceipt'
    BY <1>8
       DEF PublishActionSuccess, HelperGoto, SuccessHasReceipt, HelperExact,
           Known, Working, ActionInv, TypeOK, hostVars, guestVars
  <1>9. ASSUME NEW h \in Helper, ReceiptDurable(h)
         PROVE  SuccessHasReceipt'
    BY <1>9
       DEF ReceiptDurable, HelperGoto, SuccessHasReceipt, HelperExact, Known,
           Working, ActionInv, TypeOK, hostVars, guestVars
  <1>10. CASE GuestReboot
    BY <1>10
       DEF GuestReboot, NoHelpers, Answer, Waiting, SuccessHasReceipt,
           HelperExact, Known, Working, ActionInv, TypeOK, hostVars,
           guestVars
  <1>11. CASE UNCHANGED <<att, claim, receipt>>
    <2> SuccessHasReceipt
      BY DEF ActionInv
    <2> QED
      BY <1>11, SuccessFrame
  <1> QED
    BY <1>1, <1>2, <1>3, <1>4, <1>5, <1>6, <1>7, <1>8, <1>9, <1>10, <1>11,
       ZenonT(60)
       DEF Next, RunAutomaticActions, LoadAutomaticActionPlan, ExecuteAction,
           ReserveActionAttempt, ReserveRefused, callAction, CallFails,
           FreshAfter, ClientDies, handleControl, ExpiredRequest, runAction,
           ServerTimeout, ClaimExisting, RunCommand, CommandExits,
           HelperExits, HelperDies, MachineDies, Start, StopIntent, Stopped,
           RebuildCutover, RebuildRetired, vars, hostVars, guestVars

(* A client that is left alone relies on the same, since a claim or a      *)
(* receipt that is exact stays so.                                         *)
LEMMA ClientFrame ==
    ASSUME TypeOK, NEW q \in Client, ClientExact(q), op'[q] = op[q],
           UNCHANGED <<rec, att>>, lock' = q <=> lock = q,
           \A a \in Attempt : /\ claim[a] = "exact" => claim'[a] = "exact"
                              /\ receipt[a] = "exact" => receipt'[a] = "exact"
    PROVE  ClientExact(q)'
  BY DEF ClientExact, Known, Settled, SettledBefore, SameWork, NewAttempt, Kind,
         Expected, Calling, Locked

(* A client without the locks relies on nothing.                           *)
LEMMA ClientOut ==
    ASSUME NEW q \in Client, lock' # q, op'[q].pc \notin Locked,
           op'[q].pc = "idle" => op'[q].kind = None,
           op'[q].pc \in {"plan", "exec"} => op'[q].kind = "auto"
    PROVE  ClientExact(q)'
  BY DEF ClientExact, Calling, Locked

(* A client that is answered, or whose call fails, keeps its attempt.      *)
LEMMA ClientCalls ==
    ASSUME ActionInv, NEW q \in Client, op[q].pc \in Calling, op'[q].pc \in Calling,
           op'[q].a = op[q].a, op'[q].kind = op[q].kind, UNCHANGED <<rec, att, lock>>,
           op'[q].pc \in {"fresh", "record"} =>
              claim'[op[q].a] = "exact" /\ receipt'[op[q].a] = "exact"
    PROVE  ClientExact(q)'
  <1>1. ClientExact(q)
    BY DEF ActionInv
  <1> QED
    BY <1>1 DEF ClientExact, Known, Kind, Expected, Calling, Locked

(* While one client has the locks, or nobody has, another one has none.    *)
LEMMA OtherOut ==
    ASSUME ActionInv, NEW c \in Client, NEW q \in Client, q # c, lock \in {c, None},
           op'[q] = op[q], lock' \in {c, None}
    PROVE  ClientExact(q)'
  <1>1. ClientExact(q) /\ lock # q /\ lock' # q
    BY ActionAssumption DEF ActionInv
  <1>2. op[q].pc \notin Locked
    BY <1>1 DEF ClientExact
  <1>3. /\ op[q].pc = "idle" => op[q].kind = None
        /\ op[q].pc \in {"plan", "exec"} => op[q].kind = "auto"
    BY <1>1 DEF ClientExact
  <1> QED
    BY <1>1, <1>2, <1>3, ClientOut

(* The next step of the plan has every earlier step settled.               *)
LEMMA NextIsDue ==
    ASSUME NEW s \in Step, s[1] \in {"once", "startup"} => NextAutomatic(s)
    PROVE  SettledBefore(s)
  <1> SUFFICES ASSUME NEW i \in DOMAIN Automatic, NEW j \in DOMAIN Automatic,
                      Automatic[j] = s, i < j
               PROVE  Settled(Automatic[i])
    BY DEF SettledBefore
  <1>1. PICK n \in PlanAutomaticActions :
           Automatic[n] = s /\ \A m \in PlanAutomaticActions : n <= m
    BY PlanOrder DEF NextAutomatic
  <1>2. n = j
    BY <1>1, PlanOrder DEF PlanAutomaticActions
  <1>3. i \notin PlanAutomaticActions
    BY <1>1, <1>2, PlanOrder
  <1> QED
    BY <1>3 DEF PlanAutomaticActions

(* No step takes from a client what it relies on: the locks keep other     *)
(* clients and the session itself away, and the server answers well only   *)
(* for an exact receipt (action_service.go ExecuteAction, RetryAction).    *)
LEMMA ClientStep ==
    ASSUME ActionInv, NEW q \in Client, [Next]_vars
    PROVE  ClientExact(q)'
  <1>1. ASSUME NEW c \in Client, RunAutomaticActions(c)
         PROVE  ClientExact(q)'
    <2>1. CASE q # c
      <3>1. op'[q] = op[q] /\ ClientExact(q) /\ TypeOK
        BY <1>1, <2>1 DEF RunAutomaticActions, ActionInv, TypeOK
      <3> QED
        BY <1>1, <3>1, ClientFrame DEF RunAutomaticActions, guestVars
    <2>2. CASE q = c
      <3>1. lock # c
        BY <1>1
           DEF RunAutomaticActions, ActionInv, ClientExact, Locked, Calling
      <3>2. op'[c].pc = "plan" /\ op'[c].kind = "auto" /\ lock' = lock
        BY <1>1 DEF RunAutomaticActions, NoOp, ActionInv, TypeOK
      <3> QED
        BY <2>2, <3>1, <3>2, ClientOut DEF Locked, Calling
    <2> QED
      BY <2>1, <2>2
  <1>2. ASSUME NEW c \in Client, LoadAutomaticActionPlan(c)
         PROVE  ClientExact(q)'
    <2>1. lock = None
      BY <1>2 DEF LoadAutomaticActionPlan
    <2>2. \A d \in Client \ {c} : op'[d] = op[d]
      BY <1>2 DEF LoadAutomaticActionPlan, Return, Goto, ActionInv, TypeOK
    <2>3. CASE q # c
      BY <1>2, <2>1, <2>2, <2>3, OtherOut DEF LoadAutomaticActionPlan, Return
    <2>4. CASE q = c
      <3>1. op[c].kind = "auto" /\ op[c] \in Ops /\ lock' # c
        BY <1>2, <2>1, ActionAssumption
           DEF LoadAutomaticActionPlan, ActionInv, ClientExact, TypeOK
      <3>2. CASE op' = [op EXCEPT ![c] = NoOp]
        <4>1. op'[c].pc = "idle" /\ op'[c].kind = None
          BY <3>2 DEF NoOp, ActionInv, TypeOK
        <4> QED
          BY <2>4, <3>1, <4>1, ClientOut DEF Locked, Calling
      <3>3. CASE \E s \in Step : op' = [op EXCEPT ![c].pc = "exec",
                                        ![c].step = s]
        <4>1. op'[c].pc = "exec" /\ op'[c].kind = "auto"
          BY <3>1, <3>3 DEF ActionInv, TypeOK, Ops
        <4> QED
          BY <2>4, <3>1, <4>1, ClientOut DEF Locked, Calling
      <3> QED
        BY <1>2, <3>2, <3>3 DEF LoadAutomaticActionPlan
    <2> QED
      BY <2>3, <2>4
  <1>3. ASSUME NEW c \in Client, NEW s \in Step, ExecuteAction(c, s)
         PROVE  ClientExact(q)'
    <2>1. lock = None
      BY <1>3 DEF ExecuteAction
    <2>2. \A d \in Client \ {c} : op'[d] = op[d]
      BY <1>3 DEF ExecuteAction, Return, Goto, ActionInv, TypeOK
    <2>3. CASE q # c
      BY <1>3, <2>1, <2>2, <2>3, OtherOut DEF ExecuteAction, Return
    <2>4. CASE q = c
      <3>1. CASE op' = [op EXCEPT ![c] = NoOp] /\ UNCHANGED lock
        <4>1. op'[c].pc = "idle" /\ op'[c].kind = None /\ lock' # c
          BY <2>1, <3>1, ActionAssumption DEF NoOp, ActionInv, TypeOK
        <4> QED
          BY <2>4, <4>1, ClientOut DEF Locked, Calling
      <3>2. CASE /\ ExecuteAdmitted(s) /\ lock' = c
                 /\ op' = [op EXCEPT ![c].pc = "reserve", ![c].step = s,
                                     ![c].kind = IF @ = None THEN "run" ELSE @]
        <4>1. SettledBefore(s) /\ rec.st = "running" /\ UNCHANGED <<rec,
           att>>
          BY <1>3, <3>2, NextIsDue DEF ExecuteAdmitted, ExecuteAction
        <4>2. op[c].kind \in {None, "auto"}
          BY <1>3 DEF ExecuteAction, ActionInv, ClientExact
        <4>3. op'[c].pc = "reserve" /\ op'[c].step = s /\ op'[c].kind \in {"auto",
                                                                           "run"}
          BY <3>2, <4>2 DEF ActionInv, TypeOK, Ops
        <4>4. SettledBefore(s)'
          BY <4>1 DEF SettledBefore, Settled, Known
        <4>5. SettledBefore(op[c].step)'
          BY <4>3, <4>4 DEF SettledBefore
        <4> QED
          BY <2>4, <3>2, <4>1, <4>3, <4>5 DEF ClientExact, Locked, Calling
      <3> QED
        BY <1>3, <3>1, <3>2 DEF ExecuteAction
    <2> QED
      BY <2>3, <2>4
  <1>4. ASSUME NEW c \in Client, NEW a \in Attempt, ReserveActionAttempt(c,
                                                                         a)
         PROVE  ClientExact(q)'
    <2>1. lock = c
      BY <1>4
         DEF ReserveActionAttempt, ActionInv, ClientExact, Locked, Calling
    <2>2. \A d \in Client \ {c} : op'[d] = op[d]
      BY <1>4 DEF ReserveActionAttempt, Return, Goto, ActionInv, TypeOK
    <2>3. CASE q # c
      BY <1>4, <2>1, <2>2, <2>3, OtherOut DEF ReserveActionAttempt, Return
    <2>4. CASE q = c
      <3>1. ClientExact(c) /\ op[c] \in Ops /\ UNCHANGED <<rec, att, lock>>
        BY <1>4 DEF ReserveActionAttempt, ActionInv, TypeOK
      <3>2. /\ op'[c].pc = "rename" /\ op'[c].a = a /\ op'[c].step = op[c].step
            /\ op'[c].kind = op[c].kind
        BY <1>4, <3>1 DEF ReserveActionAttempt, ActionInv, TypeOK, Ops
      <3>3. a \in Attempt \ Known /\ \A b \in Known : ~SameWork(att[b],
                                                                NewAttempt(c))
        BY <1>4 DEF ReserveActionAttempt, Known, rejectActionReplay
      <3>4. NewAttempt(c)' = NewAttempt(c) /\ Known' = Known
        BY <3>1, <3>2 DEF NewAttempt, Known
      <3>5. /\ rec.st = "running" /\ op[c].step \in Step
            /\ op[c].kind \in {"auto", "run"}
            /\ SettledBefore(op[c].step)
        BY <1>4, <3>1 DEF ReserveActionAttempt, ClientExact, Locked
      <3>6. SettledBefore(op[c].step)'
        BY <3>1, <3>2, <3>4, <3>5 DEF SettledBefore, Settled
      <3>7. \A b \in Known' : ~SameWork(att'[b], NewAttempt(c)')
        BY <3>1, <3>3, <3>4
      <3>8. op'[c].a \in Attempt \ Known'
        BY <3>2, <3>3, <3>4
      <3> QED
        BY <2>1, <2>4, <3>1, <3>2, <3>5, <3>6, <3>7, <3>8
           DEF ClientExact, Locked, Calling
    <2> QED
      BY <2>3, <2>4
  <1>5. ASSUME NEW c \in Client, NEW a \in Attempt, RetryAction(c, a)
         PROVE  ClientExact(q)'
    <2>1. lock = None
      BY <1>5 DEF RetryAction
    <2>2. \A d \in Client \ {c} : op'[d] = op[d]
      BY <1>5 DEF RetryAction, Return, Goto, ActionInv, TypeOK
    <2>3. CASE q # c
      BY <1>5, <2>1, <2>2, <2>3, OtherOut DEF RetryAction, Return
    <2>4. CASE q = c
      <3>1. /\ op'[c].pc = "send" /\ op'[c].a = a /\ op'[c].kind = "retry" /\ lock' = c
            /\ a \in Known /\ actionMatchesRunningRecord(att[a]) /\ UNCHANGED rec
        BY <1>5 DEF RetryAction, NoOp, ActionInv, TypeOK
      <3>2. CASE advanceActionAttempt(a, "reserved", "indeterminate")
        <4>1. /\ a \in Known' /\ att'[a].state = "indeterminate" /\ att'[a].obj = att[a].obj
              /\ att'[a].gen = att[a].gen
          BY <3>1, <3>2, Advance DEF ActionInv, States
        <4> QED
          BY <2>4, <3>1, <4>1
             DEF ClientExact, Locked, Calling, actionMatchesRunningRecord,
                 Expected, Kind
      <3>3. CASE UNCHANGED att /\ att[a].state = "indeterminate"
        BY <2>4, <3>1, <3>3
           DEF ClientExact, Locked, Calling, actionMatchesRunningRecord,
               Expected, Kind, Known
      <3> QED
        BY <1>5, <3>2, <3>3 DEF RetryAction, Unresolved
    <2> QED
      BY <2>3, <2>4
  <1>6. ASSUME NEW c \in Client, ReserveRefused(c)
         PROVE  ClientExact(q)'
    <2>1. lock = c
      BY <1>6 DEF ReserveRefused, ActionInv, ClientExact, Locked, Calling
    <2>2. \A d \in Client \ {c} : op'[d] = op[d]
      BY <1>6 DEF ReserveRefused, Return, Goto, ActionInv, TypeOK
    <2>3. CASE q # c
      BY <1>6, <2>1, <2>2, <2>3, OtherOut DEF ReserveRefused, Return
    <2>4. CASE q = c
      <3>1. lock' # c /\ op'[c].pc = "idle" /\ op'[c].kind = None
        BY <1>6, <2>1, ActionAssumption
           DEF ReserveRefused, Return, NoOp, ActionInv, TypeOK
      <3> QED
        BY <2>4, <3>1, ClientOut DEF Locked, Calling
    <2> QED
      BY <2>3, <2>4
  <1>7. ASSUME NEW c \in Client, PublishAttempt(c)
         PROVE  ClientExact(q)'
    <2>1. lock = c
      BY <1>7 DEF PublishAttempt, ActionInv, ClientExact, Locked, Calling
    <2>2. \A d \in Client \ {c} : op'[d] = op[d]
      BY <1>7 DEF PublishAttempt, Return, Goto, ActionInv, TypeOK
    <2>3. CASE q # c
      BY <1>7, <2>1, <2>2, <2>3, OtherOut DEF PublishAttempt, Return
    <2>4. CASE q = c
      <3>1. /\ ClientExact(c) /\ op[c] \in Ops /\ UNCHANGED <<rec, lock>>
            /\ op[c].kind \in {"auto", "run"} /\ rec.st = "running"
        BY <1>7 DEF PublishAttempt, ActionInv, TypeOK, ClientExact, Locked
      <3>2. op'[c].pc = "send" /\ op'[c].a = op[c].a /\ op'[c].kind = op[c].kind
        BY <1>7, <3>1 DEF PublishAttempt, Goto, ActionInv, TypeOK, Ops
      <3>3. op[c].a \in Known' /\ att'[op[c].a] = NewAttempt(c)
        BY <1>7, Publication
      <3>4. /\ att'[op[c].a].state = "reserved" /\ att'[op[c].a].obj = rec.obj
            /\ att'[op[c].a].gen = rec.gen
        BY <3>3 DEF NewAttempt
      <3> QED
        BY <2>1, <2>4, <3>1, <3>2, <3>3, <3>4
           DEF ClientExact, Locked, Calling, Expected, Kind
    <2> QED
      BY <2>3, <2>4
  <1>8. ASSUME NEW c \in Client, callAction(c)
         PROVE  ClientExact(q)'
    <2>1. lock = c
      BY <1>8 DEF callAction, ActionInv, ClientExact, Locked, Calling
    <2>2. \A d \in Client \ {c} : op'[d] = op[d]
      BY <1>8 DEF callAction, Return, Goto, ActionInv, TypeOK
    <2>3. CASE q # c
      BY <1>8, <2>1, <2>2, <2>3, OtherOut DEF callAction, Return
    <2>4. CASE q = c
      <3>1. op[c] \in Ops /\ op[c].pc \in Calling /\ UNCHANGED <<rec, att,
         lock>>
        BY <1>8 DEF callAction, ActionInv, TypeOK, Calling
      <3>2. op'[c].pc \in Calling /\ op'[c].a = op[c].a /\ op'[c].kind = op[c].kind
        BY <1>8, <3>1 DEF callAction, Goto, ActionInv, TypeOK, Ops, Calling
      <3>3. op'[c].pc \in {"fresh", "record"} =>
               claim'[op[c].a] = "exact" /\ receipt'[op[c].a] = "exact"
        BY <1>8, <3>1
           DEF callAction, Goto, ActionInv, TypeOK, Ops, ClientExact,
               guestVars
      <3> QED
        BY <2>4, <3>1, <3>2, <3>3, ClientCalls
    <2> QED
      BY <2>3, <2>4
  <1>9. ASSUME NEW c \in Client, CallFails(c)
         PROVE  ClientExact(q)'
    <2>1. lock = c
      BY <1>9 DEF CallFails, ActionInv, ClientExact, Locked, Calling
    <2>2. \A d \in Client \ {c} : op'[d] = op[d]
      BY <1>9 DEF CallFails, Return, Goto, ActionInv, TypeOK
    <2>3. CASE q # c
      BY <1>9, <2>1, <2>2, <2>3, OtherOut DEF CallFails, Return
    <2>4. CASE q = c
      <3>1. op[c] \in Ops /\ op[c].pc \in Calling /\ UNCHANGED <<rec, att,
         lock>>
        BY <1>9 DEF CallFails, ActionInv, TypeOK, Calling
      <3>2. op'[c].pc \in Calling /\ op'[c].a = op[c].a /\ op'[c].kind = op[c].kind
        BY <1>9, <3>1 DEF CallFails, Goto, ActionInv, TypeOK, Ops, Calling
      <3>3. op'[c].pc \in {"fresh", "record"} =>
               claim'[op[c].a] = "exact" /\ receipt'[op[c].a] = "exact"
        BY <1>9, <3>1
           DEF CallFails, Goto, ActionInv, TypeOK, Ops, ClientExact,
               guestVars
      <3> QED
        BY <2>4, <3>1, <3>2, <3>3, ClientCalls
    <2> QED
      BY <2>3, <2>4
  <1>10. ASSUME NEW c \in Client, FreshAfter(c)
          PROVE  ClientExact(q)'
    <2>1. lock = c
      BY <1>10 DEF FreshAfter, ActionInv, ClientExact, Locked, Calling
    <2>2. \A d \in Client \ {c} : op'[d] = op[d]
      BY <1>10 DEF FreshAfter, Return, Goto, ActionInv, TypeOK
    <2>3. CASE q # c
      BY <1>10, <2>1, <2>2, <2>3, OtherOut DEF FreshAfter, Return
    <2>4. CASE q = c
      <3>1. op[c] \in Ops /\ op[c].pc \in Calling /\ UNCHANGED <<rec, att,
         lock>>
        BY <1>10 DEF FreshAfter, ActionInv, TypeOK, Calling
      <3>2. op'[c].pc \in Calling /\ op'[c].a = op[c].a /\ op'[c].kind = op[c].kind
        BY <1>10, <3>1 DEF FreshAfter, Goto, ActionInv, TypeOK, Ops, Calling
      <3>3. op'[c].pc \in {"fresh", "record"} =>
               claim'[op[c].a] = "exact" /\ receipt'[op[c].a] = "exact"
        BY <1>10, <3>1
           DEF FreshAfter, Goto, ActionInv, TypeOK, Ops, ClientExact,
               guestVars
      <3> QED
        BY <2>4, <3>1, <3>2, <3>3, ClientCalls
    <2> QED
      BY <2>3, <2>4
  <1>11. ASSUME NEW c \in Client, RecordSuccess(c)
          PROVE  ClientExact(q)'
    <2>1. lock = c
      BY <1>11 DEF RecordSuccess, ActionInv, ClientExact, Locked, Calling
    <2>2. \A d \in Client \ {c} : op'[d] = op[d]
      BY <1>11 DEF RecordSuccess, Return, Goto, ActionInv, TypeOK
    <2>3. CASE q # c
      BY <1>11, <2>1, <2>2, <2>3, OtherOut DEF RecordSuccess, Return
    <2>4. CASE q = c
      <3>1. CASE Return(c)
        <4>1. lock' # c /\ op'[c].pc = "idle" /\ op'[c].kind = None
          BY <2>1, <3>1, ActionAssumption DEF Return, NoOp, ActionInv, TypeOK
        <4> QED
          BY <2>4, <4>1, ClientOut DEF Locked, Calling
      <3>2. CASE /\ op[c].kind = "auto" /\ lock' = None
                 /\ op' = [op EXCEPT ![c].pc = "plan", ![c].a = None]
        <4>1. lock' # c /\ op'[c].pc = "plan" /\ op'[c].kind = "auto"
          BY <3>2, ActionAssumption DEF ActionInv, TypeOK, Ops
        <4> QED
          BY <2>4, <4>1, ClientOut DEF Locked, Calling
      <3> QED
        BY <1>11, <3>1, <3>2 DEF RecordSuccess
    <2> QED
      BY <2>3, <2>4
  <1>12. ASSUME NEW c \in Client, indeterminateAction(c)
          PROVE  ClientExact(q)'
    <2>1. lock = c
      BY <1>12
         DEF indeterminateAction, ActionInv, ClientExact, Locked, Calling
    <2>2. \A d \in Client \ {c} : op'[d] = op[d]
      BY <1>12 DEF indeterminateAction, Return, Goto, ActionInv, TypeOK
    <2>3. CASE q # c
      BY <1>12, <2>1, <2>2, <2>3, OtherOut DEF indeterminateAction, Return
    <2>4. CASE q = c
      <3>1. lock' # c /\ op'[c].pc = "idle" /\ op'[c].kind = None
        BY <1>12, <2>1, ActionAssumption
           DEF indeterminateAction, Return, NoOp, ActionInv, TypeOK
      <3> QED
        BY <2>4, <3>1, ClientOut DEF Locked, Calling
    <2> QED
      BY <2>3, <2>4
  <1>13. ASSUME NEW c \in Client, ClientDies(c)
          PROVE  ClientExact(q)'
    <2>1. CASE q # c
      <3>1. op'[q] = op[q] /\ ClientExact(q) /\ TypeOK /\ (lock' = q <=> lock = q)
        BY <1>13, <2>1, ActionAssumption
           DEF ClientDies, Return, ActionInv, TypeOK
      <3> QED
        BY <1>13, <3>1, ClientFrame DEF ClientDies, guestVars
    <2>2. CASE q = c
      <3>1. lock' # c /\ op'[c].pc = "idle" /\ op'[c].kind = None
        BY <1>13, ActionAssumption
           DEF ClientDies, Return, NoOp, ActionInv, TypeOK
      <3> QED
        BY <2>2, <3>1, ClientOut DEF Locked, Calling
    <2> QED
      BY <2>1, <2>2
  <1>14. ASSUME NEW a \in Attempt, SkipAction(a)
          PROVE  ClientExact(q)'
    <2>1. ClientExact(q) /\ lock = None /\ UNCHANGED <<op, lock>> /\ None # q
      BY <1>14, ActionAssumption DEF SkipAction, ActionInv
    <2> QED
      BY <2>1, ClientOut DEF ClientExact
  <1>15. CASE handleControl
    <2>1. ClientExact(q) /\ TypeOK /\ op[q] \in Ops /\ UNCHANGED <<rec, att,
       lock, receipt>>
      BY <1>15 DEF handleControl, ActionInv, TypeOK, guestVars
    <2>2. \A a \in Attempt : claim[a] = "exact" => claim'[a] = "exact"
      BY <1>15 DEF handleControl, guestVars
    <2>3. CASE op'[q] = op[q]
      BY <2>1, <2>2, <2>3, ClientFrame
    <2>4. CASE /\ op[q].pc = "wait" /\ op[q].a = Head(queue).a
               /\ op'[q] = [op[q] EXCEPT !.pc = "doubt"]
      <3>1. /\ op'[q].pc = "doubt" /\ op'[q].a = op[q].a /\ op'[q].kind = op[q].kind
        BY <2>1, <2>4 DEF Ops
      <3> QED
        BY <2>1, <2>4, <3>1, ClientCalls DEF Calling
    <2> QED
      BY <1>15, <2>3, <2>4 DEF handleControl, Answer, Waiting
  <1>16. CASE runAction
    <2>1. ClientExact(q) /\ TypeOK /\ op[q] \in Ops /\ UNCHANGED <<rec, att,
       lock, receipt>>
      BY <1>16 DEF runAction, ActionInv, TypeOK, guestVars
    <2>2. \A a \in Attempt : claim[a] = "exact" => claim'[a] = "exact"
      BY <1>16 DEF runAction, guestVars
    <2>3. CASE op'[q] = op[q]
      BY <2>1, <2>2, <2>3, ClientFrame
    <2>4. CASE /\ op[q].pc = "wait" /\ op[q].a = srv.a
               /\ \/ op'[q] = [op[q] EXCEPT !.pc = "doubt"]
                  \/ op'[q] = [op[q] EXCEPT !.pc = "fresh"]
      <3>1. /\ op'[q].pc \in {"doubt",
                              "fresh"} /\ op'[q].a = op[q].a /\ op'[q].kind = op[q].kind
        BY <2>1, <2>4 DEF Ops
      <3>2. op'[q].pc = "fresh" => helper[srv.h].pc = "ok"
        BY <1>16, <2>1, <2>4 DEF runAction, Answer, Waiting, Ops
      <3>3. helper[srv.h].pc = "ok" => claim[srv.a] = "exact" /\ receipt[srv.a] = "exact"
        BY <1>16 DEF runAction, ActionInv, CallExact, HelperExact
      <3> QED
        BY <1>16, <2>1, <2>4, <3>1, <3>2, <3>3, ClientCalls
           DEF runAction, Calling
    <2> QED
      BY <1>16, <2>3, <2>4 DEF runAction, Answer, Waiting
  <1>17. CASE ServerTimeout
    <2>1. ClientExact(q) /\ TypeOK /\ op[q] \in Ops /\ UNCHANGED <<rec, att,
       lock, receipt>>
      BY <1>17 DEF ServerTimeout, ActionInv, TypeOK, guestVars
    <2>2. \A a \in Attempt : claim[a] = "exact" => claim'[a] = "exact"
      BY <1>17 DEF ServerTimeout, guestVars
    <2>3. CASE op'[q] = op[q]
      BY <2>1, <2>2, <2>3, ClientFrame
    <2>4. CASE /\ op[q].pc = "wait" /\ op[q].a = srv.a
               /\ op'[q] = [op[q] EXCEPT !.pc = "doubt"]
      <3>1. /\ op'[q].pc = "doubt" /\ op'[q].a = op[q].a /\ op'[q].kind = op[q].kind
        BY <2>1, <2>4 DEF Ops
      <3> QED
        BY <2>1, <2>4, <3>1, ClientCalls DEF Calling
    <2> QED
      BY <1>17, <2>3, <2>4 DEF ServerTimeout, Answer, Waiting
  <1>18. ASSUME NEW h \in Helper, ClaimNew(h)
          PROVE  ClientExact(q)'
    <2>1. ClientExact(q) /\ TypeOK /\ UNCHANGED <<op, rec, att, lock>>
      BY <1>18 DEF ClaimNew, ActionInv, hostVars
    <2>2. \A a \in Attempt : /\ claim[a] = "exact" => claim'[a] = "exact"
                             /\ receipt[a] = "exact" => receipt'[a] = "exact"
      BY <1>18, <2>1 DEF ClaimNew, TypeOK
    <2> QED
      BY <2>1, <2>2, ClientFrame
  <1>19. ASSUME NEW h \in Helper, ClaimDurable(h)
          PROVE  ClientExact(q)'
    <2>1. ClientExact(q) /\ TypeOK /\ UNCHANGED <<op, rec, att, lock>>
      BY <1>19 DEF ClaimDurable, ActionInv, hostVars
    <2>2. \A a \in Attempt : /\ claim[a] = "exact" => claim'[a] = "exact"
                             /\ receipt[a] = "exact" => receipt'[a] = "exact"
      BY <1>19, <2>1 DEF ClaimDurable, TypeOK
    <2> QED
      BY <2>1, <2>2, ClientFrame
  <1>20. ASSUME NEW h \in Helper, PublishActionSuccess(h)
          PROVE  ClientExact(q)'
    <2>1. ClientExact(q) /\ TypeOK /\ UNCHANGED <<op, rec, att, lock>>
      BY <1>20 DEF PublishActionSuccess, ActionInv, hostVars
    <2>2. \A a \in Attempt : /\ claim[a] = "exact" => claim'[a] = "exact"
                             /\ receipt[a] = "exact" => receipt'[a] = "exact"
      BY <1>20, <2>1 DEF PublishActionSuccess, TypeOK
    <2> QED
      BY <2>1, <2>2, ClientFrame
  <1>21. ASSUME NEW h \in Helper, ReceiptDurable(h)
          PROVE  ClientExact(q)'
    <2>1. ClientExact(q) /\ TypeOK /\ UNCHANGED <<op, rec, att, lock>>
      BY <1>21 DEF ReceiptDurable, ActionInv, hostVars
    <2>2. \A a \in Attempt : /\ claim[a] = "exact" => claim'[a] = "exact"
                             /\ receipt[a] = "exact" => receipt'[a] = "exact"
      BY <1>21, <2>1 DEF ReceiptDurable, TypeOK
    <2> QED
      BY <2>1, <2>2, ClientFrame
  <1>22. CASE GuestReboot
    <2>1. ClientExact(q) /\ TypeOK /\ op[q] \in Ops /\ UNCHANGED <<rec, att,
       lock, receipt>>
      BY <1>22 DEF GuestReboot, ActionInv, TypeOK, guestVars
    <2>2. \A a \in Attempt : claim[a] = "exact" => claim'[a] = "exact"
      BY <1>22 DEF GuestReboot, guestVars
    <2>3. CASE op'[q] = op[q]
      BY <2>1, <2>2, <2>3, ClientFrame
    <2>4. CASE /\ op[q].pc = "wait" /\ op[q].a = srv.a
               /\ op'[q] = [op[q] EXCEPT !.pc = "doubt"]
      <3>1. /\ op'[q].pc = "doubt" /\ op'[q].a = op[q].a /\ op'[q].kind = op[q].kind
        BY <2>1, <2>4 DEF Ops
      <3> QED
        BY <2>1, <2>4, <3>1, ClientCalls DEF Calling
    <2> QED
      BY <1>22, <2>3, <2>4 DEF GuestReboot, Answer, Waiting
  <1>23. CASE Start
    <2>1. ClientExact(q) /\ lock = None /\ UNCHANGED <<op, lock>> /\ None # q
      BY <1>23, ActionAssumption DEF Start, ActionInv
    <2> QED
      BY <2>1, ClientOut DEF ClientExact
  <1>24. CASE StopIntent
    <2>1. ClientExact(q) /\ lock = None /\ UNCHANGED <<op, lock>> /\ None # q
      BY <1>24, ActionAssumption DEF StopIntent, ActionInv
    <2> QED
      BY <2>1, ClientOut DEF ClientExact
  <1>25. CASE Stopped
    <2>1. ClientExact(q) /\ lock = None /\ UNCHANGED <<op, lock>> /\ None # q
      BY <1>25, ActionAssumption DEF Stopped, ActionInv
    <2> QED
      BY <2>1, ClientOut DEF ClientExact
  <1>26. CASE RebuildCutover
    <2>1. ClientExact(q) /\ lock = None /\ UNCHANGED <<op, lock>> /\ None # q
      BY <1>26, ActionAssumption DEF RebuildCutover, ActionInv
    <2> QED
      BY <2>1, ClientOut DEF ClientExact
  <1>27. CASE UNCHANGED <<op, rec, att, lock, claim, receipt>>
    <2> ClientExact(q) /\ TypeOK
      BY DEF ActionInv
    <2> QED
      BY <1>27, ClientFrame
  <1> QED
    BY <1>1, <1>2, <1>3, <1>4, <1>5, <1>6, <1>7, <1>8, <1>9, <1>10, <1>11,
       <1>12, <1>13, <1>14, <1>15, <1>16, <1>17, <1>18, <1>19, <1>20, <1>21,
       <1>22, <1>23, <1>24, <1>25, <1>26, <1>27, ZenonT(60)
       DEF Next, ExpiredRequest, ClaimExisting, RunCommand, CommandExits,
           HelperExits, HelperDies, MachineDies, RebuildRetired, vars,
           hostVars, guestVars

-----------------------------------------------------------------------------
(* A session that has never run has no attempts and nothing under way.     *)
LEMMA InvInit == Init => ActionInv /\ SuccessHasReceipt
  <1> SUFFICES ASSUME Init
               PROVE  ActionInv /\ SuccessHasReceipt
    OBVIOUS
  <1> USE DEF Init
  <1>1. Known = {}
    BY DEF Known
  <1>2. TypeOK
    <2>1. FALSE \in BOOLEAN
      BY Zenon
    <2>2. rebuild \in BOOLEAN /\ live \in BOOLEAN
      BY <2>1
    <2>3. NoOp \in Ops /\ NoCall \in Calls /\ NoHelper \in Helpers
      BY DEF NoOp, Ops, OpPCs, NoCall, Calls, NoHelper, Helpers
    <2>4. rec \in Records /\ faults \in 0..MaxFault
      BY ActionAssumption DEF Records
    <2>5. queue \in Seq(Requests)
      OBVIOUS
    <2> QED
      BY <2>2, <2>3, <2>4, <2>5 DEF TypeOK
  <1>3. SettledQuiet /\ AttemptExact /\ SuccessHasReceipt
    BY <1>1 DEF SettledQuiet, AttemptExact, SuccessHasReceipt
  <1>4. CallExact
    BY DEF CallExact
  <1>5. RunExact
    BY DEF RunExact
  <1>6. \A c \in Client : ClientExact(c)
    BY ActionAssumption DEF ClientExact, NoOp, Locked, Calling
  <1>7. \A h \in Helper : HelperExact(h)
    BY DEF HelperExact, NoHelper, Working
  <1> QED
    BY <1>2, <1>3, <1>4, <1>5, <1>6, <1>7 DEF ActionInv

(* ActionInv: however host commands, the control server, the helpers and   *)
(* the faults interleave, nothing works on a settled attempt and what each *)
(* process relies on holds.                                                *)
THEOREM ActionInvariance == Spec => []ActionInv
  <1>1. ActionInv /\ [Next]_vars => ActionInv'
    <2> SUFFICES ASSUME ActionInv, [Next]_vars
                 PROVE  ActionInv'
      OBVIOUS
    <2>1. TypeOK' /\ SettledQuiet'
      BY TypeStep, QuietStep
    <2>2. AttemptExact' /\ CallExact' /\ RunExact'
      BY AttemptStep, CallStep, RunStep
    <2>3. \A c \in Client : ClientExact(c)'
      BY ClientStep
    <2>4. \A h \in Helper : HelperExact(h)'
      BY HelperStep
    <2> QED
      BY <2>1, <2>2, <2>3, <2>4 DEF ActionInv
  <1> QED
    BY <1>1, InvInit, PTL DEF Spec

(* SuccessHasReceipt: the host records a success only of an attempt whose  *)
(* claim and receipt are exact in the guest.                               *)
THEOREM SuccessIsReceipted == Spec => []SuccessHasReceipt
  BY InvInit, SuccessStep, ActionInvariance, PTL DEF Spec

(* PlanExplained: the planner never meets attempts that contradict each    *)
(* other, whatever was interrupted before.                                 *)
THEOREM PlanIsExplained == Spec => []PlanExplained
  <1>1. ASSUME ActionInv
        PROVE  PlanExplained
    <2>1. ASSUME NEW i \in DOMAIN Automatic, NEW j \in DOMAIN Automatic, i < j,
                 Settled(Automatic[j])
          PROVE  Settled(Automatic[i])
      <3>1. PICK a \in Known : /\ att[a].obj = rec.obj /\ att[a].step = Automatic[j]
                               /\ Automatic[j][1] = "startup" => att[a].gen = rec.gen
        BY <2>1 DEF Settled
      <3>2. Automatic[j][1] \in {"once", "startup"}
        BY PlanOrder
      <3>3. SettledBefore(Automatic[j])
        BY <1>1, <3>1, <3>2 DEF ActionInv, AttemptExact
      <3> QED
        BY <2>1, <3>3 DEF SettledBefore
    <2>2. \A a, b \in Known : a # b => ~SameWork(att[a], att[b])
      BY <1>1 DEF ActionInv, AttemptExact
    <2> QED
      BY <2>1, <2>2 DEF PlanExplained, PlanConflict
  <1> QED
    BY <1>1, ActionInvariance, PTL

-----------------------------------------------------------------------------
(* The refinement of ActionOnce.                                           *)

(* Where no attempt changes, the confirmed and the skipped stay the same.  *)
LEMMA InFrame == UNCHANGED att => \A s : In(s)' = In(s)
  BY DEF In, Known, Occ

(* Where no attempt changes and no command starts or ends, nothing of what *)
(* ActionOnce speaks about happens.                                        *)
LEMMA Stutters ==
    ASSUME UNCHANGED <<att, runs, ended>>
    PROVE  UNCHANGED Promise!vars
  BY InFrame DEF Promise!vars

(* An attempt that is reserved or made indeterminate is neither confirmed  *)
(* nor skipped by it; one that succeeds or is skipped is added.            *)
LEMMA InAdvance ==
    ASSUME ActionInv, NEW a \in Known, NEW e, NEW n \in States,
           advanceActionAttempt(a, e, n), UNCHANGED rec, NEW s \in {"succeeded", "skipped"}
    PROVE  /\ n = s => In(s)' = In(s) \cup {Occ(a)}
           /\ n # s => In(s)' = In(s)
           /\ Occ(a) \notin In(s)
  <1>1. /\ Known' = Known /\ att[a].state \in Unresolved /\ att'[a].state = n
        /\ \A b \in Known \ {a} : att'[b].state = att[b].state
        /\ \A b \in Known : Occ(b)' = Occ(b)
    BY Advance DEF ActionInv
  <1>2. att[a].state # s
    BY <1>1 DEF Unresolved
  <1>3. \A x : x \in In(s) <=> \E b \in Known : att[b].state = s /\ x = Occ(b)
    BY DEF In
  <1>4. \A x : x \in In(s)' <=> \E b \in Known : att'[b].state = s /\ x = Occ(b)
    BY <1>1 DEF In
  <1>5. ASSUME n = s
        PROVE  In(s)' = In(s) \cup {Occ(a)}
    <2>1. \A x : x \in In(s)' <=> x \in In(s) \/ x = Occ(a)
      BY <1>1, <1>3, <1>4, <1>5
    <2> QED
      BY <2>1
  <1>6. ASSUME n # s
        PROVE  In(s)' = In(s)
    <2>1. \A x : x \in In(s)' <=> x \in In(s)
      BY <1>1, <1>2, <1>3, <1>4, <1>6
    <2> QED
      BY <2>1
  <1>7. Occ(a) \notin In(s)
    BY <1>2, <1>3, WorkIsOwn
  <1> QED
    BY <1>5, <1>6, <1>7

(* The command of an attempt is started as ActionOnce allows it: nobody    *)
(* ran the work before or gave it up, and what is due before it is         *)
(* settled.                                                                *)
LEMMA RunAllowed ==
    ASSUME ActionInv, NEW h \in Helper, RunCommand(h)
    PROVE  Promise!Run(Occ(helper[h].a)) /\ Occ(helper[h].a) \in Occurrence
  <1> DEFINE a == helper[h].a
             o == Occ(a)
  <1>1. helper[h].pc = "run" /\ a \in Known /\ UNCHANGED <<att, ended>>
    BY DEF RunCommand, ActionInv, HelperExact, hostVars
  <1>2. o \in Occurrence /\ att[a] \in Attempts
    BY <1>1, WorkIsOwn
  <1>3. \A p \in Occurrence : SameWork(p, o) => runs[p] = 0
    BY <1>1, WorkIsOwn
  <1>4. runs[o] = 0
    BY <1>2, <1>3 DEF SameWork
  <1>5. runs' = [runs EXCEPT ![o] = 1]
    BY <1>2, <1>4 DEF RunCommand, ActionInv, TypeOK
  <1>6. att[a].state # "skipped" /\ att[a].obj = rec.obj /\ att[a].gen = rec.gen
    BY <1>1 DEF ActionInv, SettledQuiet
  <1>7. ASSUME NEW p \in Occurrence, SameWork(p, o), p \in In("skipped")
        PROVE  FALSE
    <2>1. PICK b \in Known : att[b].state = "skipped" /\ p = Occ(b)
      BY <1>7 DEF In
    <2>2. b = a
      BY <1>1, <1>7, <2>1, WorkIsOwn
    <2> QED
      BY <1>6, <2>1, <2>2
  <1>8. ASSUME NEW p \in Occurrence, DueBefore(p, o)
        PROVE  \E q \in In("succeeded") \cup In("skipped") : SameWork(q, p)
    <2>1. o.obj = rec.obj /\ o.gen = rec.gen /\ o.step = att[a].step
      BY <1>6 DEF Occ
    <2>2. p.obj = rec.obj /\ p.gen = rec.gen
      BY <1>8, <2>1 DEF DueBefore
    <2>3. PICK i \in DOMAIN Automatic, j \in DOMAIN Automatic :
             i < j /\ Automatic[i] = p.step /\ Automatic[j] = o.step
      BY <1>8 DEF DueBefore
    <2>4. SettledBefore(att[a].step)
      BY <1>1, <1>6 DEF ActionInv, AttemptExact
    <2>5. Settled(p.step)
      BY <2>1, <2>3, <2>4 DEF SettledBefore
    <2>6. PICK b \in Known : /\ att[b].obj = rec.obj /\ att[b].step = p.step
                             /\ p.step[1] = "startup" => att[b].gen = rec.gen
                             /\ att[b].state \in {"succeeded", "skipped"}
      BY <2>5 DEF Settled
    <2>7. p.step[1] \in {"once", "startup"}
      BY <2>3, PlanOrder
    <2>8. SameWork(Occ(b), p)
      BY <2>2, <2>6, <2>7 DEF SameWork, Occ
    <2>9. Occ(b) \in In("succeeded") \cup In("skipped")
      BY <2>6 DEF In
    <2> QED
      BY <2>8, <2>9
  <1>9. In("succeeded")' = In("succeeded") /\ In("skipped")' = In("skipped")
    BY <1>1, InFrame
  <1> HIDE DEF a, o
  <1>10. Promise!Run(o)
    BY <1>1, <1>3, <1>5, <1>7, <1>8, <1>9 DEF Promise!Run
  <1> QED
    BY <1>2, <1>10 DEF a, o

(* Every step of a process is a step of ActionOnce or changes nothing of   *)
(* what it speaks about.                                                   *)
LEMMA PromiseStep ==
    ActionInv /\ [Next]_vars => [Promise!Next]_(Promise!vars)
  <1> SUFFICES ASSUME ActionInv, [Next]_vars
               PROVE  [Promise!Next]_(Promise!vars)
    OBVIOUS
  <1>1. ASSUME NEW c \in Client, NEW a \in Attempt, RetryAction(c, a)
         PROVE  [Promise!Next]_(Promise!vars)
    <2>1. a \in Known /\ UNCHANGED <<rec, runs, ended>>
      BY <1>1 DEF RetryAction, ActionInv, ClientExact, Calling, guestVars
    <2>2. CASE advanceActionAttempt(a, "reserved", "indeterminate")
      <3>1. In("succeeded")' = In("succeeded") /\ In("skipped")' = In("skipped")
        BY <2>1, <2>2, InAdvance DEF States
      <3> QED
        BY <2>1, <3>1 DEF Promise!vars
    <2>3. CASE UNCHANGED att
      BY <2>1, <2>3, Stutters
    <2> QED
      BY <1>1, <2>2, <2>3 DEF RetryAction
  <1>2. ASSUME NEW c \in Client, PublishAttempt(c)
         PROVE  [Promise!Next]_(Promise!vars)
    <2>1. /\ Known' = Known \cup {op[c].a} /\ \A b \in Known : att'[b] = att[b] /\ Occ(b)' = Occ(b)
          /\ att'[op[c].a] = NewAttempt(c)
      BY <1>2, Publication
    <2>2. att'[op[c].a].state = "reserved"
      BY <2>1 DEF NewAttempt
    <2>3. ASSUME NEW s \in {"succeeded", "skipped"}
          PROVE  In(s)' = In(s)
      <3>1. \A x : x \in In(s)' <=> \E b \in Known : att[b].state = s /\ x = Occ(b)
        BY <2>1, <2>2 DEF In
      <3>2. \A x : x \in In(s) <=> \E b \in Known : att[b].state = s /\ x = Occ(b)
        BY DEF In
      <3> QED
        BY <3>1, <3>2
    <2> QED
      BY <1>2, <2>3 DEF PublishAttempt, guestVars, Promise!vars
  <1>3. ASSUME NEW c \in Client, RecordSuccess(c)
         PROVE  [Promise!Next]_(Promise!vars)
    <2> DEFINE a == op[c].a
    <2>1. a \in Known /\ UNCHANGED <<rec, runs, ended>>
      BY <1>3 DEF RecordSuccess, ActionInv, ClientExact, Calling, guestVars
    <2>2. advanceActionAttempt(a, att[a].state, "succeeded")
      BY <1>3 DEF RecordSuccess
    <2>3. Occ(a) \in ended /\ Occ(a) \in Occurrence
      BY <1>3, <2>1, WorkIsOwn
         DEF RecordSuccess, ActionInv, ClientExact, RunExact
    <2> HIDE DEF a
    <2>4. /\ In("succeeded")' = In("succeeded") \cup {Occ(a)}
          /\ In("skipped")' = In("skipped") /\ Occ(a) \notin In("skipped")
      BY <2>1, <2>2, InAdvance DEF States
    <2>5. Promise!Confirm(Occ(a))
      BY <2>1, <2>3, <2>4 DEF Promise!Confirm
    <2> QED
      BY <2>3, <2>5 DEF Promise!Next
  <1>4. ASSUME NEW c \in Client, indeterminateAction(c)
         PROVE  [Promise!Next]_(Promise!vars)
    <2>1. op[c].a \in Known /\ UNCHANGED <<rec, runs, ended>>
      BY <1>4
         DEF indeterminateAction, ActionInv, ClientExact, Calling, guestVars
    <2>2. CASE advanceActionAttempt(op[c].a, "reserved", "indeterminate")
      <3>1. In("succeeded")' = In("succeeded") /\ In("skipped")' = In("skipped")
        BY <2>1, <2>2, InAdvance DEF States
      <3> QED
        BY <2>1, <3>1 DEF Promise!vars
    <2>3. CASE UNCHANGED att
      BY <2>1, <2>3, Stutters
    <2> QED
      BY <1>4, <2>2, <2>3 DEF indeterminateAction
  <1>5. ASSUME NEW a \in Attempt, SkipAction(a)
         PROVE  [Promise!Next]_(Promise!vars)
    <2>1. a \in Known /\ UNCHANGED <<rec, runs, ended>>
      BY <1>5 DEF SkipAction, guestVars
    <2>2. advanceActionAttempt(a, att[a].state, "skipped")
      BY <1>5 DEF SkipAction
    <2>3. Occ(a) \in Occurrence
      BY <2>1, WorkIsOwn
    <2>4. /\ In("skipped")' = In("skipped") \cup {Occ(a)}
          /\ In("succeeded")' = In("succeeded") /\ Occ(a) \notin In("succeeded")
      BY <2>1, <2>2, InAdvance DEF States
    <2>5. Promise!Skip(Occ(a))
      BY <2>1, <2>4 DEF Promise!Skip
    <2> QED
      BY <2>3, <2>5 DEF Promise!Next
  <1>6. ASSUME NEW h \in Helper, RunCommand(h)
         PROVE  [Promise!Next]_(Promise!vars)
    BY <1>6, RunAllowed DEF Promise!Next
  <1>7. ASSUME NEW h \in Helper, NEW ok \in BOOLEAN, CommandExits(h, ok)
         PROVE  [Promise!Next]_(Promise!vars)
    <2> DEFINE a == helper[h].a
    <2>1. a \in Known /\ runs[Occ(a)] = 1 /\ UNCHANGED <<att, runs>>
      BY <1>7 DEF CommandExits, ActionInv, HelperExact, hostVars
    <2>2. Occ(a) \in Occurrence
      BY <2>1, WorkIsOwn
    <2>3. CASE ended' = ended \cup {Occ(a)}
      <3>1. Promise!End(Occ(a))
        BY <2>1, <2>3, InFrame DEF Promise!End
      <3> QED
        BY <2>2, <3>1 DEF Promise!Next
    <2>4. CASE ended' = ended
      BY <2>1, <2>4, Stutters
    <2> QED
      BY <1>7, <2>3, <2>4 DEF CommandExits
  <1>8. CASE UNCHANGED <<att, runs, ended>>
    BY <1>8, Stutters
  <1> QED
    BY <1>1, <1>2, <1>3, <1>4, <1>5, <1>6, <1>7, <1>8, ZenonT(60)
       DEF Next, RunAutomaticActions, LoadAutomaticActionPlan, ExecuteAction,
           ReserveActionAttempt, ReserveRefused, callAction, CallFails,
           FreshAfter, ClientDies, handleControl, ExpiredRequest, runAction,
           ServerTimeout, ClaimNew, ClaimDurable, ClaimExisting,
           PublishActionSuccess, ReceiptDurable, HelperExits, HelperDies,
           GuestReboot, MachineDies, Start, StopIntent, Stopped,
           RebuildCutover, RebuildRetired, vars, hostVars, guestVars

(* RunsOnce: replays, lost replies, dead processes, reboots and rebuilds   *)
(* notwithstanding, the command of a step runs at most once per system or  *)
(* generation, in order, and only one that ended well is recorded as       *)
(* succeeded (refinement of ActionOnce).                                   *)
THEOREM AttemptsRunOnce == Spec => RunsOnce
  <1>1. ASSUME Init
        PROVE  Promise!Init
    <2>1. Known = {}
      BY <1>1 DEF Init, Known
    <2>2. \A s : In(s) = {}
      BY <2>1 DEF In
    <2> QED
      BY <1>1, <2>2 DEF Init, Promise!Init
  <1> QED
    BY <1>1, PromiseStep, ActionInvariance, PTL DEF Spec, RunsOnce, Promise!Spec
====
