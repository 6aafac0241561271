-------------------------- MODULE TaskOwnerProofs --------------------------
(* Theorems about TaskOwner, for every set of requests, inputs and kinds. *)
EXTENDS TaskOwner, TLAPS

\* Settling a task keeps the types.
LEMMA SettleType ==
  ASSUME TypeOK, NEW r \in Requests, NEW o \in Outcomes, Settle(r, o)
  PROVE  TypeOK'
BY DEF Settle, HandlerOver, TypeOK, Statuses, Outcomes, Points, docVars, ownerVars, history

\* Every step of the owner preserves the types of its variables.
LEMMA TypeStep == TypeOK /\ [Next]_vars => TypeOK'
<1> SUFFICES ASSUME TypeOK, [Next]_vars PROVE TypeOK'
  OBVIOUS
<1> USE OwnerAssumption DEF TypeOK, Statuses, Outcomes, Points
<1>1. ASSUME NEW r \in Requests, Command(r) PROVE TypeOK'
  <2>1. ASSUME NEW i \in Inputs, Submit(r, i) PROVE TypeOK'
    BY <2>1 DEF Submit, runVars, ownerVars
  <2>2. CASE Abort(r)
    BY <2>2 DEF Abort, docVars, runVars, ownerVars, history
  <2>3. CASE Retry(r)
    BY <2>3 DEF Retry, docVars, runVars, ownerVars, history
  <2>4. CASE CancelProduct(r)
    BY <2>4 DEF CancelProduct, taskVars, runVars, ownerVars, history
  <2>5. QED
    BY <1>1, <2>1, <2>2, <2>3, <2>4 DEF Command
<1>2. ASSUME NEW r \in Requests, HandlerStep(r) PROVE TypeOK'
  <2>1. CASE CommitIntent(r)
    BY <2>1 DEF CommitIntent, docVars, ownerVars, history
  <2>2. CASE Launch(r)
    BY <2>2 DEF Launch, docVars, taskVars, ownerVars
  <2>3. CASE Prepared(r)
    BY <2>3 DEF Prepared, Report, docVars, taskVars, ownerVars, history
  <2>4. CASE SessionAnswered(r)
    BY <2>4 DEF SessionAnswered, docVars, taskVars, ownerVars, history
  <2>5. CASE EffectEnds(r)
    BY <2>5 DEF EffectEnds, docVars, taskVars, ownerVars, history
  <2>6. CASE CommitProgress(r)
    BY <2>6 DEF CommitProgress, ownerVars, history
  <2>7. CASE CommitCompleted(r) \/ CommitValidation(r) \/ CommitReconcile(r) \/ CommitFailed(r)
    BY <2>7, SettleType DEF CommitCompleted, CommitValidation, CommitReconcile, CommitFailed
  <2>8. QED
    BY <1>2, <2>1, <2>2, <2>3, <2>4, <2>5, <2>6, <2>7 DEF HandlerStep
<1>3. ASSUME NEW r \in Requests, TaskStart(r) PROVE TypeOK'
  BY <1>3 DEF TaskStart, FirstPoint, docVars, ownerVars, history
<1>4. ASSUME NEW r \in Requests, SessionProgress(r) PROVE TypeOK'
  BY <1>4 DEF SessionProgress, Report, docVars, taskVars, ownerVars, history
<1>5. ASSUME NEW r \in Requests, CommitAborted(r) PROVE TypeOK'
  BY <1>5, SettleType DEF CommitAborted
<1>6. ASSUME NEW r \in Requests, HandlerFails(r) \/ Unwind(r) \/ Refused(r) PROVE TypeOK'
  BY <1>6 DEF HandlerFails, Unwind, Refused, HandlerOver, docVars, taskVars, ownerVars, history
<1>7. CASE Process
  <2>1. CASE Crash
    BY <2>1 DEF Crash, ProcessGone, docVars, taskVars, history
  <2>2. CASE BeginClose
    BY <2>2 DEF BeginClose, docVars, taskVars, runVars, history
  <2>3. CASE FinishClose
    BY <2>3 DEF FinishClose, ProcessGone, docVars, taskVars, history
  <2>4. CASE Reopen
    BY <2>4 DEF Reopen, docVars, runVars, history
  <2>5. QED
    BY <1>7, <2>1, <2>2, <2>3, <2>4 DEF Process
<1>8. CASE UNCHANGED vars
  BY <1>8 DEF vars, docVars, taskVars, runVars, ownerVars, history
<1>9. QED
  BY <1>1, <1>2, <1>3, <1>4, <1>5, <1>6, <1>7, <1>8 DEF Next

\* The variables keep their types in every behaviour of the owner.
THEOREM TypeCorrect == Spec => []TypeOK
<1>1. Init => TypeOK
  BY OwnerAssumption DEF Init, TypeOK, Statuses, Outcomes, Points
<1>2. QED
  BY <1>1, TypeStep, PTL DEF Spec

-----------------------------------------------------------------------------
\* Settling a task that is admitted and not terminal keeps the invariant, if the
\* outcome is one the task's effect and the process's exits justify.
LEMMA SettleStep ==
  ASSUME IInv, NEW r \in Requests, NEW o \in Outcomes \ {"none"}, Settle(r, o),
         Alive, status[r] \in {"pending", "running"},
         IsRender(r) /\ o \in {"result", "failed"} => begun[r] = 1,
         o = "reconcile" => IsRender(r) /\ exits > 0
  PROVE  IInv'
<1> USE DEF IInv
<1>1. TypeOK'
  BY SettleType
<1>2. EntryInv'
  BY DEF EntryInv, Admitted, Settle, HandlerOver, docVars, history, TypeOK, Statuses
<1>3. HandlerInv'
  BY DEF HandlerInv, Alive, Settle, HandlerOver, docVars, ownerVars, TypeOK
<1>4. IntentInv'
  BY DEF IntentInv, IsRender, Admitted, Settle, HandlerOver, docVars, history, TypeOK
<1>5. ExitInv'
  BY DEF ExitInv, Settle, HandlerOver, ownerVars, TypeOK
<1>6. OutcomeInv'
  BY DEF OutcomeInv, IsRender, Admitted, Settle, HandlerOver, docVars, ownerVars, history, TypeOK
<1>7. ToldInv'
  BY DEF ToldInv, Settle, docVars, history
<1>8. QED
  BY <1>1, <1>2, <1>3, <1>4, <1>5, <1>6, <1>7

\* Every step of the owner preserves the invariant.
LEMMA InvStep == IInv /\ [Next]_vars => IInv'
<1> SUFFICES ASSUME IInv, [Next]_vars PROVE IInv'
  OBVIOUS
<1>0. TypeOK /\ TypeOK'
  BY TypeStep DEF IInv
<1> USE <1>0, OwnerAssumption DEF IInv, EntryInv, HandlerInv, IntentInv, ExitInv, OutcomeInv, ToldInv, Admitted, IsRender, Alive
<1>1. ASSUME NEW r \in Requests, Command(r) PROVE IInv'
  <2>1. ASSUME NEW i \in Inputs, Submit(r, i) PROVE IInv'
    BY <2>1 DEF Submit, runVars, ownerVars, TypeOK
  <2>2. CASE Abort(r)
    BY <2>2 DEF Abort, docVars, runVars, ownerVars, history, TypeOK
  <2>3. CASE Retry(r)
    BY <2>3 DEF Retry, docVars, runVars, ownerVars, history, TypeOK
  <2>4. CASE CancelProduct(r)
    BY <2>4 DEF CancelProduct, taskVars, runVars, ownerVars, history, TypeOK
  <2>5. QED
    BY <1>1, <2>1, <2>2, <2>3, <2>4 DEF Command
<1>2. ASSUME NEW r \in Requests, HandlerStep(r) PROVE IInv'
  <2>1. CASE CommitIntent(r)
    BY <2>1 DEF CommitIntent, docVars, ownerVars, history, TypeOK
  <2>2. CASE Launch(r)
    BY <2>2 DEF Launch, RunsSession, docVars, taskVars, ownerVars, TypeOK
  <2>3. CASE Prepared(r)
    BY <2>3 DEF Prepared, Report, docVars, taskVars, ownerVars, history, TypeOK
  <2>4. CASE SessionAnswered(r)
    BY <2>4 DEF SessionAnswered, docVars, taskVars, ownerVars, history, TypeOK
  <2>5. CASE EffectEnds(r)
    BY <2>5 DEF EffectEnds, docVars, taskVars, ownerVars, history, TypeOK
  <2>6. CASE CommitProgress(r)
    BY <2>6 DEF CommitProgress, Accepts, ownerVars, history, TypeOK, Points
  <2>7. CASE CommitCompleted(r) \/ CommitValidation(r) \/ CommitReconcile(r) \/ CommitFailed(r)
    BY <2>7, SettleStep
       DEF CommitCompleted, CommitValidation, CommitReconcile, CommitFailed, Outcomes
  <2>8. QED
    BY <1>2, <2>1, <2>2, <2>3, <2>4, <2>5, <2>6, <2>7 DEF HandlerStep
<1>3. ASSUME NEW r \in Requests, TaskStart(r) PROVE IInv'
  <2> DEFINE p == IF phase[r] = "external" THEN "external" ELSE FirstPoint(r)
  <2>1. pc' = [pc EXCEPT ![r] = p]
    BY <1>3 DEF TaskStart
  <2>2. /\ p \in {"external", "intent", "hold", "launch"}
        /\ (p = "external") <=> (phase[r] = "external")
        /\ p = "intent" => IsRender(r)
        /\ p \in {"hold", "launch"} => ~IsRender(r)
    <3>1. Admitted(r)
      BY <1>3 DEF TaskStart
    <3>2. CASE phase[r] = "external"
      BY <3>2
    <3>3. CASE phase[r] # "external" /\ Kind[inputJson[r]] = "song-render"
      BY <3>1, <3>3 DEF FirstPoint
    <3>4. CASE phase[r] # "external" /\ Kind[inputJson[r]] # "song-render"
      BY <3>4 DEF FirstPoint
    <3>5. QED
      BY <3>2, <3>3, <3>4
  <2> HIDE DEF p
  <2>3. QED
    <3>1. HandlerInv' /\ ExitInv'
      BY <1>3, <2>1, <2>2 DEF TaskStart, docVars, ownerVars, history, TypeOK
    <3>2. IntentInv'
      <4>1. UNCHANGED <<inputJson, phase, begun, queue>>
        BY <1>3 DEF TaskStart, docVars, history
      <4>2. pc'[r] = p /\ \A q \in Requests \ {r} : pc'[q] = pc[q]
        BY <2>1 DEF TypeOK
      <4>3. begun[r] \in Nat /\ queue \in [Requests -> Nat]
        BY DEF TypeOK
      <4>4. QED
        BY <2>2, <4>1, <4>2, <4>3
    <3>3. EntryInv' /\ OutcomeInv' /\ ToldInv'
      BY <1>3, <2>1 DEF TaskStart, docVars, ownerVars, history, TypeOK
    <3>4. QED
      BY <3>1, <3>2, <3>3
<1>4. ASSUME NEW r \in Requests, SessionProgress(r) PROVE IInv'
  BY <1>4 DEF SessionProgress, Report, docVars, taskVars, ownerVars, history, TypeOK
<1>5. ASSUME NEW r \in Requests, CommitAborted(r) PROVE IInv'
  BY <1>5, SettleStep DEF CommitAborted, Outcomes
<1>6. ASSUME NEW r \in Requests, HandlerFails(r) \/ Unwind(r) \/ Refused(r) PROVE IInv'
  <2>1. CASE HandlerFails(r)
    BY <2>1 DEF HandlerFails, docVars, taskVars, ownerVars, history, TypeOK
  <2>2. CASE Unwind(r)
    BY <2>2 DEF Unwind, HandlerOver, docVars, taskVars, ownerVars, history, TypeOK
  <2>3. CASE Refused(r)
    BY <2>3 DEF Refused, docVars, taskVars, ownerVars, history, TypeOK
  <2>4. QED
    BY <1>6, <2>1, <2>2, <2>3
<1>7. CASE Process
  <2>1. CASE Crash
    BY <2>1 DEF Crash, ProcessGone, docVars, taskVars, history, TypeOK
  <2>2. CASE BeginClose
    BY <2>2 DEF BeginClose, docVars, taskVars, runVars, history, TypeOK
  <2>3. CASE FinishClose
    BY <2>3 DEF FinishClose, ProcessGone, docVars, taskVars, history, TypeOK
  <2>4. CASE Reopen
    BY <2>4 DEF Reopen, docVars, runVars, history, TypeOK
  <2>5. QED
    BY <1>7, <2>1, <2>2, <2>3, <2>4 DEF Process
<1>8. CASE UNCHANGED vars
  BY <1>8 DEF vars, docVars, taskVars, runVars, ownerVars, history
<1>9. QED
  BY <1>1, <1>2, <1>3, <1>4, <1>5, <1>6, <1>7, <1>8 DEF Next

\* The invariant holds in every behaviour of the owner.
THEOREM Invariance == Spec => []IInv
<1>1. Init => IInv
  <2>1. Init => TypeOK
    BY OwnerAssumption DEF Init, TypeOK, Statuses, Outcomes, Points
  <2>2. QED
    BY <2>1, OwnerAssumption
       DEF Init, IInv, EntryInv, HandlerInv, IntentInv, ExitInv, OutcomeInv, ToldInv,
           Admitted, IsRender, Alive
<1>2. QED
  BY <1>1, InvStep, PTL DEF Spec

-----------------------------------------------------------------------------
\* However often the process exits and the task is restarted, aborted or
\* retried, the external render of a song begins at most once.
THEOREM AtMostOnce == Spec => []RenderAtMostOnce
<1>1. IInv => RenderAtMostOnce
  BY DEF IInv, IntentInv, RenderAtMostOnce
<1>2. QED
  BY <1>1, Invariance, PTL

\* A render reported as done began, and "needs manual reconciliation" is
\* reported only of a render that an exit of the process may have interrupted.
THEOREM Honest == Spec => []HonestOutcome
<1>1. IInv => HonestOutcome
  BY DEF IInv, OutcomeInv, HonestOutcome
<1>2. QED
  BY <1>1, Invariance, PTL

\* An acknowledged submission stays bound to its input and to one native task.
THEOREM Idempotent == Spec => []ToldIsBound
<1>1. IInv => ToldIsBound
  BY OwnerAssumption DEF IInv, TypeOK, ToldInv, EntryInv, Admitted, ToldIsBound
<1>2. QED
  BY <1>1, Invariance, PTL

\* A task that used up its restarts does not run until it is retried.
THEOREM BoundedRestarts == Spec => []RestartBudget
<1>1. IInv => RestartBudget
  BY DEF IInv, HandlerInv, RestartBudget
<1>2. QED
  BY <1>1, Invariance, PTL

\* A terminal task has no handler.  What a handler left in its queue is refused,
\* by the assumption Accepts on the runtime, and a repeated Submit finds the entry.
THEOREM Final == Spec => SettledIsFinal
<1> DEFINE Fixed(r) == /\ status'[r] = status[r] /\ outcome'[r] = outcome[r]
                      /\ progress'[r] = progress[r] /\ begun'[r] = begun[r]
<1>1. ASSUME IInv, [Next]_vars, NEW q \in Requests, status[q] = "terminal"
      PROVE  Fixed(q)
  <2> USE <1>1 DEF IInv, EntryInv, HandlerInv, Admitted, TypeOK
  <2>1. pc[q] = "idle" /\ ~Accepts(q) /\ Admitted(q) /\ ~parked[q]
    BY DEF Accepts
  <2>2. ASSUME NEW r \in Requests, Command(r) PROVE Fixed(q)
    BY <2>1, <2>2 DEF Command, Submit, Abort, Retry, CancelProduct, docVars, taskVars, history
  <2>3. ASSUME NEW r \in Requests, HandlerStep(r) PROVE Fixed(q)
    BY <2>1, <2>3
       DEF HandlerStep, CommitIntent, Launch, Prepared, SessionAnswered, EffectEnds,
           CommitProgress, CommitCompleted, CommitValidation, CommitReconcile, CommitFailed,
           Settle,
           docVars, taskVars, history
  <2>4. ASSUME NEW r \in Requests,
               TaskStart(r) \/ SessionProgress(r) \/ HandlerFails(r) \/ Unwind(r)
                 \/ CommitAborted(r) \/ Refused(r)
        PROVE  Fixed(q)
    BY <2>1, <2>4 DEF TaskStart, SessionProgress, HandlerFails, Unwind, CommitAborted, Refused,
                     Settle, docVars, taskVars, history
  <2>5. CASE Process
    BY <2>1, <2>5 DEF Process, Crash, BeginClose, FinishClose, Reopen, docVars, taskVars, history
  <2>6. CASE UNCHANGED vars
    BY <2>6 DEF vars, docVars, taskVars, history
  <2>7. QED
    BY <2>2, <2>3, <2>4, <2>5, <2>6 DEF Next
<1>2. ASSUME IInv, [Next]_vars
      PROVE  [\A r \in Requests : status[r] = "terminal" =>
                /\ Get(r)' = Get(r)
                /\ progress'[r] = progress[r]
                /\ begun'[r] = begun[r]]_vars
  BY <1>1, <1>2 DEF Get
<1>3. QED
  BY <1>2, Invariance, PTL DEF Spec, SettledIsFinal

-----------------------------------------------------------------------------
\* The owner implements its contract.
THEOREM Refinement == Spec => ContractSpec
<1> DEFINE renders == [r \in Requests |-> IF IsRender(r) THEN begun[r] ELSE 0]
<1>1. Init => Contract!Init
  BY DEF Init, Contract!Init, IsRender, Admitted
<1>2. ASSUME IInv, IInv', [Next]_vars PROVE [Contract!Next]_(Contract!contractVars)
  <2> USE <1>2, OwnerAssumption
      DEF IInv, TypeOK, EntryInv, HandlerInv, IntentInv, OutcomeInv, Admitted, IsRender
  <2> SUFFICES Contract!Next \/ UNCHANGED Contract!contractVars
    OBVIOUS
  <2>1. ASSUME NEW r \in Requests, NEW i \in Inputs, Submit(r, i)
        PROVE  Contract!Next \/ UNCHANGED Contract!contractVars
    <3>1. CASE inputJson[r] = None
      <4>1. renders' = renders
        BY <2>1, <3>1 DEF Submit
      <4>2. Contract!Accept(r, i)
        BY <2>1, <3>1, <4>1 DEF Submit, Contract!Accept
      <4>3. QED
        BY <4>2 DEF Contract!Next
    <3>2. CASE inputJson[r] = i
      BY <2>1, <3>2 DEF Submit, Contract!contractVars
    <3>3. QED
      BY <2>1, <3>1, <3>2 DEF Submit
  <2>2. ASSUME NEW r \in Requests, Launch(r)
        PROVE  Contract!Next \/ UNCHANGED Contract!contractVars
    <3>0. UNCHANGED <<inputJson, outcome>>
      BY <2>2 DEF Launch, docVars, taskVars
    <3>1. CASE IsRender(r)
      <4>1. renders' = [renders EXCEPT ![r] = 1] /\ renders[r] = 0
        <5>1. begun[r] = 0 /\ begun' = [begun EXCEPT ![r] = 1]
          BY <2>2, <3>1 DEF Launch, RunsSession
        <5>2. \A q \in Requests : IsRender(q)' <=> IsRender(q)
          BY <3>0
        <5>3. renders' = [q \in Requests |-> IF IsRender(q) THEN begun'[q] ELSE 0]
          BY <5>2
        <5>4. \A q \in Requests : renders'[q] = [renders EXCEPT ![r] = 1][q]
          BY <3>1, <5>1, <5>3
        <5>5. QED
          <6> HIDE DEF renders, IsRender, IInv, TypeOK, EntryInv, HandlerInv, IntentInv, OutcomeInv
          <6>1. renders' = [q \in Requests |-> renders'[q]]
            BY <5>3
          <6>2. [renders EXCEPT ![r] = 1] = [q \in Requests |-> [renders EXCEPT ![r] = 1][q]]
            BY DEF renders
          <6>3. renders' = [renders EXCEPT ![r] = 1]
            BY <5>4, <6>1, <6>2
          <6>4. renders[r] = 0
            BY <5>1 DEF renders
          <6>5. QED
            BY <6>3, <6>4
      <4>2. outcome[r] = "none"
        BY <2>2 DEF Launch
      <4>3. Contract!BeginRender(r)
        BY <3>0, <3>1, <4>1, <4>2 DEF Contract!BeginRender, Contract!Renders
      <4>4. QED
        BY <4>3 DEF Contract!Next
    <3>2. CASE ~IsRender(r)
      BY <2>2, <3>0, <3>2 DEF Launch, Contract!contractVars
    <3>3. QED
      BY <3>1, <3>2
  <2>3. ASSUME NEW r \in Requests, NEW o \in Outcomes \ {"none"}, Settle(r, o),
               status[r] \in {"pending", "running"}
        PROVE  Contract!Next
    <3>1. /\ outcome[r] = "none" /\ inputJson[r] # None
          /\ outcome' = [outcome EXCEPT ![r] = o]
          /\ UNCHANGED <<inputJson, begun>>
      BY <2>3 DEF Settle, docVars, history
    <3>2. outcome'[r] = o
      BY <3>1
    <3>3. Contract!Decide(r, o)
      BY <3>1, <3>2 DEF Contract!Decide, Contract!Renders
    <3>4. QED
      BY <3>3 DEF Contract!Next, Contract!Verdicts, Outcomes
  <2>4. ASSUME NEW r \in Requests,
               \/ CommitCompleted(r) \/ CommitValidation(r) \/ CommitReconcile(r)
               \/ CommitFailed(r) \/ CommitAborted(r)
        PROVE  Contract!Next
    BY <2>3, <2>4 DEF CommitCompleted, CommitValidation, CommitReconcile, CommitFailed,
                     CommitAborted, Outcomes
  <2>5. ASSUME NEW r \in Requests,
               \/ Abort(r) \/ Retry(r) \/ CancelProduct(r) \/ TaskStart(r) \/ CommitIntent(r)
               \/ Prepared(r) \/ SessionAnswered(r) \/ EffectEnds(r) \/ CommitProgress(r)
               \/ SessionProgress(r) \/ HandlerFails(r) \/ Unwind(r) \/ Refused(r)
        PROVE  UNCHANGED Contract!contractVars
    BY <2>5 DEF Abort, Retry, CancelProduct, TaskStart, CommitIntent, Prepared, SessionAnswered,
                EffectEnds, CommitProgress, SessionProgress, HandlerFails, Unwind, Refused,
                HandlerOver, docVars, taskVars, history, Contract!contractVars
  <2>6. CASE Process
    BY <2>6 DEF Process, Crash, BeginClose, FinishClose, Reopen, docVars, taskVars, history,
                Contract!contractVars
  <2>7. CASE UNCHANGED vars
    BY <2>7 DEF vars, docVars, taskVars, history, Contract!contractVars
  <2>8. QED
    BY <2>1, <2>2, <2>4, <2>5, <2>6, <2>7 DEF Next, Command, HandlerStep
<1>3. QED
  BY <1>1, <1>2, Invariance, PTL DEF Spec, ContractSpec, Contract!Spec

=============================================================================
