-------------------------- MODULE CapabilityProofs --------------------------
(***************************************************************************)
(* Proofs about Capability: the authority accepts only what a privileged   *)
(* executor has completed, and once a request; and the record and the task *)
(* of a request agree where its id is used once.  And about Membrane: the  *)
(* manager cannot tell it from any other executor, and what it completes   *)
(* is allowed and bounded.                                                 *)
(***************************************************************************)
EXTENDS Membrane, SequenceTheorems, TLAPS

Early == {"idle", "recorded", "created", "begun"}

\* What a call has come to tells what it has done.
Stage(c) ==
    /\ ~At(c, "idle") => Req(c) \in Request
    /\ call[c].step \in Early => call[c].ran = None /\ call[c].result = "none"
    /\ At(c, "selecting") => call[c].ran \in Executor /\ call[c].result = "none"
    /\ call[c].result = "completed" =>
         executor[c] = "completed" /\ call[c].ran \in Executor
    /\ call[c].ran # None => entries[CapabilityID[Req(c)]] = call[c].ran
    /\ At(c, "admitted") =>
         call[c].result = "completed" /\ Mutating(call[c].ran)

\* A call is accepted when it is done.
Earned(c) ==
    /\ At(c, "done") /\ call[c].result = "completed" /\ Mutating(call[c].ran)

IdsOnce ==
    \A m, n \in DOMAIN history :
        ProposedID(history[m]) = ProposedID(history[n]) => m = n

Inv ==
    /\ TypeOK
    /\ \A c \in Call : Stage(c)
    /\ \A n \in DOMAIN history : Earned(history[n])
    /\ IdsOnce

USE DEF At, Req, Rid

LEMMA InitInv == Init => Inv
<1> SUFFICES ASSUME Init PROVE Inv
  OBVIOUS
<1> USE DEF Init, Idle
<1>1. TypeOK
  BY DEF TypeOK, CallState, Steps, Kinds, Results, Outcomes
<1>2. \A c \in Call : Stage(c)
  BY DEF Stage, Early
<1>3. DOMAIN history = {}
  OBVIOUS
<1> QED
  BY <1>1, <1>2, <1>3 DEF Inv, IdsOnce

-----------------------------------------------------------------------------
\* Moving a call on, alone or with one more of its fields, keeps its type.
LEMMA StepTyped ==
    ASSUME NEW f \in [Call -> CallState], NEW c \in Call, NEW s \in Steps
    PROVE  [f EXCEPT ![c].step = s] \in [Call -> CallState]
  BY DEF CallState

LEMMA ResultTyped ==
    ASSUME NEW f \in [Call -> CallState], NEW c \in Call, NEW s \in Steps,
           NEW r \in Results
    PROVE  [f EXCEPT ![c].step = s, ![c].result = r] \in [Call -> CallState]
<1>1. [f[c] EXCEPT !.step = s, !.result = r] \in CallState
  BY DEF CallState
<1>2. [f EXCEPT ![c].step = s, ![c].result = r]
        = [f EXCEPT ![c] = [f[c] EXCEPT !.step = s, !.result = r]]
  OBVIOUS
<1> QED
  BY <1>1, <1>2

LEMMA RanTyped ==
    ASSUME NEW f \in [Call -> CallState], NEW c \in Call, NEW s \in Steps,
           NEW e \in Executor \cup {None}
    PROVE  [f EXCEPT ![c].step = s, ![c].ran = e] \in [Call -> CallState]
<1>1. [f[c] EXCEPT !.step = s, !.ran = e] \in CallState
  BY DEF CallState
<1>2. [f EXCEPT ![c].step = s, ![c].ran = e]
        = [f EXCEPT ![c] = [f[c] EXCEPT !.step = s, !.ran = e]]
  OBVIOUS
<1> QED
  BY <1>1, <1>2

LEMMA PriorTyped ==
    ASSUME NEW f \in [Call -> CallState], NEW c \in Call, NEW s \in Steps,
           NEW n \in Nat
    PROVE  [f EXCEPT ![c].step = s, ![c].prior = n] \in [Call -> CallState]
<1>1. [f[c] EXCEPT !.step = s, !.prior = n] \in CallState
  BY DEF CallState
<1>2. [f EXCEPT ![c].step = s, ![c].prior = n]
        = [f EXCEPT ![c] = [f[c] EXCEPT !.step = s, !.prior = n]]
  OBVIOUS
<1> QED
  BY <1>1, <1>2

LEMMA RecordTyped ==
    ASSUME NEW f \in [Call -> CallState], NEW c \in Call, NEW s \in Steps,
           NEW d \in Call \cup {None}
    PROVE  [f EXCEPT ![c].step = s, ![c].record = d] \in [Call -> CallState]
<1>1. [f[c] EXCEPT !.step = s, !.record = d] \in CallState
  BY DEF CallState
<1>2. [f EXCEPT ![c].step = s, ![c].record = d]
        = [f EXCEPT ![c] = [f[c] EXCEPT !.step = s, !.record = d]]
  OBVIOUS
<1> QED
  BY <1>1, <1>2

LEMMA RequestTyped ==
    ASSUME NEW f \in [Call -> CallState], NEW c \in Call, NEW s \in Steps,
           NEW k \in Kinds, NEW r \in Request
    PROVE  [f EXCEPT ![c].step = s, ![c].kind = k, ![c].req = r] \in [Call -> CallState]
<1>1. [f[c] EXCEPT !.step = s, !.kind = k, !.req = r] \in CallState
  BY DEF CallState
<1>2. [f EXCEPT ![c].step = s, ![c].kind = k, ![c].req = r]
        = [f EXCEPT ![c] = [f[c] EXCEPT !.step = s, !.kind = k, !.req = r]]
  OBVIOUS
<1> QED
  BY <1>1, <1>2

\* Every step keeps the types (all actions).
LEMMA TypeStep == TypeOK /\ (\A c \in Call : Stage(c)) /\ [Next]_vars => TypeOK'
<1> SUFFICES ASSUME TypeOK, \A c \in Call : Stage(c), [Next]_vars PROVE TypeOK'
  OBVIOUS
<1> USE DEF TypeOK, progressVars
<1>1. CASE UNCHANGED vars
  BY <1>1 DEF vars
<1>2. ASSUME NEW e \in Executor, Register(e) PROVE TypeOK'
  <2>1. Describe[e].id \in Ids
    BY DEF Ids
  <2> QED
    BY <1>2, <2>1 DEF Register
<1>3. ASSUME NEW c \in Call, Next, Called(c) \/ CallStep(c) \/ Expire(c) \/ Computes(c) \/ Send(c)
      PROVE TypeOK'
  <2>1. CASE Called(c)
    <3> PICK k \in Kind, r \in Request :
          IF k = "mutating"
          THEN Accepts(c, "begun", k, r) /\ UNCHANGED progressVars
          ELSE /\ Accepts(c, "recorded", k, r)
               /\ records' = [records EXCEPT ![RequestID[r]] = c]
               /\ status' = [status EXCEPT ![c] = "pending"]
               /\ UNCHANGED tasks
      BY <2>1 DEF Called
    <3>1. k \in Kinds /\ RequestID[r] \in ReqIds
      BY CapabilityAssumption DEF ReqIds
    <3>2. PICK s \in Steps : Accepts(c, s, k, r)
      BY DEF Steps
    <3>3. call' \in [Call -> CallState]
      BY <3>1, <3>2, RequestTyped DEF Accepts
    <3>4. CASE k = "mutating"
      BY <3>3, <3>4, <2>1 DEF Called
    <3>5. CASE k # "mutating"
      BY ZenonT(60), <3>1, <3>3, <3>5, <2>1 DEF Called
    <3> QED BY <3>4, <3>5
  <2>2. CASE CreateTask(c)
    <3>1. Rid(c) \in ReqIds
      BY <2>2 DEF CreateTask, Stage, ReqIds
    <3>2. call' \in [Call -> CallState]
      BY StepTyped, <2>2 DEF CreateTask, Goto, Steps
    <3> QED BY <3>1, <3>2, <2>2 DEF CreateTask
  <2>3. CASE StartTask(c)
    <3>1. Rid(c) \in ReqIds
      BY <2>3 DEF StartTask, Stage, ReqIds
    <3>2. call' \in [Call -> CallState]
      BY StepTyped, <2>3 DEF StartTask, Goto, Steps
    <3> QED BY <3>1, <3>2, <2>3 DEF StartTask, Moved
  <2>4. CASE Refuse(c)
    <3>1. call' \in [Call -> CallState]
      BY ResultTyped, <2>4 DEF Refuse, Returns, Steps, Results
    <3> QED BY <3>1, <2>4 DEF Refuse, Returns
  <2>5. CASE Spawn(c)
    <3>1. entries[CapabilityID[Req(c)]] \in Executor \cup {None}
      BY <2>5 DEF Spawn, Stage, Ids
    <3>2. "selecting" \in Steps
      BY DEF Steps
    <3>3. call' = [call EXCEPT ![c].step = "selecting",
                               ![c].ran = entries[CapabilityID[Req(c)]]]
      BY <2>5 DEF Spawn
    <3>4. call' \in [Call -> CallState]
      BY RanTyped, <3>1, <3>2, <3>3
    <3> QED BY <3>4, <2>5 DEF Spawn
  <2>6. CASE Receive(c)
    <3>1. Bounded(executor[c]) \in {"completed", "failed"}
      BY DEF Bounded
    <3>2. Bounded(executor[c]) \in Results /\ "returned" \in Steps
      BY <3>1 DEF Results, Steps
    <3>3. call' = [call EXCEPT ![c].step = "returned",
                               ![c].result = Bounded(executor[c])]
      BY <2>6 DEF Receive, Returns
    <3>4. call' \in [Call -> CallState]
      BY ResultTyped, <3>2, <3>3
    <3> QED BY <3>4, <2>6 DEF Receive, Returns
  <2>7. CASE GiveUp(c)
    <3>1. call' \in [Call -> CallState]
      BY ResultTyped, <2>7 DEF GiveUp, Returns, Steps, Results
    <3> QED BY <3>1, <2>7 DEF GiveUp, Returns
  <2>8. CASE Deny(c)
    <3>1. call' \in [Call -> CallState]
      BY StepTyped, <2>8 DEF Deny, Goto, Steps
    <3> QED BY <3>1, <2>8 DEF Deny
  <2>9. CASE ReadPrior(c)
    <3>1. Len(history) \in Nat /\ "admitted" \in Steps
      BY DEF Steps
    <3>2. call' = [call EXCEPT ![c].step = "admitted", ![c].prior = Len(history)]
      BY <2>9 DEF ReadPrior
    <3>3. call' \in [Call -> CallState]
      BY PriorTyped, <3>1, <3>2
    <3> QED BY <3>3, <2>9 DEF ReadPrior
  <2>10. CASE Propose(c)
    <3>1. call' \in [Call -> CallState]
      BY StepTyped, <2>10 DEF Propose, Goto, Steps
    <3>2. history' \in Seq(Call)
      <4>1. Append(history, c) \in Seq(Call)
        BY AppendProperties
      <4>2. history' = Append(history, c) \/ history' = history
        BY <2>10 DEF Propose
      <4> QED
        BY <4>1, <4>2
    <3> QED BY <3>1, <3>2, <2>10 DEF Propose
  <2>11. CASE FindRecord(c)
    <3>1. records[Rid(c)] \in Call \cup {None}
      BY <2>11 DEF FindRecord, Stage, ReqIds
    <3>2. "found" \in Steps
      BY DEF Steps
    <3>3. call' = [call EXCEPT ![c].step = "found", ![c].record = records[Rid(c)]]
      BY <2>11 DEF FindRecord
    <3>4. call' \in [Call -> CallState]
      BY RecordTyped, <3>1, <3>2, <3>3
    <3> QED BY <3>4, <2>11 DEF FindRecord
  <2>12. CASE WriteRecord(c)
    <3>1. call' \in [Call -> CallState]
      BY StepTyped, <2>12 DEF WriteRecord, Goto, Steps
    <3>2. call[c].result \in Results
      BY DEF CallState
    <3> QED BY <3>1, <3>2, <2>12 DEF WriteRecord
  <2>13. CASE EndTask(c)
    <3>1. Rid(c) \in ReqIds
      BY <2>13 DEF EndTask, Stage, ReqIds
    <3>2. call' \in [Call -> CallState]
      BY StepTyped, <2>13 DEF EndTask, Goto, Steps
    <3> QED BY <3>1, <3>2, <2>13 DEF EndTask, Moved
  <2>14. CASE Expire(c)
    BY <2>14 DEF Expire
  <2>15. CASE Computes(c)
    BY <2>15 DEF Computes
  <2>16. CASE Send(c)
    BY <2>16 DEF Send
  <2> QED
    BY <1>3, <2>1, <2>2, <2>3, <2>4, <2>5, <2>6, <2>7, <2>8, <2>9, <2>10,
       <2>11, <2>12, <2>13, <2>14, <2>15, <2>16 DEF CallStep
<1> QED
  BY <1>1, <1>2, <1>3 DEF Next

-----------------------------------------------------------------------------
\* What a call has come to keeps telling what it has done: a step moves one
\* call, and the registry only grows (all actions).
LEMMA StageStep == Inv /\ [Next]_vars => \A d \in Call : Stage(d)'
<1> SUFFICES ASSUME Inv, [Next]_vars, NEW d \in Call PROVE Stage(d)'
  OBVIOUS
<1>0. TypeOK /\ Stage(d)
  BY DEF Inv
<1> USE <1>0 DEF Stage, Early
<1>1. CASE UNCHANGED vars
  BY <1>1 DEF vars, Mutating
<1>2. ASSUME NEW e \in Executor, Register(e) PROVE Stage(d)'
  <2>1. \A i \in Ids : entries[i] # None => entries'[i] = entries[i]
    BY <1>2 DEF Register, Registrable, Registered, TypeOK, Ids
  <2>2. CapabilityID[Req(d)] \in Ids \/ At(d, "idle")
    BY DEF Ids
  <2>3. UNCHANGED <<call, executor>>
    BY <1>2 DEF Register
  <2> QED
    BY <2>1, <2>2, <2>3, CapabilityAssumption DEF TypeOK, CallState, Mutating
<1>3. ASSUME NEW c \in Call, c # d,
             Called(c) \/ CallStep(c) \/ Expire(c) \/ Computes(c) \/ Send(c)
      PROVE Stage(d)'
  <2>1. call'[d] = call[d] /\ executor'[d] = executor[d] /\ entries' = entries
    BY <1>3 DEF Called, Accepts, CallStep, CreateTask, StartTask, Refuse, Spawn,
       Receive, GiveUp, Deny, ReadPrior, Propose, FindRecord, WriteRecord,
       EndTask, Expire, Computes, Send, Goto, Returns, TypeOK
  <2> QED
    BY <2>1 DEF Mutating
<1>4. ASSUME Called(d) \/ CallStep(d) \/ Expire(d) \/ Computes(d) \/ Send(d)
      PROVE Stage(d)'
  <2>0. call[d] \in CallState
    BY DEF TypeOK
  <2>1. CASE Called(d)
    BY <2>0, <2>1, CapabilityAssumption DEF Called, Accepts, TypeOK, CallState, Mutating
  <2>2. CASE CreateTask(d)
    BY <2>0, <2>2, CapabilityAssumption DEF CreateTask, Goto, TypeOK, CallState, Mutating
  <2>3. CASE StartTask(d)
    BY <2>0, <2>3, CapabilityAssumption DEF StartTask, Goto, TypeOK, CallState, Mutating
  <2>4. CASE Refuse(d)
    BY <2>0, <2>4, CapabilityAssumption DEF Refuse, Returns, TypeOK, CallState, Mutating
  <2>5. CASE Spawn(d)
    BY <2>0, <2>5, CapabilityAssumption DEF Spawn, Admissible, TypeOK, CallState, Mutating
  <2>6. CASE Receive(d)
    BY <2>0, <2>6, CapabilityAssumption DEF Receive, Returns, Bounded, TypeOK, CallState, Mutating
  <2>7. CASE GiveUp(d)
    BY <2>0, <2>7, CapabilityAssumption DEF GiveUp, Returns, TypeOK, CallState, Mutating
  <2>8. CASE Deny(d)
    BY <2>0, <2>8, CapabilityAssumption DEF Deny, Goto, TypeOK, CallState, Mutating
  <2>9. CASE ReadPrior(d)
    BY <2>0, <2>9, CapabilityAssumption DEF ReadPrior, TypeOK, CallState, Mutating
  <2>10. CASE Propose(d)
    BY <2>0, <2>10, CapabilityAssumption DEF Propose, Goto, TypeOK, CallState, Mutating
  <2>11. CASE FindRecord(d)
    BY <2>0, <2>11, CapabilityAssumption DEF FindRecord, TypeOK, CallState, Mutating
  <2>12. CASE WriteRecord(d)
    BY <2>0, <2>12, CapabilityAssumption DEF WriteRecord, Goto, TypeOK, CallState, Mutating
  <2>13. CASE EndTask(d)
    BY <2>0, <2>13, CapabilityAssumption DEF EndTask, Goto, TypeOK, CallState, Mutating
  <2>14. CASE Expire(d)
    BY <2>0, <2>14, CapabilityAssumption DEF Expire, TypeOK, CallState, Mutating
  <2>15. CASE Computes(d)
    BY <2>0, <2>15, CapabilityAssumption DEF Computes, TypeOK, CallState, Mutating
  <2>16. CASE Send(d)
    BY <2>0, <2>16, CapabilityAssumption DEF Send, TypeOK, CallState, Mutating
  <2> QED
    BY <1>4, <2>1, <2>2, <2>3, <2>4, <2>5, <2>6, <2>7, <2>8,
       <2>9, <2>10, <2>11, <2>12, <2>13, <2>14, <2>15, <2>16 DEF CallStep
<1> QED
  BY <1>1, <1>2, <1>3, <1>4 DEF Next

-----------------------------------------------------------------------------
\* An accepted call does nothing any more, and only an admitted one becomes
\* accepted (Propose).
LEMMA EarnedStep ==
    Inv /\ [Next]_vars => (\A n \in DOMAIN history : Earned(history[n]))' /\ IdsOnce'
<1> SUFFICES ASSUME Inv, [Next]_vars
             PROVE  (\A n \in DOMAIN history : Earned(history[n]))' /\ IdsOnce'
  OBVIOUS
<1>0. /\ TypeOK /\ IdsOnce
      /\ \A c \in Call : Stage(c)
      /\ \A n \in DOMAIN history : Earned(history[n])
  BY DEF Inv
<1>1. \A n \in DOMAIN history : history[n] \in Call
  BY <1>0 DEF TypeOK
<1>2. ASSUME NEW c \in Call, Earned(c) PROVE call'[c] = call[c]
  <2>1. CASE \E e \in Executor : Register(e)
    BY <2>1 DEF Register
  <2>2. CASE UNCHANGED vars
    BY <2>2 DEF vars
  <2>3. ASSUME NEW d \in Call, 
               Called(d) \/ CallStep(d) \/ Expire(d) \/ Computes(d) \/ Send(d)
        PROVE call'[c] = call[c]
    <3>1. CASE Expire(d) \/ Computes(d) \/ Send(d)
      BY <3>1 DEF Expire, Computes, Send
    <3>2. CASE Called(d) \/ CallStep(d)
      <4>1. ~At(d, "done")
        BY <3>2 DEF Called, CallStep, CreateTask, StartTask, Refuse, Spawn, Receive,
           GiveUp, Deny, ReadPrior, Propose, FindRecord, WriteRecord, EndTask
      <4>2. c # d
        BY <4>1, <1>2 DEF Earned
      <4> QED
        BY <1>0, <3>2, <4>2 DEF Called, Accepts, CallStep, CreateTask, StartTask,
           Refuse, Spawn, Receive, GiveUp, Deny, ReadPrior, Propose, FindRecord,
           WriteRecord, EndTask, Goto, Returns, TypeOK
    <3> QED
      BY <2>3, <3>1, <3>2
  <2> QED
    BY <2>1, <2>2, <2>3 DEF Next
<1>3. \A n \in DOMAIN history : call'[history[n]] = call[history[n]]
  BY <1>0, <1>1, <1>2
<1>4. CASE UNCHANGED history
  BY <1>0, <1>3, <1>4 DEF IdsOnce, Earned, Mutating, ProposedID
<1>5. ASSUME NEW c \in Call, Propose(c), history' = Append(history, c),
             ~Taken(ProposedID(c))
      PROVE  (\A n \in DOMAIN history : Earned(history[n]))' /\ IdsOnce'
  <2>1. /\ At(c, "admitted") /\ call[c].result = "completed"
        /\ Mutating(call[c].ran)
    BY <1>0, <1>5 DEF Propose, Stage
  <2>2. /\ call'[c].step = "done" /\ call'[c].result = "completed"
        /\ call'[c].ran = call[c].ran /\ call'[c].req = call[c].req
    BY <1>0, <1>5, <2>1 DEF Propose, Goto, TypeOK, CallState
  <2>3. /\ DOMAIN history' = DOMAIN history \cup {Len(history) + 1}
        /\ history'[Len(history) + 1] = c
        /\ \A n \in DOMAIN history : history'[n] = history[n]
    BY <1>0, <1>5 DEF TypeOK
  <2>4. ASSUME NEW n \in DOMAIN history' PROVE Earned(history[n])'
    BY <1>0, <1>3, <2>1, <2>2, <2>3 DEF Earned, Mutating
  <2>5. ASSUME NEW m \in DOMAIN history', NEW n \in DOMAIN history',
               ProposedID(history[m])' = ProposedID(history[n])'
        PROVE  m = n
    <3>1. \A k \in DOMAIN history : TransitionID[call'[history'[k]].req] # TransitionID[call[c].req]
      BY <1>3, <1>5, <2>3 DEF Taken, ProposedID
    <3>2. TransitionID[call'[history'[Len(history) + 1]].req] = TransitionID[call[c].req]
      BY <2>2, <2>3
    <3>3. TransitionID[call'[history'[m]].req] = TransitionID[call'[history'[n]].req]
      BY <2>5 DEF ProposedID
    <3>4. CASE m \in DOMAIN history /\ n \in DOMAIN history
      BY <1>0, <1>3, <2>3, <3>3, <3>4 DEF IdsOnce, ProposedID
    <3> QED
      BY <2>3, <3>1, <3>2, <3>3, <3>4
  <2> QED
    BY <2>4, <2>5 DEF IdsOnce
<1>6. ASSUME NEW c \in Call, Propose(c), history' # history
      PROVE  history' = Append(history, c) /\ ~Taken(ProposedID(c))
  BY <1>6 DEF Propose
<1>7. (\E c \in Call : Propose(c)) \/ UNCHANGED history
  BY DEF Next, vars, Register, Called, CallStep, CreateTask, StartTask, Refuse,
     Spawn, Receive, GiveUp, Deny, ReadPrior, FindRecord, WriteRecord, EndTask,
     Expire, Computes, Send
<1> QED
  BY <1>4, <1>5, <1>6, <1>7

-----------------------------------------------------------------------------
LEMMA InvHolds == Spec => []Inv
<1>1. Inv /\ [Next]_vars => Inv'
  BY TypeStep, StageStep, EarnedStep DEF Inv
<1> QED
  BY InitInv, <1>1, PTL DEF Spec

\* Type correctness of the manager, the registry and the records.
THEOREM CapabilityTypes == Spec => []TypeOK
<1>1. Inv => TypeOK
  BY DEF Inv
<1> QED
  BY InvHolds, <1>1, PTL

LEMMA InvEarns == Inv => AcceptedEarned
<1> SUFFICES ASSUME Inv PROVE AcceptedEarned
  OBVIOUS
<1>0. /\ TypeOK /\ IdsOnce
      /\ \A c \in Call : Stage(c)
      /\ \A n \in DOMAIN history : Earned(history[n])
  BY DEF Inv
<1>1. \A n \in DOMAIN history : history[n] \in Call
  BY <1>0 DEF TypeOK
<1>2. AcceptedCompleted
  BY <1>0, <1>1 DEF AcceptedCompleted, Earned, Stage
<1>3. AcceptedPrivileged
  BY <1>0, <1>1 DEF AcceptedPrivileged, Earned
<1>4. RequestOnce
  BY <1>0 DEF RequestOnce, IdsOnce, ProposedID
<1> QED
  BY <1>0, <1>2, <1>3, <1>4 DEF AcceptedEarned

\* For any number of calls, executors and requests, and whatever answers late,
\* is repeated or denied: an accepted transition comes of an execution that
\* completed, of an executor that may mutate, and is the only one of its
\* request (Execute, ExecuteMutating, BuildProposedTransition).
THEOREM AcceptedIsEarned == Spec => []AcceptedEarned
  BY InvHolds, InvEarns, PTL
-----------------------------------------------------------------------------
\* Where a request's id is used for one record only, every step of its call
\* finds record and task where the step before left them.

Active == {"begun", "selecting", "returned", "found", "written"}
Final == {"completed", "failed", "rejected"}

Sole(c) == \A d \in RecordedCalls(Rid(c)) : d = c

\* What the steps of a call that keeps a record have come to, whoever shares
\* its id.
Course(c) ==
    /\ call[c].step \in {"recorded", "created", "found", "written"}
         => call[c].kind = "progress"
    /\ At(c, "admitted") => call[c].kind = "mutating"
    /\ call[c].step \in {"returned", "found", "written"} => call[c].result \in Final
    /\ At(c, "done") /\ call[c].kind = "progress" => call[c].result \in Final
    /\ call[c].step \in {"found", "written"} /\ call[c].record # None
         => call[c].record \in RecordedCalls(Rid(c))

\* ... and with its record and its task, when nobody does.
Followed(c) ==
    call[c].kind = "progress" /\ Req(c) # None /\ Sole(c) =>
        /\ records[Rid(c)] = c
        /\ At(c, "recorded") => tasks[Rid(c)] = "none"
        /\ At(c, "created") => tasks[Rid(c)] = "pending"
        /\ call[c].step \in Active => tasks[Rid(c)] = "running"
        /\ call[c].step \in {"found", "written"} => call[c].record = c
        /\ call[c].step \in {"written", "done"} => status[c] = call[c].result
        /\ At(c, "done") => tasks[Rid(c)] = TaskStatus(status[c])

\* A record is of a call with its id; an id without one has no task.
Filed(i) ==
    /\ records[i] # None => records[i] \in RecordedCalls(i)
    /\ RecordedCalls(i) = {} => tasks[i] = "none"

RecordInv ==
    /\ Inv
    /\ \A c \in Call : (At(c, "idle") <=> Req(c) = None) /\ Course(c) /\ Followed(c)
    /\ \A i \in ReqIds : Filed(i)

LEMMA InitRecords == Init => RecordInv
<1> SUFFICES ASSUME Init PROVE RecordInv
  OBVIOUS
<1>1. \A c \in Call : (At(c, "idle") <=> Req(c) = None) /\ Course(c) /\ Followed(c)
  BY DEF Init, Idle, Course, Followed
<1>2. \A i \in ReqIds : Filed(i)
  BY DEF Init, Idle, Filed
<1> QED
  BY <1>1, <1>2, InitInv DEF RecordInv

\* A step that moves no request, and of the records and tasks only its own
\* call's, keeps every other call's.
LEMMA OthersKept ==
    ASSUME RecordInv, NEW c \in Call,
           c \in RecordedCalls(Rid(c)) /\ Rid(c) \in ReqIds,
           \A d \in Call : d # c => call'[d] = call[d],
           call'[c].req = call[c].req, call'[c].kind = call[c].kind,
           records' = records,
           \A i \in ReqIds : i # Rid(c) => tasks'[i] = tasks[i],
           \A d \in Call : Rid(d) # Rid(c) \/ d \notin RecordedCalls(Rid(d))
                            => status'[d] = status[d]
    PROVE  /\ \A d \in Call : d # c => Course(d)' /\ Followed(d)'
           /\ \A i \in ReqIds : Filed(i)'
           /\ \A i : RecordedCalls(i)' = RecordedCalls(i)
<1>1. \A i : RecordedCalls(i)' = RecordedCalls(i)
  <2>1. \A d \in Call : call'[d].req = call[d].req /\ call'[d].kind = call[d].kind
    OBVIOUS
  <2> QED
    BY <2>1 DEF RecordedCalls, CallsOf
<1>2. ASSUME NEW d \in Call, d # c PROVE Course(d)' /\ Followed(d)'
  <2>0. Course(d) /\ Followed(d) /\ call'[d] = call[d]
    BY <1>2 DEF RecordInv
  <2>1. Course(d)'
    BY <1>1, <2>0 DEF Course
  <2>2. CASE call[d].kind = "progress" /\ Req(d) # None /\ Sole(d)
    <3>1. d \in RecordedCalls(Rid(d))
      BY <2>2 DEF RecordedCalls, CallsOf
    <3>2. Rid(d) # Rid(c)
      BY <1>2, <2>2, <3>1 DEF Sole
    <3>3. Rid(d) \in ReqIds
      BY <2>2 DEF RecordInv, Inv, TypeOK, CallState, ReqIds
    <3>4. status'[d] = status[d] /\ tasks'[Rid(d)] = tasks[Rid(d)]
      BY <3>2, <3>3
    <3> QED
      BY <1>1, <2>0, <2>1, <3>4 DEF Followed, Sole, Active, TaskStatus
  <2>3. CASE ~(call[d].kind = "progress" /\ Req(d) # None /\ Sole(d))
    <3>1. ~(call'[d].kind = "progress" /\ call'[d].req # None /\ Sole(d)')
      BY <1>1, <2>0, <2>3 DEF Sole
    <3> QED
      BY <2>1, <3>1 DEF Followed
  <2> QED
    BY <2>2, <2>3
<1>3. ASSUME NEW i \in ReqIds PROVE Filed(i)'
  <2>1. Filed(i)
    BY DEF RecordInv
  <2>2. i = Rid(c) \/ tasks'[i] = tasks[i]
    OBVIOUS
  <2> QED
    BY <1>1, <2>1, <2>2 DEF Filed
<1> QED
  BY <1>1, <1>2, <1>3

\* A new call's record (Called): it is its id's only one, or the id is shared
\* from now on.
LEMMA CalledKept == RecordInv /\ TypeOK' /\ (\E c \in Call : Called(c)) =>
    /\ \A d \in Call : (At(d, "idle") <=> Req(d) = None)' /\ Course(d)' /\ Followed(d)'
    /\ \A i \in ReqIds : Filed(i)'
<1> SUFFICES ASSUME RecordInv, TypeOK', NEW c \in Call, Called(c)
             PROVE  /\ \A d \in Call : (At(d, "idle") <=> Req(d) = None)' /\ Course(d)' /\ Followed(d)'
                    /\ \A i \in ReqIds : Filed(i)'
  OBVIOUS
<1>0. TypeOK
  BY DEF RecordInv, Inv
<1> PICK k \in Kind, r \in Request :
      IF k = "mutating"
      THEN Accepts(c, "begun", k, r) /\ UNCHANGED progressVars
      ELSE /\ Accepts(c, "recorded", k, r)
           /\ records' = [records EXCEPT ![RequestID[r]] = c]
           /\ status' = [status EXCEPT ![c] = "pending"]
           /\ UNCHANGED tasks
  BY DEF Called
<1>1. /\ \A d \in Call : d # c => call'[d] = call[d]
      /\ call'[c].kind = k /\ call'[c].req = r /\ tasks' = tasks
      /\ call'[c].step = IF k = "mutating" THEN "begun" ELSE "recorded"
      /\ r # None /\ Req(c) = None
  BY <1>0, CapabilityAssumption DEF Accepts, TypeOK, CallState, progressVars, RecordInv, Called
<1>2. \A i : RecordedCalls(i)' =
        RecordedCalls(i) \cup (IF k = "progress" /\ RequestID[r] = i THEN {c} ELSE {})
  BY <1>1 DEF RecordedCalls, CallsOf
<1>3. k \in {"progress", "mutating"} /\ RequestID[r] \in ReqIds
  BY CapabilityAssumption DEF Kinds, ReqIds
<1>4. /\ records' = IF k = "mutating" THEN records ELSE [records EXCEPT ![RequestID[r]] = c]
      /\ \A d \in Call : d # c => status'[d] = status[d]
  BY <1>0, <1>3 DEF TypeOK, progressVars
<1>5. ASSUME NEW i \in ReqIds PROVE Filed(i)'
  <2>1. Filed(i)
    BY DEF RecordInv
  <2>2. records'[i] = IF k = "progress" /\ RequestID[r] = i THEN c ELSE records[i]
    BY <1>0, <1>3, <1>4 DEF TypeOK
  <2> QED
    BY <1>1, <1>2, <2>1, <2>2 DEF Filed
<1>6. ASSUME NEW d \in Call, d # c
      PROVE  (At(d, "idle") <=> Req(d) = None)' /\ Course(d)' /\ Followed(d)'
  <2>0. (At(d, "idle") <=> Req(d) = None) /\ Course(d) /\ Followed(d) /\ call'[d] = call[d]
    BY <1>1, <1>6 DEF RecordInv
  <2>1. (At(d, "idle") <=> Req(d) = None)'
    BY <2>0
  <2>2. Course(d)'
    <3>1. RecordedCalls(Rid(d)) \subseteq RecordedCalls(Rid(d))'
      BY <1>2, <2>0
    <3> QED
      BY <2>0, <3>1 DEF Course
  <2>3. CASE call[d].kind = "progress" /\ Req(d) # None /\ Sole(d) /\ Sole(d)'
    <3>1. ~(k = "progress" /\ RequestID[r] = Rid(d))
      BY <1>2, <1>6, <2>0, <2>3 DEF Sole
    <3>2. Rid(d) \in ReqIds
      BY <1>0, <2>3 DEF TypeOK, CallState, ReqIds
    <3>3. records'[Rid(d)] = records[Rid(d)]
      BY <1>0, <1>3, <1>4, <3>1, <3>2 DEF TypeOK
    <3> QED
      BY <1>1, <1>4, <1>6, <2>0, <2>1, <2>2, <2>3, <3>3 DEF Followed, Active, TaskStatus
  <2>4. CASE ~(call[d].kind = "progress" /\ Req(d) # None /\ Sole(d) /\ Sole(d)')
    <3>1. Sole(d)' => Sole(d)
      BY <1>2, <2>0 DEF Sole
    <3> QED
      BY <2>0, <2>1, <2>2, <2>4, <3>1 DEF Followed
  <2> QED
    BY <2>1, <2>2, <2>3, <2>4
<1>7. (At(c, "idle") <=> Req(c) = None)' /\ Course(c)'
  BY <1>1, <1>3 DEF Course
<1>8. Followed(c)'
  <2> SUFFICES ASSUME k = "progress", Sole(c)' PROVE Followed(c)'
    BY <1>1 DEF Followed
  <2>1. RecordedCalls(RequestID[r]) \subseteq {c}
    BY <1>1, <1>2 DEF Sole
  <2>2. c \notin RecordedCalls(RequestID[r])
    BY <1>1 DEF RecordedCalls, CallsOf
  <2>3. tasks[RequestID[r]] = "none"
    BY <1>3, <2>1, <2>2 DEF RecordInv, Filed
  <2>4. records'[RequestID[r]] = c
    BY <1>0, <1>3, <1>4 DEF TypeOK
  <2> QED
    BY <1>1, <2>3, <2>4 DEF Followed, Active
<1> QED
  BY <1>5, <1>6, <1>7, <1>8

\* A step of a call that keeps a record, on its record and its task
\* (CreateTask, StartTask, FindRecord, WriteRecord, EndTask).
LEMMA RecordStepKept ==
    ASSUME RecordInv, TypeOK', NEW c \in Call,
           CreateTask(c) \/ StartTask(c) \/ FindRecord(c) \/ WriteRecord(c) \/ EndTask(c)
    PROVE  /\ \A d \in Call : (At(d, "idle") <=> Req(d) = None)' /\ Course(d)' /\ Followed(d)'
           /\ \A i \in ReqIds : Filed(i)'
<1> USE DEF Goto
<1>0. /\ TypeOK /\ Stage(c) /\ Course(c) /\ Followed(c) /\ (At(c, "idle") <=> Req(c) = None)
      /\ call[c] \in CallState
  BY DEF RecordInv, Inv, TypeOK
<1>1. call[c].kind = "progress" /\ Req(c) \in Request
  BY <1>0 DEF CreateTask, StartTask, FindRecord, WriteRecord, EndTask, Course, Stage
<1>2. Rid(c) \in ReqIds /\ c \in RecordedCalls(Rid(c))
  BY <1>1, CapabilityAssumption DEF ReqIds, RecordedCalls, CallsOf
<1>3. /\ \A d \in Call : d # c => call'[d] = call[d]
      /\ call'[c].req = call[c].req /\ call'[c].kind = call[c].kind
      /\ call'[c].result = call[c].result
      /\ records' = records
  <2>1. CASE CreateTask(c) \/ StartTask(c) \/ WriteRecord(c) \/ EndTask(c)
    <3>1. PICK s \in Steps : call' = [call EXCEPT ![c].step = s]
      BY <2>1 DEF CreateTask, StartTask, WriteRecord, EndTask, Steps
    <3>2. records' = records
      BY <2>1 DEF CreateTask, StartTask, WriteRecord, EndTask
    <3> QED
      BY <1>0, <3>1, <3>2 DEF TypeOK, CallState
  <2>2. CASE FindRecord(c)
    BY <1>0, <2>2 DEF FindRecord, TypeOK, CallState, progressVars
  <2> QED
    BY <2>1, <2>2
<1>4. \A i \in ReqIds : i # Rid(c) => tasks'[i] = tasks[i]
  <2>1. CASE CreateTask(c) \/ StartTask(c) \/ EndTask(c)
    <3>1. \E s : tasks' = [tasks EXCEPT ![Rid(c)] = s]
      BY <2>1 DEF CreateTask, StartTask, EndTask
    <3> QED
      BY <1>0, <3>1 DEF TypeOK
  <2>2. CASE FindRecord(c) \/ WriteRecord(c)
    BY <2>2 DEF FindRecord, WriteRecord, progressVars
  <2> QED
    BY <2>1, <2>2
<1>5. \A d \in Call : Rid(d) # Rid(c) \/ d \notin RecordedCalls(Rid(d)) => status'[d] = status[d]
  <2>1. CASE WriteRecord(c)
    <3>1. call[c].record = None \/ call[c].record \in RecordedCalls(Rid(c))
      BY <1>0, <2>1 DEF WriteRecord, Course
    <3>2. status' = [status EXCEPT ![call[c].record] = call[c].result]
      BY <2>1 DEF WriteRecord
    <3>3. \A d \in Call : d # call[c].record => status'[d] = status[d]
      BY <1>0, <3>2 DEF TypeOK
    <3>4. \A d \in RecordedCalls(Rid(c)) : Rid(d) = Rid(c)
      BY DEF RecordedCalls, CallsOf
    <3>5. ASSUME NEW d \in Call, Rid(d) # Rid(c) \/ d \notin RecordedCalls(Rid(d))
          PROVE  d # call[c].record
      <4>1. CASE call[c].record = None
        BY <4>1, CapabilityAssumption
      <4>2. CASE call[c].record \in RecordedCalls(Rid(c))
        BY <3>4, <3>5, <4>2
      <4> QED
        BY <3>1, <4>1, <4>2
    <3> QED
      BY <3>3, <3>5
  <2>2. CASE ~WriteRecord(c)
    <3>1. status' = status
      BY <2>2 DEF CreateTask, StartTask, FindRecord, EndTask, progressVars
    <3> QED
      BY <3>1
  <2> QED
    BY <2>1, <2>2
<1>6. /\ \A d \in Call : d # c => Course(d)' /\ Followed(d)'
      /\ \A i \in ReqIds : Filed(i)'
      /\ \A i : RecordedCalls(i)' = RecordedCalls(i)
  BY <1>2, <1>3, <1>4, <1>5, OthersKept
<1>7. (At(c, "idle") <=> Req(c) = None)'
  <2>1. call'[c].step \in {"created", "begun", "found", "written", "done"}
    <3> USE <1>0 DEF TypeOK, CallState
    <3>1. CASE CreateTask(c)
      BY <3>1 DEF CreateTask
    <3>2. CASE StartTask(c)
      BY <3>2 DEF StartTask
    <3>3. CASE FindRecord(c)
      BY <3>3 DEF FindRecord
    <3>4. CASE WriteRecord(c)
      BY <3>4 DEF WriteRecord
    <3>5. CASE EndTask(c)
      BY <3>5 DEF EndTask
    <3> QED
      BY <3>1, <3>2, <3>3, <3>4, <3>5
  <2> QED
    BY <1>1, <1>3, <2>1, CapabilityAssumption
<1>8. \A d \in Call : d # c => (At(d, "idle") <=> Req(d) = None)'
  BY <1>3 DEF RecordInv
<1>9. Sole(c)' <=> Sole(c)
  BY <1>3, <1>6 DEF Sole
<1>10. records[Rid(c)] = None \/ records[Rid(c)] \in RecordedCalls(Rid(c))
  BY <1>2 DEF RecordInv, Filed
<1>11. Course(c)' /\ Followed(c)'
  <2>1. CASE CreateTask(c)
    <3>1. call'[c].step = "created" /\ call[c].step = "recorded"
      BY <1>0, <2>1 DEF CreateTask, TypeOK, CallState
    <3>2. Sole(c) => tasks'[Rid(c)] = "pending"
      BY <1>0, <1>1, <1>2, <2>1, <3>1, CapabilityAssumption DEF CreateTask, Followed, TypeOK
    <3> QED
      BY <1>0, <1>1, <1>3, <1>9, <3>1, <3>2 DEF Course, Followed, Active
  <2>2. CASE StartTask(c)
    <3>1. call'[c].step = "begun" /\ call[c].step = "created"
      BY <1>0, <2>2 DEF StartTask, TypeOK, CallState
    <3>2. Sole(c) => tasks'[Rid(c)] = "running"
      BY <1>0, <1>1, <1>2, <2>2, <3>1, CapabilityAssumption DEF StartTask, Followed, TypeOK, Moved
    <3> QED
      BY <1>0, <1>1, <1>3, <1>9, <3>1, <3>2 DEF Course, Followed, Active
  <2>3. CASE FindRecord(c)
    <3>1. /\ call'[c].step = "found" /\ call[c].step = "returned"
          /\ call'[c].record = records[Rid(c)] /\ tasks' = tasks
      BY <1>0, <2>3 DEF FindRecord, TypeOK, CallState, progressVars
    <3> QED
      BY <1>0, <1>1, <1>3, <1>6, <1>9, <1>10, <3>1 DEF Course, Followed, Active
  <2>4. CASE WriteRecord(c)
    <3>1. /\ call'[c].step = "written" /\ call[c].step = "found"
          /\ call'[c].record = call[c].record /\ tasks' = tasks
      BY <1>0, <2>4 DEF WriteRecord, TypeOK, CallState
    <3>2. Sole(c) => status'[c] = call[c].result
      BY <1>0, <1>1, <2>4, <3>1, CapabilityAssumption DEF WriteRecord, Followed, TypeOK
    <3> QED
      BY <1>0, <1>1, <1>3, <1>6, <1>9, <3>1, <3>2 DEF Course, Followed, Active
  <2>5. CASE EndTask(c)
    <3>1. /\ call'[c].step = "done" /\ call[c].step = "written" /\ status' = status
      BY <1>0, <2>5 DEF EndTask, TypeOK, CallState
    <3>2. call[c].result \in Final
      BY <1>0, <3>1 DEF Course
    <3>3. Sole(c) => tasks[Rid(c)] = "running" /\ status[c] = call[c].result
      BY <1>0, <1>1, <3>1, CapabilityAssumption DEF Followed, Active
    <3>4. Sole(c) => tasks'[Rid(c)] = TaskStatus(call[c].result)
      BY <1>0, <1>2, <2>5, <3>2, <3>3 DEF EndTask, TypeOK, Moved, TaskStatus, Final
    <3> QED
      BY <1>0, <1>1, <1>3, <1>9, <3>1, <3>2, <3>3, <3>4 DEF Course, Followed, Active
  <2> QED
    BY <2>1, <2>2, <2>3, <2>4, <2>5
<1> QED
  BY <1>6, <1>7, <1>8, <1>11

\* The steps of the manager leave records and tasks alone (Execute,
\* ExecuteMutating).
LEMMA ManagerStepKept ==
    ASSUME RecordInv, NEW c \in Call,
           \/ Refuse(c) \/ Spawn(c) \/ Receive(c) \/ GiveUp(c) \/ Deny(c)
           \/ ReadPrior(c) \/ Propose(c) \/ Expire(c) \/ Computes(c) \/ Send(c)
    PROVE  /\ \A d \in Call : (At(d, "idle") <=> Req(d) = None)' /\ Course(d)' /\ Followed(d)'
           /\ \A i \in ReqIds : Filed(i)'
<1> USE DEF Goto, Returns
<1>0. /\ TypeOK /\ call[c] \in CallState
      /\ \A d \in Call : Stage(d) /\ Course(d) /\ Followed(d) /\ (At(d, "idle") <=> Req(d) = None)
      /\ \A i \in ReqIds : Filed(i)
  BY DEF RecordInv, Inv, TypeOK
<1>1. /\ \A d \in Call : d # c => call'[d] = call[d]
      /\ call'[c].req = call[c].req /\ call'[c].kind = call[c].kind
      /\ call'[c].record = call[c].record
      /\ UNCHANGED progressVars
  BY <1>0 DEF Refuse, Spawn, Receive, GiveUp, Deny, ReadPrior, Propose, Expire,
     Computes, Send, TypeOK, CallState
<1>2. \/ call'[c] = call[c]
      \/ /\ call[c].step = "begun" /\ call'[c].step = "selecting"
      \/ /\ call[c].step \in {"begun", "selecting"} /\ call'[c].step = "returned"
         /\ call'[c].result \in Final
      \/ /\ call[c].step \in {"returned", "admitted"} /\ call[c].kind = "mutating"
         /\ call'[c].step \in {"admitted", "done"}
      \/ At(c, "admitted") /\ call'[c].step = "done"
  BY <1>0 DEF Refuse, Spawn, Receive, GiveUp, Deny, ReadPrior, Propose, Expire,
     Computes, Send, TypeOK, CallState, Bounded, Final
<1>3. \A i : RecordedCalls(i)' = RecordedCalls(i)
  <2>1. \A d \in Call : call'[d].req = call[d].req /\ call'[d].kind = call[d].kind
    BY <1>1
  <2> QED
    BY <2>1 DEF RecordedCalls, CallsOf
<1>4. ASSUME NEW i \in ReqIds PROVE Filed(i)'
  BY <1>0, <1>1, <1>3 DEF Filed, progressVars
<1>5. ASSUME NEW d \in Call, call'[d] = call[d]
      PROVE  (At(d, "idle") <=> Req(d) = None)' /\ Course(d)' /\ Followed(d)'
  <2>1. (At(d, "idle") <=> Req(d) = None)'
    BY <1>0, <1>5
  <2>2. Course(d)'
    BY <1>0, <1>3, <1>5 DEF Course
  <2>3. Sole(d)' <=> Sole(d)
    BY <1>3, <1>5 DEF Sole
  <2>4. Followed(d)'
    BY <1>0, <1>1, <1>5, <2>3 DEF Followed, Active, TaskStatus, progressVars
  <2> QED
    BY <2>1, <2>2, <2>4
<1>6. ASSUME call'[c] # call[c]
      PROVE  (At(c, "idle") <=> Req(c) = None)' /\ Course(c)' /\ Followed(c)'
  <2>1. ~At(c, "idle") /\ Req(c) # None /\ call'[c].step # "idle"
    BY <1>0, <1>2, <1>6
  <2>2. call'[c].kind = "progress" => call'[c].step \in {"selecting", "returned"}
    BY <1>0, <1>1, <1>2, <1>6 DEF Course
  <2>3. Course(c)'
    BY <1>0, <1>1, <1>2, <1>6, <2>2 DEF Course
  <2>4. Sole(c)' <=> Sole(c)
    BY <1>1, <1>3 DEF Sole
  <2>5. Followed(c)'
    <3> SUFFICES ASSUME call[c].kind = "progress", Sole(c) PROVE Followed(c)'
      BY <1>1, <2>4 DEF Followed
    <3>1. call[c].step \in {"begun", "selecting"}
      BY <1>0, <1>2, <1>6 DEF Course
    <3>2. records[Rid(c)] = c /\ tasks[Rid(c)] = "running"
      BY <1>0, <2>1, <3>1 DEF Followed, Active
    <3> QED
      BY <1>1, <2>2, <3>2 DEF Followed, progressVars
  <2> QED
    BY <1>1, <2>1, <2>3, <2>5
<1> QED
  BY <1>1, <1>4, <1>5, <1>6

LEMMA RecordsHold == Spec => []RecordInv
<1>1. RecordInv /\ [Next]_vars => RecordInv'
  <2> SUFFICES ASSUME RecordInv, [Next]_vars PROVE RecordInv'
    OBVIOUS
  <2>1. Inv' /\ TypeOK'
    BY TypeStep, StageStep, EarnedStep DEF RecordInv, Inv
  <2>2. CASE UNCHANGED vars \/ \E e \in Executor : Register(e)
    <3>1. UNCHANGED <<call, records, status, tasks>>
      BY <2>2 DEF vars, Register, progressVars
    <3>2. \A i : RecordedCalls(i)' = RecordedCalls(i)
      BY <3>1 DEF RecordedCalls, CallsOf
    <3>3. \A d \in Call : Sole(d)' <=> Sole(d)
      BY <3>1, <3>2 DEF Sole
    <3> QED
      BY <2>1, <3>1, <3>2, <3>3 DEF RecordInv, Course, Followed, Filed, Active, TaskStatus
  <2>3. CASE \E c \in Call : Called(c)
    BY <2>1, <2>3, CalledKept DEF RecordInv
  <2>4. ASSUME NEW c \in Call,
               CreateTask(c) \/ StartTask(c) \/ FindRecord(c) \/ WriteRecord(c) \/ EndTask(c)
        PROVE  RecordInv'
    BY <2>1, <2>4, RecordStepKept DEF RecordInv
  <2>5. ASSUME NEW c \in Call,
               \/ Refuse(c) \/ Spawn(c) \/ Receive(c) \/ GiveUp(c) \/ Deny(c)
               \/ ReadPrior(c) \/ Propose(c) \/ Expire(c) \/ Computes(c) \/ Send(c)
        PROVE  RecordInv'
    BY <2>1, <2>5, ManagerStepKept DEF RecordInv
  <2> QED
    BY <2>2, <2>3, <2>4, <2>5 DEF Next, CallStep
<1> QED
  BY InitRecords, <1>1, PTL DEF Spec

LEMMA RecordsTell == RecordInv => RecordsAgree
<1> SUFFICES ASSUME RecordInv, NEW i \in ReqIds,
                    \A c, d \in RecordedCalls(i) : c = d,
                    records[i] # None, \A c \in CallsOf(i) : At(c, "done")
             PROVE  tasks[i] = TaskStatus(status[records[i]])
  BY DEF RecordsAgree, Agree
<1> DEFINE c == records[i]
<1>1. c \in RecordedCalls(i)
  BY DEF RecordInv, Filed
<1>2. /\ c \in Call /\ Req(c) # None /\ Rid(c) = i /\ call[c].kind = "progress"
      /\ At(c, "done")
  BY <1>1 DEF RecordedCalls, CallsOf
<1>3. Sole(c)
  BY <1>1, <1>2 DEF Sole
<1> QED
  BY <1>2, <1>3 DEF RecordInv, Followed

\* However calls run beside each other, and whatever is refused, times out or
\* answers late: where a request's id is used for one record, the record and
\* the task of a request whose calls are done tell the same (TaskRecord;
\* Begin, Complete).
THEOREM RecordsOfAnIdAgree == Spec => []RecordsAgree
  BY RecordsHold, RecordsTell, PTL

-----------------------------------------------------------------------------
\* The membrane.


\* What the goroutine of Invoke tells of its call.
NativeStage(c) ==
    /\ call[c].step \in Early => executor[c] = "none"
    /\ executor[c] = "none" => inner[c] = "none"
    /\ inner[c] # "none" => call[c].ran \in Native /\ Req(c) \in Allowed
    /\ call[c].ran \in Native =>
         /\ executor[c] # "large"
         /\ executor[c] = "completed" => inner[c] = "result"

NativeInv == Inv /\ NativeTypeOK /\ \A c \in Call : NativeStage(c)

-----------------------------------------------------------------------------
\* A step of the membrane is a step of an executor that computes, or none.
LEMMA NativeStepComputes ==
    ASSUME NEW c \in Call, NativeStep(c)
    PROVE  Computes(c) \/ UNCHANGED vars
<1>1. "failed" \in Outcomes /\ "completed" \in Outcomes
  BY DEF Outcomes
<1> QED
  BY <1>1 DEF NativeStep, RejectSymbol, Invoke, Works, Collect, Abandon, HandOver,
     InNative, Replies, Computes, vars, progressVars

LEMMA MembraneStep == [MembraneNext]_membraneVars => [Next]_vars
<1>1. CASE OtherStep
  BY <1>1 DEF OtherStep, Next
<1>2. ASSUME NEW c \in Call, NativeStep(c) PROVE [Next]_vars
  BY <1>2, NativeStepComputes DEF Next
<1>3. CASE UNCHANGED membraneVars
  BY <1>3 DEF membraneVars
<1> QED
  BY <1>1, <1>2, <1>3 DEF MembraneNext

\* The membrane behind the manager is an executor like any other: whatever
\* Capability promises of executors that answer as they will holds of it
\* (NativeExecutor implements Executor).
THEOREM MembraneImplementsCapability == MembraneSpec => Spec
<1>1. MembraneInit => Init
  BY DEF MembraneInit
<1> QED
  BY <1>1, MembraneStep, PTL DEF MembraneSpec, Spec

-----------------------------------------------------------------------------
LEMMA NativeInit == MembraneInit => NativeInv
<1> SUFFICES ASSUME MembraneInit PROVE NativeInv
  OBVIOUS
<1>1. Inv
  BY InitInv DEF MembraneInit
<1>2. NativeTypeOK
  BY DEF MembraneInit, NativeTypeOK
<1>3. \A c \in Call : NativeStage(c)
  BY NativeAssumption, CapabilityAssumption DEF MembraneInit, Init, Idle, NativeStage
<1> QED
  BY <1>1, <1>2, <1>3 DEF NativeInv

LEMMA NativeTypeStep ==
    NativeTypeOK /\ [MembraneNext]_membraneVars => NativeTypeOK'
<1> SUFFICES ASSUME NativeTypeOK, [MembraneNext]_membraneVars PROVE NativeTypeOK'
  OBVIOUS
<1> USE DEF NativeTypeOK
<1>1. CASE OtherStep \/ UNCHANGED membraneVars
  BY <1>1 DEF OtherStep, membraneVars, nativeVars
<1>2. ASSUME NEW c \in Call, NativeStep(c) PROVE NativeTypeOK'
  BY <1>2 DEF NativeStep, RejectSymbol, Invoke, Works, Collect, Abandon, HandOver,
     nativeVars, Answers
<1> QED
  BY <1>1, <1>2 DEF MembraneNext

-----------------------------------------------------------------------------
\* A step of one call leaves the executor and the goroutine of another alone.
LEMMA NativeStageOther ==
    ASSUME NativeInv, NEW c \in Call, NEW d \in Call, c # d,
           NativeStep(c) \/ (UNCHANGED nativeVars
             /\ (Called(c) \/ CallStep(c) \/ Expire(c) \/ Send(c) \/ Computes(c)))
    PROVE  NativeStage(d)'
<1>0. TypeOK /\ NativeTypeOK /\ NativeStage(d)
  BY DEF NativeInv, Inv
<1>1. CASE NativeStep(c)
  <2>1. inner'[d] = inner[d] /\ executor'[d] = executor[d] /\ call'[d] = call[d]
    BY <1>0, <1>1 DEF NativeStep, RejectSymbol, Invoke, Works, Collect, Abandon,
       HandOver, Replies, nativeVars, vars, progressVars, TypeOK, NativeTypeOK
  <2> QED
    BY <1>0, <2>1 DEF NativeStage
<1>2. CASE UNCHANGED nativeVars
             /\ (Called(c) \/ CallStep(c) \/ Expire(c) \/ Send(c) \/ Computes(c))
  <2>1. inner'[d] = inner[d] /\ executor'[d] = executor[d] /\ call'[d] = call[d]
    BY <1>0, <1>2 DEF nativeVars, Called, Accepts, CallStep, CreateTask, StartTask,
       Refuse, Spawn, Receive, GiveUp, Deny, ReadPrior, Propose, FindRecord,
       WriteRecord, EndTask, Expire, Computes, Send, Goto, Returns, TypeOK
  <2> QED
    BY <1>0, <2>1 DEF NativeStage
<1> QED
  BY <1>1, <1>2

\* A step of the call itself (all actions).
LEMMA NativeStageOwn ==
    ASSUME NativeInv, NEW c \in Call,
           UNCHANGED nativeVars,
           Called(c) \/ CallStep(c) \/ Expire(c) \/ Send(c)
             \/ (~InNative(c) /\ Computes(c))
    PROVE  NativeStage(c)'
<1>0. TypeOK /\ NativeTypeOK /\ NativeStage(c) /\ Stage(c)
  BY DEF NativeInv, Inv
<1>00. call[c] \in CallState
  BY <1>0 DEF TypeOK
<1> USE <1>0, <1>00, NativeAssumption, CapabilityAssumption
    DEF NativeStage, nativeVars
<1>1. CASE Called(c)
  BY <1>1 DEF Called, Accepts, TypeOK, CallState, Early, Stage
<1>2. CASE Spawn(c)
  BY <1>2 DEF Spawn, TypeOK, CallState, Early, Stage
<1>3. CASE Computes(c) /\ ~InNative(c)
  <2>1. inner'[c] = inner[c] /\ call' = call /\ executor[c] = "running"
    BY <1>3 DEF Computes
  <2>2. call[c].ran \notin Native /\ call[c].step \notin Early
    BY <1>3, <2>1 DEF InNative
  <2>3. executor'[c] # "none"
    BY <1>3 DEF Computes, TypeOK, Outcomes
  <2> QED
    BY <2>1, <2>2, <2>3
<1>4. CASE Expire(c) \/ Send(c)
  BY <1>4 DEF Expire, Send
<1>5. CASE CreateTask(c)
  BY <1>5 DEF CreateTask, Goto, TypeOK, CallState, Early
<1>6. CASE StartTask(c)
  BY <1>6 DEF StartTask, Goto, TypeOK, CallState, Early
<1>7. CASE Refuse(c)
  BY <1>7 DEF Refuse, Returns, TypeOK, CallState, Early
<1>8. CASE Deny(c)
  BY <1>8 DEF Deny, Goto, TypeOK, CallState, Early
<1>9. CASE Propose(c)
  BY <1>9 DEF Propose, Goto, TypeOK, CallState, Early
<1>10. CASE WriteRecord(c)
  BY <1>10 DEF WriteRecord, Goto, TypeOK, CallState, Early
<1>11. CASE EndTask(c)
  BY <1>11 DEF EndTask, Goto, TypeOK, CallState, Early
<1>12. CASE Receive(c)
  BY <1>12 DEF Receive, Returns, TypeOK, CallState, Early
<1>13. CASE GiveUp(c)
  BY <1>13 DEF GiveUp, Returns, TypeOK, CallState, Early
<1>14. CASE ReadPrior(c)
  BY <1>14 DEF ReadPrior, TypeOK, CallState, Early
<1>15. CASE FindRecord(c)
  BY <1>15 DEF FindRecord, TypeOK, CallState, Early
<1> QED
  BY <1>1, <1>2, <1>3, <1>4, <1>5, <1>6, <1>7, <1>8, <1>9, <1>10, <1>11,
     <1>12, <1>13, <1>14, <1>15 DEF CallStep

\* A step of the membrane in the call itself.
LEMMA NativeStageNative ==
    ASSUME NativeInv, NEW c \in Call, NativeStep(c) PROVE NativeStage(c)'
<1>0. TypeOK /\ NativeTypeOK /\ NativeStage(c)
  BY DEF NativeInv, Inv
<1> USE <1>0 DEF NativeStage, TypeOK, NativeTypeOK, Replies, nativeVars, InNative
<1>1. CASE RejectSymbol(c)
  BY <1>1 DEF RejectSymbol
<1>2. CASE Invoke(c)
  BY <1>2 DEF Invoke, vars
<1>3. CASE Works(c)
  BY <1>3 DEF Works, vars, Answers
<1>4. CASE Collect(c)
  BY <1>4 DEF Collect, InnerAnswered, Answers
<1>5. CASE Abandon(c)
  BY <1>5 DEF Abandon
<1>6. CASE HandOver(c)
  BY <1>6 DEF HandOver, vars
<1> QED
  BY <1>1, <1>2, <1>3, <1>4, <1>5, <1>6 DEF NativeStep

LEMMA NativeInvStep == NativeInv /\ [MembraneNext]_membraneVars => NativeInv'
<1> SUFFICES ASSUME NativeInv, [MembraneNext]_membraneVars PROVE NativeInv'
  OBVIOUS
<1>1. Inv'
  <2>1. Inv /\ [Next]_vars
    BY MembraneStep DEF NativeInv
  <2> QED
    BY <2>1, TypeStep, StageStep, EarnedStep DEF Inv
<1>2. NativeTypeOK'
  BY NativeTypeStep DEF NativeInv
<1>3. ASSUME NEW d \in Call PROVE NativeStage(d)'
  <2>1. CASE UNCHANGED membraneVars
    BY <2>1 DEF membraneVars, vars, nativeVars, NativeInv, NativeStage
  <2>2. ASSUME NEW c \in Call, NativeStep(c) PROVE NativeStage(d)'
    BY <2>2, NativeStageOther, NativeStageNative
  <2>3. CASE OtherStep
    <3>1. CASE \E e \in Executor : Register(e)
      BY <3>1, <2>3 DEF OtherStep, Register, nativeVars, NativeInv, NativeStage
    <3>2. ASSUME NEW c \in Call,
                 Called(c) \/ CallStep(c) \/ Expire(c) \/ Send(c)
                   \/ (~InNative(c) /\ Computes(c))
          PROVE  NativeStage(d)'
      <4>1. UNCHANGED nativeVars
        BY <2>3 DEF OtherStep
      <4>2. CASE c = d
        BY <3>2, <4>1, <4>2, NativeStageOwn
      <4>3. CASE c # d
        BY <3>2, <4>1, <4>3, NativeStageOther
      <4> QED
        BY <4>2, <4>3
    <3> QED
      BY <2>3, <3>1, <3>2 DEF OtherStep
  <2> QED
    BY <2>1, <2>2, <2>3 DEF MembraneNext
<1> QED
  BY <1>1, <1>2, <1>3 DEF NativeInv

-----------------------------------------------------------------------------
\* For any calls, executors and allow-list, and however the timeouts of the
\* manager and the membrane race with late answers: what is accepted was
\* completed by an executor that may mutate, which a native one may not, and a
\* native execution completes only with the result, within the bound, of a
\* symbol on the list (Execute, ExecuteMutating, Invoke).
THEOREM ExecutionsAreEarned == MembraneSpec => []ExecutionsEarned
<1>1. NativeInv => ExecutionsEarned
  <2> SUFFICES ASSUME NativeInv PROVE ExecutionsEarned
    OBVIOUS
  <2>1. AcceptedEarned
    BY InvEarns DEF NativeInv
  <2>2. \A n \in DOMAIN history : call[history[n]].ran \notin Native
    BY <2>1, NativeAssumption DEF AcceptedEarned, AcceptedPrivileged, Mutating
  <2>3. NativeBounded
    BY <2>2 DEF NativeInv, NativeBounded, NativeStage
  <2> QED
    BY <2>1, <2>3 DEF ExecutionsEarned
<1> QED
  BY NativeInit, NativeInvStep, <1>1, PTL DEF MembraneSpec
==============================================================================
