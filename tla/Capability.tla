------------------------------ MODULE Capability -----------------------------
(***************************************************************************)
(* internal/capability: the registry of executors, the manager that runs   *)
(* one under a timeout and may propose what came of it, and the progress   *)
(* integration that keeps a record and a task of each request.  Every call *)
(* of Manager starts a goroutine for the executor; when the call gives up, *)
(* the goroutine goes on and answers into a channel nobody reads.          *)
(*                                                                         *)
(* The authority is one step of Propose, as its mutex makes it, and the    *)
(* task registry one step of each of its methods; it is large enough here  *)
(* that it evicts nothing.                                                 *)
(***************************************************************************)
EXTENDS Naturals, Sequences, FiniteSets

CONSTANTS
    Call,          \* calls of ExecuteWithProgress and ExecuteMutating
    Kind,          \* which of the two: subset of Kinds
    Executor,      \* what is registered
    Describe,      \* Executor -> Descriptor
    Request,       \* requests
    CapabilityID,  \* Request -> the capability it names
    RequestID,     \* Request -> its id
    TransitionID,  \* Request -> its capability and id, cut to 64 bytes
    Oversized,     \* requests whose inputs exceed MaxInputBytes
    MaxSize,       \* Registry.maxSize
    None           \* no executor, no request, no call

Kinds == {"progress", "mutating"}
Tiers == {"T1_READ", "T2_BOUNDED", "T3_PRIVILEGED"}
Ids == {CapabilityID[r] : r \in Request} \cup {Describe[e].id : e \in Executor}

ASSUME CapabilityAssumption ==
    /\ Kind \subseteq Kinds /\ Oversized \subseteq Request
    /\ \A e \in Executor :
         /\ Describe[e].tier \in Tiers
         /\ Describe[e].mutating \in BOOLEAN /\ Describe[e].enabled \in BOOLEAN
    /\ MaxSize \in Nat \ {0}
    /\ None \notin Call \cup Executor \cup Request

VARIABLES
    entries,   \* Registry.entries: capability id -> executor or None
    call,      \* what each call is at: step, kind, request, executor, result, prior
    executor,  \* its executor: running, or what it has computed
    sent,      \* the calls whose executor's goroutine has sent that and ended
    expired,   \* the calls whose context is done
    records,   \* ProgressIntegration.records: request id -> call whose record it is
    status,    \* the status in each call's record
    tasks,     \* the task of each request id: its status, or "none"
    history    \* the accepted transitions, in order: the calls that proposed them

progressVars == <<records, status, tasks>>
vars == <<entries, call, executor, sent, expired, records, status, tasks, history>>

Steps == {"idle", "recorded", "created", "begun", "selecting", "returned",
          "admitted", "found", "written", "done"}
Results == {"none", "completed", "failed", "rejected"}
Outcomes == {"completed", "failed", "large"}
ReqIds == {RequestID[r] : r \in Request}

CallState ==
    [step : Steps, kind : Kinds, req : Request \cup {None},
     ran : Executor \cup {None}, result : Results,
     prior : Nat, record : Call \cup {None}]

TypeOK ==
    /\ entries \in [Ids -> Executor \cup {None}]
    /\ call \in [Call -> CallState]
    /\ executor \in [Call -> {"none", "running"} \cup Outcomes]
    /\ expired \subseteq Call /\ sent \subseteq Call
    /\ records \in [ReqIds -> Call \cup {None}]
    /\ status \in [Call -> Results \cup {"pending"}]
    /\ tasks \in [ReqIds -> {"none", "pending", "running", "complete", "failed", "rejected"}]
    /\ history \in Seq(Call)

Idle == [step |-> "idle", kind |-> "progress", req |-> None, ran |-> None,
         result |-> "none", prior |-> 0, record |-> None]

Init ==
    /\ entries = [i \in Ids |-> None]
    /\ call = [c \in Call |-> Idle]
    /\ executor = [c \in Call |-> "none"] /\ sent = {} /\ expired = {}
    /\ records = [i \in ReqIds |-> None]
    /\ status = [c \in Call |-> "none"]
    /\ tasks = [i \in ReqIds |-> "none"]
    /\ history = <<>>

----------------------------------------------------------------------------
\* Registry.Register: a descriptor that Validate refuses, an id that is taken
\* and a full registry are errors.

Registered == {i \in Ids : entries[i] # None}

Registrable(e) ==
    /\ ~(Describe[e].tier = "T1_READ" /\ Describe[e].mutating)
    /\ Describe[e].id \notin Registered
    /\ Cardinality(Registered) < MaxSize

Register(e) ==
    /\ Registrable(e)
    /\ entries' = [entries EXCEPT ![Describe[e].id] = e]
    /\ UNCHANGED <<call, executor, sent, expired, progressVars, history>>

----------------------------------------------------------------------------
\* A call, from its request on.

At(c, step) == call[c].step = step
Req(c) == call[c].req
Rid(c) == RequestID[Req(c)]

Goto(c, step) == call' = [call EXCEPT ![c].step = step]

\* The calls with request id i, and those of them that keep a record.
CallsOf(i) == {c \in Call : Req(c) # None /\ Rid(c) = i}
RecordedCalls(i) == {c \in CallsOf(i) : call[c].kind = "progress"}

Accepts(c, step, k, r) ==
    call' = [call EXCEPT ![c].step = step, ![c].kind = k, ![c].req = r]

\* ExecuteMutating keeps no record.
Called(c) ==
    /\ At(c, "idle")
    /\ \E k \in Kind, r \in Request :
         IF k = "mutating"
         THEN /\ Accepts(c, "begun", k, r)
              /\ UNCHANGED progressVars
         ELSE /\ Accepts(c, "recorded", k, r)
              /\ records' = [records EXCEPT ![RequestID[r]] = c]
              /\ status' = [status EXCEPT ![c] = "pending"]
              /\ UNCHANGED tasks
    /\ UNCHANGED <<entries, executor, sent, expired, history>>

\* Begin: Create finds the task of an id that was used before.
CreateTask(c) ==
    /\ At(c, "recorded")
    /\ tasks' = [tasks EXCEPT ![Rid(c)] = IF @ = "none" THEN "pending" ELSE @]
    /\ Goto(c, "created")
    /\ UNCHANGED <<entries, executor, sent, expired, records, status, history>>

\* Registry.Transition, whose refusal Begin and Complete ignore.
Moved(from, to) ==
    IF \/ from = "pending" /\ to \in {"running", "failed", "rejected"}
       \/ from = "running" /\ to \in {"complete", "failed", "rejected"}
    THEN to ELSE from

\* Mutant of StartTask: Begin does not move the task on.
StartTaskNot(c) ==
    /\ At(c, "created")
    /\ Goto(c, "begun")
    /\ UNCHANGED <<entries, executor, sent, expired, progressVars, history>>

StartTask(c) ==
    /\ At(c, "created")
    /\ tasks' = [tasks EXCEPT ![Rid(c)] = Moved(@, "running")]
    /\ Goto(c, "begun")
    /\ UNCHANGED <<entries, executor, sent, expired, records, status, history>>

----------------------------------------------------------------------------
\* Manager.Execute.

\* Execute returns a result; its deferred cancel ends the context.  A result
\* other than completed comes with an error.
Returns(c, result) ==
    /\ call' = [call EXCEPT ![c].step = "returned", ![c].result = result]
    /\ expired' = IF executor[c] = "none" THEN expired ELSE expired \cup {c}

\* ValidateRequest, then Get.
Admissible(r) ==
    /\ entries[CapabilityID[r]] # None
    /\ Describe[entries[CapabilityID[r]]].enabled
    /\ r \notin Oversized

Refuse(c) ==
    /\ At(c, "begun") /\ ~Admissible(Req(c))
    /\ Returns(c, "rejected")
    /\ UNCHANGED <<entries, executor, sent, progressVars, history>>

Spawn(c) ==
    /\ At(c, "begun") /\ Admissible(Req(c))
    /\ executor' = [executor EXCEPT ![c] = "running"]
    /\ call' = [call EXCEPT ![c].step = "selecting",
                              ![c].ran = entries[CapabilityID[Req(c)]]]
    /\ UNCHANGED <<entries, sent, expired, progressVars, history>>

\* The timeout, or the caller's cancellation.
Expire(c) ==
    /\ At(c, "selecting") /\ c \notin expired
    /\ expired' = expired \cup {c}
    /\ UNCHANGED <<entries, call, executor, sent, progressVars, history>>

\* The executor has computed its answer; one that watches its context fails.
Computes(c) ==
    /\ executor[c] = "running"
    /\ \E out \in Outcomes : executor' = [executor EXCEPT ![c] = out]
    /\ UNCHANGED <<entries, call, sent, expired, progressVars, history>>

\* The goroutine has its answer to send.
Answered(c) == executor[c] \in Outcomes /\ c \notin sent

\* The channel takes one answer, read or not.
Room(c) == TRUE

\* The goroutine ends with an answer nobody is left to read.
Send(c) ==
    /\ Answered(c) /\ ~At(c, "selecting") /\ Room(c)
    /\ sent' = sent \cup {c}
    /\ UNCHANGED <<entries, call, executor, expired, progressVars, history>>

\* What comes of an answer.
Bounded(out) == IF out = "completed" THEN "completed" ELSE "failed"

\* select: when both are ready either is chosen.
Receive(c) ==
    /\ At(c, "selecting") /\ Answered(c)
    /\ Returns(c, Bounded(executor[c]))
    /\ sent' = sent \cup {c}
    /\ UNCHANGED <<entries, executor, progressVars, history>>

GiveUp(c) ==
    /\ At(c, "selecting") /\ c \in expired
    /\ Returns(c, "failed")
    /\ UNCHANGED <<entries, executor, sent, progressVars, history>>

----------------------------------------------------------------------------
\* ExecuteMutating, after Execute.

Mutating(e) == Describe[e].tier # "T1_READ" /\ Describe[e].mutating

\* What the registry now says of the capability decides; then the predecessor
\* is read.
Deny(c) ==
    /\ At(c, "returned") /\ call[c].kind = "mutating"
    /\ call[c].result = "completed" => ~Mutating(entries[CapabilityID[Req(c)]])
    /\ Goto(c, "done")
    /\ UNCHANGED <<entries, executor, sent, expired, progressVars, history>>

ReadPrior(c) ==
    /\ At(c, "returned") /\ call[c].kind = "mutating"
    /\ call[c].result = "completed"
    /\ Mutating(entries[CapabilityID[Req(c)]])
    /\ call' = [call EXCEPT ![c].step = "admitted", ![c].prior = Len(history)]
    /\ UNCHANGED <<entries, executor, sent, expired, progressVars, history>>

\* BuildProposedTransition's id.
ProposedID(c) == TransitionID[Req(c)]

Taken(id) == \E n \in DOMAIN history : ProposedID(history[n]) = id

\* Propose answers: the transition is accepted, or it is refused as a conflict
\* with another of its id, as stale, or by the recorder.
Propose(c) ==
    /\ At(c, "admitted")
    /\ \/ /\ ~Taken(ProposedID(c)) /\ call[c].prior = Len(history)
          /\ history' = Append(history, c)
       \/ UNCHANGED history
    /\ Goto(c, "done")
    /\ UNCHANGED <<entries, executor, sent, expired, progressVars>>

----------------------------------------------------------------------------
\* ProgressIntegration.Complete: it finds the record of the request's last
\* Begin, writes into it without the lock, and moves the task.

FindRecord(c) ==
    /\ At(c, "returned") /\ call[c].kind = "progress"
    /\ call' = [call EXCEPT ![c].step = "found", ![c].record = records[Rid(c)]]
    /\ UNCHANGED <<entries, executor, sent, expired, progressVars, history>>

WriteRecord(c) ==
    /\ At(c, "found")
    /\ status' = [status EXCEPT ![call[c].record] = call[c].result]
    /\ Goto(c, "written")
    /\ UNCHANGED <<entries, executor, sent, expired, records, tasks, history>>

TaskStatus(result) == IF result = "completed" THEN "complete" ELSE result

EndTask(c) ==
    /\ At(c, "written")
    /\ tasks' = [tasks EXCEPT ![Rid(c)] = Moved(@, TaskStatus(call[c].result))]
    /\ Goto(c, "done")
    /\ UNCHANGED <<entries, executor, sent, expired, records, status, history>>

----------------------------------------------------------------------------
CallStep(c) ==
    \/ CreateTask(c) \/ StartTask(c) \/ Refuse(c) \/ Spawn(c)
    \/ Receive(c) \/ GiveUp(c) \/ Deny(c) \/ ReadPrior(c) \/ Propose(c)
    \/ FindRecord(c) \/ WriteRecord(c) \/ EndTask(c)

Next ==
    \/ \E e \in Executor : Register(e)
    \/ \E c \in Call : Called(c) \/ CallStep(c) \/ Expire(c) \/ Computes(c) \/ Send(c)

Spec == Init /\ [][Next]_vars

----------------------------------------------------------------------------
\* What is accepted comes of an execution that completed, within the bound on
\* outputs: an answer that comes after the timeout, an error or too large an
\* output is never proposed (Execute, ExecuteMutating).
AcceptedCompleted ==
    \A n \in DOMAIN history :
        /\ call[history[n]].result = "completed"
        /\ executor[history[n]] = "completed"

\* ... by an executor that may mutate.  The tier that was checked after the
\* execution was looked up anew, by the capability's id: it is that of the
\* executor that ran, since no registration replaces another (Register,
\* Execute, ExecuteMutating).
AcceptedPrivileged ==
    \A n \in DOMAIN history : Mutating(call[history[n]].ran)

\* However often a request is made, it makes at most one transition
\* (BuildProposedTransition, Propose).
RequestOnce ==
    \A m, n \in DOMAIN history :
        Req(history[m]) = Req(history[n]) => m = n

\* What the authority has accepted was earned: by a call that completed, of an
\* executor that may mutate, once for a request.
AcceptedEarned ==
    TypeOK /\ AcceptedCompleted /\ AcceptedPrivileged /\ RequestOnce

\* The record and the task of a request tell the same when its calls are done
\* (TaskRecord; Begin, Complete).
Agree(i) ==
    (records[i] # None /\ \A c \in CallsOf(i) : At(c, "done"))
        => tasks[i] = TaskStatus(status[records[i]])

\* Where an id is not used for two records, record and task agree.
RecordsAgree ==
    \A i \in ReqIds : (\A c, d \in RecordedCalls(i) : c = d) => Agree(i)

\* "TaskRecord ties capability execution to progress observability": record and
\* task agree also where an actor's requests share an id.
SharedRecordsAgree == \A i \in ReqIds : Agree(i)
==============================================================================
