-------------------------------- MODULE Tasks -------------------------------
(***************************************************************************)
(* The task registry of internal/progress and the server's handlers that   *)
(* keep a task while they work: beginTask, completeTask and failTask of    *)
(* internal/server/tasks.go, each a series of registry calls, every one of *)
(* which holds the registry's mutex and is a step here.                    *)
(*                                                                         *)
(* A handler names its task by operation, workspace and key, or at random; *)
(* two requests for the same thing share a task.  Phases, metrics,         *)
(* warnings and errors matter here only as they move UpdatedAt, the order  *)
(* of eviction.                                                            *)
(***************************************************************************)
EXTENDS Naturals, FiniteSets

CONSTANTS
    Handler,      \* goroutines that serve requests
    Kind,         \* requests they serve: subset of Kinds
    NamedID,      \* DeterministicTaskID of operation, workspace and key
    RandomID,     \* bound: values RandomTaskID returns
    NoID,
    MaxRegistry   \* maxSize

\* An import is of a ZIP, an envelope of flatten-workspace/v1; a verification of
\* replay keeps its task as a query does.
Kinds == {"ingest", "query", "import", "envelope", "snapshot", "checkpoint"}

ASSUME TasksAssumption ==
    /\ Kind \subseteq Kinds
    /\ NamedID \cap RandomID = {} /\ NoID \notin NamedID \cup RandomID
    /\ MaxRegistry \in Nat \ {0}

TaskID == NamedID \cup RandomID

Terminal == {"complete", "failed", "rejected"}

Status == {"pending", "running"} \cup Terminal

VARIABLES
    tasks,     \* the registry: task id -> status, of those in it
    older,     \* by UpdatedAt: task id -> ids of those updated before it
    taken,     \* random ids drawn
    receipts,  \* task id -> final status in its receipt file, or "none"
    handler,   \* what each handler is at: step, kind, task, final status
    left       \* history: tasks a handler returned from without ending them

registryVars == <<tasks, older>>
vars == <<tasks, older, taken, receipts, handler, left>>

Steps == {"idle", "created", "started", "phased", "metered", "working",
          "ending", "closing", "closed", "saving", "deferred"}

Known == DOMAIN tasks
Active == {id \in Known : tasks[id] \notin Terminal}

TypeOK ==
    /\ Known \subseteq TaskID /\ tasks \in [Known -> Status]
    /\ IsFiniteSet(Known) /\ older \in [Known -> SUBSET Known]
    /\ taken \subseteq RandomID
    /\ receipts \in [TaskID -> Terminal \cup {"none"}]
    /\ handler \in [Handler -> [step : Steps, kind : Kind \cup {"none"},
                                id : TaskID \cup {NoID},
                                final : Terminal]]
    /\ left \subseteq TaskID

Idle == [step |-> "idle", kind |-> "none", id |-> NoID, final |-> "failed"]

Init ==
    /\ tasks = <<>> /\ older = <<>> /\ taken = {}
    /\ receipts = [id \in TaskID |-> "none"]
    /\ handler = [h \in Handler |-> Idle]
    /\ left = {}

----------------------------------------------------------------------------
\* The registry.

\* The order once id has been updated.
Touched(id) ==
    [x \in Known |-> IF x = id THEN Known \ {id} ELSE older[x] \ {id}]

\* A call that only moves UpdatedAt; on an unknown task it is an error the
\* handlers ignore.
Touch(id) ==
    /\ older' = IF id \in Known THEN Touched(id) ELSE older
    /\ UNCHANGED tasks

\* Mutant of Allowed: only pending is a status nobody returns to.
AllowedAgain(from, to) == to # "pending"

\* ValidateTransition; nobody asks for paused.
Allowed(from, to) ==
    \/ from = "pending" /\ to \in {"pending", "running", "failed", "rejected"}
    \/ from = "running" /\ to \in {"running", "complete", "failed", "rejected"}

Transition(id, to) ==
    IF id \in Known /\ Allowed(tasks[id], to)
    THEN tasks' = [tasks EXCEPT ![id] = to] /\ older' = Touched(id)
    ELSE UNCHANGED registryVars

\* Mutants of Evicted: the oldest go, whatever their status; failed tasks
\* make no room.
EvictedOldest ==
    {x \in Known : Cardinality(older[x]) + MaxRegistry <= Cardinality(Known)}

EvictedComplete ==
    LET ended == {x \in Known : tasks[x] = "complete"}
    IN  {x \in ended :
            Cardinality(older[x] \cap ended) + MaxRegistry <= Cardinality(Known)}

\* evictIfNeededLocked, when one more has come in: the oldest terminal ones, as
\* many as are beyond maxSize.
Evicted ==
    {x \in Known \ Active :
        Cardinality(older[x] \ Active) + MaxRegistry <= Cardinality(Known)}

\* Create: an id that is known names the task there is, whatever its status.
Create(id) ==
    IF id \in Known THEN UNCHANGED registryVars
    ELSE LET kept == (Known \ Evicted) \cup {id}
         IN  /\ tasks' = [x \in kept |-> IF x = id THEN "pending" ELSE tasks[x]]
             /\ older' = [x \in kept |->
                            (IF x = id THEN Known ELSE older[x]) \ Evicted]

----------------------------------------------------------------------------
\* beginTask.

At(h, step) == handler[h].step = step
Goto(h, step) == handler' = [handler EXCEPT ![h].step = step]

\* A checkpoint's key is empty, that of an ingest or an envelope may be.
IDsOf(k) ==
    (IF k = "checkpoint" THEN {} ELSE NamedID)
      \cup (IF k \in {"checkpoint", "ingest", "envelope"} THEN RandomID \ taken
            ELSE {})

Begin(h) ==
    /\ At(h, "idle")
    /\ \E k \in Kind : \E id \in IDsOf(k) :
           /\ Create(id)
           /\ taken' = taken \cup ({id} \cap RandomID)
           /\ handler' = [handler EXCEPT ![h] =
                [step |-> "created", kind |-> k, id |-> id, final |-> "failed"]]
    /\ UNCHANGED <<receipts, left>>

Start(h) ==
    /\ At(h, "created")
    /\ Transition(handler[h].id, "running")
    /\ Goto(h, "started")
    /\ UNCHANGED <<taken, receipts, left>>

Phase(h) ==
    /\ At(h, "started")
    /\ Touch(handler[h].id)
    /\ Goto(h, "phased")
    /\ UNCHANGED <<taken, receipts, left>>

Meter(h) ==
    /\ At(h, "phased")
    /\ Touch(handler[h].id)
    /\ Goto(h, "metered")
    /\ UNCHANGED <<taken, receipts, left>>

\* The task is fetched again.  If it is not there, ingest and query
\* dereference nil and the others go on without a task.
Refetch(h) ==
    /\ At(h, "metered")
    /\ IF handler[h].id \in Known THEN Goto(h, "working")
       ELSE handler' = [handler EXCEPT ![h] = Idle]
    /\ UNCHANGED <<tasks, older, taken, receipts, left>>

----------------------------------------------------------------------------
\* What the handlers do with their tasks.

\* What a handler may wait for without end once it has begun its task: its
\* client, to send the body of an ingest or to read a snapshot, or the sidecar,
\* to answer http.Post; neither the server nor that client has a timeout.
Waits(h) ==
    At(h, "working") /\ handler[h].kind \in {"ingest", "snapshot", "checkpoint"}

\* A packet of an ingest is refused: AddWarning.
Warns(h) ==
    /\ At(h, "working") /\ handler[h].kind = "ingest"
    /\ Touch(handler[h].id)
    /\ UNCHANGED <<taken, receipts, handler, left>>

\* What is reported then, counts and a phase, leaves UpdatedAt.
Succeeds(h) ==
    /\ At(h, "working")
    /\ handler' = [handler EXCEPT ![h].step = "ending", ![h].final = "complete"]
    /\ UNCHANGED <<tasks, older, taken, receipts, left>>

\* Mutant of Fails: the error is returned and the task left.
FailsAndReturns(h) ==
    /\ At(h, "working")
    /\ handler' = [handler EXCEPT ![h] = Idle]
    /\ UNCHANGED <<tasks, older, taken, receipts, left>>

\* failTask; a snapshot that fails is completed by its defer all the same.
Fails(h) ==
    /\ At(h, "working")
    /\ handler[h].kind # "checkpoint"
    /\ handler' = [handler EXCEPT
                     ![h].step = "ending",
                     ![h].final = IF handler[h].kind = "snapshot"
                                  THEN "complete" ELSE "failed"]
    /\ UNCHANGED <<tasks, older, taken, receipts, left>>

\* An import or a checkpoint that returns its error and leaves the task.
Leaves(h) ==
    /\ At(h, "working")
    /\ handler[h].kind \in {"import", "envelope", "checkpoint"}
    /\ IF handler[h].kind = "import" THEN Goto(h, "deferred")
       ELSE handler' = [handler EXCEPT ![h] = Idle]
    /\ left' = left \cup {handler[h].id}
    /\ UNCHANGED <<tasks, older, taken, receipts>>

\* completeTask: the metrics, and the error if there is one.
EndMeter(h) ==
    /\ At(h, "ending")
    /\ Touch(handler[h].id)
    /\ Goto(h, "closing")
    /\ UNCHANGED <<taken, receipts, left>>

EndTransition(h) ==
    /\ At(h, "closing")
    /\ Transition(handler[h].id, handler[h].final)
    /\ Goto(h, "closed")
    /\ UNCHANGED <<taken, receipts, left>>

\* Where a handler goes when it is done with its task.
Done(h) ==
    IF handler[h].kind = "import" THEN [handler EXCEPT ![h].step = "deferred"]
    ELSE [handler EXCEPT ![h] = Idle]

EndGet(h) ==
    /\ At(h, "closed")
    /\ handler' = IF handler[h].id \in Known
                  THEN [handler EXCEPT ![h].step = "saving"] ELSE Done(h)
    /\ UNCHANGED <<tasks, older, taken, receipts, left>>

\* The receipt has the status the handler ended with; Save may fail.
Save(h) ==
    /\ At(h, "saving")
    /\ \/ receipts' = [receipts EXCEPT ![handler[h].id] = handler[h].final]
       \/ UNCHANGED receipts
    /\ handler' = Done(h)
    /\ UNCHANGED <<tasks, older, taken, left>>

\* The defer of opImportZip.
Deferred(h) ==
    /\ At(h, "deferred")
    /\ Touch(handler[h].id)
    /\ handler' = [handler EXCEPT ![h] = Idle]
    /\ UNCHANGED <<taken, receipts, left>>

\* A restart: the registry is in memory, the receipts are on disk.
Restart ==
    /\ tasks' = <<>> /\ older' = <<>>
    /\ handler' = [h \in Handler |-> Idle]
    /\ left' = {}
    /\ UNCHANGED <<taken, receipts>>

Serve(h) ==
    \/ Start(h) \/ Phase(h) \/ Meter(h) \/ Refetch(h)
    \/ Warns(h) \/ Succeeds(h) \/ Fails(h) \/ Leaves(h)
    \/ EndMeter(h) \/ EndTransition(h) \/ EndGet(h) \/ Save(h) \/ Deferred(h)

Next == Restart \/ \E h \in Handler : Begin(h) \/ Serve(h)

Spec == Init /\ [][Next]_vars

\* A handler that has begun goes on, but for one that waits for its client or
\* for the sidecar: nothing is assumed of either.
FairSpec == Spec /\ \A h \in Handler : WF_vars(~ Waits(h) /\ Serve(h))

----------------------------------------------------------------------------
\* What the registry promises.

\* Of any two tasks one has been updated before the other.
Ordered ==
    /\ \A x, y \in Known : x \in older[y] <=> x # y /\ y \notin older[x]
    /\ \A x, y, z \in Known : x \in older[y] /\ y \in older[z] => x \in older[z]

\* Who ends a task: a handler that is at it, unless one has left it.
Tended ==
    Active \subseteq left \cup {handler[h].id : h \in {g \in Handler : ~At(g, "idle")}}

\* A task whose id no other request has is running once it has been begun, and
\* its receipt says what became of it.
OwnTasks ==
    \A id \in taken :
        /\ \A h \in Handler :
             At(h, "metered") /\ handler[h].id = id =>
               id \in Known /\ tasks[id] = "running"
        /\ (id \in Known \ Active /\ \A h \in Handler : handler[h].id # id) =>
             receipts[id] \in {"none", tasks[id]}

\* No task runs that nobody will end, and of its own task a handler knows what
\* beginTask and completeTask say, whatever others do to theirs.
Accounted == TypeOK /\ Ordered /\ Tended /\ OwnTasks

\* Active tasks are never evicted (comment of MaxRegistrySize): only a restart
\* forgets them.
ActiveKept ==
    [][Active \subseteq Known' \/ Known' = {}]_vars

\* A terminal status is final for as long as the registry has the task, with
\* two handlers ending the same task and others beginning it again.
TerminalFinal ==
    [][\A id \in (Known \ Active) \cap Known' :
          tasks'[id] = tasks[id]]_vars

\* The registry outgrows maxSize only by what is active at once: whenever a
\* task comes in, the registry is within its limit or all of it is active,
\* whatever the others ended with and whoever began them again.
GrowthBounded ==
    [][Known' \subseteq Known
         \/ Cardinality(Known') <= MaxRegistry
         \/ Known' = Active']_vars

\* Every task that is begun is ended, evicted or forgotten by a restart, unless
\* a handler leaves it (an import or a checkpoint that returns its error) or one
\* waits with it for good for its client or the sidecar.
TasksEnd ==
    \A id \in TaskID :
        \/ (id \in Active) ~> (id \notin Active \/ id \in left)
        \/ \E h \in Handler : <>[](Waits(h) /\ handler[h].id = id)

\* What beginTask leaves is running (comment of beginTask: "creates task,
\* transitions to running").
BegunIsRunning ==
    \A h \in Handler :
        At(h, "metered") => /\ handler[h].id \in Known
                            /\ tasks[handler[h].id] = "running"

\* The receipt of a task agrees with the task (BuildReceiptFromTask:
\* "constructs a receipt from terminal task").
ReceiptAgrees ==
    \A id \in Known :
        (tasks[id] \in Terminal /\ \A h \in Handler : handler[h].id # id)
            => receipts[id] \in {"none", tasks[id]}

============================================================================
