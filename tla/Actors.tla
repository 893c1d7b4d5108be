-------------------------------- MODULE Actors ------------------------------
(***************************************************************************)
(* The actor controller, internal/actorstub: governed activation, the      *)
(* deduplication window, TTL timers, and the Proto.Actor processes that    *)
(* run outside the controller's mutex, driven by the queries of            *)
(* internal/orchestrator and by the server's handlers.                     *)
(*                                                                         *)
(* Every method of the controller holds its mutex, so it is one action;    *)
(* what it leaves to others is a step of its own: a timer that fires, a    *)
(* goroutine that then waits for the mutex, a message or a Stop in a       *)
(* mailbox.  All TTLs are equal, so activations expire in their order.     *)
(***************************************************************************)
EXTENDS Integers, FiniteSets, Sequences

CONSTANTS
    QueryKey,        \* (workspace, "live_context.query", node)
    ServerKey,       \* (workspace, another action, path)
    Query,           \* goroutines inside Orchestrator.Query
    Message,         \* messages Send is called with
    MaxActive, MaxDepth, MaxBudget,
    MaxActivations   \* bound: activations recorded and messages under way

ASSUME KeysAssumption == QueryKey \cap ServerKey = {}

ASSUME MessageAssumption == Message \subseteq {"work", "panic", "text panic"}

ASSUME LimitsAssumption ==
    /\ MaxActive \in Nat \ {0}
    /\ MaxDepth \in Nat \ {0}
    /\ MaxBudget \in Nat \ {0}
    /\ MaxActivations \in Nat

Key == QueryKey \cup ServerKey

Status == {"active", "rejected", "failed", "expired", "completed", "passivated"}

\* A key activates a root (parent 0) or the child of an activation.  Lineage 0
\* is the empty lineage of an activation whose parent was not valid.
Activation == [key : Key, lineage : 0..MaxActivations, depth : Nat,
               budget : Int, status : Status]

VARIABLES
    activations,  \* in order of their ids; also the descriptors
    due,          \* how many of them have passed their ExpiresAt
    dedup,        \* key -> the activation whose ExpiresAt closes its window
    live,         \* ids with a PID
    timers,       \* ids whose timer is armed
    fired,        \* ids whose timer function runs and waits for the mutex
    closed,       \* Shutdown has begun
    halting,      \* ids Shutdown has yet to stop
    running,      \* actor processes that have not stopped
    stopping,     \* those with a Stop in their mailbox
    mail,         \* user messages in mailboxes: id and message
    sending,      \* messages whose sender has passed the checks of Send
    query         \* what each query does: its stage and its actor

controllerVars == <<activations, dedup, live, timers, closed>>
vars == <<activations, due, dedup, live, timers, fired, closed, halting,
          running, stopping, mail, sending, query>>

Ids == 1..Len(activations)
ActiveIds == {i \in Ids : activations[i].status = "active"}

TypeOK ==
    /\ activations \in Seq(Activation) /\ Len(activations) <= MaxActivations
    /\ due \in 0..Len(activations)
    /\ dedup \in [Key -> 0..MaxActivations]
    /\ live \subseteq Ids /\ timers \subseteq Ids /\ fired \subseteq Ids
    /\ closed \in BOOLEAN
    /\ halting \subseteq Ids /\ running \subseteq Ids /\ stopping \subseteq Ids
    /\ mail \subseteq Ids \X Message
    /\ sending \subseteq Ids \X Message
    /\ query \in [Query -> {"idle", "activated", "recorded"}
                           \X (0..MaxActivations)]

Init ==
    /\ activations = <<>> /\ due = 0
    /\ dedup = [k \in Key |-> 0]
    /\ live = {} /\ timers = {} /\ fired = {}
    /\ closed = FALSE /\ halting = {}
    /\ running = {} /\ stopping = {} /\ mail = {} /\ sending = {}
    /\ query = [q \in Query |-> <<"idle", 0>>]

----------------------------------------------------------------------------
\* The bound: the run has room for one more activation or message.
Room == Len(activations) + Cardinality(sending) + Cardinality(mail)
          < MaxActivations

\* The helpers of the controller.

\* Activations s, those of ids whose status is "active" now having status st.
Ended(s, ids, st) ==
    [ i \in DOMAIN s |->
        IF i \in ids /\ s[i].status = "active"
        THEN [s[i] EXCEPT !.status = st] ELSE s[i] ]

\* The windows of the keys of ids are closed, whoever opened them.
Reopened(ids) ==
    [ k \in Key |->
        IF \E i \in ids : activations[i].key = k THEN 0 ELSE dedup[k] ]

\* Mutant of StopLive: the PID is forgotten and its process not stopped.
StopLiveForgets(ids) ==
    /\ live' = live \ ids
    /\ timers' = timers \ (ids \cap live)
    /\ UNCHANGED stopping

\* stopLiveLocked, for each of ids: forget the PID, stop the timer, send Stop.
StopLive(ids) ==
    /\ live' = live \ ids
    /\ timers' = timers \ (ids \cap live)
    /\ stopping' = stopping \cup (ids \cap live)

\* cleanLocked finds these active and past their ExpiresAt.
Overdue == {i \in ActiveIds : i <= due}

\* The window of key k is open.
InWindow(k) == Reopened(Overdue)[k] > due

\* The activation of key k below parent p, but for its status.
Below(p, k, st) ==
    IF p = 0
    THEN [key |-> k, lineage |-> Len(activations) + 1, depth |-> 1,
          budget |-> MaxBudget, status |-> st]
    ELSE IF p \in Ids /\ activations[p].lineage # 0
    THEN [key |-> k, lineage |-> activations[p].lineage,
          depth |-> activations[p].depth + 1,
          budget |-> activations[p].budget - 1, status |-> st]
    ELSE [key |-> k, lineage |-> 0, depth |-> 0, budget |-> 0, status |-> st]

\* An activation of this lineage that is active, once clean has run.
ActiveInLineage(l) ==
    {i \in ActiveIds \ Overdue : activations[i].lineage = l}

\* Mutant of Suppressed: children are not looked up in their lineage.
SuppressedRootsOnly(p, k) == p = 0 /\ InWindow(k)

\* A request that is not recorded at all: a root in its key's window, or a
\* child whose key is active in its lineage.
Suppressed(p, k) ==
    IF p = 0 THEN InWindow(k)
    ELSE /\ p \in Ids
         /\ activations[p].lineage # 0
         /\ activations[p].key # k
         /\ \E i \in ActiveInLineage(activations[p].lineage) :
              activations[i].key = k

\* Mutant of Refused: one more than maxActive.
RefusedLate(p, k) ==
    \/ p # 0 /\ Below(p, k, "rejected").lineage = 0
    \/ p \in Ids /\ activations[p].key = k
    \/ Below(p, k, "rejected").depth > MaxDepth
    \/ Below(p, k, "rejected").budget < 0
    \/ Cardinality(ActiveIds \ Overdue) > MaxActive

\* A request that is recorded and rejected: no valid lineage, a cycle, too
\* deep, no budget, or too many active.
Refused(p, k) ==
    \/ p # 0 /\ Below(p, k, "rejected").lineage = 0
    \/ p \in Ids /\ activations[p].key = k
    \/ Below(p, k, "rejected").depth > MaxDepth
    \/ Below(p, k, "rejected").budget < 0
    \/ Cardinality(ActiveIds \ Overdue) >= MaxActive

----------------------------------------------------------------------------
\* ActivateWithParent, in its order; each begins with cleanLocked.

Suppress(p, k) ==
    /\ Suppressed(p, k)
    /\ activations' = Ended(activations, Overdue, "expired")
    /\ dedup' = Reopened(Overdue)
    /\ StopLive(Overdue)
    /\ UNCHANGED <<closed, due, fired, halting, running, mail, sending>>

Refuse(p, k) ==
    /\ Room
    /\ ~Suppressed(p, k)
    /\ Refused(p, k)
    /\ activations' = Append(Ended(activations, Overdue, "expired"),
                             Below(p, k, "rejected"))
    /\ dedup' = Reopened(Overdue)
    /\ StopLive(Overdue)
    /\ UNCHANGED <<closed, due, fired, halting, running, mail, sending>>

\* spawnLocked: the processes it starts, none once Shutdown has begun.
Born(i) == IF closed THEN {} ELSE {i}

\* The new activation opens its key's window and is spawned.
Admit(p, k) ==
    LET new == Len(activations) + 1
    IN  /\ Room
        /\ ~Suppressed(p, k)
        /\ ~Refused(p, k)
        /\ activations' =
             Append(Ended(activations, Overdue, "expired"),
                    Below(p, k, IF closed THEN "failed" ELSE "active"))
        /\ dedup' = [Reopened(Overdue) EXCEPT ![k] = new]
        /\ live' = (live \ Overdue) \cup Born(new)
        /\ timers' = (timers \ (Overdue \cap live)) \cup Born(new)
        /\ stopping' = stopping \cup (Overdue \cap live)
        /\ running' = running \cup Born(new)
        /\ UNCHANGED <<closed, due, fired, halting, mail, sending>>

\* maybeActivateActor: the server activates a root and looks no further.
ServerActivates ==
    /\ \E k \in ServerKey : Suppress(0, k) \/ Refuse(0, k) \/ Admit(0, k)
    /\ UNCHANGED query

\* List: cleanLocked and no more.
List ==
    /\ activations' = Ended(activations, Overdue, "expired")
    /\ dedup' = Reopened(Overdue)
    /\ StopLive(Overdue)
    /\ UNCHANGED <<closed, due, fired, halting, running, mail, sending, query>>

----------------------------------------------------------------------------
\* The ends of an activation.  A late caller finds it ended already, and the
\* controller still reopens its key's window.

\* Mutant of EndOne: an ended activation ends again.
EndAgain(i, st) ==
    /\ activations' = [activations EXCEPT ![i].status = st]
    /\ StopLive({i})

\* The activation i ends with status st.
EndOne(i, st) ==
    /\ activations' = Ended(activations, {i}, st)
    /\ StopLive({i})

Complete(i) ==
    /\ EndOne(i, "completed")
    /\ dedup' = Reopened({i})
    /\ UNCHANGED <<closed, due, fired, halting, running>>

Fail(i) ==
    /\ EndOne(i, "failed")
    /\ UNCHANGED <<dedup, closed, due, fired, halting, running>>

\* RecordResult with an observation; the result itself is telemetry.
RecordResult(i) ==
    /\ IF activations[i].status = "active"
       THEN EndOne(i, "completed") /\ dedup' = Reopened({i})
       ELSE UNCHANGED <<activations, live, timers, stopping, dedup>>
    /\ UNCHANGED <<closed, due, fired, halting, running>>

\* handleStopped and recordFailure: the PID and the timer are forgotten.
Forget(i) ==
    /\ live' = live \ {i}
    /\ timers' = timers \ {i}

----------------------------------------------------------------------------
\* A query activates an actor for each node it selected, one after another,
\* records its result and completes it; a context packet that is not valid
\* fails the actor instead.

QueryActivates(q) ==
    /\ query[q][1] = "idle"
    /\ \E p \in {0} \cup Ids \cup {MaxActivations + 1}, k \in QueryKey :
         \/ (Suppress(p, k) \/ Refuse(p, k)) /\ UNCHANGED query
         \/ /\ Admit(p, k)
            /\ query' = [query EXCEPT ![q] =
                           <<"activated", Len(activations) + 1>>]

QueryRecords(q) ==
    /\ query[q][1] = "activated"
    /\ RecordResult(query[q][2])
    /\ query' = [query EXCEPT ![q][1] = "recorded"]
    /\ UNCHANGED <<mail, sending>>

QueryFails(q) ==
    /\ query[q][1] = "activated"
    /\ Fail(query[q][2])
    /\ query' = [query EXCEPT ![q] = <<"idle", 0>>]
    /\ UNCHANGED <<mail, sending>>

QueryCompletes(q) ==
    /\ query[q][1] = "recorded"
    /\ Complete(query[q][2])
    /\ query' = [query EXCEPT ![q] = <<"idle", 0>>]
    /\ UNCHANGED <<mail, sending>>

----------------------------------------------------------------------------
\* Time, timers and Shutdown.

Tick ==
    /\ due < Len(activations)
    /\ due' = due + 1
    /\ UNCHANGED <<controllerVars, fired, halting, running, stopping, mail,
                   sending, query>>

\* A timer fires after its ExpiresAt; Stop no longer reaches its function.
TimerFires(i) ==
    /\ i \in timers
    /\ i <= due
    /\ timers' = timers \ {i}
    /\ fired' = fired \cup {i}
    /\ UNCHANGED <<activations, dedup, live, closed, due, halting, running,
                   stopping, mail, sending, query>>

\* expireActor: the timer's function has the mutex.
Expire(i) ==
    /\ i \in fired
    /\ fired' = fired \ {i}
    /\ IF activations[i].status = "active"
       THEN EndOne(i, "expired") /\ dedup' = Reopened({i})
       ELSE UNCHANGED <<activations, live, timers, stopping, dedup>>
    /\ UNCHANGED <<closed, due, halting, running, mail, sending, query>>

\* Shutdown, with the mutex.
Shutdown ==
    /\ ~closed
    /\ closed' = TRUE
    /\ halting' = live
    /\ live' = {} /\ timers' = {}
    /\ UNCHANGED <<activations, dedup, due, fired, running, stopping, mail,
                   sending, query>>

\* Shutdown, without it: the collected PIDs are stopped.
ShutdownStops ==
    /\ halting # {}
    /\ halting' = {}
    /\ stopping' = stopping \cup halting
    /\ UNCHANGED <<controllerVars, due, fired, running, mail, sending, query>>

----------------------------------------------------------------------------
\* Messages and processes.

\* Send, with the mutex: the actor has a PID.
SendChecks(i, m) ==
    /\ Room
    /\ i \in live
    /\ sending' = sending \cup {<<i, m>>}
    /\ UNCHANGED <<controllerVars, due, fired, halting, running, stopping,
                   mail, query>>

\* Send, without it: the status is read, and may be seen as it was or as it
\* is.  A message to a process that has stopped is lost.
SendDelivers(i, m) ==
    /\ <<i, m>> \in sending
    /\ sending' = sending \ {<<i, m>>}
    /\ \/ i \in running /\ mail' = mail \cup {<<i, m>>}
       \/ (i \notin running \/ activations[i].status # "active")
          /\ UNCHANGED mail
    /\ UNCHANGED <<controllerVars, due, fired, halting, running, stopping,
                   query>>

\* Receive: a bounded result, then the actor stops itself.
Works(i) ==
    /\ i \in running \ stopping
    /\ <<i, "work">> \in mail
    /\ IF activations[i].status = "active"
       THEN activations' = Ended(activations, {i}, "completed")
            /\ dedup' = Reopened({i})
            /\ Forget(i)
       ELSE UNCHANGED <<activations, dedup, live, timers>>
    /\ stopping' = stopping \cup {i}
    /\ mail' = mail \ {<<i, "work">>}
    /\ UNCHANGED <<closed, due, fired, halting, running, sending, query>>

\* Receive: the panic is recovered and recorded; the window stays.
Panics(i) ==
    /\ i \in running \ stopping
    /\ <<i, "panic">> \in mail
    /\ activations' = Ended(activations, {i}, "failed")
    /\ Forget(i)
    /\ stopping' = stopping \cup {i}
    /\ mail' = mail \ {<<i, "panic">>}
    /\ UNCHANGED <<dedup, closed, due, fired, halting, running, sending, query>>

\* Receive: the panic reaches the supervisor, which stops the actor.
Crashes(i) ==
    /\ i \in running \ stopping
    /\ <<i, "text panic">> \in mail
    /\ stopping' = stopping \cup {i}
    /\ mail' = mail \ {<<i, "text panic">>}
    /\ UNCHANGED <<controllerVars, due, fired, halting, running, sending, query>>

\* The process handles its Stop; handleStopped tells the controller.
ActorStops(i) ==
    /\ i \in running \cap stopping
    /\ running' = running \ {i}
    /\ stopping' = stopping \ {i}
    /\ mail' = {m \in mail : m[1] # i}
    /\ activations' = Ended(activations, {i}, "passivated")
    /\ dedup' = IF activations[i].status = "active"
                THEN Reopened({i}) ELSE dedup
    /\ Forget(i)
    /\ UNCHANGED <<closed, due, fired, halting, sending, query>>

Next ==
    \/ ServerActivates
    \/ List
    \/ \E q \in Query :
         QueryActivates(q) \/ QueryRecords(q) \/ QueryFails(q)
                           \/ QueryCompletes(q)
    \/ Tick
    \/ \E i \in Ids : TimerFires(i) \/ Expire(i)
    \/ Shutdown
    \/ ShutdownStops
    \/ \E i \in Ids, m \in Message : SendChecks(i, m) \/ SendDelivers(i, m)
    \/ \E i \in Ids : Works(i) \/ Panics(i) \/ Crashes(i) \/ ActorStops(i)

Spec == Init /\ [][Next]_vars

----------------------------------------------------------------------------
\* What the controller promises.

\* No more actors than maxActive are active, whatever expires, fails or is
\* completed meanwhile.
ActiveBound == Cardinality(ActiveIds) <= MaxActive

\* The live map, the statuses and the timers agree: who is active has a PID
\* and a timer that will end it; nobody else has either.  Nothing is live
\* once Shutdown has begun.
LiveIsActive ==
    IF closed THEN live = {} /\ timers = {}
    ELSE /\ live = ActiveIds
         /\ timers \subseteq live
         /\ live \subseteq timers \cup fired \cup stopping

\* No process is forgotten: it is live, or its Stop is on its way.
NoOrphans == running \subseteq live \cup stopping \cup halting

\* A second root of a key is let in only after another activation of the key
\* has ended, and an open window is that of the key's youngest.
WindowsHold ==
    /\ \A i, j \in ActiveIds :
         /\ i < j /\ activations[i].key = activations[j].key
         /\ activations[i].depth = 1 /\ activations[j].depth = 1
         => \E m \in 1..(j - 1) :
              /\ activations[m].key = activations[j].key
              /\ activations[m].status \notin {"active", "rejected"}
    /\ \A k \in Key :
         dedup[k] # 0 =>
           /\ activations[dedup[k]].key = k
           /\ \A i \in Ids : i > dedup[k] /\ activations[i].key = k =>
                               activations[i].status = "rejected"

\* What the controller remembers is what runs, with messages, panics, timers
\* and Shutdown racing: a timer is armed, or a Stop on its way, for whatever
\* must end, and a late call reopens a window but never moves it.
Consistent == TypeOK /\ LiveIsActive /\ NoOrphans /\ WindowsHold

\* No two active actors of one lineage have the same key (cycle control,
\* docs/CHUNK-04-actor-compatibility-map.md:72).
LineageUnique ==
    \A i, j \in ActiveIds :
        /\ activations[i].lineage = activations[j].lineage
        /\ activations[i].key = activations[j].key
        => i = j

\* An activation that has ended keeps the way it ended: the TTL timer, a late
\* completion and a stopped process do not overrule each other.
EndsOnce ==
    [][\A i \in Ids :
          activations[i].status # "active" =>
            activations'[i] = activations[i]]_vars

\* For root activations, global dedup suppresses duplicates (comment in
\* ActivateWithParent): no two active roots have the same key.
RootsDeduplicated ==
    \A i, j \in ActiveIds :
        /\ activations[i].depth = 1 /\ activations[j].depth = 1
        /\ activations[i].key = activations[j].key
        => i = j

============================================================================
