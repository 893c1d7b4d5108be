---------------------------- MODULE TasksProofs ----------------------------
(***************************************************************************)
(* Proofs about Tasks: whoever runs a task is accounted for, active tasks  *)
(* are never evicted, a terminal status is final, and the registry grows   *)
(* only by what is active at once.                                         *)
(***************************************************************************)
EXTENDS Tasks, FiniteSetTheorems, FunctionTheorems, WellFoundedInduction, TLAPS

-----------------------------------------------------------------------------
\* The inductive invariant.

\* Steps at which a handler has yet to end the task it has.
Tending == {"created", "started", "phased", "metered", "working", "ending", "closing"}

\* Steps at which a task of its own is running.
Running == Tending \ {"created"}

\* A task is pending only while who has made it is about to start it.
PendingStarts ==
    \A id \in Known : tasks[id] = "pending" =>
        \E h \in Handler : handler[h].step = "created" /\ handler[h].id = id

\* A task that is active is left, or a handler has yet to end it.
ActiveTended ==
    \A id \in Active :
        id \in left \/ \E h \in Handler : handler[h].step \in Tending /\ handler[h].id = id

\* An import's task has a name; only imports defer.
HandlersFit ==
    \A h \in Handler :
        /\ handler[h].step = "idle" => handler[h].id = NoID
        /\ handler[h].step # "idle" => handler[h].id \in TaskID
        /\ handler[h].kind = "import" => handler[h].id \notin RandomID
        /\ handler[h].step = "deferred" => handler[h].kind = "import"

\* A random id is one handler's, once.
RandomOnce ==
    /\ \A h \in Handler : handler[h].id \in RandomID => handler[h].id \in taken
    /\ \A h, g \in Handler :
         handler[h].id = handler[g].id /\ handler[h].id \in RandomID => h = g
    /\ \A id \in RandomID \ taken : id \notin Known /\ receipts[id] = "none"

\* What a handler's own task is at each of its steps.
OwnFits ==
    \A h \in Handler : handler[h].id \in RandomID =>
        LET id == handler[h].id
        IN  /\ handler[h].step = "created" =>
                 id \in Known /\ tasks[id] = "pending"
            /\ handler[h].step \in Running =>
                 id \in Known /\ tasks[id] = "running"
            /\ handler[h].step \in {"closed", "saving"} /\ id \in Known =>
                 tasks[id] = handler[h].final
            /\ receipts[id] = "none"

\* And once its handler is done with it.
OwnDone ==
    \A id \in taken :
        (id \in Known \ Active /\ \A h \in Handler : handler[h].id # id) =>
            receipts[id] \in {"none", tasks[id]}

Inv == /\ TypeOK /\ Ordered /\ PendingStarts /\ ActiveTended /\ HandlersFit
       /\ RandomOnce /\ OwnFits /\ OwnDone

-----------------------------------------------------------------------------
\* Orders of finite sets.

\* f relates each member of the finite set E to those before it.
Before(E, f) ==
    /\ \A x \in E : f[x] \subseteq E
    /\ \A x, y \in E : x \in f[y] <=> x # y /\ y \notin f[x]
    /\ \A x, y, z \in E : x \in f[y] /\ y \in f[z] => x \in f[z]

\* How many are before a member tells it from every other one.
LEMMA RankNat ==
    ASSUME NEW E, IsFiniteSet(E), NEW f, Before(E, f)
    PROVE  /\ \A x \in E : IsFiniteSet(f[x]) /\ Cardinality(f[x]) \in Nat
           /\ \A x \in E : Cardinality(f[x]) < Cardinality(E)
           /\ \A x, y \in E : x # y => Cardinality(f[x]) # Cardinality(f[y])
<1>1. ASSUME NEW x \in E
      PROVE  IsFiniteSet(f[x]) /\ Cardinality(f[x]) \in Nat
  <2>1. f[x] \subseteq E
    BY DEF Before
  <2> QED
    BY <2>1, FS_Subset, FS_CardinalityType
<1>2. ASSUME NEW x \in E PROVE Cardinality(f[x]) < Cardinality(E)
  <2>1. f[x] \subseteq E /\ x \notin f[x]
    BY DEF Before
  <2>2. f[x] # E
    BY <2>1
  <2>3. Cardinality(f[x]) <= Cardinality(E) /\ Cardinality(f[x]) # Cardinality(E)
    BY <2>1, <2>2, FS_Subset
  <2>4. Cardinality(E) \in Nat
    BY FS_CardinalityType
  <2> QED
    BY <1>1, <2>3, <2>4
<1>3. ASSUME NEW x \in E, NEW y \in E, x \in f[y]
      PROVE  Cardinality(f[x]) < Cardinality(f[y])
  <2>1. f[x] \subseteq f[y]
    <3>1. ASSUME NEW z \in f[x] PROVE z \in f[y]
      <4>1. z \in E
        BY DEF Before
      <4> QED
        BY <1>3, <3>1, <4>1 DEF Before
    <3> QED
      BY <3>1
  <2>2. x \notin f[x]
    BY DEF Before
  <2>3. f[x] # f[y]
    BY <1>3, <2>2
  <2>4. Cardinality(f[x]) <= Cardinality(f[y]) /\ Cardinality(f[x]) # Cardinality(f[y])
    BY <1>1, <2>1, <2>3, FS_Subset
  <2> QED
    BY <1>1, <2>4
<1>4. ASSUME NEW x \in E, NEW y \in E, x # y
      PROVE  Cardinality(f[x]) # Cardinality(f[y])
  <2>1. x \in f[y] \/ y \in f[x]
    BY <1>4 DEF Before
  <2> QED
    BY <1>1, <1>3, <2>1
<1> QED
  BY <1>1, <1>2, <1>4

\* The numbers below the size of the set are the ranks of its members.
LEMMA RankOnto ==
    ASSUME NEW E, IsFiniteSet(E), NEW f, Before(E, f)
    PROVE  \A k \in 0 .. Cardinality(E) - 1 : \E x \in E : Cardinality(f[x]) = k
<1> DEFINE R == {Cardinality(f[x]) : x \in E}
           g == [x \in E |-> Cardinality(f[x])]
           M == Cardinality(E)
<1>1. M \in Nat
  BY FS_CardinalityType
<1>2. R \subseteq 0 .. M - 1
  BY RankNat, <1>1
<1>3. g \in [E -> R] /\ \A r \in R : \E x \in E : g[x] = r
  OBVIOUS
<1>4. \A x, y \in E : g[x] = g[y] => x = y
  BY RankNat
<1>5. g \in Bijection(E, R)
  BY <1>3, <1>4 DEF Bijection, Injection, Surjection, IsInjective
<1>6. IsFiniteSet(R) /\ Cardinality(R) = M
  BY <1>5, FS_Bijection DEF ExistsBijection
<1>7. IsFiniteSet(0 .. M - 1) /\ Cardinality(0 .. M - 1) = M
  <2>1. 0 \in Int /\ M - 1 \in Int
    BY <1>1
  <2> QED
    BY <1>1, <2>1, FS_Interval
<1>8. R = 0 .. M - 1
  BY <1>2, <1>6, <1>7, FS_Subset
<1> QED
  BY <1>8

\* So many members are of a rank below a bound.
LEMMA RankCount ==
    ASSUME NEW E, IsFiniteSet(E), NEW f, Before(E, f), NEW n \in Nat, n <= Cardinality(E)
    PROVE  LET L == {x \in E : Cardinality(f[x]) < n}
           IN  IsFiniteSet(L) /\ Cardinality(L) = n
<1> DEFINE L == {x \in E : Cardinality(f[x]) < n}
           g == [x \in L |-> Cardinality(f[x])]
<1>1. Cardinality(E) \in Nat
  BY FS_CardinalityType
<1>2. \A x \in L : Cardinality(f[x]) \in 0 .. n - 1
  BY RankNat
<1>3. \A k \in 0 .. n - 1 : \E x \in L : Cardinality(f[x]) = k
  <2>1. ASSUME NEW k \in 0 .. n - 1 PROVE \E x \in L : Cardinality(f[x]) = k
    <3>1. k \in 0 .. Cardinality(E) - 1 /\ k < n
      BY <1>1
    <3>2. PICK x \in E : Cardinality(f[x]) = k
      BY <3>1, RankOnto
    <3> QED
      BY <3>1, <3>2
  <2> QED
    BY <2>1
<1>4. \A x, y \in L : g[x] = g[y] => x = y
  BY RankNat
<1>5. g \in [L -> 0 .. n - 1] /\ \A k \in 0 .. n - 1 : \E x \in L : g[x] = k
  BY <1>2, <1>3
<1>6. g \in Bijection(L, 0 .. n - 1)
  BY <1>4, <1>5 DEF Bijection, Injection, Surjection, IsInjective
<1>7. IsFiniteSet(L)
  BY FS_Subset
<1>8. Cardinality(L) = Cardinality(0 .. n - 1)
  BY <1>6, <1>7, FS_Bijection DEF ExistsBijection
<1>9. Cardinality(0 .. n - 1) = n
  <2>1. 0 \in Int /\ n - 1 \in Int
    OBVIOUS
  <2> QED
    BY <2>1, FS_Interval
<1> QED
  BY <1>7, <1>8, <1>9

-----------------------------------------------------------------------------
\* What the registry's calls keep.

\* The registry's part of TypeOK, with the order.
Registry ==
    /\ Known \subseteq TaskID /\ tasks \in [Known -> Status]
    /\ IsFiniteSet(Known) /\ older \in [Known -> SUBSET Known]
    /\ Ordered

\* What a call that creates nothing leaves as it was.
Calm == Known' = Known /\ \A x \in Known : tasks'[x] = tasks[x]

\* Updating a task puts it last and leaves the others in their order.
LEMMA TouchOrders ==
    ASSUME Registry, NEW id \in Known, Known' = Known, tasks' \in [Known -> Status],
           older' = Touched(id)
    PROVE  Registry'
<1> USE DEF Registry, Ordered
<1>1. /\ older' \in [Known -> SUBSET Known]
      /\ older'[id] = Known \ {id}
      /\ \A x \in Known \ {id} : older'[x] = older[x] \ {id}
  BY DEF Touched
<1>2. \A x, y \in Known : x \in older'[y] <=> x # y /\ y \notin older'[x]
  <2>1. ASSUME NEW x \in Known, NEW y \in Known
        PROVE  x \in older'[y] <=> x # y /\ y \notin older'[x]
    <3>1. CASE x = id /\ y = id
      BY <1>1, <3>1
    <3>2. CASE x = id /\ y # id
      BY <1>1, <3>2
    <3>3. CASE x # id /\ y = id
      BY <1>1, <3>3
    <3>4. CASE x # id /\ y # id
      BY <1>1, <3>4
    <3> QED
      BY <3>1, <3>2, <3>3, <3>4
  <2> QED
    BY <2>1
<1>3. \A x, y, z \in Known : x \in older'[y] /\ y \in older'[z] => x \in older'[z]
  <2>1. ASSUME NEW x \in Known, NEW y \in Known, NEW z \in Known,
               x \in older'[y], y \in older'[z]
        PROVE  x \in older'[z]
    <3>1. y # id
      BY <1>1, <2>1
    <3>2. x \in older[y] /\ x # id
      BY <1>1, <2>1, <3>1
    <3>3. CASE z = id
      BY <1>1, <3>2, <3>3
    <3>4. CASE z # id
      BY <1>1, <2>1, <3>2, <3>4
    <3> QED
      BY <3>3, <3>4
  <2> QED
    BY <2>1
<1> QED
  BY <1>1, <1>2, <1>3

LEMMA TouchKeeps ==
    ASSUME Registry, NEW id, Touch(id)
    PROVE  Registry' /\ Calm
<1>1. Calm /\ tasks' \in [Known -> Status] /\ UNCHANGED tasks
  BY DEF Touch, Calm, Known, Registry
<1>2. CASE id \in Known
  BY <1>1, <1>2, TouchOrders DEF Touch, Calm
<1>3. CASE id \notin Known
  BY <1>1, <1>3 DEF Touch, Registry, Ordered, Known
<1> QED
  BY <1>1, <1>2, <1>3

\* A transition that is allowed changes the status, and of no other task.
LEMMA TransitionKeeps ==
    ASSUME Registry, NEW id, NEW to, to \in {"running"} \cup Terminal, Transition(id, to)
    PROVE  /\ Registry' /\ Known' = Known
           /\ \A x \in Known \ {id} : tasks'[x] = tasks[x]
           /\ id \in Known /\ ~Allowed(tasks[id], to) =>
                tasks'[id] = tasks[id]
           /\ id \in Known /\ Allowed(tasks[id], to) => tasks'[id] = to
<1>1. CASE id \in Known /\ Allowed(tasks[id], to)
  <2>1. tasks' = [tasks EXCEPT ![id] = to] /\ older' = Touched(id)
    BY <1>1 DEF Transition
  <2>2. to \in Status
    BY DEF Status
  <2>3. Known' = Known /\ tasks' \in [Known -> Status] /\ tasks'[id] = to
        /\ \A x \in Known \ {id} : tasks'[x] = tasks[x]
    BY <1>1, <2>1, <2>2 DEF Registry, Known
  <2>4. Registry'
    BY <1>1, <2>1, <2>3, TouchOrders
  <2> QED
    BY <1>1, <2>2, <2>3, <2>4
<1>2. CASE ~(id \in Known /\ Allowed(tasks[id], to))
  <2>1. UNCHANGED <<tasks, older>>
    BY <1>2 DEF Transition, registryVars
  <2> QED
    BY <1>2, <2>1 DEF Registry, Ordered, Known
<1> QED
  BY <1>1, <1>2

\* A task that is created takes the place of terminal ones and of no other.
LEMMA CreateKeeps ==
    ASSUME Registry, NEW id \in TaskID, Create(id)
    PROVE  /\ Registry'
           /\ id \in Known' /\ Known' \subseteq Known \cup {id} /\ Active \subseteq Known'
           /\ \A x \in Known \cap Known' : tasks'[x] = tasks[x]
           /\ id \notin Known => tasks'[id] = "pending"
           /\ id \in Known => Known' = Known
<1>1. CASE id \in Known
  BY <1>1 DEF Create, registryVars, Registry, Ordered, Known, Active
<1>2. CASE id \notin Known
  <2> DEFINE kept == (Known \ Evicted) \cup {id}
  <2>1. /\ tasks' = [x \in kept |-> IF x = id THEN "pending" ELSE tasks[x]]
        /\ older' = [x \in kept |-> (IF x = id THEN Known ELSE older[x]) \ Evicted]
    BY <1>2 DEF Create
  <2>2. Known' = kept
    BY <2>1 DEF Known
  <2>3. Evicted \subseteq Known \ Active
    BY DEF Evicted
  <2>4. Active \subseteq Known
    BY DEF Active
  <2>5. \A x \in Known : older[x] \subseteq Known /\ x \notin older[x]
    BY DEF Registry, Ordered
  <2>6. older' \in [kept -> SUBSET kept]
    BY <2>1, <2>5
  <2>7. "pending" \in Status
    BY DEF Status
  <2>8. tasks' \in [kept -> Status]
    BY <2>1, <2>7 DEF Registry
  <2>9. IsFiniteSet(kept)
    <3>1. IsFiniteSet(Known \ Evicted)
      BY FS_Subset DEF Registry
    <3> QED
      BY <3>1, FS_AddElement
  <2>10. /\ \A x \in Known \ Evicted : x \in kept /\ x # id /\ older'[x] = older[x] \ Evicted
         /\ older'[id] = Known \ Evicted
    BY <1>2, <2>1
  <2>11. \A x, y \in kept : x \in older'[y] <=> x # y /\ y \notin older'[x]
    <3>1. ASSUME NEW x \in kept, NEW y \in kept
          PROVE  x \in older'[y] <=> x # y /\ y \notin older'[x]
      <4>1. CASE x = id
        BY <1>2, <2>5, <2>10, <4>1
      <4>2. CASE x # id /\ y = id
        BY <1>2, <2>5, <2>10, <4>2
      <4>3. CASE x # id /\ y # id
        BY <2>10, <4>3 DEF Registry, Ordered
      <4> QED
        BY <4>1, <4>2, <4>3
    <3> QED
      BY <3>1
  <2>12. \A x, y, z \in kept : x \in older'[y] /\ y \in older'[z] => x \in older'[z]
    <3>1. ASSUME NEW x \in kept, NEW y \in kept, NEW z \in kept,
                 x \in older'[y], y \in older'[z]
          PROVE  x \in older'[z]
      <4>1. y # id /\ y \in Known \ Evicted
        BY <1>2, <2>5, <2>10, <3>1
      <4>2. x \in older[y] /\ x \in Known \ Evicted
        BY <2>5, <2>10, <3>1, <4>1
      <4>3. CASE z = id
        BY <2>10, <4>2, <4>3
      <4>4. CASE z # id
        BY <2>10, <3>1, <4>1, <4>2, <4>4 DEF Registry, Ordered
      <4> QED
        BY <4>3, <4>4
    <3> QED
      BY <3>1
  <2>13. kept \subseteq TaskID
    BY DEF Registry
  <2>14. Registry'
    BY <2>2, <2>6, <2>8, <2>9, <2>11, <2>12, <2>13 DEF Registry, Ordered
  <2>15. \A x \in Known \cap kept : tasks'[x] = tasks[x]
    BY <1>2, <2>1
  <2>16. tasks'[id] = "pending"
    BY <2>1
  <2> HIDE DEF kept
  <2> QED
    BY <1>2, <2>2, <2>3, <2>4, <2>14, <2>15, <2>16 DEF kept
<1> QED
  BY <1>1, <1>2

-----------------------------------------------------------------------------
\* How the handlers' steps keep the invariant.

Others(h) == \A g \in Handler \ {h} : handler'[g] = handler[g]

HandlerRecord == [step : Steps, kind : Kind \cup {"none"}, id : TaskID \cup {NoID},
                  final : Terminal]

\* The rest of TypeOK.
Rest == /\ taken \subseteq RandomID
        /\ receipts \in [TaskID -> Terminal \cup {"none"}]
        /\ handler \in [Handler -> HandlerRecord]
        /\ left \subseteq TaskID

LEMMA TypeParts == TypeOK /\ Ordered <=> Registry /\ Rest
  BY DEF TypeOK, Registry, Rest, HandlerRecord

LEMMA TypePartsNext == TypeOK' /\ Ordered' <=> Registry' /\ Rest'
  BY DEF TypeOK, Registry, Rest, HandlerRecord, Ordered, Known

LEMMA HandlerIs ==
    ASSUME Rest, NEW h \in Handler
    PROVE  /\ handler[h] \in HandlerRecord
           /\ handler[h] = [step |-> handler[h].step, kind |-> handler[h].kind,
                            id |-> handler[h].id, final |-> handler[h].final]
  BY DEF Rest, HandlerRecord

\* One handler is given another record.
LEMMA HandlerTo ==
    ASSUME Rest, NEW h \in Handler, NEW r \in HandlerRecord,
           handler' = [handler EXCEPT ![h] = r]
    PROVE  handler' \in [Handler -> HandlerRecord] /\ handler'[h] = r /\ Others(h)
  BY DEF Rest, Others

LEMMA HandlerGoes ==
    ASSUME Rest, NEW h \in Handler, NEW s \in Steps, NEW f \in Terminal,
           handler' = [handler EXCEPT ![h].step = s, ![h].final = f]
    PROVE  /\ handler' \in [Handler -> HandlerRecord] /\ Others(h)
           /\ handler'[h].step = s /\ handler'[h].final = f
           /\ handler'[h].id = handler[h].id /\ handler'[h].kind = handler[h].kind
<1>1. handler[h] \in HandlerRecord /\ handler \in [Handler -> HandlerRecord]
  BY DEF Rest
<1>2. handler'[h] = [step |-> s, kind |-> handler[h].kind, id |-> handler[h].id, final |-> f]
  BY <1>1 DEF HandlerRecord
<1>3. handler'[h] \in HandlerRecord
  BY <1>1, <1>2 DEF HandlerRecord
<1>4. Others(h)
  BY <1>1 DEF Others
<1>5. handler' \in [Handler -> HandlerRecord]
  BY <1>1, <1>3, <1>4 DEF Others
<1> QED
  BY <1>2, <1>4, <1>5

LEMMA HandlerSteps ==
    ASSUME Rest, NEW h \in Handler, NEW s \in Steps,
           handler' = [handler EXCEPT ![h].step = s]
    PROVE  /\ handler' \in [Handler -> HandlerRecord] /\ Others(h)
           /\ handler'[h].step = s /\ handler'[h].final = handler[h].final
           /\ handler'[h].id = handler[h].id /\ handler'[h].kind = handler[h].kind
<1>1. handler[h] \in HandlerRecord /\ handler \in [Handler -> HandlerRecord]
  BY DEF Rest
<1>2. handler'[h] = [step |-> s, kind |-> handler[h].kind, id |-> handler[h].id,
                     final |-> handler[h].final]
  BY <1>1 DEF HandlerRecord
<1>3. handler'[h] \in HandlerRecord
  BY <1>1, <1>2 DEF HandlerRecord
<1>4. Others(h)
  BY <1>1 DEF Others
<1>5. handler' \in [Handler -> HandlerRecord]
  BY <1>1, <1>3, <1>4 DEF Others
<1> QED
  BY <1>2, <1>4, <1>5

LEMMA CalmActive ==
    ASSUME Calm
    PROVE  Active' = Active
  BY DEF Calm, Active, Known

\* A handler goes on with the task it is at.
LEMMA OnwardStep ==
    ASSUME Inv, NEW h \in Handler, TypeOK', Ordered', Calm, Others(h),
           handler[h].step \in Running, handler'[h].step \in Running,
           handler'[h].id = handler[h].id, handler'[h].kind = handler[h].kind,
           UNCHANGED <<taken, receipts, left>>
    PROVE  Inv'
<1> USE DEF Tending, Running
<1>1. Active' = Active /\ Known' = Known /\ \A x \in Known : tasks'[x] = tasks[x]
  BY CalmActive DEF Calm
<1>2. \A g \in Handler : /\ handler'[g].id = handler[g].id
                         /\ handler'[g].kind = handler[g].kind
                         /\ g # h => handler'[g] = handler[g]
  BY DEF Others
<1>3. PendingStarts'
  <2>1. ASSUME NEW id \in Known, tasks[id] = "pending"
        PROVE  \E g \in Handler : handler'[g].step = "created" /\ handler'[g].id = id
    <3>1. PICK g \in Handler : handler[g].step = "created" /\ handler[g].id = id
      BY <2>1 DEF Inv, PendingStarts
    <3> QED
      BY <1>2, <3>1
  <2> QED
    BY <1>1, <2>1 DEF PendingStarts
<1>4. ActiveTended'
  <2>1. ASSUME NEW id \in Active
        PROVE  id \in left \/ \E g \in Handler : handler'[g].step \in Tending /\ handler'[g].id = id
    <3>1. id \in left \/ \E g \in Handler : handler[g].step \in Tending /\ handler[g].id = id
      BY <2>1 DEF Inv, ActiveTended
    <3> QED
      BY <1>2, <3>1
  <2> QED
    BY <1>1, <2>1 DEF ActiveTended
<1>5. HandlersFit'
  BY <1>2 DEF Inv, HandlersFit
<1>6. RandomOnce'
  BY <1>1, <1>2 DEF Inv, RandomOnce
<1>7. OwnFits'
  <2>1. ASSUME NEW g \in Handler, handler[g].id \in RandomID
        PROVE  /\ handler'[g].step = "created" =>
                    handler[g].id \in Known /\ tasks[handler[g].id] = "pending"
               /\ handler'[g].step \in Running =>
                    handler[g].id \in Known /\ tasks[handler[g].id] = "running"
               /\ handler'[g].step \in {"closed", "saving"} /\ handler[g].id \in Known =>
                    tasks[handler[g].id] = handler'[g].final
               /\ receipts[handler[g].id] = "none"
    <3>1. CASE g = h
      BY <1>2, <2>1, <3>1 DEF Inv, OwnFits
    <3>2. CASE g # h
      BY <1>2, <2>1, <3>2 DEF Inv, OwnFits
    <3> QED
      BY <3>1, <3>2
  <2> QED
    BY <1>1, <1>2, <2>1 DEF OwnFits
<1>8. OwnDone'
  BY <1>1, <1>2 DEF Inv, OwnDone
<1> QED
  BY <1>3, <1>4, <1>5, <1>6, <1>7, <1>8 DEF Inv

\* A handler leaves off: it returns, saves or defers, and its receipt is right.
LEMMA OffStep ==
    ASSUME Inv, NEW h \in Handler, TypeOK', Ordered', Calm, Others(h),
           handler[h].step \notin {"idle", "created"},
           UNCHANGED taken, left \subseteq left',
           handler[h].id \in Active /\ handler[h].step \in Tending => handler[h].id \in left',
           \/ handler'[h] = Idle
           \/ /\ handler'[h].id = handler[h].id /\ handler'[h].kind = handler[h].kind
              /\ handler'[h].final = handler[h].final
              /\ \/ handler'[h].step = "deferred" /\ handler[h].kind = "import"
                 \/ handler'[h].step = "saving" /\ handler[h].step = "closed"
                    /\ UNCHANGED receipts,
           \A i \in TaskID \ {handler[h].id} : receipts'[i] = receipts[i],
           handler[h].id \in RandomID /\ handler[h].id \in Known \ Active =>
               receipts'[handler[h].id] \in {"none", tasks[handler[h].id]}
    PROVE  Inv'
<1> USE DEF Tending, Running
<1> DEFINE own == handler[h].id
<1>0. own \in TaskID /\ RandomID \subseteq TaskID /\ NoID \notin RandomID
  BY TasksAssumption DEF Inv, HandlersFit, TaskID
<1>1. Active' = Active /\ Known' = Known /\ \A x \in Known : tasks'[x] = tasks[x]
  BY CalmActive DEF Calm
<1>2. /\ \A g \in Handler : g # h => handler'[g] = handler[g]
      /\ handler'[h].id \in {own, NoID}
      /\ handler'[h].kind \in {handler[h].kind, "none"}
      /\ handler'[h].step \in {"idle", "deferred", "saving"}
      /\ handler'[h].step = "idle" <=> handler'[h].id = NoID
      /\ handler'[h].step = "deferred" => handler'[h].kind = "import"
      /\ handler'[h].kind = "import" => handler[h].kind = "import"
  BY <1>0, TasksAssumption DEF Others, Idle, TaskID
<1>3. PendingStarts'
  <2>1. ASSUME NEW id \in Known, tasks[id] = "pending"
        PROVE  \E g \in Handler : handler'[g].step = "created" /\ handler'[g].id = id
    <3>1. PICK g \in Handler : handler[g].step = "created" /\ handler[g].id = id
      BY <2>1 DEF Inv, PendingStarts
    <3> QED
      BY <1>2, <3>1
  <2> QED
    BY <1>1, <2>1 DEF PendingStarts
<1>4. ActiveTended'
  <2>1. ASSUME NEW id \in Active
        PROVE  id \in left' \/ \E g \in Handler : handler'[g].step \in Tending /\ handler'[g].id = id
    <3>1. id \in left \/ \E g \in Handler : handler[g].step \in Tending /\ handler[g].id = id
      BY <2>1 DEF Inv, ActiveTended
    <3>2. CASE id \in left
      BY <3>2
    <3>3. CASE \E g \in Handler : handler[g].step \in Tending /\ handler[g].id = id
      <4>1. PICK g \in Handler : handler[g].step \in Tending /\ handler[g].id = id
        BY <3>3
      <4>2. CASE g = h
        BY <2>1, <4>1, <4>2
      <4>3. CASE g # h
        BY <1>2, <4>1, <4>3
      <4> QED
        BY <4>2, <4>3
    <3> QED
      BY <3>1, <3>2, <3>3
  <2> QED
    BY <1>1, <2>1 DEF ActiveTended
<1>5. HandlersFit'
  <2>1. ASSUME NEW g \in Handler
        PROVE  /\ handler'[g].step = "idle" => handler'[g].id = NoID
               /\ handler'[g].step # "idle" => handler'[g].id \in TaskID
               /\ handler'[g].kind = "import" => handler'[g].id \notin RandomID
               /\ handler'[g].step = "deferred" => handler'[g].kind = "import"
    <3>1. CASE g = h
      BY <1>0, <1>2, <3>1 DEF Inv, HandlersFit
    <3>2. CASE g # h
      BY <1>2, <3>2 DEF Inv, HandlersFit
    <3> QED
      BY <3>1, <3>2
  <2> QED
    BY <2>1 DEF HandlersFit
<1>6. RandomOnce'
  <2>1. \A g \in Handler : handler'[g].id \in RandomID => handler'[g].id = handler[g].id
    BY <1>0, <1>2
  <2>2. ASSUME NEW id \in RandomID \ taken PROVE id \notin Known /\ receipts'[id] = "none"
    <3>1. id # own
      BY <2>2 DEF Inv, RandomOnce
    <3> QED
      BY <1>0, <2>2, <3>1 DEF Inv, RandomOnce
  <2>3. \A g \in Handler : handler'[g].id \in RandomID => handler'[g].id \in taken
    BY <2>1 DEF Inv, RandomOnce
  <2>4. \A f, g \in Handler :
            handler'[f].id = handler'[g].id /\ handler'[f].id \in RandomID => f = g
    BY <2>1 DEF Inv, RandomOnce
  <2> QED
    BY <1>1, <2>2, <2>3, <2>4 DEF RandomOnce
<1>7. OwnFits'
  <2>1. ASSUME NEW g \in Handler, handler'[g].id \in RandomID
        PROVE  /\ handler'[g].step = "created" =>
                    handler'[g].id \in Known /\ tasks[handler'[g].id] = "pending"
               /\ handler'[g].step \in Running =>
                    handler'[g].id \in Known /\ tasks[handler'[g].id] = "running"
               /\ handler'[g].step \in {"closed", "saving"} /\ handler'[g].id \in Known =>
                    tasks[handler'[g].id] = handler'[g].final
               /\ receipts'[handler'[g].id] = "none"
    <3>1. CASE g = h
      <4>1. handler'[h].step = "saving" /\ handler[h].step = "closed" /\ UNCHANGED receipts
            /\ handler'[h].id = own /\ own \in RandomID /\ handler'[h].final = handler[h].final
        BY <1>0, <1>2, <2>1, <3>1 DEF Inv, HandlersFit, Idle
      <4> QED
        BY <3>1, <4>1 DEF Inv, OwnFits
    <3>2. CASE g # h
      <4>1. handler'[g] = handler[g] /\ handler[g].id # own /\ handler[g].id \in TaskID
        BY <1>0, <1>2, <2>1, <3>2 DEF Inv, RandomOnce
      <4>2. receipts'[handler[g].id] = receipts[handler[g].id]
        BY <4>1
      <4> QED
        BY <2>1, <4>1, <4>2 DEF Inv, OwnFits
    <3> QED
      BY <3>1, <3>2
  <2> QED
    BY <1>1, <2>1 DEF OwnFits
<1>8. OwnDone'
  <2>1. ASSUME NEW id \in taken, id \in Known \ Active, \A g \in Handler : handler'[g].id # id
        PROVE  receipts'[id] \in {"none", tasks[id]}
    <3>1. CASE id = own
      BY <2>1, <3>1 DEF Inv, TypeOK
    <3>2. CASE id # own
      <4>1. id \in TaskID /\ \A g \in Handler : handler[g].id # id
        BY <1>0, <1>2, <2>1, <3>2 DEF Inv, TypeOK
      <4> QED
        BY <2>1, <3>2, <4>1 DEF Inv, OwnDone
    <3> QED
      BY <3>1, <3>2
  <2>2. \A id \in Known : tasks'[id] = tasks[id]
    BY <1>1
  <2> QED
    BY <1>1, <2>1, <2>2 DEF OwnDone
<1> QED
  BY <1>3, <1>4, <1>5, <1>6, <1>7, <1>8 DEF Inv

LEMMA InitInv == Init => Inv
<1> SUFFICES ASSUME Init PROVE Inv
  OBVIOUS
<1>1. tasks = <<>> /\ older = <<>> /\ Known = {} /\ Active = {}
  BY DEF Init, Known, Active
<1>2. NoID \notin RandomID /\ Idle \in HandlerRecord
  BY TasksAssumption DEF Idle, HandlerRecord, Steps, Terminal, TaskID
<1>3. \A h \in Handler : handler[h] = Idle
  BY DEF Init
<1>4. Registry
  <2>1. tasks \in [Known -> Status] /\ older \in [Known -> SUBSET Known]
    BY <1>1
  <2> QED
    BY <1>1, <2>1, FS_EmptySet DEF Registry, Ordered
<1>5. Rest
  BY <1>2 DEF Init, Rest
<1>6. PendingStarts /\ ActiveTended
  BY <1>1 DEF PendingStarts, ActiveTended
<1>7. HandlersFit
  BY <1>2, <1>3 DEF HandlersFit, Idle
<1>8. RandomOnce
  BY <1>1, <1>2, <1>3 DEF RandomOnce, Idle, Init, TaskID
<1>9. OwnFits
  BY <1>2, <1>3 DEF OwnFits, Idle
<1>10. OwnDone
  BY <1>1 DEF OwnDone
<1> QED
  BY <1>4, <1>5, <1>6, <1>7, <1>8, <1>9, <1>10, TypeParts DEF Inv

LEMMA RestartInv ==
    ASSUME Inv, Restart
    PROVE  Inv'
<1>1. tasks' = <<>> /\ older' = <<>> /\ Known' = {} /\ Active' = {}
  BY DEF Restart, Known, Active
<1>2. NoID \notin RandomID /\ Idle \in HandlerRecord
  BY TasksAssumption DEF Idle, HandlerRecord, Steps, Terminal, TaskID
<1>3. \A h \in Handler : handler'[h] = Idle
  BY DEF Restart
<1>4. Registry'
  <2>1. tasks' \in [Known' -> Status] /\ older' \in [Known' -> SUBSET Known']
    BY <1>1
  <2> QED
    BY <1>1, <2>1, FS_EmptySet DEF Registry, Ordered
<1>5. Rest'
  BY <1>2, TypeParts DEF Inv, Restart, Rest
<1>6. PendingStarts' /\ ActiveTended'
  BY <1>1 DEF PendingStarts, ActiveTended
<1>7. HandlersFit'
  BY <1>2, <1>3 DEF HandlersFit, Idle
<1>8. RandomOnce'
  BY <1>1, <1>2, <1>3 DEF Inv, Restart, RandomOnce, Idle
<1>9. OwnFits'
  BY <1>2, <1>3 DEF OwnFits, Idle
<1>10. OwnDone'
  BY <1>1 DEF OwnDone
<1> QED
  BY <1>4, <1>5, <1>6, <1>7, <1>8, <1>9, <1>10, TypePartsNext DEF Inv

LEMMA BeginInv ==
    ASSUME Inv, NEW h \in Handler, Begin(h)
    PROVE  Inv'
<1> USE DEF Tending, Running
<1>1. Registry /\ Rest
  BY TypeParts DEF Inv
<1>2. PICK k \in Kind :
        \E id \in IDsOf(k) :
          /\ Create(id)
          /\ taken' = taken \cup ({id} \cap RandomID)
          /\ handler' = [handler EXCEPT ![h] =
               [step |-> "created", kind |-> k, id |-> id, final |-> "failed"]]
  BY DEF Begin
<1>3. PICK id \in TaskID :
        /\ id \notin taken /\ (k = "import" => id \notin RandomID)
        /\ Create(id)
        /\ taken' = taken \cup ({id} \cap RandomID)
        /\ handler' = [handler EXCEPT ![h] =
             [step |-> "created", kind |-> k, id |-> id, final |-> "failed"]]
  BY <1>1, <1>2, TasksAssumption DEF TaskID, Rest, IDsOf
<1>4. /\ Registry'
      /\ id \in Known' /\ Known' \subseteq Known \cup {id} /\ Active \subseteq Known'
      /\ \A x \in Known \cap Known' : tasks'[x] = tasks[x]
      /\ id \notin Known => tasks'[id] = "pending"
      /\ id \in Known => Known' = Known
  BY <1>1, <1>3, CreateKeeps
<1>5. PICK r : r = [step |-> "created", kind |-> k, id |-> id, final |-> "failed"]
  OBVIOUS
<1>6. r \in HandlerRecord
  BY <1>5 DEF HandlerRecord, Steps, Terminal
<1>7. handler' \in [Handler -> HandlerRecord] /\ handler'[h] = r /\ Others(h)
  BY <1>1, <1>3, <1>5, <1>6, HandlerTo
<1>8. /\ \A g \in Handler : g # h => handler'[g] = handler[g]
      /\ handler'[h].step = "created" /\ handler'[h].kind = k /\ handler'[h].id = id
  BY <1>5, <1>7 DEF Others
<1>9. handler[h].step = "idle" /\ handler[h].id = NoID /\ NoID \notin TaskID
  BY TasksAssumption DEF Begin, At, Inv, HandlersFit, TaskID
<1>10. UNCHANGED <<receipts, left>>
  BY DEF Begin
<1>11. Rest'
  BY <1>1, <1>3, <1>7, <1>10 DEF Rest
<1>12. \A x \in Known' : x # id => x \in Known /\ tasks'[x] = tasks[x]
  BY <1>4
<1>13. \A x \in Active : x \in Known /\ x \in Known' /\ tasks'[x] = tasks[x]
  BY <1>4 DEF Active
<1>14. \A x : x \in Active' => x = id \/ x \in Active
  BY <1>12 DEF Active, Known
<1>15. PendingStarts'
  <2>1. ASSUME NEW x \in Known', tasks'[x] = "pending"
        PROVE  \E g \in Handler : handler'[g].step = "created" /\ handler'[g].id = x
    <3>1. CASE x = id
      BY <1>8, <3>1
    <3>2. CASE x # id
      <4>1. PICK g \in Handler : handler[g].step = "created" /\ handler[g].id = x
        BY <1>12, <2>1, <3>2 DEF Inv, PendingStarts
      <4> QED
        BY <1>8, <1>9, <4>1
    <3> QED
      BY <3>1, <3>2
  <2> QED
    BY <2>1 DEF PendingStarts
<1>16. ActiveTended'
  <2>1. ASSUME NEW x \in Active'
        PROVE  x \in left \/ \E g \in Handler : handler'[g].step \in Tending /\ handler'[g].id = x
    <3>1. CASE x = id
      BY <1>8, <3>1
    <3>2. CASE x \in Active
      <4>1. x \in left \/ \E g \in Handler : handler[g].step \in Tending /\ handler[g].id = x
        BY <3>2 DEF Inv, ActiveTended
      <4> QED
        BY <1>8, <1>9, <4>1
    <3> QED
      BY <1>14, <2>1, <3>1, <3>2
  <2> QED
    BY <1>10, <2>1 DEF ActiveTended
<1>17. HandlersFit'
  <2>1. ASSUME NEW g \in Handler
        PROVE  /\ handler'[g].step = "idle" => handler'[g].id = NoID
               /\ handler'[g].step # "idle" => handler'[g].id \in TaskID
               /\ handler'[g].kind = "import" => handler'[g].id \notin RandomID
               /\ handler'[g].step = "deferred" => handler'[g].kind = "import"
    <3>1. CASE g = h
      BY <1>3, <1>8, <3>1
    <3>2. CASE g # h
      BY <1>8, <3>2 DEF Inv, HandlersFit
    <3> QED
      BY <3>1, <3>2
  <2> QED
    BY <2>1 DEF HandlersFit
<1>18. RandomOnce'
  <2>1. \A g \in Handler : handler'[g].id \in RandomID => handler'[g].id \in taken'
    BY <1>3, <1>8 DEF Inv, RandomOnce
  <2>2. \A g \in Handler : g # h /\ handler'[g].id \in RandomID => handler'[g].id # id
    BY <1>3, <1>8 DEF Inv, RandomOnce
  <2>3. \A f, g \in Handler :
            handler'[f].id = handler'[g].id /\ handler'[f].id \in RandomID => f = g
    BY <1>8, <2>2 DEF Inv, RandomOnce
  <2>4. \A x \in RandomID \ taken' : x \notin Known' /\ receipts[x] = "none"
    BY <1>3, <1>4 DEF Inv, RandomOnce
  <2> QED
    BY <1>10, <2>1, <2>3, <2>4 DEF RandomOnce
<1>19. OwnFits'
  <2>1. ASSUME NEW g \in Handler, handler'[g].id \in RandomID
        PROVE  /\ handler'[g].step = "created" =>
                    handler'[g].id \in Known' /\ tasks'[handler'[g].id] = "pending"
               /\ handler'[g].step \in Running =>
                    handler'[g].id \in Known' /\ tasks'[handler'[g].id] = "running"
               /\ handler'[g].step \in {"closed", "saving"} /\ handler'[g].id \in Known' =>
                    tasks'[handler'[g].id] = handler'[g].final
               /\ receipts[handler'[g].id] = "none"
    <3>1. CASE g = h
      <4>1. id \notin Known /\ receipts[id] = "none"
        BY <1>3, <1>8, <2>1, <3>1 DEF Inv, RandomOnce
      <4>2. tasks'[id] = "pending"
        BY <1>4, <4>1
      <4> QED
        BY <1>4, <1>8, <3>1, <4>1, <4>2
    <3>2. CASE g # h
      <4>1. handler'[g] = handler[g] /\ handler[g].id # id
        BY <1>3, <1>8, <2>1, <3>2 DEF Inv, RandomOnce
      <4>2. /\ handler[g].step = "created" =>
                  handler[g].id \in Known /\ tasks[handler[g].id] = "pending"
            /\ handler[g].step \in Running =>
                  handler[g].id \in Known /\ tasks[handler[g].id] = "running"
            /\ handler[g].step \in {"closed", "saving"} /\ handler[g].id \in Known =>
                  tasks[handler[g].id] = handler[g].final
            /\ receipts[handler[g].id] = "none"
        BY <2>1, <4>1 DEF Inv, OwnFits
      <4>3. \A x \in Known : tasks[x] \in {"pending", "running"} => x \in Active
        BY DEF Active, Terminal
      <4> QED
        BY <1>12, <1>13, <4>1, <4>2, <4>3
    <3> QED
      BY <3>1, <3>2
  <2> QED
    BY <1>10, <2>1 DEF OwnFits
<1>20. OwnDone'
  <2>1. ASSUME NEW x \in taken', x \in Known' \ Active', \A g \in Handler : handler'[g].id # x
        PROVE  receipts[x] \in {"none", tasks'[x]}
    <3>1. x # id
      BY <1>8, <2>1
    <3>2. x \in taken /\ x \in Known /\ tasks'[x] = tasks[x]
      BY <1>3, <1>12, <2>1, <3>1
    <3>3. x \notin Active
      BY <2>1, <3>2, <1>13 DEF Active, Known
    <3>4. \A g \in Handler : handler[g].id # x
      BY <1>1, <1>8, <1>9, <2>1, <3>2 DEF Rest, TaskID
    <3> QED
      BY <3>2, <3>3, <3>4 DEF Inv, OwnDone
  <2> QED
    BY <1>10, <2>1 DEF OwnDone
<1> QED
  BY <1>4, <1>11, <1>15, <1>16, <1>17, <1>18, <1>19, <1>20, TypePartsNext DEF Inv

\* A handler starts its task, or ends it.
LEMMA MoveStep ==
    ASSUME Inv, NEW h \in Handler, NEW to, Transition(handler[h].id, to), Rest', Others(h),
           handler'[h].id = handler[h].id, handler'[h].kind = handler[h].kind,
           UNCHANGED <<taken, receipts, left>>,
           \/ handler[h].step = "created" /\ to = "running" /\ handler'[h].step = "started"
           \/ /\ handler[h].step = "closing" /\ to = handler[h].final
              /\ handler'[h].step = "closed" /\ handler'[h].final = handler[h].final
    PROVE  Inv'
<1> USE DEF Tending, Running
<1> DEFINE own == handler[h].id
<1>1. Registry /\ Rest /\ own \in TaskID
  BY TypeParts DEF Inv, HandlersFit
<1>2. to \in {"running"} \cup Terminal /\ (handler[h].step = "closing" => to \in Terminal)
  BY <1>1, HandlerIs DEF HandlerRecord
<1>3. /\ Registry' /\ Known' = Known
      /\ \A x \in Known \ {own} : tasks'[x] = tasks[x]
      /\ own \in Known /\ ~Allowed(tasks[own], to) => tasks'[own] = tasks[own]
      /\ own \in Known /\ Allowed(tasks[own], to) => tasks'[own] = to
  BY <1>1, <1>2, TransitionKeeps
<1>4. \A g \in Handler : /\ handler'[g].id = handler[g].id
                         /\ handler'[g].kind = handler[g].kind
                         /\ g # h => handler'[g] = handler[g]
  BY DEF Others
\* None becomes pending, and of another's task nothing changes.
<1>5. \A x \in Known : tasks'[x] = "pending" => tasks[x] = "pending"
  BY <1>2, <1>3 DEF Terminal
<1>6. \A x \in Active' : x \in Active
  <2>1. ASSUME NEW x \in Active' PROVE x \in Active
    <3>1. x \in Known /\ tasks'[x] \notin Terminal
      BY <1>3, <2>1 DEF Active, Known
    <3>2. CASE x # own \/ ~Allowed(tasks[own], to)
      BY <1>3, <3>1, <3>2 DEF Active
    <3>3. CASE x = own /\ Allowed(tasks[own], to)
      BY <3>1, <3>3 DEF Active, Allowed, Terminal
    <3> QED
      BY <3>2, <3>3
  <2> QED
    BY <2>1
<1>7. PendingStarts'
  <2>1. ASSUME NEW x \in Known, tasks'[x] = "pending"
        PROVE  \E g \in Handler : handler'[g].step = "created" /\ handler'[g].id = x
    <3>1. PICK g \in Handler : handler[g].step = "created" /\ handler[g].id = x
      BY <1>5, <2>1 DEF Inv, PendingStarts
    <3>2. CASE g # h
      BY <1>4, <3>1, <3>2
    <3>3. CASE g = h
      <4>1. x = own /\ to = "running" /\ tasks[x] = "pending"
        BY <1>5, <2>1, <3>1, <3>3
      <4>2. tasks'[x] = "running"
        BY <1>3, <2>1, <4>1 DEF Allowed
      <4> QED
        BY <2>1, <4>2
    <3> QED
      BY <3>2, <3>3
  <2> QED
    BY <1>3, <2>1 DEF PendingStarts
<1>8. ActiveTended'
  <2>1. ASSUME NEW x \in Active'
        PROVE  x \in left \/ \E g \in Handler : handler'[g].step \in Tending /\ handler'[g].id = x
    <3>1. x \in left \/ \E g \in Handler : handler[g].step \in Tending /\ handler[g].id = x
      BY <1>6, <2>1 DEF Inv, ActiveTended
    <3>2. CASE \E g \in Handler : g # h /\ handler[g].step \in Tending /\ handler[g].id = x
      BY <1>4, <3>2
    <3>3. CASE x = own /\ handler[h].step = "created"
      BY <1>4, <3>3
    <3>4. CASE x = own /\ handler[h].step = "closing"
      <4>1. x \in Known /\ tasks'[x] \notin Terminal
        BY <1>3, <2>1 DEF Active, Known
      <4>2. ~Allowed(tasks[x], to) /\ to \in Terminal
        BY <1>2, <1>3, <3>4, <4>1
      <4>3. tasks[x] \in {"pending", "running"}
        BY <1>6, <2>1, <4>1, <1>1 DEF Active, Registry, Status
      <4>4. tasks[x] = "pending"
        BY <4>2, <4>3 DEF Allowed, Terminal
      <4>5. PICK g \in Handler : handler[g].step = "created" /\ handler[g].id = x
        BY <4>1, <4>4 DEF Inv, PendingStarts
      <4>6. g # h
        BY <3>4, <4>5
      <4> QED
        BY <1>4, <4>5, <4>6
    <3> QED
      BY <3>1, <3>2, <3>3, <3>4
  <2> QED
    BY <2>1 DEF ActiveTended
<1>9. HandlersFit'
  <2>1. ASSUME NEW g \in Handler
        PROVE  /\ handler'[g].step = "idle" => handler'[g].id = NoID
               /\ handler'[g].step # "idle" => handler'[g].id \in TaskID
               /\ handler'[g].kind = "import" => handler'[g].id \notin RandomID
               /\ handler'[g].step = "deferred" => handler'[g].kind = "import"
    <3>1. CASE g = h
      BY <1>1, <1>4, <3>1 DEF Inv, HandlersFit
    <3>2. CASE g # h
      BY <1>4, <3>2 DEF Inv, HandlersFit
    <3> QED
      BY <3>1, <3>2
  <2> QED
    BY <2>1 DEF HandlersFit
<1>10. RandomOnce'
  BY <1>3, <1>4 DEF Inv, RandomOnce
<1>11. OwnFits'
  <2>1. ASSUME NEW g \in Handler, handler[g].id \in RandomID
        PROVE  /\ handler'[g].step = "created" =>
                    handler[g].id \in Known /\ tasks'[handler[g].id] = "pending"
               /\ handler'[g].step \in Running =>
                    handler[g].id \in Known /\ tasks'[handler[g].id] = "running"
               /\ handler'[g].step \in {"closed", "saving"} /\ handler[g].id \in Known =>
                    tasks'[handler[g].id] = handler'[g].final
               /\ receipts[handler[g].id] = "none"
    <3>1. CASE g = h /\ handler[h].step = "created"
      <4>1. own \in Known /\ tasks[own] = "pending" /\ receipts[own] = "none"
        BY <2>1, <3>1 DEF Inv, OwnFits
      <4>2. tasks'[own] = "running" /\ handler'[h].step = "started"
        BY <1>3, <3>1, <4>1 DEF Allowed
      <4> QED
        BY <3>1, <4>1, <4>2
    <3>2. CASE g = h /\ handler[h].step = "closing"
      <4>1. own \in Known /\ tasks[own] = "running" /\ receipts[own] = "none"
        BY <2>1, <3>2 DEF Inv, OwnFits
      <4>2. tasks'[own] = handler'[h].final /\ handler'[h].step = "closed"
        BY <1>2, <1>3, <3>2, <4>1 DEF Allowed, Terminal
      <4> QED
        BY <3>2, <4>1, <4>2
    <3>3. CASE g # h
      <4>1. handler'[g] = handler[g] /\ handler[g].id # own
        BY <1>4, <2>1, <3>3 DEF Inv, RandomOnce
      <4>2. handler[g].id \in Known => tasks'[handler[g].id] = tasks[handler[g].id]
        BY <1>3, <4>1
      <4> QED
        BY <2>1, <4>1, <4>2 DEF Inv, OwnFits
    <3> QED
      BY <3>1, <3>2, <3>3
  <2> QED
    BY <1>3, <1>4, <2>1 DEF OwnFits
<1>12. OwnDone'
  <2>1. ASSUME NEW x \in taken, x \in Known \ Active', \A g \in Handler : handler[g].id # x
        PROVE  receipts[x] \in {"none", tasks'[x]}
    <3>1. x # own /\ tasks'[x] = tasks[x]
      BY <1>3, <2>1
    <3>2. x \notin Active
      BY <1>3, <2>1, <3>1 DEF Active, Known
    <3> QED
      BY <2>1, <3>1, <3>2 DEF Inv, OwnDone
  <2> QED
    BY <1>3, <1>4, <2>1 DEF OwnDone
<1> QED
  BY <1>3, <1>7, <1>8, <1>9, <1>10, <1>11, <1>12, TypePartsNext DEF Inv

-----------------------------------------------------------------------------
\* The handlers' steps, one by one.

LEMMA StartInv ==
    ASSUME Inv, NEW h \in Handler, Start(h)
    PROVE  Inv'
<1>1. Registry /\ Rest /\ handler[h].step = "created"
  BY TypeParts DEF Inv, Start, At
<1>2. Transition(handler[h].id, "running") /\ UNCHANGED <<taken, receipts, left>>
  BY DEF Start
<1>3. /\ handler' \in [Handler -> HandlerRecord] /\ Others(h)
      /\ handler'[h].step = "started"
      /\ handler'[h].id = handler[h].id /\ handler'[h].kind = handler[h].kind
  BY <1>1, HandlerSteps DEF Start, Goto, Steps
<1>4. Rest'
  BY <1>1, <1>2, <1>3 DEF Rest
<1> QED
  BY <1>1, <1>2, <1>3, <1>4, MoveStep

LEMMA EndTransitionInv ==
    ASSUME Inv, NEW h \in Handler, EndTransition(h)
    PROVE  Inv'
<1>1. Registry /\ Rest /\ handler[h].step = "closing"
  BY TypeParts DEF Inv, EndTransition, At
<1>2. Transition(handler[h].id, handler[h].final) /\ UNCHANGED <<taken, receipts, left>>
  BY DEF EndTransition
<1>3. /\ handler' \in [Handler -> HandlerRecord] /\ Others(h)
      /\ handler'[h].step = "closed" /\ handler'[h].final = handler[h].final
      /\ handler'[h].id = handler[h].id /\ handler'[h].kind = handler[h].kind
  BY <1>1, HandlerSteps DEF EndTransition, Goto, Steps
<1>4. Rest'
  BY <1>1, <1>2, <1>3 DEF Rest
<1> QED
  BY <1>1, <1>2, <1>3, <1>4, MoveStep

LEMMA PhaseInv ==
    ASSUME Inv, NEW h \in Handler, Phase(h)
    PROVE  Inv'
<1>1. Registry /\ Rest /\ handler[h].step = "started"
  BY TypeParts DEF Inv, Phase, At
<1>2. Registry' /\ Calm
  BY <1>1, TouchKeeps DEF Phase
<1>3. /\ handler' \in [Handler -> HandlerRecord] /\ Others(h)
      /\ handler'[h].step = "phased"
      /\ handler'[h].id = handler[h].id /\ handler'[h].kind = handler[h].kind
  BY <1>1, HandlerSteps DEF Phase, Goto, Steps
<1>4. UNCHANGED <<taken, receipts, left>>
  BY DEF Phase
<1>5. TypeOK' /\ Ordered'
  BY <1>1, <1>2, <1>3, <1>4, TypePartsNext DEF Rest
<1> QED
  BY <1>1, <1>2, <1>3, <1>4, <1>5, OnwardStep DEF Running, Tending

LEMMA MeterInv ==
    ASSUME Inv, NEW h \in Handler, Meter(h)
    PROVE  Inv'
<1>1. Registry /\ Rest /\ handler[h].step = "phased"
  BY TypeParts DEF Inv, Meter, At
<1>2. Registry' /\ Calm
  BY <1>1, TouchKeeps DEF Meter
<1>3. /\ handler' \in [Handler -> HandlerRecord] /\ Others(h)
      /\ handler'[h].step = "metered"
      /\ handler'[h].id = handler[h].id /\ handler'[h].kind = handler[h].kind
  BY <1>1, HandlerSteps DEF Meter, Goto, Steps
<1>4. UNCHANGED <<taken, receipts, left>>
  BY DEF Meter
<1>5. TypeOK' /\ Ordered'
  BY <1>1, <1>2, <1>3, <1>4, TypePartsNext DEF Rest
<1> QED
  BY <1>1, <1>2, <1>3, <1>4, <1>5, OnwardStep DEF Running, Tending

LEMMA EndMeterInv ==
    ASSUME Inv, NEW h \in Handler, EndMeter(h)
    PROVE  Inv'
<1>1. Registry /\ Rest /\ handler[h].step = "ending"
  BY TypeParts DEF Inv, EndMeter, At
<1>2. Registry' /\ Calm
  BY <1>1, TouchKeeps DEF EndMeter
<1>3. /\ handler' \in [Handler -> HandlerRecord] /\ Others(h)
      /\ handler'[h].step = "closing"
      /\ handler'[h].id = handler[h].id /\ handler'[h].kind = handler[h].kind
  BY <1>1, HandlerSteps DEF EndMeter, Goto, Steps
<1>4. UNCHANGED <<taken, receipts, left>>
  BY DEF EndMeter
<1>5. TypeOK' /\ Ordered'
  BY <1>1, <1>2, <1>3, <1>4, TypePartsNext DEF Rest
<1> QED
  BY <1>1, <1>2, <1>3, <1>4, <1>5, OnwardStep DEF Running, Tending

\* Nothing of the registry moves.
LEMMA Still ==
    ASSUME Registry, UNCHANGED <<tasks, older>>
    PROVE  Registry' /\ Calm
  BY DEF Registry, Ordered, Known, Calm

LEMMA IdleRecord == Idle \in HandlerRecord
  BY DEF Idle, HandlerRecord, Steps, Terminal

\* A task of its own that a handler works at is running.
LEMMA OwnRuns ==
    ASSUME Inv, NEW h \in Handler, handler[h].step \in Running, handler[h].id \in RandomID
    PROVE  handler[h].id \in Active
  BY DEF Inv, OwnFits, Active, Terminal

LEMMA RefetchInv ==
    ASSUME Inv, NEW h \in Handler, Refetch(h)
    PROVE  Inv'
<1>1. Registry /\ Rest /\ handler[h].step = "metered"
  BY TypeParts DEF Inv, Refetch, At
<1>2. UNCHANGED <<tasks, older, taken, receipts, left>>
  BY DEF Refetch
<1>3. Registry' /\ Calm
  BY <1>1, <1>2, Still
<1>4. CASE handler[h].id \in Known
  <2>1. /\ handler' \in [Handler -> HandlerRecord] /\ Others(h)
        /\ handler'[h].step = "working"
        /\ handler'[h].id = handler[h].id /\ handler'[h].kind = handler[h].kind
    BY <1>1, <1>4, HandlerSteps DEF Refetch, Goto, Steps
  <2>2. TypeOK' /\ Ordered'
    BY <1>1, <1>2, <1>3, <2>1, TypePartsNext DEF Rest
  <2> QED
    BY <1>1, <1>2, <1>3, <2>1, <2>2, OnwardStep DEF Running, Tending
<1>5. CASE handler[h].id \notin Known
  <2>1. handler' \in [Handler -> HandlerRecord] /\ handler'[h] = Idle /\ Others(h)
    BY <1>1, <1>5, IdleRecord, HandlerTo DEF Refetch
  <2>2. TypeOK' /\ Ordered'
    BY <1>1, <1>2, <1>3, <2>1, TypePartsNext DEF Rest
  <2>3. handler[h].id \notin Active
    BY <1>5 DEF Active
  <2> QED
    BY <1>1, <1>2, <1>3, <1>5, <2>1, <2>2, <2>3, OffStep
<1> QED
  BY <1>4, <1>5

LEMMA SucceedsInv ==
    ASSUME Inv, NEW h \in Handler, Succeeds(h)
    PROVE  Inv'
<1>1. Registry /\ Rest /\ handler[h].step = "working"
  BY TypeParts DEF Inv, Succeeds, At
<1>2. UNCHANGED <<tasks, older, taken, receipts, left>>
  BY DEF Succeeds
<1>3. Registry' /\ Calm
  BY <1>1, <1>2, Still
<1>4. /\ handler' \in [Handler -> HandlerRecord] /\ Others(h)
      /\ handler'[h].step = "ending"
      /\ handler'[h].id = handler[h].id /\ handler'[h].kind = handler[h].kind
  BY <1>1, HandlerGoes DEF Succeeds, Steps, Terminal
<1>5. TypeOK' /\ Ordered'
  BY <1>1, <1>2, <1>3, <1>4, TypePartsNext DEF Rest
<1> QED
  BY <1>1, <1>2, <1>3, <1>4, <1>5, OnwardStep DEF Running, Tending

LEMMA WarnsInv ==
    ASSUME Inv, NEW h \in Handler, Warns(h)
    PROVE  Inv'
<1>1. Registry /\ Rest /\ handler[h].step = "working"
  BY TypeParts DEF Inv, Warns, At
<1>2. UNCHANGED <<taken, receipts, handler, left>>
  BY DEF Warns
<1>3. Registry' /\ Calm
  BY <1>1, TouchKeeps DEF Warns
<1>4. TypeOK' /\ Ordered'
  BY <1>1, <1>2, <1>3, TypePartsNext DEF Rest
<1> QED
  BY <1>1, <1>2, <1>3, <1>4, OnwardStep DEF Running, Tending, Others

LEMMA FailsInv ==
    ASSUME Inv, NEW h \in Handler, Fails(h)
    PROVE  Inv'
<1>1. Registry /\ Rest /\ handler[h].step = "working"
  BY TypeParts DEF Inv, Fails, At
<1>2. UNCHANGED <<tasks, older, taken, receipts, left>>
  BY DEF Fails
<1>3. Registry' /\ Calm
  BY <1>1, <1>2, Still
<1>4. PICK f \in Terminal : handler' = [handler EXCEPT ![h].step = "ending", ![h].final = f]
  BY DEF Fails, Terminal
<1>5. /\ handler' \in [Handler -> HandlerRecord] /\ Others(h)
      /\ handler'[h].step = "ending"
      /\ handler'[h].id = handler[h].id /\ handler'[h].kind = handler[h].kind
  BY <1>1, <1>4, HandlerGoes DEF Steps
<1>6. TypeOK' /\ Ordered'
  BY <1>1, <1>2, <1>3, <1>5, TypePartsNext DEF Rest
<1> QED
  BY <1>1, <1>2, <1>3, <1>5, <1>6, OnwardStep DEF Running, Tending

LEMMA LeavesInv ==
    ASSUME Inv, NEW h \in Handler, Leaves(h)
    PROVE  Inv'
<1>1. Registry /\ Rest /\ handler[h].step = "working" /\ handler[h].id \in TaskID
  BY TypeParts DEF Inv, Leaves, At, HandlersFit
<1>2. UNCHANGED <<tasks, older, taken, receipts>> /\ left' = left \cup {handler[h].id}
  BY DEF Leaves
<1>3. Registry' /\ Calm
  BY <1>1, <1>2, Still
<1>4. /\ handler' \in [Handler -> HandlerRecord] /\ Others(h)
      /\ \/ handler'[h] = Idle
         \/ /\ handler'[h].step = "deferred" /\ handler[h].kind = "import"
            /\ handler'[h].id = handler[h].id /\ handler'[h].kind = handler[h].kind
            /\ handler'[h].final = handler[h].final
  <2>1. CASE handler[h].kind = "import"
    BY <1>1, <2>1, HandlerSteps DEF Leaves, Goto, Steps
  <2>2. CASE handler[h].kind # "import"
    BY <1>1, <2>2, IdleRecord, HandlerTo DEF Leaves
  <2> QED
    BY <2>1, <2>2
<1>5. TypeOK' /\ Ordered'
  BY <1>1, <1>2, <1>3, <1>4, TypePartsNext DEF Rest
<1>6. handler[h].id \in RandomID => handler[h].id \in Active
  BY <1>1, OwnRuns DEF Running, Tending
<1> QED
  BY <1>1, <1>2, <1>3, <1>4, <1>5, <1>6, OffStep

\* Where Done takes a handler.
LEMMA DoneIs ==
    ASSUME Rest, NEW h \in Handler, handler' = Done(h)
    PROVE  /\ handler' \in [Handler -> HandlerRecord] /\ Others(h)
           /\ \/ handler'[h] = Idle
              \/ /\ handler'[h].step = "deferred" /\ handler[h].kind = "import"
                 /\ handler'[h].id = handler[h].id /\ handler'[h].kind = handler[h].kind
                 /\ handler'[h].final = handler[h].final
<1>1. CASE handler[h].kind = "import"
  BY <1>1, HandlerSteps DEF Done, Steps
<1>2. CASE handler[h].kind # "import"
  BY <1>2, IdleRecord, HandlerTo DEF Done
<1> QED
  BY <1>1, <1>2

LEMMA EndGetInv ==
    ASSUME Inv, NEW h \in Handler, EndGet(h)
    PROVE  Inv'
<1>1. Registry /\ Rest /\ handler[h].step = "closed"
  BY TypeParts DEF Inv, EndGet, At
<1>2. UNCHANGED <<tasks, older, taken, receipts, left>>
  BY DEF EndGet
<1>3. Registry' /\ Calm
  BY <1>1, <1>2, Still
<1>4. CASE handler[h].id \in Known
  <2>1. /\ handler' \in [Handler -> HandlerRecord] /\ Others(h)
        /\ handler'[h].step = "saving" /\ handler'[h].final = handler[h].final
        /\ handler'[h].id = handler[h].id /\ handler'[h].kind = handler[h].kind
    BY <1>1, <1>4, HandlerSteps DEF EndGet, Steps
  <2>2. TypeOK' /\ Ordered'
    BY <1>1, <1>2, <1>3, <2>1, TypePartsNext DEF Rest
  <2>3. handler[h].id \in RandomID => receipts[handler[h].id] = "none"
    BY DEF Inv, OwnFits
  <2> QED
    BY <1>1, <1>2, <1>3, <2>1, <2>2, <2>3, OffStep DEF Tending
<1>5. CASE handler[h].id \notin Known
  <2>1. /\ handler' \in [Handler -> HandlerRecord] /\ Others(h)
        /\ \/ handler'[h] = Idle
           \/ /\ handler'[h].step = "deferred" /\ handler[h].kind = "import"
              /\ handler'[h].id = handler[h].id /\ handler'[h].kind = handler[h].kind
              /\ handler'[h].final = handler[h].final
    BY <1>1, <1>5, DoneIs DEF EndGet
  <2>2. TypeOK' /\ Ordered'
    BY <1>1, <1>2, <1>3, <2>1, TypePartsNext DEF Rest
  <2> QED
    BY <1>1, <1>2, <1>3, <1>5, <2>1, <2>2, OffStep DEF Tending
<1> QED
  BY <1>4, <1>5

LEMMA SaveInv ==
    ASSUME Inv, NEW h \in Handler, Save(h)
    PROVE  Inv'
<1>1. Registry /\ Rest /\ handler[h].step = "saving" /\ handler[h].id \in TaskID
  BY TypeParts DEF Inv, Save, At, HandlersFit
<1>2. UNCHANGED <<tasks, older, taken, left>>
  BY DEF Save
<1>3. Registry' /\ Calm
  BY <1>1, <1>2, Still
<1>4. handler[h].final \in Terminal
  BY <1>1, HandlerIs DEF HandlerRecord
<1>5. /\ receipts' \in [TaskID -> Terminal \cup {"none"}]
      /\ \A i \in TaskID \ {handler[h].id} : receipts'[i] = receipts[i]
      /\ receipts'[handler[h].id] \in {receipts[handler[h].id], handler[h].final}
  BY <1>1, <1>4 DEF Save, Rest
<1>6. /\ handler' \in [Handler -> HandlerRecord] /\ Others(h)
      /\ \/ handler'[h] = Idle
         \/ /\ handler'[h].step = "deferred" /\ handler[h].kind = "import"
            /\ handler'[h].id = handler[h].id /\ handler'[h].kind = handler[h].kind
            /\ handler'[h].final = handler[h].final
  BY <1>1, DoneIs DEF Save
<1>7. TypeOK' /\ Ordered'
  BY <1>1, <1>2, <1>3, <1>5, <1>6, TypePartsNext DEF Rest
<1>8. handler[h].id \in RandomID /\ handler[h].id \in Known =>
          receipts[handler[h].id] = "none" /\ tasks[handler[h].id] = handler[h].final
  BY <1>1 DEF Inv, OwnFits
<1> QED
  BY <1>1, <1>2, <1>3, <1>5, <1>6, <1>7, <1>8, OffStep DEF Tending

LEMMA DeferredInv ==
    ASSUME Inv, NEW h \in Handler, Deferred(h)
    PROVE  Inv'
<1>1. Registry /\ Rest /\ handler[h].step = "deferred"
  BY TypeParts DEF Inv, Deferred, At
<1>2. UNCHANGED <<taken, receipts, left>>
  BY DEF Deferred
<1>3. Registry' /\ Calm
  BY <1>1, TouchKeeps DEF Deferred
<1>4. handler' \in [Handler -> HandlerRecord] /\ handler'[h] = Idle /\ Others(h)
  BY <1>1, IdleRecord, HandlerTo DEF Deferred
<1>5. TypeOK' /\ Ordered'
  BY <1>1, <1>2, <1>3, <1>4, TypePartsNext DEF Rest
<1>6. handler[h].id \notin RandomID
  BY <1>1 DEF Inv, HandlersFit
<1> QED
  BY <1>1, <1>2, <1>3, <1>4, <1>5, <1>6, OffStep DEF Tending

LEMMA StillInv ==
    ASSUME Inv, UNCHANGED vars
    PROVE  Inv'
<1>1. UNCHANGED <<tasks, older, taken, receipts, handler, left>>
  BY DEF vars
<1>2. Registry' /\ Rest'
  BY <1>1, Still, TypeParts DEF Inv, Rest
<1>3. TypeOK' /\ Ordered'
  BY <1>2, TypePartsNext
<1>4. PendingStarts' /\ ActiveTended' /\ HandlersFit'
  BY <1>1 DEF Inv, PendingStarts, ActiveTended, HandlersFit, Known, Active
<1>5. RandomOnce' /\ OwnFits' /\ OwnDone'
  BY <1>1 DEF Inv, RandomOnce, OwnFits, OwnDone, Known, Active
<1> QED
  BY <1>3, <1>4, <1>5 DEF Inv

LEMMA NextInv ==
    ASSUME Inv, [Next]_vars
    PROVE  Inv'
<1>1. CASE Restart
  BY <1>1, RestartInv
<1>2. ASSUME NEW h \in Handler, Begin(h) \/ Serve(h) PROVE Inv'
  BY <1>2, BeginInv, StartInv, PhaseInv, MeterInv, RefetchInv, WarnsInv, SucceedsInv,
     FailsInv, LeavesInv, EndMeterInv, EndTransitionInv, EndGetInv, SaveInv, DeferredInv DEF Serve
<1>3. CASE UNCHANGED vars
  BY <1>3, StillInv
<1> QED
  BY <1>1, <1>2, <1>3 DEF Next

\* What a step is to the registry: a restart, a new task, or no change of what
\* is in it and of what has ended.
LEMMA StepShape ==
    ASSUME Inv, [Next]_vars
    PROVE  \/ Known' = {}
           \/ \E id \in TaskID : Create(id)
           \/ Known' = Known /\ \A x \in Known \ Active : tasks'[x] = tasks[x]
<1>1. Registry /\ Rest
  BY TypeParts DEF Inv
<1>2. Calm \/ Known' = {} \/ (\E id \in TaskID : Create(id))
        \/ \E h \in Handler : \E to \in {"running"} \cup Terminal : Transition(handler[h].id, to)
  <2>1. CASE Restart
    BY <2>1 DEF Restart, Known
  <2>2. ASSUME NEW h \in Handler, Begin(h) PROVE \E id \in TaskID : Create(id)
    BY <2>2 DEF Begin, IDsOf, TaskID
  <2>3. ASSUME NEW h \in Handler, Serve(h)
        PROVE  Calm \/ \E to \in {"running"} \cup Terminal : Transition(handler[h].id, to)
    <3>1. CASE Start(h)
      BY <3>1 DEF Start
    <3>2. CASE EndTransition(h)
      BY <1>1, <3>2, HandlerIs DEF EndTransition, HandlerRecord
    <3>3. CASE Phase(h) \/ Meter(h) \/ Warns(h) \/ EndMeter(h) \/ Deferred(h)
      BY <1>1, <3>3, TouchKeeps DEF Phase, Meter, Warns, EndMeter, Deferred
    <3>4. CASE Refetch(h) \/ Succeeds(h) \/ Fails(h) \/ Leaves(h) \/ EndGet(h) \/ Save(h)
      BY <3>4 DEF Refetch, Succeeds, Fails, Leaves, EndGet, Save, Calm, Known
    <3> QED
      BY <2>3, <3>1, <3>2, <3>3, <3>4 DEF Serve
  <2>4. CASE UNCHANGED vars
    BY <2>4 DEF vars, Calm, Known
  <2> QED
    BY <2>1, <2>2, <2>3, <2>4 DEF Next
<1>3. ASSUME NEW h \in Handler, NEW to \in {"running"} \cup Terminal,
             Transition(handler[h].id, to)
      PROVE  Known' = Known /\ \A x \in Known \ Active : tasks'[x] = tasks[x]
  <2> DEFINE id == handler[h].id
  <2>1. /\ Known' = Known
        /\ \A x \in Known \ {id} : tasks'[x] = tasks[x]
        /\ id \in Known /\ ~Allowed(tasks[id], to) => tasks'[id] = tasks[id]
    BY <1>1, <1>3, TransitionKeeps
  <2>2. \A x \in Known \ Active : ~Allowed(tasks[x], to)
    BY DEF Active, Allowed, Terminal
  <2> QED
    BY <2>1, <2>2
<1>4. CASE Calm
  BY <1>4 DEF Calm
<1> QED
  BY <1>2, <1>3, <1>4

\* Eviction makes room for the task that comes in, unless all that is left is
\* active.
LEMMA CreateBounds ==
    ASSUME Registry, NEW id \in TaskID, Create(id), id \notin Known
    PROVE  Cardinality(Known') <= MaxRegistry \/ Known' = Active'
<1> DEFINE E == Known \ Active
           f == [x \in E |-> older[x] \ Active]
           K == Cardinality(Known)
           n == K + 1 - MaxRegistry
<1>1. IsFiniteSet(Known) /\ K \in Nat /\ MaxRegistry \in Nat \ {0}
  BY FS_CardinalityType, TasksAssumption DEF Registry
<1>2. IsFiniteSet(E) /\ Cardinality(E) \in Nat
  BY <1>1, FS_Subset, FS_CardinalityType
<1>3. Before(E, f)
  <2>1. \A x \in Known : older[x] \subseteq Known
    BY DEF Registry
  <2>2. \A x \in E : f[x] = older[x] \ Active /\ f[x] \subseteq E
    BY <2>1
  <2>3. \A x, y \in E : x \in f[y] <=> x \in older[y]
    BY <2>2
  <2>4. \A x, y \in E : x \in f[y] <=> x # y /\ y \notin f[x]
    BY <2>3 DEF Registry, Ordered
  <2>5. \A x, y, z \in E : x \in f[y] /\ y \in f[z] => x \in f[z]
    BY <2>3 DEF Registry, Ordered
  <2> HIDE DEF E, f
  <2> QED
    BY <2>2, <2>4, <2>5 DEF Before
<1>4. \A x \in E : Cardinality(f[x]) \in Nat /\ Cardinality(f[x]) < Cardinality(E)
  BY <1>2, <1>3, RankNat
<1>5. Evicted = {x \in E : Cardinality(f[x]) < n}
  <2>1. \A x \in E : f[x] = older[x] \ Active
    OBVIOUS
  <2>2. \A x \in E : Cardinality(f[x]) + MaxRegistry <= K <=> Cardinality(f[x]) < n
    BY <1>1, <1>4
  <2>3. Evicted = {x \in E : Cardinality(f[x]) + MaxRegistry <= K}
    BY <2>1 DEF Evicted
  <2> QED
    BY <2>2, <2>3
<1>6. /\ Known' = (Known \ Evicted) \cup {id}
      /\ \A x \in Known \ Evicted : tasks'[x] = tasks[x]
      /\ tasks'[id] = "pending"
  <2>1. PICK kept : kept = (Known \ Evicted) \cup {id}
    OBVIOUS
  <2>2. tasks' = [x \in kept |-> IF x = id THEN "pending" ELSE tasks[x]]
    BY <2>1 DEF Create
  <2> QED
    BY <2>1, <2>2 DEF Known
<1>7. IsFiniteSet(Known \ Evicted) /\ id \notin Known \ Evicted
  BY <1>1, FS_Subset
<1>8. Cardinality(Known') = Cardinality(Known \ Evicted) + 1
  BY <1>6, <1>7, FS_AddElement
<1>9. CASE n <= 0
  <2>1. Cardinality(Known \ Evicted) <= K /\ Cardinality(Known \ Evicted) \in Nat
    BY <1>1, <1>7, FS_Subset, FS_CardinalityType
  <2> QED
    BY <1>1, <1>8, <1>9, <2>1
<1>10. CASE 0 < n /\ n <= Cardinality(E)
  <2>1. n \in Nat
    BY <1>1, <1>10
  <2> HIDE DEF E, f, n
  <2>2. IsFiniteSet(Evicted) /\ Cardinality(Evicted) = n
    BY <1>2, <1>3, <1>5, <1>10, <2>1, RankCount
  <2>3. Evicted \subseteq Known
    BY DEF Evicted
  <2>4. Cardinality(Known \ Evicted) = K - n
    <3>1. Known \cap Evicted = Evicted
      BY <2>3
    <3> QED
      BY <1>1, <2>2, <3>1, FS_Difference
  <2> QED
    BY <1>1, <1>8, <2>4 DEF n
<1>11. CASE Cardinality(E) < n
  <2>1. Evicted = E
    <3>1. \A x \in E : Cardinality(f[x]) < n
      <4> HIDE DEF E, f
      <4> QED
        BY <1>1, <1>2, <1>4, <1>11
    <3> QED
      BY <1>5, <3>1
  <2>2. Known' = Active \cup {id} /\ Active \subseteq Known
    BY <1>6, <2>1 DEF Active
  <2>3. \A x \in Known' : tasks'[x] \notin Terminal
    BY <1>6, <2>1, <2>2 DEF Active, Terminal
  <2> QED
    BY <2>3 DEF Active, Known
<1> QED
  BY <1>1, <1>2, <1>9, <1>10, <1>11

-----------------------------------------------------------------------------
\* The theorems.

LEMMA InvAccounted == Inv => Accounted
<1> SUFFICES ASSUME Inv PROVE Accounted
  OBVIOUS
<1>1. Tended
  BY DEF Inv, ActiveTended, Tended, Tending, At
<1>2. OwnTasks
  BY DEF Inv, OwnFits, OwnDone, OwnTasks, At, Running, Tending, TypeOK
<1> QED
  BY <1>1, <1>2 DEF Inv, Accounted

LEMMA InvAlways == Spec => []Inv
<1>1. Init => Inv
  BY InitInv
<1>2. Inv /\ [Next]_vars => Inv'
  BY NextInv
<1> QED
  BY <1>1, <1>2, PTL DEF Spec

\* Every task that is active has a handler that will end it or was left by one,
\* and a handler's own task is what beginTask and completeTask say, however
\* many handlers share the others and whatever is evicted between their calls.
THEOREM TasksAccounted == Spec => []Accounted
  BY InvAlways, InvAccounted, PTL

\* A new task pushes out only tasks that have ended (evictIfNeededLocked).
THEOREM ActiveStay == Spec => ActiveKept
<1>1. ASSUME Inv, [Next]_vars PROVE Active \subseteq Known' \/ Known' = {}
  <2>1. Registry /\ Active \subseteq Known
    BY <1>1, TypeParts DEF Inv, Active
  <2> QED
    BY <1>1, <2>1, StepShape, CreateKeeps
<1>2. Inv /\ [Next]_vars => [Active \subseteq Known' \/ Known' = {}]_vars
  BY <1>1
<1> QED
  BY <1>2, InvAlways, PTL DEF Spec, ActiveKept

\* No call takes a task out of a terminal status, begun again or ended twice
\* (ValidateTransition, Create).
THEOREM TerminalStays == Spec => TerminalFinal
<1> DEFINE P == \A id \in (Known \ Active) \cap Known' :
                    tasks'[id] = tasks[id]
<1>1. ASSUME Inv, [Next]_vars PROVE P
  <2>1. Registry
    BY <1>1, TypeParts DEF Inv
  <2> QED
    BY <1>1, <2>1, StepShape, CreateKeeps
<1> HIDE DEF P
<1>2. Inv /\ [Next]_vars => [P]_vars
  BY <1>1
<1>3. Spec => [][P]_vars
  BY <1>2, InvAlways, PTL DEF Spec
<1> QED
  BY <1>3 DEF TerminalFinal, P

\* Whenever a task comes in, eviction has brought the registry within its limit
\* or left nothing but active tasks (evictIfNeededLocked).
THEOREM RegistryBounded == Spec => GrowthBounded
<1>1. ASSUME Inv, [Next]_vars 
      PROVE  \/ Known' \subseteq Known
             \/ Cardinality(Known') <= MaxRegistry
             \/ Known' = Active'
  <2>1. Registry
    BY <1>1, TypeParts DEF Inv
  <2>2. ASSUME NEW id \in TaskID, Create(id)
        PROVE  \/ Known' \subseteq Known
               \/ Cardinality(Known') <= MaxRegistry
               \/ Known' = Active'
    <3>1. CASE id \in Known
      BY <2>1, <2>2, <3>1, CreateKeeps
    <3>2. CASE id \notin Known
      BY <2>1, <2>2, <3>2, CreateBounds
    <3> QED
      BY <3>1, <3>2
  <2> QED
    BY <1>1, <2>2, StepShape
<1>2. Inv /\ [Next]_vars => [\/ Known' \subseteq Known
                            \/ Cardinality(Known') <= MaxRegistry
                            \/ Known' = Active']_vars
  BY <1>1
<1> QED
  BY <1>2, InvAlways, PTL DEF Spec, GrowthBounded
=============================================================================
