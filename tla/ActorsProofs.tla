---------------------------- MODULE ActorsProofs ----------------------------
(***************************************************************************)
(* Proofs about Actors: the limit of active actors, their uniqueness in a  *)
(* lineage, that what has ended stays as it ended, and that records, PIDs, *)
(* timers, processes and windows agree.                                    *)
(*                                                                         *)
(* The first three rest on the activations alone: a step ends some of      *)
(* those that are active, or does so to the overdue ones and records one   *)
(* more.  The bounds on the number of activations play no part in them.    *)
(***************************************************************************)
EXTENDS Actors, FiniteSetTheorems, SequenceTheorems, TLAPS

\* An activation, whatever its number.
Record == [key : Key, lineage : Nat, depth : Nat, budget : Int, status : Status]

\* Records are well formed, and no lineage is younger than its members.
WellFormed ==
    /\ activations \in Seq(Record)
    /\ \A i \in Ids : activations[i].lineage <= i

\* s is what the activations become when some of the active ones end.
Later(s) ==
    /\ s \in Seq(Record) /\ Len(s) = Len(activations)
    /\ \A i \in Ids :
         \/ s[i] = activations[i]
         \/ /\ activations[i].status = "active" /\ s[i].status # "active"
            /\ s[i].lineage = activations[i].lineage
            /\ s[i].key = activations[i].key

LEMMA EndedIsLater ==
    ASSUME WellFormed, NEW ids, NEW st \in Status \ {"active"}
    PROVE  /\ Later(Ended(activations, ids, st))
           /\ \A i \in Ids \cap ids : Ended(activations, ids, st)[i].status # "active"
<1> DEFINE s == Ended(activations, ids, st)
<1>1. DOMAIN activations = Ids /\ Len(activations) \in Nat
  BY DEF WellFormed, Ids
<1>2. ASSUME NEW i \in Ids
      PROVE  /\ s[i] = IF i \in ids /\ activations[i].status = "active"
                       THEN [activations[i] EXCEPT !.status = st] ELSE activations[i]
             /\ activations[i] \in Record
  BY <1>1 DEF WellFormed, Ended
<1>3. ASSUME NEW i \in Ids PROVE s[i] \in Record
  BY <1>2 DEF Record
<1>4. s \in Seq(Record) /\ Len(s) = Len(activations)
  <2>1. s = [i \in 1..Len(activations) |-> s[i]]
    BY <1>1 DEF Ended, Ids
  <2> HIDE DEF s
  <2>2. s \in Seq(Record)
    BY <2>1, <1>1, <1>3, IsASeq DEF Ids
  <2> QED
    BY <2>1, <2>2, <1>1
<1>5. ASSUME NEW i \in Ids
      PROVE  /\ \/ s[i] = activations[i]
                \/ /\ activations[i].status = "active" /\ s[i].status # "active"
                   /\ s[i].lineage = activations[i].lineage
                   /\ s[i].key = activations[i].key
             /\ i \in ids => s[i].status # "active"
  BY <1>2, <1>3 DEF Record
<1> HIDE DEF s
<1>6. Later(s) /\ \A i \in Ids \cap ids : s[i].status # "active"
  BY <1>4, <1>5 DEF Later
<1> QED
  BY <1>6 DEF s

-----------------------------------------------------------------------------
\* Every step ends some of the active, or is an activation (all actions).
LEMMA StepShape ==
    ASSUME WellFormed, [Next]_vars
    PROVE  \/ Later(activations')
           \/ \E p \in Nat, k \in Key : Refuse(p, k) \/ Admit(p, k)
<1>0. Later(activations)
  BY DEF Later, WellFormed
<1>1. ASSUME NEW i, NEW st \in {"completed", "failed", "expired", "passivated"},
             activations' = Ended(activations, {i}, st)
      PROVE  Later(activations')
  BY <1>1, EndedIsLater DEF Status
<1>2. ASSUME activations' = Ended(activations, Overdue, "expired") PROVE Later(activations')
  BY <1>2, EndedIsLater DEF Status
<1>3. ASSUME NEW p, NEW k, Suppress(p, k) PROVE Later(activations')
  BY <1>2, <1>3 DEF Suppress
<1>4. CASE UNCHANGED vars
  BY <1>0, <1>4 DEF vars
<1>5. CASE ServerActivates
  BY <1>3, <1>5 DEF ServerActivates, Key
<1>6. CASE List
  BY <1>2, <1>6 DEF List
<1>7. ASSUME NEW q \in Query, QueryActivates(q) 
      PROVE  \/ Later(activations')
             \/ \E p \in Nat, k \in Key : Refuse(p, k) \/ Admit(p, k)
  <2>1. PICK p \in {0} \cup Ids \cup {MaxActivations + 1}, k \in QueryKey :
          Suppress(p, k) \/ Refuse(p, k) \/ Admit(p, k)
    BY <1>7 DEF QueryActivates
  <2>2. p \in Nat /\ k \in Key
    BY LimitsAssumption DEF Key, Ids, WellFormed
  <2> QED
    BY <2>1, <2>2, <1>3
<1>8. ASSUME NEW q \in Query, QueryRecords(q) PROVE Later(activations')
  BY <1>0, <1>1, <1>8 DEF QueryRecords, RecordResult, EndOne
<1>9. ASSUME NEW q \in Query, QueryFails(q) \/ QueryCompletes(q)
      PROVE  Later(activations')
  BY <1>1, <1>9 DEF QueryFails, QueryCompletes, Fail, Complete, EndOne
<1>10. ASSUME NEW i, Expire(i) \/ Works(i)
       PROVE  Later(activations')
  BY <1>0, <1>1, <1>10 DEF Expire, EndOne, Works
<1>11. ASSUME NEW i, Panics(i) \/ ActorStops(i) PROVE Later(activations')
  BY <1>1, <1>11 DEF Panics, ActorStops
<1>12. ASSUME NEW i, NEW m, \/ Tick \/ TimerFires(i) \/ Shutdown \/ ShutdownStops
                           \/ SendChecks(i, m) \/ SendDelivers(i, m) \/ Crashes(i)
       PROVE  Later(activations')
  BY <1>0, <1>12 DEF Tick, TimerFires, Shutdown, ShutdownStops, SendChecks,
     SendDelivers, Crashes, controllerVars
<1> QED
  BY <1>4, <1>5, <1>6, <1>7, <1>8, <1>9, <1>10, <1>11, <1>12 DEF Next

-----------------------------------------------------------------------------
\* What is recorded below p is well formed, and of its parent's lineage or a
\* new one (Below).
LEMMA BelowFormed ==
    ASSUME WellFormed, NEW p \in Nat, NEW k \in Key, NEW st \in Status
    PROVE  LET r == Below(p, k, st)
           IN  /\ r.key = k /\ r.lineage \in Nat /\ r.depth \in Nat
               /\ r.budget \in Int /\ r.status = st
               /\ r \in Record
               /\ r.lineage <= Len(activations) + 1
<1>1. ASSUME p \in Ids PROVE activations[p] \in Record /\ activations[p].lineage <= Len(activations)
  <2>1. activations[p] \in Record /\ p <= Len(activations) /\ Len(activations) \in Nat
    BY <1>1 DEF WellFormed, Ids
  <2>2. activations[p].lineage <= p /\ activations[p].lineage \in Nat
    BY <1>1, <2>1 DEF WellFormed, Record
  <2> QED
    BY <2>1, <2>2
<1>2. Len(activations) \in Nat /\ MaxBudget \in Nat
  BY LimitsAssumption DEF WellFormed
<1> QED
  BY <1>1, <1>2 DEF Below, Record

\* Appending keeps what was there.
LEMMA Appended ==
    ASSUME NEW S, NEW s \in Seq(S), NEW r \in S
    PROVE  /\ Append(s, r) \in Seq(S)
           /\ Len(Append(s, r)) = Len(s) + 1
           /\ Append(s, r)[Len(s) + 1] = r
           /\ \A i \in 1..Len(s) : Append(s, r)[i] = s[i]
<1>1. Append(s, r) \in Seq(S)
  BY AppendProperties
<1>2. Len(Append(s, r)) = Len(s) + 1
  BY AppendProperties
<1>3. Append(s, r)[Len(s) + 1] = r
  BY AppendProperties
<1>4. \A i \in 1..Len(s) : Append(s, r)[i] = s[i]
  BY AppendProperties
<1> QED
  BY <1>1, <1>2, <1>3, <1>4

\* The activations after an attempt that is recorded.
LEMMA Recorded ==
    ASSUME WellFormed, NEW r \in Record,
           activations' = Append(Ended(activations, Overdue, "expired"), r)
    PROVE  LET s == Ended(activations, Overdue, "expired")
               new == Len(activations) + 1
           IN  /\ Later(s)
               /\ activations' \in Seq(Record) /\ Ids' = Ids \cup {new}
               /\ new \notin Ids /\ activations'[new] = r
               /\ \A i \in Ids : activations'[i] = s[i]
               /\ \A i \in Ids \cap Overdue : s[i].status # "active"
<1> DEFINE s == Ended(activations, Overdue, "expired")
<1>1. Later(s) /\ \A i \in Ids \cap Overdue : s[i].status # "active"
  BY EndedIsLater DEF Status
<1>2. activations' = Append(s, r)
  OBVIOUS
<1> HIDE DEF s
<1>3. s \in Seq(Record) /\ Len(s) = Len(activations) /\ Len(s) \in Nat
  BY <1>1 DEF Later
<1>4. /\ Append(s, r) \in Seq(Record) /\ Len(Append(s, r)) = Len(s) + 1
      /\ Append(s, r)[Len(s) + 1] = r
      /\ \A i \in 1..Len(s) : Append(s, r)[i] = s[i]
  <2>1. r \in Record
    OBVIOUS
  <2> HIDE DEF Record
  <2> QED
    BY ONLY <1>3, <2>1, Appended
<1>5. Ids' = Ids \cup {Len(activations) + 1} /\ Len(activations) + 1 \notin Ids
  BY <1>2, <1>3, <1>4 DEF Ids
<1> QED
  BY <1>1, <1>2, <1>3, <1>4, <1>5 DEF s, Ids

\* What an attempt adds: a rejected or a failed record, or an active one.
LEMMA Attempted ==
    ASSUME WellFormed, NEW p \in Nat, NEW k \in Key, Refuse(p, k) \/ Admit(p, k)
    PROVE  \E st \in Status :
             /\ activations' = Append(Ended(activations, Overdue, "expired"), Below(p, k, st))
             /\ Below(p, k, st) \in Record
             /\ st = "active" => ~Suppressed(p, k) /\ ~Refused(p, k)
<1>1. CASE Refuse(p, k)
  BY <1>1, BelowFormed DEF Refuse, Status
<1>2. CASE Admit(p, k)
  BY <1>2, BelowFormed DEF Admit, Status
<1> QED
  BY <1>1, <1>2

LEMMA WellFormedHolds == Spec => []WellFormed
<1>1. Init => WellFormed
  BY DEF Init, WellFormed, Ids
<1>2. WellFormed /\ [Next]_vars => WellFormed'
  <2> SUFFICES ASSUME WellFormed, [Next]_vars PROVE WellFormed'
    OBVIOUS
  <2>1. CASE Later(activations')
    BY <2>1 DEF Later, WellFormed, Ids
  <2>2. ASSUME NEW p \in Nat, NEW k \in Key, Refuse(p, k) \/ Admit(p, k)
        PROVE  WellFormed'
    <3>1. PICK st \in Status :
            /\ activations' = Append(Ended(activations, Overdue, "expired"), Below(p, k, st))
            /\ Below(p, k, st) \in Record
      BY <2>2, Attempted
    <3>2. Below(p, k, st).lineage <= Len(activations) + 1
      BY BelowFormed
    <3>3. /\ Later(Ended(activations, Overdue, "expired"))
          /\ activations' \in Seq(Record) /\ Ids' = Ids \cup {Len(activations) + 1}
          /\ activations'[Len(activations) + 1] = Below(p, k, st)
          /\ \A i \in Ids : activations'[i] = Ended(activations, Overdue, "expired")[i]
      BY <3>1, Recorded
    <3>4. ASSUME NEW i \in Ids PROVE activations'[i].lineage <= i
      <4>1. activations'[i].lineage = activations[i].lineage
        BY <3>3 DEF Later
      <4> QED
        BY <4>1 DEF WellFormed
    <3> QED
      BY <3>2, <3>3, <3>4 DEF WellFormed
  <2> QED
    BY <2>1, <2>2, StepShape
<1> QED
  BY <1>1, <1>2, PTL DEF Spec

-----------------------------------------------------------------------------
\* An activation that has ended keeps the way it ended, for any number of
\* queries, timers, messages and activations (Complete, Fail, RecordResult,
\* expireActor, handleStopped).
THEOREM EndIsFinal == Spec => EndsOnce
<1>1. WellFormed /\ [Next]_vars =>
        [\A i \in Ids : activations[i].status # "active" =>
            activations'[i] = activations[i]]_vars
  <2> SUFFICES ASSUME WellFormed, [Next]_vars, NEW i \in Ids,
                      activations[i].status # "active"
               PROVE  activations'[i] = activations[i]
    OBVIOUS
  <2>1. CASE Later(activations')
    BY <2>1 DEF Later
  <2>2. ASSUME NEW p \in Nat, NEW k \in Key, Refuse(p, k) \/ Admit(p, k)
        PROVE  activations'[i] = activations[i]
    <3>1. PICK st \in Status :
            /\ activations' = Append(Ended(activations, Overdue, "expired"), Below(p, k, st))
            /\ Below(p, k, st) \in Record
      BY <2>2, Attempted
    <3> QED
      BY <3>1, Recorded DEF Later
  <2> QED
    BY <2>1, <2>2, StepShape
<1> QED
  BY WellFormedHolds, <1>1, PTL DEF Spec, EndsOnce

-----------------------------------------------------------------------------
\* No activation becomes active but by being admitted.
LEMMA FewerActive ==
    ASSUME WellFormed, NEW s, Later(s)
    PROVE  {i \in Ids : s[i].status = "active"} \subseteq ActiveIds
  BY DEF Later, ActiveIds

\* One more element is at most one more to count.
LEMMA OneMore ==
    ASSUME NEW S, IsFiniteSet(S), NEW x
    PROVE  /\ IsFiniteSet(S \cup {x})
           /\ Cardinality(S \cup {x}) \in Nat
           /\ Cardinality(S \cup {x}) <= Cardinality(S) + 1
<1>1. Cardinality(S) \in Nat
  BY FS_CardinalityType
<1>2. IsFiniteSet(S \cup {x})
  BY FS_AddElement
<1>3. Cardinality(S \cup {x}) \in Nat
  BY <1>2, FS_CardinalityType
<1>4. CASE x \in S
  <2>1. S \cup {x} = S
    BY <1>4
  <2> QED
    BY <1>1, <1>2, <2>1
<1>5. CASE x \notin S
  <2>1. Cardinality(S \cup {x}) = Cardinality(S) + 1
    BY <1>5, FS_AddElement
  <2> QED
    BY <1>1, <1>2, <1>3, <2>1
<1> QED
  BY <1>4, <1>5

LEMMA IdsFinite == WellFormed => IsFiniteSet(Ids)
<1> SUFFICES ASSUME WellFormed PROVE IsFiniteSet(Ids)
  OBVIOUS
<1>1. Len(activations) \in Nat
  BY DEF WellFormed
<1> QED
  BY <1>1, FS_Interval DEF Ids

\* However many queries and handlers activate, and whatever expires, fails or
\* is completed meanwhile, no more than maxActive activations are active
\* (ActivateWithParent).
THEOREM ActiveIsBounded == Spec => []ActiveBound
<1>1. Init => ActiveBound
  <2> SUFFICES ASSUME Init PROVE ActiveBound
    OBVIOUS
  <2>1. ActiveIds = {}
    BY DEF Init, ActiveIds, Ids
  <2> QED
    BY <2>1, FS_EmptySet, LimitsAssumption DEF ActiveBound
<1>2. WellFormed /\ ActiveBound /\ [Next]_vars => ActiveBound'
  <2> SUFFICES ASSUME WellFormed, ActiveBound, [Next]_vars PROVE ActiveBound'
    OBVIOUS
  <2>0. IsFiniteSet(ActiveIds) /\ Cardinality(ActiveIds) \in Nat
    BY IdsFinite, FS_Subset, FS_CardinalityType DEF ActiveIds
  <2>1. CASE ActiveIds' \subseteq ActiveIds
    BY <2>0, <2>1, FS_Subset, FS_CardinalityType, LimitsAssumption DEF ActiveBound
  <2>2. CASE Later(activations')
    <3>1. ActiveIds' = {i \in Ids : activations'[i].status = "active"}
      BY <2>2 DEF Later, ActiveIds, Ids
    <3> QED
      BY <2>1, <2>2, <3>1, FewerActive
  <2>3. ASSUME NEW p \in Nat, NEW k \in Key, Refuse(p, k) \/ Admit(p, k)
        PROVE  ActiveBound'
    <3> DEFINE s == Ended(activations, Overdue, "expired")
               new == Len(activations) + 1
               Kept == ActiveIds \ Overdue
    <3>1. PICK st \in Status :
            /\ activations' = Append(s, Below(p, k, st))
            /\ Below(p, k, st) \in Record
            /\ st = "active" => ~Refused(p, k)
      BY <2>3, Attempted
    <3>2. Below(p, k, st).status = st
      BY BelowFormed
    <3>3. /\ Later(s) /\ Ids' = Ids \cup {new}
          /\ activations'[new] = Below(p, k, st)
          /\ \A i \in Ids : activations'[i] = s[i]
          /\ \A i \in Ids \cap Overdue : s[i].status # "active"
      BY <3>1, Recorded
    <3>4. \A i \in Ids : activations'[i].status = "active" => i \in Kept
      BY <3>3 DEF Later, ActiveIds
    <3>5. CASE st # "active"
      <4>1. ActiveIds' \subseteq ActiveIds
        BY <3>2, <3>3, <3>4, <3>5 DEF ActiveIds
      <4> QED
        BY <2>1, <4>1
    <3>6. CASE st = "active"
      <4>1. ActiveIds' \subseteq Kept \cup {new}
        BY <3>3, <3>4 DEF ActiveIds
      <4>2. IsFiniteSet(Kept) /\ Cardinality(Kept) \in Nat
        BY <2>0, FS_Subset, FS_CardinalityType
      <4>3. ~(Cardinality(Kept) >= MaxActive)
        BY <3>1, <3>6 DEF Refused
      <4>4. /\ IsFiniteSet(Kept \cup {new})
            /\ Cardinality(Kept \cup {new}) \in Nat
            /\ Cardinality(Kept \cup {new}) <= Cardinality(Kept) + 1
        BY <4>2, OneMore
      <4>5. Cardinality(ActiveIds') \in Nat /\ Cardinality(ActiveIds') <= Cardinality(Kept \cup {new})
        BY <4>1, <4>4, FS_Subset, FS_CardinalityType
      <4> QED
        BY <4>2, <4>3, <4>4, <4>5, LimitsAssumption DEF ActiveBound
    <3> QED
      BY <3>5, <3>6
  <2> QED
    BY <2>2, <2>3, StepShape
<1> QED
  BY WellFormedHolds, <1>1, <1>2, PTL DEF Spec

-----------------------------------------------------------------------------
\* What is neither suppressed nor refused has no like in its lineage: a root's
\* lineage is younger than every activation, a child's has been searched.
LEMMA NoLike ==
    ASSUME WellFormed, NEW p \in Nat, NEW k \in Key, NEW st \in Status,
           ~Suppressed(p, k), ~Refused(p, k), NEW i \in ActiveIds \ Overdue
    PROVE  ~(activations[i].lineage = Below(p, k, st).lineage /\ activations[i].key = k)
<1>1. i \in Ids /\ Len(activations) \in Nat
  BY DEF ActiveIds, WellFormed
<1>2. activations[i] \in Record /\ activations[i].lineage <= i
  BY <1>1 DEF WellFormed, Ids
<1>3. CASE p = 0
  <2>1. Below(p, k, st).lineage = Len(activations) + 1
    BY <1>3 DEF Below
  <2> QED
    BY <1>1, <1>2, <2>1 DEF Ids, Record
<1>4. CASE p # 0
  <2>1. Below(p, k, "rejected").lineage # 0 /\ ~(p \in Ids /\ activations[p].key = k)
    BY <1>4 DEF Refused
  <2>2. p \in Ids /\ activations[p].lineage # 0
    BY <1>4, <2>1 DEF Below
  <2>3. Below(p, k, st).lineage = activations[p].lineage
    BY <1>4, <2>2 DEF Below
  <2>4. ~\E j \in ActiveInLineage(activations[p].lineage) : activations[j].key = k
    BY <1>4, <2>1, <2>2 DEF Suppressed
  <2> QED
    BY <2>3, <2>4 DEF ActiveInLineage
<1> QED
  BY <1>3, <1>4

\* No two active activations of one lineage have the same key, whatever
\* expires, is completed or is activated meanwhile (ActivateWithParent).
THEOREM LineageStaysUnique == Spec => []LineageUnique
<1>1. Init => LineageUnique
  BY DEF Init, LineageUnique, ActiveIds, Ids
<1>2. WellFormed /\ LineageUnique /\ [Next]_vars => LineageUnique'
  <2> SUFFICES ASSUME WellFormed, LineageUnique, [Next]_vars PROVE LineageUnique'
    OBVIOUS
  <2>1. CASE Later(activations')
    BY <2>1 DEF Later, LineageUnique, ActiveIds, Ids
  <2>2. ASSUME NEW p \in Nat, NEW k \in Key, Refuse(p, k) \/ Admit(p, k)
        PROVE  LineageUnique'
    <3> DEFINE s == Ended(activations, Overdue, "expired")
               new == Len(activations) + 1
    <3>1. PICK st \in Status :
            /\ activations' = Append(s, Below(p, k, st))
            /\ Below(p, k, st) \in Record
            /\ st = "active" => ~Suppressed(p, k) /\ ~Refused(p, k)
      BY <2>2, Attempted
    <3>2. Below(p, k, st).status = st /\ Below(p, k, st).key = k
      BY BelowFormed
    <3>3. /\ Later(s) /\ Ids' = Ids \cup {new}
          /\ activations'[new] = Below(p, k, st)
          /\ \A i \in Ids : activations'[i] = s[i]
          /\ \A i \in Ids \cap Overdue : s[i].status # "active"
      BY <3>1, Recorded
    <3>4. ASSUME NEW i \in ActiveIds', i # new
          PROVE  /\ i \in ActiveIds \ Overdue
                 /\ activations'[i].lineage = activations[i].lineage
                 /\ activations'[i].key = activations[i].key
      BY <3>3, <3>4 DEF Later, ActiveIds
    <3>5. ASSUME NEW i \in ActiveIds', i # new, new \in ActiveIds'
          PROVE  ~(/\ activations'[i].lineage = activations'[new].lineage
                   /\ activations'[i].key = activations'[new].key)
      <4>1. st = "active"
        BY <3>2, <3>3, <3>5 DEF ActiveIds
      <4>2. ~(activations[i].lineage = Below(p, k, st).lineage /\ activations[i].key = k)
        BY <3>1, <3>4, <3>5, <4>1, NoLike
      <4>3. /\ activations'[i].lineage = activations[i].lineage
            /\ activations'[i].key = activations[i].key
        BY <3>4, <3>5
      <4> QED
        BY <3>2, <3>3, <4>2, <4>3
    <3> HIDE DEF new
    <3> QED
      BY <3>4, <3>5 DEF LineageUnique
  <2> QED
    BY <2>1, <2>2, StepShape
<1> QED
  BY WellFormedHolds, <1>1, <1>2, PTL DEF Spec
-----------------------------------------------------------------------------
\* The windows, of activations a and window entries d.

HasEnded(r) == r.status \notin {"active", "rejected"}

\* What WindowsHold says, and what it rests on: an entry names the youngest of
\* its key that was not rejected; where an active one has no entry, another of
\* its key has ended; and only roots have depth 1.
WindowsIn(a, d) ==
    /\ a \in Seq(Record) /\ d \in [Key -> Nat]
    /\ \A i, j \in 1..Len(a) :
         /\ i < j /\ a[i].key = a[j].key
         /\ a[i].status = "active" /\ a[j].status = "active"
         /\ a[i].depth = 1 /\ a[j].depth = 1
         => \E m \in 1..(j - 1) : a[m].key = a[j].key /\ HasEnded(a[m])
    /\ \A k \in Key :
         d[k] # 0 =>
           /\ d[k] \in 1..Len(a) /\ a[d[k]].key = k
           /\ a[d[k]].status # "rejected"
           /\ \A i \in 1..Len(a) : i > d[k] /\ a[i].key = k =>
                                     a[i].status = "rejected"
    /\ \A i \in 1..Len(a) :
         a[i].status = "active" =>
           \/ d[a[i].key] # 0
           \/ \E m \in 1..Len(a) : a[m].key = a[i].key /\ HasEnded(a[m])
    /\ \A i \in 1..Len(a) : a[i].lineage # 0 => a[i].depth >= 1

LEMMA WindowsIfIn == WellFormed /\ WindowsIn(activations, dedup) => WindowsHold
BY DEF WellFormed, WindowsIn, WindowsHold, ActiveIds, Ids, HasEnded

\* b is a with some of the active ended, and e is d with the windows closed of
\* keys of which one has ended.
Closes(a, b, d, e) ==
    /\ b \in Seq(Record) /\ Len(b) = Len(a)
    /\ \A i \in 1..Len(a) :
         /\ b[i].key = a[i].key /\ b[i].depth = a[i].depth
         /\ b[i].lineage = a[i].lineage
         /\ \/ b[i].status = a[i].status
            \/ a[i].status = "active" /\ HasEnded(b[i])
    /\ e \in [Key -> Nat]
    /\ \A k \in Key :
         \/ e[k] = d[k]
         \/ /\ e[k] = 0
            /\ \E m \in 1..Len(a) : b[m].key = k /\ HasEnded(b[m])

LEMMA ClosingKeeps ==
    ASSUME NEW a, NEW b, NEW d, NEW e, WindowsIn(a, d), Closes(a, b, d, e)
    PROVE  WindowsIn(b, e)
<1>1. /\ a \in Seq(Record) /\ b \in Seq(Record) /\ Len(b) = Len(a)
      /\ Len(a) \in Nat
  BY DEF WindowsIn, Closes
<1>2. ASSUME NEW i \in 1..Len(a)
      PROVE  /\ b[i].key = a[i].key /\ b[i].depth = a[i].depth
             /\ b[i].lineage = a[i].lineage /\ a[i].key \in Key
             /\ b[i].status = "active" => a[i].status = "active"
             /\ b[i].status = "rejected" <=> a[i].status = "rejected"
             /\ HasEnded(a[i]) => HasEnded(b[i])
             /\ a[i].status = "active" => b[i].status = "active" \/ HasEnded(b[i])
  <2>1. a[i] \in Record
    BY <1>1
  <2>. QED
    BY <2>1 DEF Closes, HasEnded, Record
<1>3. ASSUME NEW i \in 1..Len(a), NEW j \in 1..Len(a),
             i < j, b[i].key = b[j].key,
             b[i].status = "active", b[j].status = "active",
             b[i].depth = 1, b[j].depth = 1
      PROVE  \E m \in 1..(j - 1) : b[m].key = b[j].key /\ HasEnded(b[m])
  <2>1. PICK m \in 1..(j - 1) : a[m].key = a[j].key /\ HasEnded(a[m])
    BY <1>2, <1>3 DEF WindowsIn
  <2>2. m \in 1..Len(a)
    BY <1>1
  <2>. QED
    BY <1>2, <2>1, <2>2
<1>4. ASSUME NEW k \in Key, e[k] # 0
      PROVE  /\ e[k] \in 1..Len(a) /\ b[e[k]].key = k
             /\ b[e[k]].status # "rejected"
             /\ \A i \in 1..Len(a) : i > e[k] /\ b[i].key = k =>
                                       b[i].status = "rejected"
  <2>1. e[k] = d[k]
    BY <1>4 DEF Closes
  <2>. QED
    BY <1>2, <1>4, <2>1 DEF WindowsIn
<1>5. ASSUME NEW i \in 1..Len(a), b[i].status = "active"
      PROVE  \/ e[b[i].key] # 0
             \/ \E m \in 1..Len(a) : b[m].key = b[i].key /\ HasEnded(b[m])
  <2>1. \/ d[a[i].key] # 0
        \/ \E m \in 1..Len(a) : a[m].key = a[i].key /\ HasEnded(a[m])
    BY <1>2, <1>5 DEF WindowsIn
  <2>2. \/ e[a[i].key] = d[a[i].key]
        \/ \E m \in 1..Len(a) : b[m].key = a[i].key /\ HasEnded(b[m])
    BY SMTT(60), <1>2 DEF Closes
  <2>. QED
    BY <1>2, <2>1, <2>2
<1>6. \A i \in 1..Len(a) : b[i].lineage # 0 => b[i].depth >= 1
  BY <1>2 DEF WindowsIn
<1>. QED
  BY <1>1, <1>3, <1>4, <1>5, <1>6 DEF WindowsIn, Closes

\* One more activation, rejected: no entry changes.
LEMMA RejectionKeeps ==
    ASSUME NEW a, NEW d, WindowsIn(a, d), NEW r \in Record,
           r.status = "rejected", r.lineage # 0 => r.depth >= 1
    PROVE  WindowsIn(Append(a, r), d)
<1> DEFINE b == Append(a, r)
<1>1. a \in Seq(Record) /\ Len(a) \in Nat
  BY DEF WindowsIn
<1>2. /\ b \in Seq(Record) /\ Len(b) = Len(a) + 1 /\ b[Len(a) + 1] = r
      /\ \A i \in 1..Len(a) : b[i] = a[i]
  BY <1>1, Appended
<1>. HIDE DEF b
<1>3. ASSUME NEW i \in 1..Len(b) PROVE i \in 1..Len(a) \/ (i = Len(a) + 1 /\ b[i] = r)
  BY <1>1, <1>2
<1>4. ASSUME NEW i \in 1..Len(b), b[i].status # "rejected"
      PROVE  i \in 1..Len(a) /\ b[i] = a[i]
  BY <1>2, <1>3, <1>4
<1>5. ASSUME NEW i \in 1..Len(b), NEW j \in 1..Len(b),
             i < j, b[i].key = b[j].key,
             b[i].status = "active", b[j].status = "active",
             b[i].depth = 1, b[j].depth = 1
      PROVE  \E m \in 1..(j - 1) : b[m].key = b[j].key /\ HasEnded(b[m])
  <2>1. /\ i \in 1..Len(a) /\ j \in 1..Len(a)
        /\ b[i] = a[i] /\ b[j] = a[j]
    BY <1>4, <1>5
  <2>2. PICK m \in 1..(j - 1) : a[m].key = a[j].key /\ HasEnded(a[m])
    BY <1>5, <2>1 DEF WindowsIn
  <2>3. b[m] = a[m]
    BY <1>1, <1>2, <2>1
  <2>. QED
    BY <2>1, <2>2, <2>3
<1>6. ASSUME NEW k \in Key, d[k] # 0
      PROVE  /\ d[k] \in 1..Len(b) /\ b[d[k]].key = k
             /\ b[d[k]].status # "rejected"
             /\ \A i \in 1..Len(b) : i > d[k] /\ b[i].key = k =>
                                       b[i].status = "rejected"
  <2>1. /\ d[k] \in 1..Len(a) /\ a[d[k]].key = k
        /\ a[d[k]].status # "rejected"
        /\ \A i \in 1..Len(a) : i > d[k] /\ a[i].key = k =>
                                  a[i].status = "rejected"
    BY <1>6 DEF WindowsIn
  <2>2. d[k] \in 1..Len(b) /\ b[d[k]] = a[d[k]]
    BY <1>1, <1>2, <2>1
  <2>. QED
    BY <1>4, <2>1, <2>2
<1>7. ASSUME NEW i \in 1..Len(b), b[i].status = "active"
      PROVE  \/ d[b[i].key] # 0
             \/ \E m \in 1..Len(b) : b[m].key = b[i].key /\ HasEnded(b[m])
  <2>1. i \in 1..Len(a) /\ b[i] = a[i]
    BY <1>4, <1>7
  <2>2. \/ d[a[i].key] # 0
        \/ \E m \in 1..Len(a) : a[m].key = a[i].key /\ HasEnded(a[m])
    BY <1>7, <2>1 DEF WindowsIn
  <2>3. \A m \in 1..Len(a) : m \in 1..Len(b) /\ b[m] = a[m]
    BY <1>1, <1>2
  <2>. QED
    BY <2>1, <2>2, <2>3
<1>8. \A i \in 1..Len(b) : b[i].lineage # 0 => b[i].depth >= 1
  BY <1>2, <1>3 DEF WindowsIn
<1>9. d \in [Key -> Nat]
  BY DEF WindowsIn
<1>10. WindowsIn(b, d)
  BY <1>2, <1>5, <1>6, <1>7, <1>8, <1>9 DEF WindowsIn
<1>. QED
  BY <1>10 DEF b

\* One more, admitted: it has the entry of its key.  A root beside an active
\* root of its key needs one of the key that has ended.
LEMMA AdmissionKeeps ==
    ASSUME NEW a, NEW d, WindowsIn(a, d), NEW r \in Record,
           r.status # "rejected", r.lineage # 0 => r.depth >= 1,
           r.status = "active" /\ r.depth = 1 =>
             \A i \in 1..Len(a) :
               a[i].status = "active" /\ a[i].key = r.key =>
                 \E m \in 1..Len(a) : a[m].key = r.key /\ HasEnded(a[m])
    PROVE  WindowsIn(Append(a, r), [d EXCEPT ![r.key] = Len(a) + 1])
<1> DEFINE b == Append(a, r)
           e == [d EXCEPT ![r.key] = Len(a) + 1]
<1>1. a \in Seq(Record) /\ Len(a) \in Nat /\ d \in [Key -> Nat] /\ r.key \in Key
  BY DEF WindowsIn, Record
<1>2. /\ b \in Seq(Record) /\ Len(b) = Len(a) + 1 /\ b[Len(a) + 1] = r
      /\ \A i \in 1..Len(a) : b[i] = a[i]
  BY <1>1, Appended
<1>3. /\ e \in [Key -> Nat] /\ e[r.key] = Len(a) + 1
      /\ \A k \in Key \ {r.key} : e[k] = d[k]
  BY <1>1
<1>. HIDE DEF b, e
<1>4. ASSUME NEW i \in 1..Len(b)
      PROVE  (i \in 1..Len(a) /\ b[i] = a[i]) \/ (i = Len(a) + 1 /\ b[i] = r)
  BY <1>1, <1>2
<1>5. ASSUME NEW i \in 1..Len(b), NEW j \in 1..Len(b),
             i < j, b[i].key = b[j].key,
             b[i].status = "active", b[j].status = "active",
             b[i].depth = 1, b[j].depth = 1
      PROVE  \E m \in 1..(j - 1) : b[m].key = b[j].key /\ HasEnded(b[m])
  <2>1. i \in 1..Len(a) /\ b[i] = a[i]
    BY <1>1, <1>2, <1>4, <1>5
  <2>2. CASE j \in 1..Len(a) /\ b[j] = a[j]
    <3>1. PICK m \in 1..(j - 1) : a[m].key = a[j].key /\ HasEnded(a[m])
      BY SMTT(60), <1>5, <2>1, <2>2 DEF WindowsIn
    <3>2. b[m] = a[m]
      BY SMTT(60), <1>1, <1>2, <2>2
    <3>. QED
      BY <2>2, <3>1, <3>2
  <2>3. CASE j = Len(a) + 1 /\ b[j] = r
    <3>1. PICK m \in 1..Len(a) : a[m].key = r.key /\ HasEnded(a[m])
      BY <1>5, <2>1, <2>3
    <3>2. m \in 1..(j - 1) /\ b[m] = a[m]
      BY <1>1, <1>2, <2>3
    <3>. QED
      BY <2>3, <3>1, <3>2
  <2>. QED
    BY <1>4, <2>2, <2>3
<1>6. ASSUME NEW k \in Key, e[k] # 0
      PROVE  /\ e[k] \in 1..Len(b) /\ b[e[k]].key = k
             /\ b[e[k]].status # "rejected"
             /\ \A i \in 1..Len(b) : i > e[k] /\ b[i].key = k =>
                                       b[i].status = "rejected"
  <2>1. CASE k = r.key
    BY <1>1, <1>2, <1>3, <2>1
  <2>2. CASE k # r.key
    <3>1. /\ e[k] = d[k]
          /\ d[k] \in 1..Len(a) /\ a[d[k]].key = k
          /\ a[d[k]].status # "rejected"
          /\ \A i \in 1..Len(a) : i > d[k] /\ a[i].key = k =>
                                    a[i].status = "rejected"
      BY <1>3, <1>6, <2>2 DEF WindowsIn
    <3>2. d[k] \in 1..Len(b) /\ b[d[k]] = a[d[k]]
      BY <1>1, <1>2, <3>1
    <3>3. \A i \in 1..Len(b) : b[i].key = k => i \in 1..Len(a) /\ b[i] = a[i]
      BY <1>4, <2>2
    <3>. QED
      BY <3>1, <3>2, <3>3
  <2>. QED
    BY <2>1, <2>2
<1>7. ASSUME NEW i \in 1..Len(b), b[i].status = "active"
      PROVE  \/ e[b[i].key] # 0
             \/ \E m \in 1..Len(b) : b[m].key = b[i].key /\ HasEnded(b[m])
  <2>1. CASE b[i].key = r.key
    BY <1>1, <1>3, <2>1
  <2>2. CASE b[i].key # r.key
    <3>1. i \in 1..Len(a) /\ b[i] = a[i] /\ a[i].key \in Key
      <4>1. i \in 1..Len(a) /\ b[i] = a[i]
        BY <1>4, <2>2
      <4>2. a[i] \in Record
        BY <1>1, <4>1
      <4>. QED
        BY <4>1, <4>2 DEF Record
    <3>2. \/ d[a[i].key] # 0
          \/ \E m \in 1..Len(a) : a[m].key = a[i].key /\ HasEnded(a[m])
      BY <1>7, <3>1 DEF WindowsIn
    <3>3. \A m \in 1..Len(a) : m \in 1..Len(b) /\ b[m] = a[m]
      BY SMTT(60), <1>1, <1>2
    <3>. QED
      BY <1>3, <2>2, <3>1, <3>2, <3>3
  <2>. QED
    BY <2>1, <2>2
<1>8. \A i \in 1..Len(b) : b[i].lineage # 0 => b[i].depth >= 1
  BY <1>4 DEF WindowsIn
<1>9. WindowsIn(b, e)
  BY <1>2, <1>3, <1>5, <1>6, <1>7, <1>8 DEF WindowsIn
<1>. QED
  BY <1>9 DEF b, e

-----------------------------------------------------------------------------
\* The invariant.

\* TypeOK, but for the records themselves.
Types ==
    /\ Len(activations) <= MaxActivations
    /\ due \in 0..Len(activations)
    /\ dedup \in [Key -> 0..MaxActivations]
    /\ live \subseteq Ids /\ timers \subseteq Ids /\ fired \subseteq Ids
    /\ closed \in BOOLEAN
    /\ halting \subseteq Ids /\ running \subseteq Ids /\ stopping \subseteq Ids
    /\ mail \subseteq Ids \X Message
    /\ sending \subseteq Ids \X Message
    /\ query \in [Query -> {"idle", "activated", "recorded"}
                           \X (0..MaxActivations)]

LEMMA TypedIfTypes == WellFormed /\ Types => TypeOK
<1>. SUFFICES ASSUME WellFormed, Types PROVE TypeOK
  OBVIOUS
<1>1. activations \in Seq(Record) /\ Len(activations) \in Nat
  BY DEF WellFormed
<1>2. ASSUME NEW i \in 1..Len(activations) PROVE activations[i] \in Activation
  <2>1. activations[i] \in Record /\ activations[i].lineage <= i
    BY <1>1 DEF WellFormed, Ids
  <2>2. activations[i].lineage \in 0..MaxActivations
    BY SMTT(60), <1>1, <2>1, LimitsAssumption DEF Record, Types
  <2>. QED
    BY <2>1, <2>2 DEF Record, Activation
<1>3. activations = [i \in 1..Len(activations) |-> activations[i]]
  BY <1>1
<1>4. activations \in Seq(Activation)
  BY ONLY <1>1, <1>2, <1>3, IsASeq
<1>. QED
  BY <1>4 DEF Types, TypeOK

\* What a query works with was not rejected.
QueriesKnown ==
    \A q \in Query :
        query[q][1] # "idle" =>
          query[q][2] \in Ids /\ activations[query[q][2]].status # "rejected"

Processes == LiveIsActive /\ NoOrphans /\ (closed \/ halting = {})

Inv == Types /\ Processes /\ QueriesKnown /\ WindowsIn(activations, dedup)

\* What becomes of the records when some end.
LEMMA SomeEnd ==
    ASSUME WellFormed, NEW ids, NEW st \in Status \ {"active", "rejected"}
    PROVE  LET s == Ended(activations, ids, st)
           IN  /\ s \in Seq(Record) /\ Len(s) = Len(activations)
               /\ \A i \in Ids :
                    /\ s[i].key = activations[i].key
                    /\ s[i].depth = activations[i].depth
                    /\ s[i].lineage = activations[i].lineage
                    /\ s[i].status = IF i \in ids /\ activations[i].status = "active"
                                     THEN st ELSE activations[i].status
<1> DEFINE s == Ended(activations, ids, st)
<1>1. s \in Seq(Record) /\ Len(s) = Len(activations)
  BY EndedIsLater DEF Later
<1>2. ASSUME NEW i \in Ids
      PROVE  /\ s[i].key = activations[i].key
             /\ s[i].depth = activations[i].depth
             /\ s[i].lineage = activations[i].lineage
             /\ s[i].status = IF i \in ids /\ activations[i].status = "active"
                              THEN st ELSE activations[i].status
  <2>1. /\ activations[i] \in Record
        /\ s[i] = IF i \in ids /\ activations[i].status = "active"
                  THEN [activations[i] EXCEPT !.status = st] ELSE activations[i]
    BY DEF WellFormed, Ended, Ids
  <2>. QED
    BY <2>1 DEF Record
<1>. HIDE DEF s
<1>3. /\ s \in Seq(Record) /\ Len(s) = Len(activations)
      /\ \A i \in Ids :
           /\ s[i].key = activations[i].key
           /\ s[i].depth = activations[i].depth
           /\ s[i].lineage = activations[i].lineage
           /\ s[i].status = IF i \in ids /\ activations[i].status = "active"
                            THEN st ELSE activations[i].status
  BY <1>1, <1>2
<1>. QED
  BY <1>3 DEF s

\* The windows, when some end that were not rejected, and those of their keys
\* are closed or not.
LEMMA EndingKeepsWindows ==
    ASSUME WellFormed, WindowsIn(activations, dedup),
           NEW ids \in SUBSET Ids, NEW st \in Status \ {"active", "rejected"},
           \A i \in ids : activations[i].status # "rejected",
           NEW e \in {dedup, Reopened(ids)}
    PROVE  WindowsIn(Ended(activations, ids, st), e)
<1> DEFINE s == Ended(activations, ids, st)
<1>1. /\ s \in Seq(Record) /\ Len(s) = Len(activations)
      /\ \A i \in Ids :
           /\ s[i].key = activations[i].key
           /\ s[i].depth = activations[i].depth
           /\ s[i].lineage = activations[i].lineage
           /\ s[i].status = IF i \in ids /\ activations[i].status = "active"
                            THEN st ELSE activations[i].status
  BY SomeEnd
<1>. HIDE DEF s
<1>2. e \in [Key -> Nat]
  BY DEF WindowsIn, Reopened
<1>3. ASSUME NEW k \in Key
      PROVE  \/ e[k] = dedup[k]
             \/ /\ e[k] = 0
                /\ \E m \in Ids : s[m].key = k /\ HasEnded(s[m])
  <2>1. SUFFICES ASSUME e = Reopened(ids), NEW i \in ids, activations[i].key = k
                 PROVE  e[k] = 0 /\ \E m \in Ids : s[m].key = k /\ HasEnded(s[m])
    BY DEF Reopened
  <2>2. s[i].key = k /\ HasEnded(s[i])
    BY <1>1, <2>1 DEF HasEnded
  <2>. QED
    BY <2>1, <2>2 DEF Reopened
<1>4. Closes(activations, s, dedup, e)
  BY <1>1, <1>2, <1>3 DEF Closes, HasEnded, Ids
<1>5. WindowsIn(s, e)
  BY <1>4, ClosingKeeps
<1>. QED
  BY <1>5 DEF s

\* A step that ends some and adds none.
LEMMA EndingStep ==
    ASSUME WellFormed, Inv, NEW ids \in SUBSET Ids,
           NEW st \in Status \ {"active", "rejected"},
           \A i \in ids : activations[i].status # "rejected",
           activations' = Ended(activations, ids, st),
           dedup' \in {dedup, Reopened(ids)}
    PROVE  /\ WindowsIn(activations', dedup')
           /\ Ids' = Ids /\ Len(activations') = Len(activations)
           /\ ActiveIds' = ActiveIds \ ids
           /\ dedup' \in [Key -> 0..MaxActivations]
           /\ \A i \in Ids : activations[i].status # "rejected" =>
                               activations'[i].status # "rejected"
<1>1. /\ Len(activations') = Len(activations)
      /\ \A i \in Ids :
           activations'[i].status = IF i \in ids /\ activations[i].status = "active"
                                    THEN st ELSE activations[i].status
  BY SomeEnd
<1>2. WindowsIn(activations', dedup')
  BY EndingKeepsWindows DEF Inv
<1>3. Ids' = Ids
  BY <1>1 DEF Ids
<1>4. ActiveIds' = ActiveIds \ ids
  BY <1>1, <1>3 DEF ActiveIds
<1>5. dedup' \in [Key -> 0..MaxActivations]
  BY LimitsAssumption DEF Inv, Types, Reopened
<1>. QED
  BY <1>1, <1>2, <1>3, <1>4, <1>5

\* ... or none at all.
LEMMA IdleStep ==
    ASSUME WellFormed, Inv, UNCHANGED <<activations, dedup>>
    PROVE  /\ WindowsIn(activations', dedup')
           /\ Ids' = Ids /\ Len(activations') = Len(activations)
           /\ ActiveIds' = ActiveIds
           /\ dedup' \in [Key -> 0..MaxActivations]
           /\ \A i \in Ids : activations[i].status # "rejected" =>
                               activations'[i].status # "rejected"
BY DEF Inv, Types, Ids, ActiveIds

\* The overdue are recorded, and none of them was rejected.
LEMMA OverdueEnd ==
    /\ Overdue \subseteq Ids
    /\ \A i \in Overdue : activations[i].status # "rejected"
BY DEF Overdue, ActiveIds

\* The record below p: a root has depth 1, another more.
LEMMA BelowDepth ==
    ASSUME WellFormed, Inv, NEW p \in Nat, NEW k \in Key, NEW st \in Status
    PROVE  LET r == Below(p, k, st)
           IN  /\ r.lineage # 0 => r.depth >= 1
               /\ p # 0 /\ r.lineage # 0 => r.depth > 1
<1>1. CASE p \in Ids /\ activations[p].lineage # 0
  <2>1. activations[p] \in Record /\ activations[p].depth >= 1
    BY <1>1 DEF Inv, WindowsIn, Ids
  <2>. QED
    BY <1>1, <2>1 DEF Below, Record
<1>2. CASE p = 0 \/ ~(p \in Ids /\ activations[p].lineage # 0)
  BY <1>2 DEF Below
<1>. QED
  BY <1>1, <1>2

-----------------------------------------------------------------------------
\* The attempts.

\* There is room: the bound leaves a place for one more.
LEMMA RoomForOne ==
    ASSUME WellFormed, Inv, Room
    PROVE  Len(activations) + 1 <= MaxActivations
<1>1. Len(activations) \in Nat /\ MaxActivations \in Nat
  BY LimitsAssumption DEF WellFormed
<1>2. IsFiniteSet(Ids) /\ IsFiniteSet({"work", "panic", "text panic"})
  <2>1. IsFiniteSet({"text panic"})
    BY FS_Singleton
  <2>2. IsFiniteSet({"panic", "text panic"})
    <3>1. {"panic", "text panic"} = {"text panic"} \cup {"panic"}
      OBVIOUS
    <3>. QED
      BY <2>1, <3>1, FS_AddElement
  <2>3. {"work", "panic", "text panic"} = {"panic", "text panic"} \cup {"work"}
    OBVIOUS
  <2>. QED
    BY <2>2, <2>3, FS_AddElement, IdsFinite
<1>3. IsFiniteSet(Ids \X Message)
  BY <1>2, MessageAssumption, FS_Subset, FS_Product
<1>4. IsFiniteSet(sending) /\ IsFiniteSet(mail)
  BY <1>3, FS_Subset DEF Inv, Types
<1>5. Cardinality(sending) \in Nat /\ Cardinality(mail) \in Nat
  BY <1>4, FS_CardinalityType
<1>. QED
  BY <1>1, <1>5 DEF Room

\* An attempt that records r.
LEMMA AttemptStep ==
    ASSUME WellFormed, Inv, Room, NEW r \in Record,
           activations' = Append(Ended(activations, Overdue, "expired"), r)
    PROVE  /\ Ids' = Ids \cup {Len(activations) + 1}
           /\ Len(activations) + 1 \notin Ids
           /\ Len(activations) \in Nat
           /\ Len(activations') = Len(activations) + 1
           /\ Len(activations') <= MaxActivations
           /\ activations'[Len(activations) + 1] = r
           /\ ActiveIds' = (ActiveIds \ Overdue) \cup
                (IF r.status = "active" THEN {Len(activations) + 1} ELSE {})
           /\ \A i \in Ids : activations[i].status # "rejected" =>
                               activations'[i].status # "rejected"
<1> DEFINE s == Ended(activations, Overdue, "expired")
           new == Len(activations) + 1
<1>1. /\ s \in Seq(Record) /\ Len(s) = Len(activations)
      /\ \A i \in Ids :
           s[i].status = IF i \in Overdue /\ activations[i].status = "active"
                         THEN "expired" ELSE activations[i].status
  BY SomeEnd DEF Status
<1>2. /\ Ids' = Ids \cup {new} /\ new \notin Ids /\ activations'[new] = r
      /\ \A i \in Ids : activations'[i] = s[i]
  BY Recorded
<1>3. Len(activations) \in Nat
  BY DEF WellFormed
<1>4. Len(activations') = new
  BY <1>1, <1>3, Appended
<1>5. new <= MaxActivations
  BY RoomForOne
<1>. HIDE DEF s, new
<1>6. ActiveIds' = (ActiveIds \ Overdue) \cup
        (IF r.status = "active" THEN {new} ELSE {})
  BY ZenonT(60), <1>1, <1>2 DEF ActiveIds
<1>7. \A i \in Ids : activations[i].status # "rejected" =>
                       activations'[i].status # "rejected"
  BY <1>1, <1>2
<1>. QED
  BY <1>2, <1>3, <1>4, <1>5, <1>6, <1>7 DEF new

\* The windows, once the overdue have ended.
LEMMA OverdueWindows ==
    ASSUME WellFormed, Inv
    PROVE  /\ WindowsIn(Ended(activations, Overdue, "expired"), Reopened(Overdue))
           /\ Reopened(Overdue) \in [Key -> 0..MaxActivations]
<1>1. WindowsIn(Ended(activations, Overdue, "expired"), Reopened(Overdue))
  BY EndingKeepsWindows, OverdueEnd DEF Inv, Status
<1>2. Reopened(Overdue) \in [Key -> 0..MaxActivations]
  BY LimitsAssumption DEF Inv, Types, Reopened
<1>. QED
  BY <1>1, <1>2

\* Outside the window of its key a root finds that one of the key has ended,
\* if one is active.
LEMMA WindowTells ==
    ASSUME WellFormed, Inv, NEW k \in Key, ~InWindow(k)
    PROVE  LET s == Ended(activations, Overdue, "expired")
           IN  \A i \in 1..Len(s) :
                 s[i].status = "active" /\ s[i].key = k =>
                   \E m \in 1..Len(s) : s[m].key = k /\ HasEnded(s[m])
<1> DEFINE s == Ended(activations, Overdue, "expired")
           d == Reopened(Overdue)
<1>1. /\ s \in Seq(Record) /\ Len(s) = Len(activations)
      /\ \A i \in Ids :
           s[i].status = IF i \in Overdue /\ activations[i].status = "active"
                         THEN "expired" ELSE activations[i].status
  BY SomeEnd DEF Status
<1>2. WindowsIn(s, d)
  BY OverdueWindows
<1>3. d[k] <= due
  BY OverdueWindows, LimitsAssumption DEF InWindow, Inv, Types, WellFormed
<1>. HIDE DEF s, d
<1>4. SUFFICES ASSUME NEW i \in 1..Len(s), s[i].status = "active", s[i].key = k
               PROVE  \E m \in 1..Len(s) : s[m].key = k /\ HasEnded(s[m])
  BY DEF s
<1>5. CASE d[k] = 0
  BY <1>2, <1>4, <1>5 DEF WindowsIn
<1>6. CASE d[k] # 0
  <2>1. /\ d[k] \in 1..Len(s) /\ s[d[k]].key = k
        /\ s[d[k]].status # "rejected"
    BY <1>2, <1>6 DEF WindowsIn
  <2>2. s[d[k]].status # "active"
    <3>1. SUFFICES ASSUME s[d[k]].status = "active" PROVE FALSE
      OBVIOUS
    <3>2. d[k] \in Ids
      BY <1>1, <2>1 DEF Ids
    <3>3. activations[d[k]].status = "active" /\ d[k] \notin Overdue
      BY <1>1, <3>1, <3>2
    <3>. QED
      BY <1>3, <3>2, <3>3 DEF Overdue, ActiveIds
  <2>. QED
    BY <2>1, <2>2 DEF HasEnded
<1>. QED
  BY <1>5, <1>6

LEMMA RefuseWindows ==
    ASSUME WellFormed, Inv, NEW p \in Nat, NEW k \in Key, Refuse(p, k)
    PROVE  /\ WindowsIn(activations', dedup')
           /\ dedup' \in [Key -> 0..MaxActivations]
<1> DEFINE r == Below(p, k, "rejected")
<1>1. r \in Record /\ r.status = "rejected" /\ (r.lineage # 0 => r.depth >= 1)
  BY BelowFormed, BelowDepth DEF Status
<1>2. /\ activations' = Append(Ended(activations, Overdue, "expired"), r)
      /\ dedup' = Reopened(Overdue)
  BY DEF Refuse
<1>. HIDE DEF r
<1>. QED
  BY <1>1, <1>2, OverdueWindows, RejectionKeeps

LEMMA AdmitWindows ==
    ASSUME WellFormed, Inv, NEW p \in Nat, NEW k \in Key, Admit(p, k)
    PROVE  /\ WindowsIn(activations', dedup')
           /\ dedup' \in [Key -> 0..MaxActivations]
<1> DEFINE st == IF closed THEN "failed" ELSE "active"
           r == Below(p, k, st)
           s == Ended(activations, Overdue, "expired")
<1>1. st \in Status /\ st # "rejected"
  BY DEF Status
<1>. HIDE DEF st
<1>2. /\ r \in Record /\ r.status = st /\ r.key = k
      /\ (r.lineage # 0 => r.depth >= 1)
      /\ (p # 0 /\ r.lineage # 0 => r.depth > 1)
  BY <1>1, BelowFormed, BelowDepth
<1>3. /\ activations' = Append(s, r)
      /\ dedup' = [Reopened(Overdue) EXCEPT ![k] = Len(activations) + 1]
      /\ ~Suppressed(p, k) /\ ~Refused(p, k) /\ Room
  BY DEF Admit, st
<1>4. Len(s) = Len(activations) /\ Len(activations) + 1 \in 0..MaxActivations
  <2>1. Len(s) = Len(activations)
    BY SomeEnd DEF Status
  <2>. HIDE DEF s, r
  <2>2. Len(activations) \in Nat /\ Len(activations) + 1 <= MaxActivations
    BY <1>3, RoomForOne DEF WellFormed
  <2>. QED
    BY <2>1, <2>2, LimitsAssumption
<1>5. ASSUME r.depth = 1 PROVE ~InWindow(k)
  <2>1. p # 0 => r.lineage = Below(p, k, "rejected").lineage
    BY DEF Below
  <2>2. p = 0
    BY <1>2, <1>3, <1>5, <2>1 DEF Refused, Record
  <2>. QED
    BY <1>3, <2>2 DEF Suppressed
<1>6. r.status = "active" /\ r.depth = 1 =>
        \A i \in 1..Len(s) :
          s[i].status = "active" /\ s[i].key = r.key =>
            \E m \in 1..Len(s) : s[m].key = r.key /\ HasEnded(s[m])
  BY <1>2, <1>5, WindowTells
<1>7. WindowsIn(s, Reopened(Overdue)) /\ Reopened(Overdue) \in [Key -> 0..MaxActivations]
  BY OverdueWindows
<1>. HIDE DEF r, s
<1>8. WindowsIn(activations', dedup')
  BY <1>1, <1>2, <1>3, <1>4, <1>6, <1>7, AdmissionKeeps
<1>9. dedup' \in [Key -> 0..MaxActivations]
  BY <1>3, <1>4, <1>7
<1>. QED
  BY <1>8, <1>9

-----------------------------------------------------------------------------
\* The processes.

\* stopLiveLocked stops what it forgets.
LEMMA StopLiveKeeps ==
    ASSUME Processes, NEW ids, StopLive(ids), ActiveIds' = ActiveIds \ ids,
           ActiveIds' \cap (fired \ fired') = {},
           UNCHANGED <<closed, halting, running>>
    PROVE  Processes'
BY DEF Processes, LiveIsActive, NoOrphans, StopLive

\* A process that stops itself, or has stopped, is forgotten.
LEMMA ForgetKeeps ==
    ASSUME Processes, NEW i, Forget(i), ActiveIds' = ActiveIds \ {i},
           \/ stopping' = stopping \cup {i} /\ running' = running
           \/ stopping' = stopping \ {i} /\ running' = running \ {i},
           UNCHANGED <<closed, fired, halting>>
    PROVE  Processes'
BY DEF Processes, LiveIsActive, NoOrphans, Forget

\* The steps of the timers, of Shutdown and of messages.
LEMMA OthersKeep ==
    ASSUME Types, Processes, ActiveIds' = ActiveIds, NEW i, NEW m,
           \/ Tick \/ TimerFires(i) \/ Shutdown \/ ShutdownStops
           \/ SendChecks(i, m) \/ SendDelivers(i, m) \/ Crashes(i)
           \/ UNCHANGED vars
    PROVE  Processes'
<1>1. CASE Tick \/ SendChecks(i, m) \/ SendDelivers(i, m) \/ UNCHANGED vars
  BY <1>1 DEF Tick, SendChecks, SendDelivers, controllerVars, vars, Processes,
              LiveIsActive, NoOrphans
<1>2. CASE TimerFires(i)
  BY <1>2 DEF TimerFires, Processes, LiveIsActive, NoOrphans
<1>3. CASE Shutdown
  BY <1>3 DEF Shutdown, Processes, LiveIsActive, NoOrphans
<1>4. CASE ShutdownStops
  BY <1>4 DEF ShutdownStops, controllerVars, Processes, LiveIsActive, NoOrphans, Types
<1>5. CASE Crashes(i)
  BY <1>5 DEF Crashes, controllerVars, Processes, LiveIsActive, NoOrphans
<1>. QED
  BY <1>1, <1>2, <1>3, <1>4, <1>5

-----------------------------------------------------------------------------
\* Every step keeps the invariant.

LEMMA WellFormedLen == WellFormed => Len(activations) \in Nat
BY DEF WellFormed

LEMMA TimersKeepInv ==
    ASSUME WellFormed, Inv, NEW i, NEW m,
           \/ Tick \/ Shutdown \/ ShutdownStops \/ UNCHANGED vars
           \/ i \in Ids /\ (TimerFires(i) \/ Crashes(i))
           \/ /\ i \in Ids /\ m \in Message
              /\ SendChecks(i, m) \/ SendDelivers(i, m)
    PROVE  Inv'
<1>1. UNCHANGED <<activations, dedup, query>>
  BY DEF Tick, TimerFires, Shutdown, ShutdownStops, SendChecks, SendDelivers,
         Crashes, controllerVars, vars
<1>2. /\ WindowsIn(activations', dedup') /\ Ids' = Ids
      /\ Len(activations') = Len(activations)
      /\ ActiveIds' = ActiveIds
      /\ dedup' \in [Key -> 0..MaxActivations]
  BY <1>1, IdleStep
<1>3. Processes'
  BY <1>2, OthersKeep DEF Inv
<1>4. QueriesKnown'
  BY <1>1, <1>2 DEF Inv, QueriesKnown
<1>5. Types'
  <2>1. due' \in 0..Len(activations')
    <3>1. due' = due \/ (due < Len(activations) /\ due' = due + 1)
      BY DEF Tick, TimerFires, Shutdown, ShutdownStops, SendChecks,
             SendDelivers, Crashes, vars
    <3>2. Len(activations) \in Nat /\ due \in 0..Len(activations)
      BY Zenon, WellFormedLen DEF Inv, Types
    <3>. QED
      BY <1>2, <3>1, <3>2
  <2>2. /\ live' \subseteq Ids /\ timers' \subseteq Ids /\ fired' \subseteq Ids
        /\ halting' \subseteq Ids /\ running' \subseteq Ids
        /\ stopping' \subseteq Ids
    BY DEF Tick, TimerFires, Shutdown, ShutdownStops, SendChecks, SendDelivers,
           Crashes, controllerVars, vars, Inv, Types
  <2>3. mail' \subseteq Ids \X Message /\ sending' \subseteq Ids \X Message
    <3>1. \/ mail' \subseteq mail /\ sending' \subseteq sending
          \/ /\ <<i, m>> \in Ids \X Message
             /\ mail' \subseteq mail \cup {<<i, m>>}
             /\ sending' \subseteq sending \cup {<<i, m>>}
      BY DEF Tick, TimerFires, Shutdown, ShutdownStops, SendChecks, SendDelivers,
             Crashes, controllerVars, vars
    <3>. QED
      BY Zenon, <3>1 DEF Inv, Types
  <2>4. closed' \in BOOLEAN
    BY DEF Tick, TimerFires, Shutdown, ShutdownStops, SendChecks, SendDelivers,
           Crashes, controllerVars, vars, Inv, Types
  <2>5. query' = query /\ Len(activations') <= MaxActivations
    BY Zenon, <1>1, <1>2 DEF Inv, Types
  <2>6. query' \in [Query -> {"idle", "activated", "recorded"} \X (0..MaxActivations)]
    BY Zenon, <2>5 DEF Inv, Types
  <2>. QED
    BY Zenon, <1>2, <2>1, <2>2, <2>3, <2>4, <2>5, <2>6 DEF Types
<1>. QED
  BY <1>2, <1>3, <1>4, <1>5 DEF Inv

\* cleanLocked and no more.
LEMMA CleanKeepsInv ==
    ASSUME WellFormed, Inv,
           activations' = Ended(activations, Overdue, "expired"),
           dedup' = Reopened(Overdue), StopLive(Overdue),
           UNCHANGED <<closed, due, fired, halting, running, mail, sending, query>>
    PROVE  Inv'
<1>1. /\ WindowsIn(activations', dedup')
      /\ Ids' = Ids /\ Len(activations') = Len(activations)
      /\ ActiveIds' = ActiveIds \ Overdue
      /\ dedup' \in [Key -> 0..MaxActivations]
      /\ \A i \in Ids : activations[i].status # "rejected" =>
                          activations'[i].status # "rejected"
  <2>1. "expired" \in Status \ {"active", "rejected"}
    BY DEF Status
  <2>. QED
    BY <2>1, OverdueEnd, EndingStep
<1>2. Processes'
  BY <1>1, StopLiveKeeps DEF Inv
<1>3. QueriesKnown'
  BY <1>1 DEF Inv, QueriesKnown
<1>4. Types'
  BY <1>1, OverdueEnd DEF Inv, Types, StopLive
<1>. QED
  BY <1>1, <1>2, <1>3, <1>4 DEF Inv

\* A refusal, but for what becomes of the query.
LEMMA RefuseKeepsInv ==
    ASSUME WellFormed, Inv, NEW p \in Nat, NEW k \in Key, Refuse(p, k),
           UNCHANGED query
    PROVE  Inv'
<1>1. WindowsIn(activations', dedup') /\ dedup' \in [Key -> 0..MaxActivations]
  BY RefuseWindows
<1>2. /\ Ids' = Ids \cup {Len(activations) + 1}
      /\ Len(activations) \in Nat
      /\ Len(activations') = Len(activations) + 1
      /\ Len(activations') <= MaxActivations
      /\ ActiveIds' = ActiveIds \ Overdue
      /\ \A i \in Ids : activations[i].status # "rejected" =>
                          activations'[i].status # "rejected"
  <2> DEFINE r == Below(p, k, "rejected")
  <2>1. r \in Record /\ r.status = "rejected"
    BY BelowFormed DEF Status
  <2>2. activations' = Append(Ended(activations, Overdue, "expired"), r) /\ Room
    BY DEF Refuse
  <2>. HIDE DEF r
  <2>. QED
    BY <2>1, <2>2, AttemptStep
<1>3. Processes'
  BY <1>2, StopLiveKeeps DEF Inv, Refuse
<1>4. QueriesKnown'
  BY <1>2 DEF Inv, QueriesKnown
<1>5. Types'
  BY <1>1, <1>2, OverdueEnd DEF Inv, Types, StopLive, Refuse
<1>. QED
  BY <1>1, <1>3, <1>4, <1>5 DEF Inv

\* An admission; a query goes on with the new activation.
LEMMA AdmitKeepsInv ==
    ASSUME WellFormed, Inv, NEW p \in Nat, NEW k \in Key, Admit(p, k),
           \/ UNCHANGED query
           \/ \E q \in Query :
                query' = [query EXCEPT ![q] = <<"activated", Len(activations) + 1>>]
    PROVE  Inv'
<1> DEFINE new == Len(activations) + 1
           st == IF closed THEN "failed" ELSE "active"
           r == Below(p, k, st)
<1>1. WindowsIn(activations', dedup') /\ dedup' \in [Key -> 0..MaxActivations]
  BY AdmitWindows
<1>2. /\ Ids' = Ids \cup {new} /\ new \notin Ids
      /\ Len(activations) \in Nat
      /\ Len(activations') = new /\ new <= MaxActivations
      /\ ActiveIds' = (ActiveIds \ Overdue) \cup (IF closed THEN {} ELSE {new})
      /\ \A i \in Ids : activations[i].status # "rejected" =>
                          activations'[i].status # "rejected"
      /\ activations'[new].status # "rejected"
  <2>1. r \in Record /\ r.status = st
    BY BelowFormed DEF Status
  <2>2. activations' = Append(Ended(activations, Overdue, "expired"), r) /\ Room
    BY DEF Admit
  <2>. HIDE DEF r
  <2>. QED
    BY <2>1, <2>2, AttemptStep
<1>. HIDE DEF new, st, r
<1>3. /\ live' = (live \ Overdue) \cup (IF closed THEN {} ELSE {new})
      /\ timers' = (timers \ (Overdue \cap live)) \cup (IF closed THEN {} ELSE {new})
      /\ stopping' = stopping \cup (Overdue \cap live)
      /\ running' = running \cup (IF closed THEN {} ELSE {new})
      /\ UNCHANGED <<closed, due, fired, halting, mail, sending>>
  BY DEF Admit, Born, new
<1>4. Processes'
  BY <1>2, <1>3 DEF Inv, Processes, LiveIsActive, NoOrphans
<1>5. /\ QueriesKnown'
      /\ query' \in [Query -> {"idle", "activated", "recorded"} \X (0..MaxActivations)]
  <2>1. CASE UNCHANGED query
    BY <1>2, <2>1 DEF Inv, QueriesKnown, Types
  <2>2. ASSUME NEW q \in Query, query' = [query EXCEPT ![q] = <<"activated", new>>]
        PROVE  /\ QueriesKnown'
               /\ query' \in [Query -> {"idle", "activated", "recorded"} \X (0..MaxActivations)]
    <3>1. /\ query'[q] = <<"activated", new>>
          /\ \A x \in Query \ {q} : query'[x] = query[x]
      BY <2>2 DEF Inv, Types
    <3>2. query' \in [Query -> {"idle", "activated", "recorded"} \X (0..MaxActivations)]
      BY <1>2, <2>2, LimitsAssumption DEF Inv, Types
    <3>3. QueriesKnown'
      BY <1>2, <3>1 DEF Inv, QueriesKnown
    <3>. QED
      BY <3>2, <3>3
  <2>. QED
    BY <2>1, <2>2 DEF new
<1>6. Types'
  <2>1. due' \in 0..Len(activations')
    BY <1>2, <1>3 DEF Inv, Types, new
  <2>2. /\ live' \subseteq Ids' /\ timers' \subseteq Ids' /\ fired' \subseteq Ids'
        /\ halting' \subseteq Ids' /\ running' \subseteq Ids'
        /\ stopping' \subseteq Ids'
    BY <1>2, <1>3, OverdueEnd DEF Inv, Types
  <2>3. mail' \subseteq Ids' \X Message /\ sending' \subseteq Ids' \X Message
    BY <1>2, <1>3 DEF Inv, Types
  <2>4. closed' \in BOOLEAN /\ Len(activations') <= MaxActivations
    BY <1>2, <1>3 DEF Inv, Types
  <2>. QED
    BY Zenon, <1>1, <1>5, <2>1, <2>2, <2>3, <2>4 DEF Types
<1>. QED
  BY <1>1, <1>4, <1>5, <1>6 DEF Inv

\* What a query does with its activation.
LEMMA EndsOfQuery ==
    ASSUME WellFormed, Inv, NEW q \in Query,
           QueryRecords(q) \/ QueryFails(q) \/ QueryCompletes(q)
    PROVE  Inv'
<1> DEFINE i == query[q][2]
<1>1. /\ i \in Ids /\ activations[i].status # "rejected"
      /\ {i} \in SUBSET Ids /\ \A x \in {i} : activations[x].status # "rejected"
  BY DEF QueryRecords, QueryFails, QueryCompletes, Inv, QueriesKnown
<1>2. /\ query' \in [Query -> {"idle", "activated", "recorded"} \X (0..MaxActivations)]
      /\ \A x \in Query : query'[x][1] # "idle" =>
                            query[x][1] # "idle" /\ query'[x][2] = query[x][2]
  <2>1. /\ query \in [Query -> {"idle", "activated", "recorded"} \X (0..MaxActivations)]
        /\ 0 \in 0..MaxActivations
    BY LimitsAssumption DEF Inv, Types
  <2>2. query[q] = <<query[q][1], i>> /\ i \in 0..MaxActivations
    BY <2>1
  <2>3. CASE QueryRecords(q)
    <3>1. query' = [query EXCEPT ![q][1] = "recorded"] /\ query[q][1] = "activated"
      BY <2>3 DEF QueryRecords
    <3>2. query' = [query EXCEPT ![q] = <<"recorded", i>>]
      <4>1. query' = [query EXCEPT ![q] = [query[q] EXCEPT ![1] = "recorded"]]
        BY <3>1
      <4>2. [<<"activated", i>> EXCEPT ![1] = "recorded"] = <<"recorded", i>>
        OBVIOUS
      <4>3. query[q] = <<"activated", i>>
        BY <2>2, <3>1
      <4>. QED
        BY ONLY <4>1, <4>2, <4>3
    <3>. QED
      BY <2>1, <2>2, <3>1, <3>2
  <2>4. CASE QueryFails(q) \/ QueryCompletes(q)
    <3>1. query' = [query EXCEPT ![q] = <<"idle", 0>>]
      BY <2>4 DEF QueryFails, QueryCompletes
    <3>. QED
      BY <2>1, <3>1
  <2>. QED
    BY <2>3, <2>4
<1>. HIDE DEF i
<1>3. /\ UNCHANGED <<closed, due, fired, halting, running, mail, sending>>
      /\ \/ UNCHANGED <<activations, live, timers, stopping, dedup>>
         \/ /\ \E st \in {"completed", "failed"} : EndOne(i, st)
            /\ dedup' \in {dedup, Reopened({i})}
  BY DEF QueryRecords, QueryFails, QueryCompletes, RecordResult, Fail, Complete, i
<1>4. CASE UNCHANGED <<activations, live, timers, stopping, dedup>>
  <2>1. /\ WindowsIn(activations', dedup') /\ Ids' = Ids /\ ActiveIds' = ActiveIds
    BY <1>4, IdleStep
  <2>2. Processes'
    BY <1>3, <1>4, <2>1 DEF Inv, Processes, LiveIsActive, NoOrphans
  <2>3. QueriesKnown'
    BY <1>2, <1>4, <2>1 DEF Inv, QueriesKnown
  <2>4. Types'
    BY <1>2, <1>3, <1>4, <2>1 DEF Inv, Types
  <2>. QED
    BY <2>1, <2>2, <2>3, <2>4 DEF Inv
<1>5. ASSUME NEW st \in {"completed", "failed"}, EndOne(i, st),
             dedup' \in {dedup, Reopened({i})}
      PROVE  Inv'
  <2>1. /\ WindowsIn(activations', dedup')
        /\ Ids' = Ids /\ Len(activations') = Len(activations)
        /\ ActiveIds' = ActiveIds \ {i}
        /\ dedup' \in [Key -> 0..MaxActivations]
        /\ \A x \in Ids : activations[x].status # "rejected" =>
                            activations'[x].status # "rejected"
    <3>1. st \in Status \ {"active", "rejected"} /\ activations' = Ended(activations, {i}, st)
      BY <1>5 DEF Status, EndOne
    <3>. QED
      BY <1>1, <1>5, <3>1, EndingStep
  <2>2. Processes'
    BY <1>3, <1>5, <2>1, StopLiveKeeps DEF Inv, EndOne
  <2>3. QueriesKnown'
    BY <1>2, <2>1 DEF Inv, QueriesKnown
  <2>4. Types'
    BY <1>1, <1>2, <1>3, <1>5, <2>1 DEF Inv, Types, EndOne, StopLive
  <2>. QED
    BY <2>1, <2>2, <2>3, <2>4 DEF Inv
<1>. QED
  BY <1>3, <1>4, <1>5

\* Timers and processes that find their activation active, or ended already.
LEMMA EndsOfActor ==
    ASSUME WellFormed, Inv, NEW i \in Ids,
           Expire(i) \/ Works(i) \/ Panics(i) \/ ActorStops(i)
    PROVE  Inv'
<1>1. UNCHANGED <<closed, due, halting, sending, query>>
  BY DEF Expire, Works, Panics, ActorStops
<1>2. \/ UNCHANGED <<activations, dedup>> /\ i \notin ActiveIds
      \/ /\ i \in ActiveIds
         /\ \E st \in Status \ {"active", "rejected"} :
              activations' = Ended(activations, {i}, st)
         /\ dedup' \in {dedup, Reopened({i})}
  <2>1. CASE activations[i].status = "active"
    BY <2>1 DEF Expire, Works, Panics, ActorStops, EndOne, ActiveIds, Status
  <2>2. CASE activations[i].status # "active"
    <3>1. \A st : Ended(activations, {i}, st) = activations
      BY <2>2 DEF Ended, WellFormed, Ids
    <3>. QED
      BY <2>2, <3>1 DEF Expire, Works, Panics, ActorStops, ActiveIds
  <2>. QED
    BY <2>1, <2>2
<1>3. /\ WindowsIn(activations', dedup')
      /\ Ids' = Ids /\ Len(activations') = Len(activations)
      /\ ActiveIds' = ActiveIds \ {i}
      /\ dedup' \in [Key -> 0..MaxActivations]
      /\ \A x \in Ids : activations[x].status # "rejected" =>
                          activations'[x].status # "rejected"
  <2>1. CASE UNCHANGED <<activations, dedup>> /\ i \notin ActiveIds
    BY <2>1, IdleStep
  <2>2. ASSUME i \in ActiveIds, NEW st \in Status \ {"active", "rejected"},
               activations' = Ended(activations, {i}, st),
               dedup' \in {dedup, Reopened({i})}
        PROVE  /\ WindowsIn(activations', dedup')
               /\ Ids' = Ids /\ Len(activations') = Len(activations)
               /\ ActiveIds' = ActiveIds \ {i}
               /\ dedup' \in [Key -> 0..MaxActivations]
               /\ \A x \in Ids : activations[x].status # "rejected" =>
                                   activations'[x].status # "rejected"
    <3>1. {i} \in SUBSET Ids /\ \A x \in {i} : activations[x].status # "rejected"
      BY <2>2 DEF ActiveIds
    <3>. QED
      BY <2>2, <3>1, EndingStep
  <2>. QED
    BY <1>2, <2>1, <2>2
<1>4. Processes'
  <2>1. CASE Expire(i)
    <3>1. CASE activations[i].status = "active"
      BY <1>1, <1>3, <2>1, <3>1, StopLiveKeeps DEF Inv, Expire, EndOne
    <3>2. CASE activations[i].status # "active"
      BY <1>1, <1>3, <2>1, <3>2
      DEF Inv, Expire, Processes, LiveIsActive, NoOrphans, ActiveIds
    <3>. QED
      BY <3>1, <3>2
  <2>2. CASE Works(i)
    <3>1. CASE activations[i].status = "active"
      BY <1>1, <1>3, <2>2, <3>1, ForgetKeeps DEF Inv, Works
    <3>2. CASE activations[i].status # "active"
      BY <1>1, <1>3, <2>2, <3>2
      DEF Inv, Works, Processes, LiveIsActive, NoOrphans, ActiveIds
    <3>. QED
      BY <3>1, <3>2
  <2>3. CASE Panics(i) \/ ActorStops(i)
    BY <1>1, <1>3, <2>3, ForgetKeeps DEF Inv, Panics, ActorStops
  <2>. QED
    BY <2>1, <2>2, <2>3
<1>5. QueriesKnown'
  BY <1>1, <1>3 DEF Inv, QueriesKnown
<1>6. Types'
  <2>1. /\ live' \subseteq Ids /\ timers' \subseteq Ids /\ fired' \subseteq Ids
        /\ running' \subseteq Ids /\ stopping' \subseteq Ids
    BY DEF Expire, Works, Panics, ActorStops, EndOne, StopLive, Forget, Inv, Types
  <2>2. mail' \subseteq mail
    BY DEF Expire, Works, Panics, ActorStops
  <2>. QED
    BY <1>1, <1>3, <2>1, <2>2 DEF Inv, Types
<1>. QED
  BY <1>3, <1>4, <1>5, <1>6 DEF Inv

LEMMA InvStep == WellFormed /\ Inv /\ [Next]_vars => Inv'
<1>. SUFFICES ASSUME WellFormed, Inv, [Next]_vars PROVE Inv'
  OBVIOUS
<1>1. ASSUME NEW p \in Nat, NEW k \in Key,
             (Suppress(p, k) \/ Refuse(p, k)) /\ UNCHANGED query
      PROVE  Inv'
  BY <1>1, CleanKeepsInv, RefuseKeepsInv DEF Suppress
<1>2. CASE ServerActivates
  BY <1>1, <1>2, AdmitKeepsInv DEF ServerActivates, Key
<1>3. CASE List
  BY <1>3, CleanKeepsInv DEF List
<1>4. ASSUME NEW q \in Query, QueryActivates(q) PROVE Inv'
  <2>1. PICK p \in {0} \cup Ids \cup {MaxActivations + 1}, k \in QueryKey :
          \/ (Suppress(p, k) \/ Refuse(p, k)) /\ UNCHANGED query
          \/ /\ Admit(p, k)
             /\ query' = [query EXCEPT ![q] = <<"activated", Len(activations) + 1>>]
    BY <1>4 DEF QueryActivates
  <2>2. p \in Nat /\ k \in Key
    BY LimitsAssumption DEF Key, Ids, WellFormed
  <2>. QED
    BY <1>1, <2>1, <2>2, AdmitKeepsInv
<1>5. CASE \E q \in Query : QueryRecords(q) \/ QueryFails(q) \/ QueryCompletes(q)
  BY <1>5, EndsOfQuery
<1>6. CASE \E i \in Ids : Expire(i) \/ Works(i) \/ Panics(i) \/ ActorStops(i)
  BY <1>6, EndsOfActor
<1>7. CASE \/ Tick \/ Shutdown \/ ShutdownStops \/ UNCHANGED vars
           \/ \E i \in Ids : TimerFires(i) \/ Crashes(i)
           \/ \E i \in Ids, m \in Message : SendChecks(i, m) \/ SendDelivers(i, m)
  BY <1>7, TimersKeepInv
<1>. QED
  BY <1>2, <1>3, <1>4, <1>5, <1>6, <1>7 DEF Next

LEMMA InvInit == Init => Inv
<1>. SUFFICES ASSUME Init PROVE Inv
  OBVIOUS
<1>1. /\ activations = <<>> /\ activations \in Seq(Record) /\ Len(activations) = 0
      /\ Ids = {} /\ ActiveIds = {}
  BY DEF Init, Ids, ActiveIds
<1>2. Types
  <2>1. 0 \in 0..MaxActivations /\ 0 <= MaxActivations /\ 0 \in 0..0
    BY LimitsAssumption
  <2>2. dedup \in [Key -> 0..MaxActivations]
    BY <2>1 DEF Init
  <2>3. <<"idle", 0>> \in {"idle", "activated", "recorded"} \X (0..MaxActivations)
    BY <2>1
  <2>4. query \in [Query -> {"idle", "activated", "recorded"} \X (0..MaxActivations)]
    BY <2>3 DEF Init
  <2>. QED
    BY <1>1, <2>1, <2>2, <2>4 DEF Init, Types
<1>3. Processes
  BY <1>1 DEF Init, Processes, LiveIsActive, NoOrphans
<1>4. QueriesKnown
  BY DEF Init, QueriesKnown
<1>5. WindowsIn(activations, dedup)
  BY <1>1 DEF Init, WindowsIn
<1>. QED
  BY <1>2, <1>3, <1>4, <1>5 DEF Inv

\* For any number of queries, messages and activations: a PID is live exactly
\* as long as its activation is active, each with a timer or a Stop on its way;
\* no process is forgotten; and a window that a late call has closed lets a
\* second root in only after one of its key has ended (every method of the
\* controller).
THEOREM ControllerIsConsistent == Spec => []Consistent
<1>1. WellFormed /\ Inv => Consistent
  BY Zenon, TypedIfTypes, WindowsIfIn DEF Inv, Processes, Consistent
<1>2. Spec => []Inv
  BY InvInit, InvStep, WellFormedHolds, PTL DEF Spec
<1>. QED
  BY <1>1, <1>2, WellFormedHolds, PTL
=============================================================================
