----------------------------- MODULE ChainProofs ----------------------------
(***************************************************************************)
(* The chain of accepted transitions, the mirror, the two heads and the    *)
(* checkpoints: what the authority keeps under every fault, and what it    *)
(* keeps as long as no answer is lost.                                     *)
(***************************************************************************)
EXTENDS Checkpoints, AuthorityProofs, FiniteSetTheorems

----------------------------------------------------------------------------
\* The mirror.

\* MirrorFaithful, line by line.
MirrorRecorded ==
    \A k \in 1..Len(mirror) :
        mirror[k] # Garbage =>
            RecordedAt(mirror[k].seq, mirror[k].id, mirror[k].body)

LEMMA MirrorSteps == [Next]_vars => Accept \/ mirror' = mirror
<1>. SUFFICES ASSUME [Next]_vars PROVE Accept \/ mirror' = mirror
  OBVIOUS
<1>1. ASSUME NEW c \in Caller, ReadPrior(c) \/ Propose(c)
      PROVE  mirror' = mirror
  <2>1. CASE ReadPrior(c)
    BY Zenon, <2>1 DEF ReadPrior, logVars
  <2>2. ASSUME NEW t \in ID, NEW x \in Node, NEW d \in Data,
               \/ ProposeDuplicate(c, t, x, d)
               \/ ProposeRejected(c, t, x, d)
        PROVE  mirror' = mirror
    BY Zenon, <2>2 DEF ProposeDuplicate, ProposeRejected, logVars
  <2>3. ASSUME NEW t \in ID, NEW x \in Node, NEW d \in Data,
               ProposeAdmitted(c, t, x, d)
        PROVE  mirror' = mirror
    BY Zenon, <2>3 DEF ProposeAdmitted, BeginAppend, mirrorVars
  <2>. QED
    BY Zenon, <1>1, <2>1, <2>2, <2>3 DEF Propose
<1>2. CASE RejectDurable \/ Deliver
  BY Zenon, <1>2
  DEF RejectDurable, RejectEvent, TimeoutEvent, MirrorFails, Deliver,
      HandlePost, NoServer, mirrorVars
<1>3. CASE VerifyReplay \/ GoCrash \/ GoStart \/ RustLifecycle \/ UNCHANGED vars
  BY Zenon, <1>3
  DEF VerifyReplay, GoCrash, LogStops, GoStart, RustLifecycle, logVars,
      mirrorVars, vars
<1>. QED
  BY Zenon, <1>1, <1>2, <1>3 DEF Next

\* When Append succeeds, the ledger holds the event where Append says.
LEMMA AcknowledgedIsRecorded ==
    ASSUME Inv, inflight # NoEvent, AckAccepted
    PROVE  /\ inflight \in Evidence
           /\ RecordedAt(inflight.seq, inflight.id, inflight.body)
<1>1. inflight \in Evidence
  BY Zenon DEF Inv, LogValues
<1>2. reply \in Ack /\ reply.seq = inflight.seq
  BY <1>1 DEF AckAccepted, Evidence, Ack
<1>. QED
  BY Zenon, <1>1, <1>2 DEF Inv, ReplyTrue

LEMMA MirrorStep == Inv /\ MirrorRecorded /\ [Next]_vars => MirrorRecorded'
<1>. SUFFICES ASSUME Inv, MirrorRecorded, [Next]_vars
              PROVE  MirrorRecorded'
  OBVIOUS
<1>1. \A n, t, b : RecordedAt(n, t, b) => /\ n \in 1..Len(disk')
                                          /\ disk'[n].id = t
                                          /\ disk'[n].body = b
  <2>1. \A n, t, b : RecordedAt(n, t, b) => RecordedAt(n, t, b)'
    BY Zenon, LedgerPart, RecordsStay
  <2>. QED
    BY Zenon, <2>1 DEF RecordedAt
<1>2. ASSUME \A k \in 1..Len(mirror') :
               mirror'[k] # Garbage =>
                 RecordedAt(mirror'[k].seq, mirror'[k].id, mirror'[k].body)
      PROVE  MirrorRecorded'
  <2>1. ASSUME NEW k \in 1..Len(mirror'), mirror'[k] # Garbage
        PROVE  /\ mirror'[k].seq \in 1..Len(disk')
               /\ disk'[mirror'[k].seq].id = mirror'[k].id
               /\ disk'[mirror'[k].seq].body = mirror'[k].body
    <3>1. RecordedAt(mirror'[k].seq, mirror'[k].id, mirror'[k].body)
      BY Zenon, <1>2, <2>1
    <3>. QED
      BY SMT, <1>1, <3>1
  <2>. QED
    BY Zenon, <2>1 DEF MirrorRecorded, RecordedAt
<1>3. CASE mirror' = mirror
  BY Zenon, <1>2, <1>3 DEF MirrorRecorded
<1>4. CASE Accept
  <2>1. /\ inflight # NoEvent /\ AckAccepted
        /\ mirror' = Append(mirror, MirrorLine)
        /\ MirrorLine \in {Garbage, inflight}
    BY Zenon, <1>4 DEF Accept, MirrorEvent, MirrorLine
  <2>2. /\ inflight \in Evidence
        /\ RecordedAt(inflight.seq, inflight.id, inflight.body)
    BY Zenon, <2>1, AcknowledgedIsRecorded
  <2>3. /\ mirror \in Seq(Evidence \cup {Garbage})
        /\ MirrorLine \in Evidence \cup {Garbage}
    BY Zenon, <2>1, <2>2 DEF Inv, LogValues
  <2>4. \A k \in 1..Len(mirror') :
          \/ k \in 1..Len(mirror) /\ mirror'[k] = mirror[k]
          \/ mirror'[k] = MirrorLine
    BY <2>1, <2>3
  <2>5. ASSUME NEW k \in 1..Len(mirror'), mirror'[k] # Garbage
        PROVE  RecordedAt(mirror'[k].seq, mirror'[k].id, mirror'[k].body)
    <3>1. CASE k \in 1..Len(mirror) /\ mirror'[k] = mirror[k]
      BY Zenon, <2>5, <3>1 DEF MirrorRecorded
    <3>2. CASE mirror'[k] = MirrorLine
      BY Zenon, <2>1, <2>2, <2>5, <3>2
    <3>. QED
      BY Zenon, <2>4, <3>1, <3>2
  <2>. QED
    BY Zenon, <1>2, <2>5
<1>. QED
  BY Zenon, <1>3, <1>4, MirrorSteps

\* Every line of the mirror that parses is a record of the ledger at its
\* place, under every fault: torn lines, late answers, failed mirror writes
\* and crashes between the acknowledgement and the mirror.
THEOREM MirrorStaysFaithful == Spec => []MirrorFaithful
<1>1. Init => MirrorRecorded
  <2>. SUFFICES ASSUME Init PROVE MirrorRecorded
    OBVIOUS
  <2>1. mirror = <<>>
    BY Zenon DEF Init, LogInit
  <2>2. 1..Len(mirror) = {}
    BY <2>1
  <2>. QED
    BY Zenon, <2>2 DEF MirrorRecorded
<1>2. MirrorRecorded => MirrorFaithful
  BY Zenon DEF MirrorRecorded, MirrorFaithful, RecordedAt, SameSemantic
<1>. QED
  BY <1>1, <1>2, MirrorStep, InvAlways, PTL DEF Spec
----------------------------------------------------------------------------
\* The chain, under every fault.

\* Where the transitions that are held stand: no binding is beyond the
\* service's number, an event in flight gets a place after all of them, and
\* places and versions come in one order.
Ordered ==
    /\ \A t \in DOMAIN accepted :
         /\ accepted[t].seq <= seq
         /\ inflight # NoEvent => accepted[t].seq < seq
         /\ accepted[t].body.prior.version < state.version
    /\ \A t, u \in DOMAIN accepted :
         accepted[t].seq < accepted[u].seq
           <=> accepted[t].body.prior.version < accepted[u].body.prior.version

\* Each transition leads to another or to the current projection.
Linked ==
    \A t \in DOMAIN accepted :
        LET result == Apply(accepted[t].body.prior, accepted[t].body)
        IN  \/ result = state
            \/ \E u \in DOMAIN accepted : accepted[u].body.prior = result

\* The version counts them.
Counted ==
    /\ IsFiniteSet(DOMAIN accepted)
    /\ Cardinality(DOMAIN accepted) = state.version

\* The same of the file: as many ids as lines, and in a history that replays
\* the versions are the places.
Ids == {disk[n].id : n \in 1..Len(disk)}

FileCounted ==
    /\ IsFiniteSet(Ids)
    /\ Cardinality(Ids) = Len(disk)
    /\ Replays(disk) =>
         \A n \in 1..Len(disk) : disk[n].body.prior.version = n - 1

ChainInv == Ordered /\ Linked /\ Counted /\ FileCounted /\ PromisedInOrder

\* The version of the projection a history gives.
LEMMA HeadVersion ==
    ASSUME disk \in Seq(Evidence),
           \A n \in 1..Len(disk) : disk[n].body.prior.version = n - 1
    PROVE  StateAfter(disk, Len(disk)).version = Len(disk)
<1>1. CASE Len(disk) = 0
  BY <1>1 DEF StateAfter, Initial
<1>2. CASE Len(disk) # 0
  <2>1. Len(disk) \in 1..Len(disk) /\ Len(disk) \in Nat
    BY <1>2
  <2>2. disk[Len(disk)].body.prior.version = Len(disk) - 1
    BY <2>1
  <2>3. StateAfter(disk, Len(disk)).version
          = disk[Len(disk)].body.prior.version + 1
    BY <1>2 DEF StateAfter, Apply
  <2>. QED
    BY <2>1, <2>2, <2>3
<1>. QED
  BY <1>1, <1>2

LEMMA FileCountedStep == Inv /\ FileCounted /\ [Next]_vars => FileCounted'
<1>. SUFFICES ASSUME Inv, FileCounted, [Next]_vars
              PROVE  FileCounted'
  OBVIOUS
<1>1. CASE disk' = disk
  BY Zenon, <1>1 DEF FileCounted, Ids, Replays, StateAfter
<1>2. ASSUME NEW e \in wire, disk' = Append(disk, e),
             \A n \in 1..Len(disk) : disk[n].id # e.id
      PROVE  FileCounted'
  <2>1. e \in Evidence /\ disk \in Seq(Evidence)
    BY Zenon, LedgerPart DEF Inv, LogValues
  <2>2. /\ Len(disk') = Len(disk) + 1
        /\ Len(disk) \in Nat
        /\ \A n \in 1..Len(disk) : disk'[n] = disk[n]
        /\ disk'[Len(disk) + 1] = e
    BY <1>2, <2>1
  <2>3. Ids' = Ids \cup {e.id}
    <3>1. \A x : x \in Ids' <=> \E n \in 1..Len(disk') : x = disk'[n].id
      BY Zenon DEF Ids
    <3>2. \A x : x \in Ids <=> \E n \in 1..Len(disk) : x = disk[n].id
      BY Zenon DEF Ids
    <3>3. \A n \in 1..Len(disk') : n \in 1..Len(disk) \/ n = Len(disk) + 1
      BY <2>2
    <3>4. \A n \in 1..Len(disk) : n \in 1..Len(disk')
      BY <2>2
    <3>5. Len(disk) + 1 \in 1..Len(disk')
      BY <2>2
    <3>6. ASSUME NEW x \in Ids'
          PROVE  x \in Ids \cup {e.id}
      <4>1. PICK n \in 1..Len(disk') : x = disk'[n].id
        BY Zenon, <3>1
      <4>2. CASE n \in 1..Len(disk)
        BY Zenon, <2>2, <3>2, <4>1, <4>2
      <4>3. CASE n = Len(disk) + 1
        BY Zenon, <2>2, <4>1, <4>3
      <4>. QED
        BY Zenon, <3>3, <4>2, <4>3
    <3>7. Ids \subseteq Ids' /\ e.id \in Ids'
      BY Zenon, <2>2, <3>1, <3>2, <3>4, <3>5
    <3>. QED
      BY Zenon, <3>6, <3>7
  <2>4. e.id \notin Ids
    BY Zenon, <1>2 DEF Ids
  <2>5. IsFiniteSet(Ids') /\ Cardinality(Ids') = Len(disk')
    <3>1. /\ IsFiniteSet(Ids \cup {e.id})
          /\ Cardinality(Ids \cup {e.id}) = Cardinality(Ids) + 1
      BY Zenon, <2>4, FS_AddElement DEF FileCounted
    <3>. QED
      BY Zenon, <2>2, <2>3, <3>1 DEF FileCounted
  <2>6. ASSUME Replays(disk')
        PROVE  \A n \in 1..Len(disk') : disk'[n].body.prior.version = n - 1
    <3>1. \A n \in 1..Len(disk') :
            disk'[n].body.prior = StateAfter(disk', n - 1)
      BY Zenon, <2>6 DEF Replays
    <3>2. ASSUME NEW n \in 0..Len(disk)
          PROVE  StateAfter(disk', n) = StateAfter(disk, n)
      <4>1. n # 0 => disk'[n] = disk[n]
        BY <2>2
      <4>. QED
        BY Zenon, <4>1 DEF StateAfter
    <3>3. Replays(disk)
      <4>1. \A m, n \in 1..Len(disk) : disk[m].id = disk[n].id => m = n
        BY <2>2, <2>6 DEF Replays
      <4>2. ASSUME NEW n \in 1..Len(disk)
            PROVE  disk[n].body.prior = StateAfter(disk, n - 1)
        <5>1. /\ n \in 1..Len(disk')
              /\ n - 1 \in 0..Len(disk)
              /\ disk'[n] = disk[n]
          BY <2>2
        <5>. QED
          BY Zenon, <3>1, <3>2, <5>1
      <4>. QED
        BY Zenon, <4>1, <4>2 DEF Replays
    <3>4. \A n \in 1..Len(disk) : disk'[n].body.prior.version = n - 1
      BY Zenon, <2>2, <3>3 DEF FileCounted
    <3>5. e.body.prior = StateAfter(disk, Len(disk))
      <4>1. /\ Len(disk) + 1 \in 1..Len(disk')
            /\ (Len(disk) + 1) - 1 = Len(disk)
            /\ Len(disk) \in 0..Len(disk)
        BY <2>2
      <4>. QED
        BY Zenon, <2>2, <3>1, <3>2, <4>1
    <3>6. StateAfter(disk, Len(disk)).version = Len(disk)
      BY Zenon, <2>1, <3>3, HeadVersion DEF FileCounted
    <3>. QED
      BY <2>2, <3>4, <3>5, <3>6
  <2>. QED
    BY Zenon, <2>5, <2>6 DEF FileCounted
<1>. QED
  BY Zenon, <1>1, <1>2, RecordsNewTransition

LEMMA NumberTypes ==
    ASSUME Inv
    PROVE  /\ seq \in Nat /\ state.version \in Nat
           /\ \A t \in DOMAIN accepted :
                accepted[t].seq \in Nat /\ accepted[t].body.prior.version \in Nat
<1>1. /\ seq \in Nat /\ state \in Projection
      /\ \A t \in DOMAIN accepted : accepted[t] \in Accepted
  BY Zenon DEF Inv, LogValues, AuthorityValues
<1>2. state.version \in Nat
  BY <1>1, BoundAssumption DEF Projection
<1>3. \A r \in Accepted : r.seq \in Nat /\ r.body.prior.version \in Nat
  BY BoundAssumption DEF Accepted, Request
<1>. QED
  BY Zenon, <1>1, <1>2, <1>3

\* What the other steps do to the chain and to the service's number.
Calm ==
    /\ UNCHANGED <<state, accepted>>
    /\ \/ UNCHANGED <<seq, inflight>>
       \/ inflight = NoEvent /\ seq' = seq + 1
       \/ inflight # NoEvent /\ inflight' = NoEvent /\ seq' = seq - 1
       \/ inflight' = NoEvent /\ seq' = Len(disk)

LEMMA ChainSteps ==
    ASSUME Inv, [Next]_vars
    PROVE  /\ Accept \/ GoCrash \/ GoStart \/ Calm
           /\ goUp' \/ promised' = promised
<1>1. ASSUME NEW c \in Caller, ReadPrior(c) \/ Propose(c)
      PROVE  Calm /\ goUp'
  <2>1. CASE ReadPrior(c)
    BY Zenon, <2>1 DEF ReadPrior, Free, logVars, authorityVars, Calm
  <2>2. ASSUME NEW t \in ID, NEW x \in Node, NEW d \in Data,
               \/ ProposeDuplicate(c, t, x, d)
               \/ ProposeRejected(c, t, x, d)
        PROVE  Calm /\ goUp'
    <3>1. goUp /\ UNCHANGED <<logVars, authorityVars>>
      BY Zenon, <2>2 DEF ProposeDuplicate, ProposeRejected, Proposing, Free
    <3>. QED
      BY Zenon, <3>1 DEF logVars, authorityVars, Calm
  <2>3. ASSUME NEW t \in ID, NEW x \in Node, NEW d \in Data,
               ProposeAdmitted(c, t, x, d)
        PROVE  Calm /\ goUp'
    BY Zenon, <2>3
    DEF ProposeAdmitted, BeginAppend, Proposing, Free, authorityVars, Calm
  <2>. QED
    BY Zenon, <1>1, <2>1, <2>2, <2>3 DEF Propose
<1>2. ASSUME RejectDurable PROVE Calm /\ promised' = promised
  BY Zenon, <1>2
  DEF RejectDurable, RejectEvent, TimeoutEvent, MirrorFails, TakeBack,
      EndExchange, authorityVars, Calm
<1>3. ASSUME Deliver PROVE Calm /\ promised' = promised
  BY Zenon, <1>3
  DEF Deliver, HandlePost, NoServer, serviceVars, authorityVars, Calm
<1>4. ASSUME VerifyReplay PROVE Calm /\ promised' = promised
  BY Zenon, <1>4
  DEF VerifyReplay, Free, Rebase, exchangeVars, authorityVars, Calm
<1>5. ASSUME RustLifecycle \/ UNCHANGED vars
      PROVE  Calm /\ promised' = promised
  BY Zenon, <1>5 DEF RustLifecycle, logVars, authorityVars, vars, Calm
<1>6. ASSUME Accept PROVE goUp'
  BY Zenon, <1>6 DEF Accept, MirrorEvent
<1>7. ASSUME GoCrash \/ GoStart PROVE promised' = promised
  BY Zenon, <1>7 DEF GoCrash, GoStart
<1>. QED
  BY Zenon, <1>1, <1>2, <1>3, <1>4, <1>5, <1>6, <1>7 DEF Next

LEMMA CalmKeeps ==
    ASSUME Inv, [Next]_vars, Ordered, Linked, Counted, Calm
    PROVE  Ordered' /\ Linked' /\ Counted'
<1>1. state' = state /\ accepted' = accepted
  BY Zenon DEF Calm
<1>2. Linked' /\ Counted'
  BY Zenon, <1>1 DEF Linked, Counted
<1>3. ASSUME NEW t \in DOMAIN accepted
      PROVE  /\ accepted[t].seq <= seq'
             /\ inflight' # NoEvent => accepted[t].seq < seq'
  <2>1. /\ seq \in Nat /\ accepted[t].seq \in Nat
        /\ accepted[t].seq <= seq
        /\ inflight # NoEvent => accepted[t].seq < seq
    BY Zenon, NumberTypes DEF Ordered
  <2>2. accepted[t].seq \in 1..Len(disk)
    BY Zenon DEF Inv, AcceptedBound, RecordedAt
  <2>. QED
    BY <2>1, <2>2 DEF Calm
<1>. QED
  BY Zenon, <1>1, <1>2, <1>3 DEF Ordered

LEMMA AcceptKeepsChain ==
    ASSUME Inv, [Next]_vars, Ordered, Linked, Counted, Accept
    PROVE  Ordered' /\ Linked' /\ Counted'
<1> DEFINE new == inflight.id
<1>1. /\ inflight # NoEvent
      /\ inflight' = NoEvent
      /\ seq' = seq
      /\ state' = Apply(state, inflight.body)
      /\ accepted' = [ t \in DOMAIN accepted \cup {new} |->
                         IF t = new
                         THEN [body |-> inflight.body, seq |-> inflight.seq]
                         ELSE accepted[t] ]
  BY Zenon DEF Accept, MirrorEvent, EndExchange
<1>2. /\ inflight.seq = seq
      /\ inflight.body.prior = state
      /\ new \notin DOMAIN accepted
  BY Zenon, <1>1 DEF Inv, Flight
<1>3. /\ DOMAIN accepted' = DOMAIN accepted \cup {new}
      /\ accepted'[new].body = inflight.body
      /\ accepted'[new].seq = seq
      /\ \A t \in DOMAIN accepted : accepted'[t] = accepted[t]
  <2>1. accepted'[new] = [body |-> inflight.body, seq |-> inflight.seq]
    BY Zenon, <1>1
  <2>2. /\ [body |-> inflight.body, seq |-> inflight.seq].body = inflight.body
        /\ [body |-> inflight.body, seq |-> inflight.seq].seq = inflight.seq
    OBVIOUS
  <2>. QED
    BY Zenon, <1>1, <1>2, <2>1, <2>2
<1>4. state'.version = state.version + 1
  BY <1>1 DEF Apply
<1>5. /\ seq \in Nat /\ state.version \in Nat
      /\ \A t \in DOMAIN accepted :
           /\ accepted[t].seq \in Nat
           /\ accepted[t].body.prior.version \in Nat
           /\ accepted[t].seq < seq
           /\ accepted[t].body.prior.version < state.version
  BY Zenon, <1>1, NumberTypes DEF Ordered
<1>6. \A t \in DOMAIN accepted' :
        \/ t \in DOMAIN accepted /\ accepted'[t] = accepted[t]
        \/ t = new
  BY Zenon, <1>3
<1>7. accepted'[new].body.prior.version = state.version
  BY Zenon, <1>2, <1>3
<1>8. Ordered'
  <2>1. ASSUME NEW t \in DOMAIN accepted'
        PROVE  /\ accepted'[t].seq <= seq'
               /\ accepted'[t].body.prior.version < state'.version
    BY <1>1, <1>3, <1>4, <1>5, <1>6, <1>7
  <2>2. ASSUME NEW t \in DOMAIN accepted', NEW u \in DOMAIN accepted'
        PROVE  accepted'[t].seq < accepted'[u].seq
                 <=> accepted'[t].body.prior.version
                       < accepted'[u].body.prior.version
    <3>1. CASE t = new
      BY <1>3, <1>5, <1>6, <1>7, <3>1
    <3>2. CASE u = new
      BY <1>3, <1>5, <1>6, <1>7, <3>2
    <3>3. CASE t # new /\ u # new
      BY Zenon, <1>6, <3>3 DEF Ordered
    <3>. QED
      BY Zenon, <3>1, <3>2, <3>3
  <2>. QED
    BY Zenon, <1>1, <2>1, <2>2 DEF Ordered
<1>9. Linked'
  <2> DEFINE Result(r) == Apply(r.body.prior, r.body)
  <2>1. Result(accepted'[new]) = state'
    BY Zenon, <1>1, <1>2, <1>3
  <2>2. ASSUME NEW t \in DOMAIN accepted
        PROVE  \E u \in DOMAIN accepted' :
                 accepted'[u].body.prior = Result(accepted'[t])
    <3>1. CASE Result(accepted[t]) = state
      <4>1. accepted'[new].body.prior = Result(accepted'[t])
        BY Zenon, <1>2, <1>3, <3>1
      <4>. QED
        BY Zenon, <1>3, <4>1
    <3>2. CASE \E u \in DOMAIN accepted :
                 accepted[u].body.prior = Result(accepted[t])
      BY Zenon, <1>3, <3>2
    <3>. QED
      BY Zenon, <3>1, <3>2 DEF Linked
  <2>3. ASSUME NEW t \in DOMAIN accepted'
        PROVE  \/ Result(accepted'[t]) = state'
               \/ \E u \in DOMAIN accepted' :
                    accepted'[u].body.prior = Result(accepted'[t])
    BY Zenon, <1>6, <2>1, <2>2
  <2>. QED
    BY Zenon, <2>3 DEF Linked
<1>10. Counted'
  <2>1. /\ IsFiniteSet(DOMAIN accepted \cup {new})
        /\ Cardinality(DOMAIN accepted \cup {new})
             = Cardinality(DOMAIN accepted) + 1
    BY Zenon, <1>2, FS_AddElement DEF Counted
  <2>. QED
    BY Zenon, <1>3, <1>4, <2>1 DEF Counted
<1>. QED
  BY Zenon, <1>8, <1>9, <1>10

LEMMA GoCrashKeepsChain ==
    ASSUME GoCrash
    PROVE  Ordered' /\ Linked' /\ Counted'
<1>1. accepted' = <<>> /\ state' = Initial
  BY Zenon DEF GoCrash
<1>2. DOMAIN accepted' = {} /\ state'.version = 0
  BY <1>1 DEF Initial
<1>. QED
  BY Zenon, <1>2, FS_EmptySet DEF Ordered, Linked, Counted

LEMMA GoStartKeepsChain ==
    ASSUME Inv, [Next]_vars, FileCounted, GoStart
    PROVE  Ordered' /\ Linked' /\ Counted'
<1>1. /\ seq' = Len(disk)
      /\ state' = StateAfter(disk, Len(disk))
      /\ accepted' = AcceptedFrom(disk)
      /\ Replays(disk)
      /\ UNCHANGED <<inflight, disk>>
      /\ inflight' = NoEvent
  BY Zenon DEF GoStart, Rebase, exchangeVars, sidecarVars, Inv, Flight
<1>2. /\ disk \in Seq(Evidence)
      /\ UniqueEvidence
      /\ \A n \in 1..Len(disk) : disk[n].id \in ID
  BY Zenon, LedgerPart DEF Inv, Named
<1>3. \A n \in 1..Len(disk) : disk[n].body.prior.version = n - 1
  BY Zenon, <1>1 DEF FileCounted
<1>4. state'.version = Len(disk)
  BY Zenon, <1>1, <1>2, <1>3, HeadVersion
<1>5. /\ DOMAIN accepted' = Ids
      /\ \A n \in 1..Len(disk) :
           /\ accepted'[disk[n].id].body = disk[n].body
           /\ accepted'[disk[n].id].seq = n
  BY Zenon, <1>1, <1>2, AcceptedFromFacts DEF Ids
<1>6. ASSUME NEW t \in DOMAIN accepted'
      PROVE  \E n \in 1..Len(disk) :
               /\ accepted'[t].body = disk[n].body
               /\ accepted'[t].seq = n
               /\ accepted'[t].body.prior.version = n - 1
  <2>1. PICK n \in 1..Len(disk) : t = disk[n].id
    BY Zenon, <1>5 DEF Ids
  <2>. QED
    BY Zenon, <1>3, <1>5, <2>1
<1>7. Len(disk) \in Nat
  BY <1>2
<1>8. Ordered'
  <2>1. ASSUME NEW t \in DOMAIN accepted'
        PROVE  /\ accepted'[t].seq <= seq'
               /\ accepted'[t].body.prior.version < state'.version
    BY <1>1, <1>4, <1>6, <1>7
  <2>2. ASSUME NEW t \in DOMAIN accepted', NEW u \in DOMAIN accepted'
        PROVE  accepted'[t].seq < accepted'[u].seq
                 <=> accepted'[t].body.prior.version
                       < accepted'[u].body.prior.version
    BY <1>6, <1>7
  <2>. QED
    BY Zenon, <1>1, <2>1, <2>2 DEF Ordered
<1>9. Linked'
  <2>1. ASSUME NEW t \in DOMAIN accepted'
        PROVE  \/ Apply(accepted'[t].body.prior, accepted'[t].body) = state'
               \/ \E u \in DOMAIN accepted' :
                    accepted'[u].body.prior
                      = Apply(accepted'[t].body.prior, accepted'[t].body)
    <3>1. PICK n \in 1..Len(disk) : accepted'[t].body = disk[n].body
      BY Zenon, <1>6
    <3>2. n # 0 /\ (n + 1) - 1 = n /\ (n = Len(disk) \/ n + 1 \in 1..Len(disk))
      BY <1>7
    <3>3. StateAfter(disk, n) = Apply(accepted'[t].body.prior, accepted'[t].body)
      BY Zenon, <3>1, <3>2 DEF StateAfter
    <3>4. CASE n = Len(disk)
      BY Zenon, <1>1, <3>3, <3>4
    <3>5. CASE n + 1 \in 1..Len(disk)
      <4>1. disk[n + 1].body.prior = StateAfter(disk, n)
        BY Zenon, <1>1, <3>2, <3>5 DEF Replays
      <4>2. /\ disk[n + 1].id \in DOMAIN accepted'
            /\ accepted'[disk[n + 1].id].body = disk[n + 1].body
        BY Zenon, <1>5, <3>5 DEF Ids
      <4>. QED
        BY Zenon, <3>3, <4>1, <4>2
    <3>. QED
      BY Zenon, <3>2, <3>4, <3>5
  <2>. QED
    BY Zenon, <2>1 DEF Linked
<1>10. Counted'
  BY Zenon, <1>4, <1>5 DEF FileCounted, Counted
<1>. QED
  BY Zenon, <1>8, <1>9, <1>10

\* What a caller was told follows the bindings while the server runs, and
\* stays as it is while it does not.
LEMMA PromisesFollow ==
    ASSUME Inv, Inv', PromisedInOrder, [Next]_vars, Ordered'
    PROVE  PromisedInOrder'
<1>1. CASE promised' = promised
  BY Zenon, <1>1 DEF PromisedInOrder
<1>2. ASSUME goUp', NEW p \in promised', NEW q \in promised'
      PROVE  p.seq < q.seq <=> p.body.prior.version < q.body.prior.version
  <2>1. /\ p.id \in DOMAIN accepted' /\ q.id \in DOMAIN accepted'
        /\ accepted'[p.id] = [body |-> p.body, seq |-> p.seq]
        /\ accepted'[q.id] = [body |-> q.body, seq |-> q.seq]
    BY Zenon, <1>2 DEF Inv, PromisedVisible
  <2>2. /\ accepted'[p.id].body = p.body /\ accepted'[p.id].seq = p.seq
        /\ accepted'[q.id].body = q.body /\ accepted'[q.id].seq = q.seq
    BY <2>1
  <2>. QED
    BY Zenon, <2>1, <2>2 DEF Ordered
<1>. QED
  BY Zenon, <1>1, <1>2, ChainSteps DEF PromisedInOrder

LEMMA ChainStep == Inv /\ ChainInv /\ [Next]_vars => ChainInv'
<1>. SUFFICES ASSUME Inv, ChainInv, [Next]_vars PROVE ChainInv'
  OBVIOUS
<1>1. FileCounted'
  BY Zenon, FileCountedStep DEF ChainInv
<1>2. Ordered' /\ Linked' /\ Counted'
  BY Zenon, ChainSteps, CalmKeeps, AcceptKeepsChain, GoCrashKeepsChain,
     GoStartKeepsChain
  DEF ChainInv
<1>3. PromisedInOrder'
  BY Zenon, <1>2, InvNext, PromisesFollow DEF ChainInv
<1>. QED
  BY Zenon, <1>1, <1>2, <1>3 DEF ChainInv

LEMMA ChainInit == Init => ChainInv
<1>. SUFFICES ASSUME Init PROVE ChainInv
  OBVIOUS
<1>1. /\ disk = <<>> /\ accepted = <<>> /\ state = Initial /\ promised = {}
  BY Zenon DEF Init, SidecarInit
<1>2. /\ DOMAIN accepted = {} /\ state.version = 0 /\ 1..Len(disk) = {}
      /\ Len(disk) = 0
  BY <1>1 DEF Initial
<1>3. Ids = {}
  BY Zenon, <1>2 DEF Ids
<1>. QED
  BY Zenon, <1>1, <1>2, <1>3, FS_EmptySet
  DEF ChainInv, Ordered, Linked, Counted, FileCounted, PromisedInOrder

LEMMA ChainAlways == Spec => []ChainInv
<1>. QED
  BY ChainInit, ChainStep, InvAlways, PTL DEF Spec

\* The accepted transitions form one chain from the initial projection to the
\* current one, as many as its version says, and callers were told of them
\* in that order: whatever was lost, retried or replayed, no transition is
\* accepted on a state that is not the last one's result.
THEOREM ChainIsOne == Spec => []OneChain
<1>1. TypeOK /\ ChainInv => OneChain
  BY Zenon DEF ChainInv, Linked, Counted, OneChain
<1>. QED
  BY <1>1, ChainAlways, AuthorityTypes, PTL

----------------------------------------------------------------------------
\* The heads, as long as no answer is lost: processes stop and restart, but
\* Go waits for every answer, its mirror can be written, and no write of the
\* ledger is cut short.

NoAnswerLost == Faults \subseteq {"restart", "crash", "power"}

\* What the service and the authority hold is what the ledger gives.
Level ==
    /\ lastHash = HashAt(disk, Len(disk))
    /\ state = StateAfter(disk, Len(disk))
    /\ \A n \in 1..Len(disk) : disk[n].id \in DOMAIN accepted

\* No event is on its way.
Resting ==
    /\ inflight = NoEvent
    /\ wire = {}
    /\ goUp => seq = Len(disk) /\ Level

\* An event is, and the ledger does not have it.
Awaiting ==
    /\ inflight # NoEvent
    /\ wire \subseteq {inflight}
    /\ reply # NoReply => wire = {}
    /\ reply \notin Ack
    /\ seq = Len(disk) + 1
    /\ inflight.prev = lastHash
    /\ Level

\* The ledger has it, as its last record, and Go the acknowledgement.
Answered ==
    /\ inflight # NoEvent
    /\ wire = {}
    /\ reply = [id |-> inflight.id, seq |-> inflight.seq]
    /\ seq = Len(disk)
    /\ seq > 0 /\ disk[seq] = inflight
    /\ \A n \in 1..Len(disk) :
         disk[n].id \in DOMAIN accepted \/ disk[n].id = inflight.id

HeadInv == HistoryReplays /\ (Resting \/ Awaiting \/ Answered)

LEMMA HistoryStays ==
    ASSUME HistoryReplays, disk' = disk
    PROVE  HistoryReplays'
BY Zenon DEF HistoryReplays, ValidHistory, Replays, HashAt, StateAfter

LEMMA LevelStays ==
    ASSUME UNCHANGED <<disk, lastHash, state, accepted>>
    PROVE  Level' <=> Level
BY Zenon DEF Level, HashAt, StateAfter

\* Steps that leave the exchange, the heads and the file alone.
LEMMA HeadIdles ==
    ASSUME HeadInv, UNCHANGED <<disk, goUp, seq, lastHash, inflight, reply,
                                wire, state, accepted>>
    PROVE  HeadInv'
<1>1. HistoryReplays'
  BY Zenon, HistoryStays DEF HeadInv
<1>2. Resting => Resting'
  BY Zenon, LevelStays DEF Resting
<1>3. Awaiting => Awaiting'
  BY Zenon, LevelStays DEF Awaiting
<1>4. Answered => Answered'
  BY Zenon DEF Answered
<1>. QED
  BY Zenon, <1>1, <1>2, <1>3, <1>4 DEF HeadInv

LEMMA HeadProposes ==
    ASSUME Inv', HeadInv, NEW c \in Caller, ReadPrior(c) \/ Propose(c)
    PROVE  HeadInv'
<1>1. CASE ReadPrior(c)
  BY Zenon, <1>1, HeadIdles
  DEF ReadPrior, sidecarVars, logVars, authorityVars
<1>2. ASSUME NEW t \in ID, NEW x \in Node, NEW d \in Data,
             ProposeDuplicate(c, t, x, d) \/ ProposeRejected(c, t, x, d)
      PROVE  HeadInv'
  <2>1. UNCHANGED <<sidecarVars, logVars, authorityVars>>
    BY Zenon, <1>2 DEF ProposeDuplicate, ProposeRejected
  <2>. QED
    BY Zenon, <2>1, HeadIdles DEF sidecarVars, logVars, authorityVars
<1>3. ASSUME NEW t \in ID, NEW x \in Node, NEW d \in Data,
             ProposeAdmitted(c, t, x, d)
      PROVE  HeadInv'
  <2> DEFINE event == [ id |-> t, body |-> RequestOf(c, x, d), seq |-> seq + 1,
                        prev |-> lastHash, created |-> attempts + 1 ]
  <2>1. /\ goUp /\ inflight = NoEvent
        /\ seq' = seq + 1
        /\ inflight' = event
        /\ reply' = NoReply
        /\ wire' = wire \cup {event}
        /\ UNCHANGED <<disk, lastHash, state, accepted>>
    BY Zenon, <1>3
    DEF ProposeAdmitted, Proposing, Free, BeginAppend, sidecarVars,
        authorityVars
  <2>2. Resting
    BY Zenon, <2>1 DEF HeadInv, Awaiting, Answered
  <2>3. /\ event.prev = lastHash /\ event.seq = seq + 1
    OBVIOUS
  <2>4. event # NoEvent
    <3>1. event \in Evidence
      BY Zenon, <2>1 DEF Inv, LogValues
    <3>. QED
      BY Zenon, <3>1, NoEventAssumption
  <2>5. wire' = {event} /\ Level' /\ seq' = Len(disk') + 1
    BY Zenon, <2>1, <2>2, LevelStays DEF Resting
  <2>6. Awaiting'
    BY Zenon, <2>1, <2>3, <2>4, <2>5, ReplyAssumption DEF Awaiting
  <2>. QED
    BY Zenon, <2>1, <2>6, HistoryStays DEF HeadInv
<1>. QED
  BY Zenon, <1>1, <1>2, <1>3 DEF Propose

\* An event the ledger appends fits: its number, its predecessor, its id and
\* the projection it was admitted on are the ones the history calls for.
LEMMA AppendReplays ==
    ASSUME HistoryReplays, disk \in Seq(Evidence), NEW e \in Evidence,
           disk' = Append(disk, e),
           \A n \in 1..Len(disk) : disk[n].id # e.id,
           e.seq = Len(disk) + 1,
           e.prev = HashAt(disk, Len(disk)),
           e.body.prior = StateAfter(disk, Len(disk))
    PROVE  HistoryReplays'
<1>1. /\ Len(disk') = Len(disk) + 1
      /\ Len(disk) \in Nat
      /\ \A n \in 1..Len(disk) : disk'[n] = disk[n]
      /\ disk'[Len(disk) + 1] = e
  OBVIOUS
<1>2. ASSUME NEW n \in 0..Len(disk)
      PROVE  /\ HashAt(disk', n) = HashAt(disk, n)
             /\ StateAfter(disk', n) = StateAfter(disk, n)
  <2>1. n # 0 => disk'[n] = disk[n]
    BY <1>1
  <2>. QED
    BY Zenon, <2>1 DEF HashAt, StateAfter
<1>3. ASSUME NEW n \in 1..Len(disk')
      PROVE  /\ disk'[n].seq = n
             /\ disk'[n].prev = HashAt(disk', n - 1)
             /\ disk'[n].body.prior = StateAfter(disk', n - 1)
  <2>1. /\ n - 1 \in 0..Len(disk)
        /\ n \in 1..Len(disk) \/ (n = Len(disk) + 1 /\ n - 1 = Len(disk))
    BY <1>1
  <2>2. CASE n \in 1..Len(disk)
    BY Zenon, <1>1, <1>2, <2>1, <2>2 DEF HistoryReplays, ValidHistory, Replays
  <2>3. CASE n = Len(disk) + 1 /\ n - 1 = Len(disk)
    BY Zenon, <1>1, <1>2, <2>1, <2>3
  <2>. QED
    BY Zenon, <2>1, <2>2, <2>3
<1>4. \A m, n \in 1..Len(disk') : disk'[m].id = disk'[n].id => m = n
  BY <1>1 DEF HistoryReplays, Replays
<1>. QED
  BY Zenon, <1>3, <1>4 DEF HistoryReplays, ValidHistory, Replays

LEMMA HeadDelivers ==
    ASSUME NoAnswerLost, Inv, HeadInv, Deliver
    PROVE  HeadInv'
<1>1. PICK e \in wire : HandlePost(e) \/ NoServer(e)
  BY Zenon DEF Deliver
<1>2. /\ e = inflight
      /\ Awaiting
  BY Zenon, <1>1 DEF HeadInv, Resting, Awaiting, Answered
<1>3. /\ UNCHANGED <<goUp, seq, lastHash, inflight, state, accepted>>
      /\ wire' = wire \ {e}
  BY Zenon, <1>1
  DEF Deliver, HandlePost, NoServer, serviceVars, authorityVars
<1>4. wire' = {}
  BY Zenon, <1>2, <1>3 DEF Awaiting
<1>5. /\ e \in Evidence /\ disk \in Seq(Evidence) /\ e.id \in ID
      /\ e.seq = seq /\ e.body.prior = state /\ e.id \notin DOMAIN accepted
  BY Zenon, <1>2 DEF Inv, LogValues, SidecarTypeOK, Named, Flight, Awaiting
<1>6. \A n \in 1..Len(disk) : disk[n].id # e.id
  BY Zenon, <1>2, <1>5 DEF Awaiting, Level
<1>7. CASE disk' = disk /\ Answer(e, Refused)
  <2>1. reply' = Refused
    BY Zenon, <1>2, <1>7 DEF Answer
  <2>2. Awaiting'
    BY Zenon, <1>2, <1>3, <1>4, <1>7, <2>1, LevelStays, ReplyAssumption
    DEF Awaiting
  <2>. QED
    BY Zenon, <1>2, <1>7, <2>2, HistoryStays DEF HeadInv
<1>8. CASE disk' = Append(disk, e) /\ Answer(e, [id |-> e.id, seq |-> Len(disk) + 1])
  <2>1. reply' = [id |-> inflight'.id, seq |-> inflight'.seq]
    BY Zenon, <1>2, <1>3, <1>5, <1>8 DEF Answer, Awaiting
  <2>2. /\ Len(disk') = seq /\ seq > 0 /\ disk'[seq] = e
        /\ \A n \in 1..Len(disk') :
             disk'[n].id = e.id \/ \E m \in 1..Len(disk) : disk'[n] = disk[m]
    BY <1>2, <1>5, <1>8 DEF Awaiting
  <2>3. \A n \in 1..Len(disk') :
          disk'[n].id \in DOMAIN accepted \/ disk'[n].id = e.id
    BY Zenon, <1>2, <2>2 DEF Awaiting, Level
  <2>4. Answered'
    BY Zenon, <1>2, <1>3, <1>4, <2>1, <2>2, <2>3 DEF Answered, Awaiting
  <2>5. HistoryReplays'
    <3>1. /\ HistoryReplays
          /\ e.seq = Len(disk) + 1
          /\ e.prev = HashAt(disk, Len(disk))
          /\ e.body.prior = StateAfter(disk, Len(disk))
      BY Zenon, <1>2, <1>5 DEF HeadInv, Awaiting, Level
    <3>. QED
      BY Zenon, <1>5, <1>6, <1>8, <3>1, AppendReplays
  <2>. QED
    BY Zenon, <2>4, <2>5 DEF HeadInv
<1>9. Matching(e) = {}
  BY Zenon, <1>6 DEF Matching
<1>10. \/ disk' = disk /\ Answer(e, Refused)
       \/ /\ disk' = Append(disk, e)
          /\ Answer(e, [id |-> e.id, seq |-> Len(disk) + 1])
  <2>1. "write" \notin Faults /\ "kill" \notin Faults
    BY DEF NoAnswerLost
  <2>2. CASE NoServer(e)
    BY Zenon, <2>2 DEF NoServer, sidecarVars
  <2>3. CASE HandlePost(e)
    <3>1. ~\E n \in 1..Len(disk) : Reacknowledge(e, n)
      BY Zenon, <1>9 DEF Reacknowledge
    <3>. QED
      BY Zenon, <2>1, <2>3, <3>1
      DEF HandlePost, RefusePost, AppendEvidence, WholeAppend, AppendFails,
          KillInAppend, sidecarVars
  <2>. QED
    BY Zenon, <1>1, <2>2, <2>3
<1>. QED
  BY Zenon, <1>7, <1>8, <1>10

LEMMA HeadAccepts ==
    ASSUME Inv, HeadInv, Accept
    PROVE  HeadInv'
<1>1. /\ goUp /\ inflight # NoEvent
      /\ AckAccepted
      /\ lastHash' = inflight.created
      /\ inflight' = NoEvent
      /\ state' = Apply(state, inflight.body)
      /\ DOMAIN accepted' = DOMAIN accepted \cup {inflight.id}
      /\ UNCHANGED <<disk, goUp, seq, wire>>
  BY Zenon DEF Accept, MirrorEvent, EndExchange, sidecarVars
<1>2. inflight \in Evidence /\ inflight.body.prior = state /\ disk \in Seq(Evidence)
  BY Zenon, <1>1 DEF Inv, LogValues, Flight, SidecarTypeOK
<1>3. reply \in Ack
  BY <1>1, <1>2 DEF AckAccepted, Ack, Evidence
<1>4. Answered
  BY Zenon, <1>1, <1>3 DEF HeadInv, Resting, Awaiting
<1>5. Len(disk) # 0 /\ disk[Len(disk)] = inflight
  BY <1>2, <1>4 DEF Answered
<1>6. /\ HashAt(disk, Len(disk)) = inflight.created
      /\ StateAfter(disk, Len(disk)) = Apply(state, inflight.body)
  BY Zenon, <1>2, <1>5 DEF HashAt, StateAfter
<1>7. \A n \in 1..Len(disk) : disk[n].id \in DOMAIN accepted'
  BY Zenon, <1>1, <1>4 DEF Answered
<1>8. Level'
  BY Zenon, <1>1, <1>6, <1>7 DEF Level
<1>9. Resting'
  BY Zenon, <1>1, <1>4, <1>8 DEF Answered, Resting
<1>. QED
  BY Zenon, <1>1, <1>9, HistoryStays DEF HeadInv

LEMMA HeadRejects ==
    ASSUME NoAnswerLost, Inv, HeadInv, RejectDurable
    PROVE  HeadInv'
<1>1. "timeout" \notin Faults /\ "mirror" \notin Faults
  BY DEF NoAnswerLost
<1>2. RejectEvent /\ goUp /\ UNCHANGED <<sidecarVars, authorityVars>>
  BY Zenon, <1>1 DEF RejectDurable, TimeoutEvent, MirrorFails
<1>3. /\ inflight # NoEvent /\ reply # NoReply /\ ~AckAccepted
      /\ inflight' = NoEvent
      /\ seq' = seq - 1
      /\ UNCHANGED <<disk, goUp, lastHash, wire, state, accepted>>
  BY Zenon, <1>2
  DEF RejectEvent, TakeBack, EndExchange, sidecarVars, authorityVars
<1>4. Awaiting
  BY Zenon, <1>3 DEF HeadInv, Resting, Answered, AckAccepted
<1>5. disk \in Seq(Evidence)
  BY Zenon DEF Inv, SidecarTypeOK
<1>6. seq' = Len(disk)
  BY <1>3, <1>4, <1>5 DEF Awaiting
<1>7. Resting'
  BY Zenon, <1>3, <1>4, <1>6, LevelStays DEF Awaiting, Resting
<1>. QED
  BY Zenon, <1>3, <1>7, HistoryStays DEF HeadInv

\* Reading the ledger back, at run time and at a start.
LEMMA HeadReads ==
    ASSUME Inv, HeadInv, VerifyReplay \/ GoStart
    PROVE  HeadInv'
<1>1. /\ seq' = Len(disk) /\ lastHash' = HashAt(disk, Len(disk))
      /\ UNCHANGED <<disk, inflight, wire>>
  BY Zenon DEF VerifyReplay, GoStart, Rebase, exchangeVars, sidecarVars
<1>2. inflight = NoEvent
  BY Zenon DEF VerifyReplay, GoStart, Free, Inv, Flight
<1>3. Resting
  BY Zenon, <1>2 DEF HeadInv, Awaiting, Answered
<1>4. Level'
  <2>1. CASE VerifyReplay
    BY Zenon, <1>1, <1>3, <2>1
    DEF VerifyReplay, Free, Resting, Level, authorityVars
  <2>2. CASE GoStart
    <3>1. /\ state' = StateAfter(disk, Len(disk))
          /\ DOMAIN accepted' = {disk[n].id : n \in 1..Len(disk)}
      BY Zenon, <2>2 DEF GoStart, AcceptedFrom
    <3>2. \A n \in 1..Len(disk) : disk[n].id \in DOMAIN accepted'
      BY Zenon, <3>1
    <3>. QED
      BY Zenon, <1>1, <3>1, <3>2 DEF Level
  <2>. QED
    BY Zenon, <2>1, <2>2
<1>5. Resting'
  BY Zenon, <1>1, <1>2, <1>3, <1>4 DEF Resting
<1>. QED
  BY Zenon, <1>1, <1>5, HistoryStays DEF HeadInv

LEMMA HeadCrashes ==
    ASSUME NoAnswerLost, HeadInv, GoCrash
    PROVE  HeadInv'
<1>1. "late" \notin Faults
  BY DEF NoAnswerLost
<1>2. /\ inflight' = NoEvent /\ wire' = {} /\ goUp' = FALSE
      /\ disk' = disk
  BY Zenon, <1>1 DEF GoCrash, LogStops, EndExchange, sidecarVars
<1>3. ~goUp'
  BY Zenon, <1>2
<1>4. Resting'
  BY Zenon, <1>2, <1>3 DEF Resting
<1>. QED
  BY Zenon, <1>2, <1>4, HistoryStays DEF HeadInv

LEMMA HeadStep ==
    ASSUME NoAnswerLost
    PROVE  Inv /\ HeadInv /\ [Next]_vars => HeadInv'
<1>. SUFFICES ASSUME Inv, HeadInv, [Next]_vars PROVE HeadInv'
  OBVIOUS
<1>1. ASSUME RustLifecycle \/ UNCHANGED vars PROVE HeadInv'
  BY Zenon, <1>1, HeadIdles
  DEF RustLifecycle, Start, Restart, ledgerVars, logVars, authorityVars, vars
<1>. QED
  BY Zenon, <1>1, InvNext, HeadProposes, HeadDelivers, HeadAccepts,
     HeadRejects, HeadReads, HeadCrashes
  DEF Next

LEMMA HeadInit == Init => HeadInv
<1>. SUFFICES ASSUME Init PROVE HeadInv
  OBVIOUS
<1>1. disk = <<>> /\ inflight = NoEvent /\ wire = {} /\ ~goUp
  BY Zenon DEF Init, SidecarInit, LogInit
<1>2. 1..Len(disk) = {}
  BY <1>1
<1>. QED
  BY Zenon, <1>1, <1>2
  DEF HeadInv, HistoryReplays, ValidHistory, Replays, Resting

\* As long as no answer is lost, whatever stops and restarts: the ledger's
\* history can be read back and replayed, and between proposals the service
\* stands at the ledger's head and the authority on its projection.
THEOREM HeadsStayTogether ==
    ASSUME NoAnswerLost
    PROVE  Spec => []HeadsAgree
<1>1. HeadInv => HeadsAgree
  BY Zenon DEF HeadInv, HeadsAgree, Free, Resting, Awaiting, Answered, Level
<1>2. Inv /\ HeadInv /\ [Next]_vars => HeadInv'
  BY Zenon, HeadStep
<1>. QED
  BY <1>1, <1>2, HeadInit, InvAlways, PTL DEF Spec

----------------------------------------------------------------------------
\* Checkpoints: what of a history they hold.

\* acc holds the first k transitions of d, each with its place and hash.
Holds(acc, d, k) ==
    /\ acc = [t \in {d[n].id : n \in 1..k} |-> acc[t]]
    /\ \A n \in 1..k :
         acc[d[n].id] = [body |-> d[n].body, seq |-> n, hash |-> d[n].created]

LEMMA HoldsOnce ==
    ASSUME NEW a, NEW b, NEW d, NEW k, Holds(a, d, k), Holds(b, d, k)
    PROVE  a = b
<1> DEFINE D == {d[n].id : n \in 1..k}
<1>1. ASSUME NEW t \in D PROVE a[t] = b[t]
  <2>1. PICK n \in 1..k : t = d[n].id
    OBVIOUS
  <2>. QED
    BY <2>1 DEF Holds
<1>2. a = [t \in D |-> a[t]] /\ b = [t \in D |-> b[t]]
  BY DEF Holds
<1> HIDE DEF D
<1>. QED
  BY <1>1, <1>2

LEMMA HoldsSame ==
    ASSUME NEW acc, NEW d, NEW p, NEW k, Holds(acc, d, k), \A n \in 1..k : p[n] = d[n]
    PROVE  Holds(acc, p, k)
<1>1. {p[n].id : n \in 1..k} = {d[n].id : n \in 1..k}
  OBVIOUS
<1>. QED
  BY <1>1 DEF Holds

\* What replay binds is what the history holds.
LEMMA BoundFromHolds ==
    ASSUME NEW S, NEW d \in Seq(S), Replays(d)
    PROVE  Holds(BoundFrom(d), d, Len(d))
<1> DEFINE D == {d[n].id : n \in 1..Len(d)}
           at(t) == CHOOSE n \in 1..Len(d) : d[n].id = t
<1>1. ASSUME NEW n \in 1..Len(d) PROVE at(d[n].id) = n
  <2>1. at(d[n].id) \in 1..Len(d) /\ d[at(d[n].id)].id = d[n].id
    OBVIOUS
  <2>. QED
    BY <2>1 DEF Replays
<1>2. /\ DOMAIN AcceptedFrom(d) = D /\ DOMAIN HashesFrom(d) = D
      /\ \A t \in D : /\ AcceptedFrom(d)[t] = [body |-> d[at(t)].body, seq |-> at(t)]
                      /\ HashesFrom(d)[t] = d[at(t)].created
  BY DEF AcceptedFrom, HashesFrom
<1>3. /\ DOMAIN BoundFrom(d) = D
      /\ BoundFrom(d) = [t \in D |-> BoundFrom(d)[t]]
      /\ \A t \in D : BoundFrom(d)[t] =
           [body |-> AcceptedFrom(d)[t].body, seq |-> AcceptedFrom(d)[t].seq,
            hash |-> HashesFrom(d)[t]]
  BY <1>2 DEF BoundFrom
<1>4. \A n \in 1..Len(d) : d[n].id \in D
  OBVIOUS
<1> HIDE DEF at, D
<1>5. ASSUME NEW n \in 1..Len(d)
      PROVE  BoundFrom(d)[d[n].id] =
               [body |-> d[n].body, seq |-> n, hash |-> d[n].created]
  <2>1. /\ AcceptedFrom(d)[d[n].id] = [body |-> d[n].body, seq |-> n]
        /\ HashesFrom(d)[d[n].id] = d[n].created
    BY Zenon, <1>1, <1>2, <1>4
  <2>. QED
    BY <1>3, <1>4, <2>1
<1>. QED
  BY <1>3, <1>5 DEF Holds, D

\* The checkpoint is the one a replay of the first cp.seq events gives.
Good(cp, d) ==
    /\ cp.seq \in 0..Len(d)
    /\ cp.state = StateAfter(d, cp.seq)
    /\ cp.hash = HashAt(d, cp.seq)
    /\ Holds(cp.accepted, d, cp.seq)

\* A history that grows keeps what a checkpoint holds of it.
LEMMA GoodStays ==
    ASSUME NEW S, NEW d \in Seq(S), NEW e \in S, NEW cp, Good(cp, d)
    PROVE  Good(cp, Append(d, e))
<1> DEFINE w == Append(d, e)
           k == cp.seq
<1>1. /\ Len(w) = Len(d) + 1 /\ Len(d) \in Nat
      /\ \A n \in 1..Len(d) : w[n] = d[n]
  OBVIOUS
<1>2. k \in 0..Len(d) /\ k \in 0..Len(w) /\ \A n \in 1..k : n \in 1..Len(d)
  BY <1>1 DEF Good
<1>3. k # 0 => w[k] = d[k]
  BY <1>1, <1>2
<1>4. StateAfter(w, k) = StateAfter(d, k) /\ HashAt(w, k) = HashAt(d, k)
  BY <1>3 DEF StateAfter, HashAt
<1>5. \A n \in 1..k : w[n] = d[n]
  BY <1>1, <1>2
<1> HIDE DEF w
<1>6. Holds(cp.accepted, w, k)
  BY SMTT(60), <1>5 DEF Holds, Good
<1>. QED
  BY <1>2, <1>4, <1>6 DEF Good, w

\* VerifyCheckpoint, up to the head.
LEMMA GoodAtHead ==
    ASSUME NEW S, NEW d \in Seq(S), ValidHistory(d), Replays(d), NEW cp, Good(cp, d)
    PROVE  AtHead(cp, d)
<1> DEFINE p == Prefix(cp, d)
           k == cp.seq
<1>1. k \in 0..Len(d) /\ Len(d) \in Nat
  BY DEF Good
<1>2. {m \in 1..Len(d) : d[m].seq <= k} = 1..k
  BY <1>1 DEF ValidHistory
<1>3. p = [n \in 1..k |-> d[n]]
  BY <1>2 DEF Prefix
<1>4. p \in Seq(S) /\ Len(p) = k /\ \A n \in 1..k : n \in 1..Len(d) /\ p[n] = d[n]
  BY <1>1, <1>3
<1> HIDE DEF p
<1>5. \A n \in 0..k : StateAfter(p, n) = StateAfter(d, n)
  <2>1. ASSUME NEW n \in 0..k PROVE n # 0 => p[n] = d[n]
    BY <1>1, <1>4
  <2>. QED
    BY <2>1 DEF StateAfter
<1>6. Replays(p)
  <2>1. \A m, n \in 1..Len(p) : p[m].id = p[n].id => m = n
    BY <1>4 DEF Replays
  <2>2. ASSUME NEW n \in 1..Len(p) PROVE p[n].body.prior = StateAfter(p, n - 1)
    <3>1. n \in 1..Len(d) /\ n - 1 \in 0..k /\ p[n] = d[n]
      BY <1>1, <1>4
    <3>2. d[n].body.prior = StateAfter(d, n - 1)
      BY <3>1 DEF Replays
    <3>. QED
      BY <1>5, <3>1, <3>2
  <2>. QED
    BY <2>1, <2>2 DEF Replays
<1>7. cp.state = StateAfter(p, Len(p))
  BY <1>1, <1>4, <1>5 DEF Good
<1>8. cp.accepted = BoundFrom(p)
  <2>1. Holds(BoundFrom(p), p, k)
    BY <1>4, <1>6, BoundFromHolds
  <2>2. Holds(cp.accepted, p, k)
    <3>1. Holds(cp.accepted, d, k)
      BY DEF Good
    <3>. QED
      BY Zenon, <1>4, <3>1, HoldsSame
  <2>. QED
    BY <2>1, <2>2, HoldsOnce
<1>9. IF k = 0 THEN cp.hash = 0
      ELSE p # <<>> /\ Last(p).seq = k /\ Last(p).created = cp.hash
  <2>1. CASE k = 0
    BY <2>1 DEF Good, HashAt
  <2>2. CASE k # 0
    <3>1. k \in 1..Len(d) /\ p[k] = d[k] /\ p # <<>>
      BY <1>1, <1>4, <2>2
    <3>2. d[k].seq = k
      BY <3>1 DEF ValidHistory
    <3>3. cp.hash = d[k].created
      BY <2>2 DEF Good, HashAt
    <3>4. Last(p) = d[k]
      BY <1>4, <3>1 DEF Last
    <3>. QED
      BY <2>2, <3>1, <3>2, <3>3, <3>4
  <2>. QED
    BY <2>1, <2>2
<1>. QED
  BY <1>6, <1>7, <1>8, <1>9 DEF AtHead, p

\* VerifyCheckpoint, from the head on.
LEMMA GoodRebuilds ==
    ASSUME NEW S, NEW d \in Seq(S), Replays(d), NEW cp, Good(cp, d)
    PROVE  RebuildsFrom(cp, d)
<1> DEFINE k == cp.seq
<1>1. k \in 0..Len(d) /\ Len(d) \in Nat
  BY DEF Good
<1>2. DOMAIN cp.accepted = {d[n].id : n \in 1..k}
  <2>1. Holds(cp.accepted, d, k)
    BY DEF Good
  <2>. QED
    BY <2>1 DEF Holds
<1>3. ASSUME NEW n \in k..Len(d) PROVE StateFrom(cp, d, n) = StateAfter(d, n)
  <2>1. CASE n = k
    BY <1>1, <2>1 DEF StateFrom, Good
  <2>2. CASE n # k
    <3>1. ~(n <= cp.seq) /\ n # 0
      BY <1>1, <2>2
    <3>. QED
      BY <3>1 DEF StateFrom, StateAfter
  <2>. QED
    BY <2>1, <2>2
<1>4. SuffixReplays(cp, d)
  <2>1. ASSUME NEW n \in (k + 1)..Len(d)
        PROVE  /\ d[n].id \notin DOMAIN cp.accepted
               /\ \A m \in (k + 1)..(n - 1) : d[m].id # d[n].id
               /\ d[n].body.prior = StateFrom(cp, d, n - 1)
    <3>1. n \in 1..Len(d) /\ n - 1 \in k..Len(d)
      BY <1>1
    <3>2. \A m \in 1..k : m \in 1..Len(d) /\ m # n
      BY <1>1
    <3>3. \A m \in (k + 1)..(n - 1) : m \in 1..Len(d) /\ m # n
      BY <1>1
    <3>4. \A m \in 1..Len(d) : m # n => d[m].id # d[n].id
      BY <3>1 DEF Replays
    <3>5. d[n].body.prior = StateAfter(d, n - 1)
      BY <3>1 DEF Replays
    <3>. QED
      BY <1>2, <1>3, <3>1, <3>2, <3>3, <3>4, <3>5
  <2>. QED
    BY <2>1 DEF SuffixReplays
<1>5. StateFrom(cp, d, Len(d)) = StateAfter(d, Len(d))
  BY <1>1, <1>3
<1>6. HeldFrom(cp, d) = BoundFrom(d)
  <2> DEFINE D == DOMAIN cp.accepted \cup {d[n].id : n \in (k + 1)..Len(d)}
  <2>1. D = {d[n].id : n \in 1..Len(d)}
    <3>1. \A n : n \in 1..Len(d) <=> n \in 1..k \/ n \in (k + 1)..Len(d)
      BY <1>1
    <3>. QED
      BY <1>2, <3>1
  <2>2. Holds(BoundFrom(d), d, Len(d))
    BY BoundFromHolds
  <2>3. /\ HeldFrom(cp, d) = [t \in D |-> HeldFrom(cp, d)[t]]
        /\ \A t \in D : HeldFrom(cp, d)[t] =
             IF t \in DOMAIN cp.accepted THEN cp.accepted[t] ELSE BoundFrom(d)[t]
    BY DEF HeldFrom
  <2>4. ASSUME NEW n \in 1..Len(d)
        PROVE  HeldFrom(cp, d)[d[n].id] =
                 [body |-> d[n].body, seq |-> n, hash |-> d[n].created]
    <3>1. d[n].id \in D
      BY <2>1
    <3>2. CASE d[n].id \in DOMAIN cp.accepted
      <4>1. PICK m \in 1..k : d[m].id = d[n].id
        BY <1>2, <3>2
      <4>2. m = n
        BY <1>1, <4>1 DEF Replays
      <4>3. cp.accepted[d[n].id] =
              [body |-> d[n].body, seq |-> n, hash |-> d[n].created]
        BY <4>1, <4>2 DEF Good, Holds
      <4>. QED
        BY <2>3, <3>1, <3>2, <4>3
    <3>3. CASE d[n].id \notin DOMAIN cp.accepted
      BY <2>2, <2>3, <3>1, <3>3 DEF Holds
    <3>. QED
      BY <3>2, <3>3
  <2> HIDE DEF D
  <2>5. Holds(HeldFrom(cp, d), d, Len(d))
    BY <2>1, <2>3, <2>4 DEF Holds
  <2>. QED
    BY <2>2, <2>5, HoldsOnce
<1>. QED
  BY <1>4, <1>5, <1>6 DEF RebuildsFrom

\* With the bindings in step, what the authority holds is what the ledger does.
BindingTrue ==
    /\ DOMAIN binding = DOMAIN accepted
    /\ \A t \in DOMAIN accepted : binding[t] = disk[accepted[t].seq].created

CheckpointGood == checkpoint # NoCheckpoint => Good(checkpoint, disk)

\* A line of the mirror is the ledger's record, envelope and all.
MirrorExact ==
    \A k \in Parsed : mirror[k].seq \in 1..Len(disk) /\ disk[mirror[k].seq] = mirror[k]

CheckpointInv == BindingTrue /\ CheckpointGood /\ MirrorExact

LEMMA StepsAreAuthoritys ==
    [CheckpointedNext]_checkpointedVars => [Next]_vars
<1>1. UNCHANGED checkpointedVars => UNCHANGED vars
  BY DEF checkpointedVars
<1>2. CheckpointedNext => Next \/ UNCHANGED vars
  BY Zenon DEF CheckpointedNext, AcceptBound, StartBound, CrashUnbound, TakeCheckpoint,
     OtherStep, Next
<1>. QED
  BY Zenon, <1>1, <1>2

\* The checkpoints and the authority beside them: what holds of Spec holds.
LEMMA CheckpointedIsAuthority == CheckpointedSpec => Spec
<1>1. CheckpointedInit => Init
  BY DEF CheckpointedInit
<1>. QED
  BY <1>1, StepsAreAuthoritys, PTL DEF CheckpointedSpec, Spec

LEMMA HeadAlways ==
    ASSUME NoAnswerLost
    PROVE  CheckpointedSpec => [](Inv /\ HeadInv)
<1>1. Inv /\ HeadInv /\ [Next]_vars => HeadInv'
  BY Zenon, HeadStep
<1>. QED
  BY <1>1, HeadInit, InvAlways, CheckpointedIsAuthority, PTL DEF Spec

\* A place of the ledger keeps its record.
LEMMA DiskKeeps ==
    ASSUME Inv, [Next]_vars
    PROVE  /\ disk \in Seq(Evidence) /\ Len(disk) \in Nat /\ Len(disk') \in Nat
           /\ Len(disk) <= Len(disk')
           /\ \A n \in 1..Len(disk) : n \in 1..Len(disk') /\ disk'[n] = disk[n]
<1>1. disk \in Seq(Evidence)
  BY Zenon DEF Inv, SidecarTypeOK
<1>2. disk' = disk \/ \E e \in wire : disk' = Append(disk, e)
  BY Zenon, RecordsNewTransition
<1>3. CASE disk' = disk
  BY <1>1, <1>3
<1>4. ASSUME NEW e \in wire, disk' = Append(disk, e)
      PROVE  /\ Len(disk) \in Nat /\ Len(disk') \in Nat /\ Len(disk) <= Len(disk')
             /\ \A n \in 1..Len(disk) : n \in 1..Len(disk') /\ disk'[n] = disk[n]
  <2>1. e \in Evidence
    BY Zenon DEF Inv, LogValues
  <2>. QED
    BY <1>1, <1>4, <2>1
<1>. QED
  BY <1>1, <1>2, <1>3, <1>4

LEMMA GoodKeeps ==
    ASSUME Inv, [Next]_vars, NEW cp, Good(cp, disk)
    PROVE  Good(cp, disk')
<1>1. disk \in Seq(Evidence) /\ wire \subseteq Evidence
  BY Zenon DEF Inv, SidecarTypeOK, LogValues
<1>2. ASSUME NEW e \in wire, disk' = Append(disk, e) PROVE Good(cp, disk')
  <2>1. e \in Evidence
    BY <1>1
  <2>2. Good(cp, Append(disk, e))
    BY <1>1, <2>1, GoodStays
  <2>. QED
    BY <1>2, <2>2
<1>. QED
  BY Zenon, <1>2, RecordsNewTransition

\* What the authority holds while the mutex is free, as a checkpoint has it.
LEMMA HeldHolds ==
    ASSUME Inv, HeadInv, BindingTrue, Free
    PROVE  /\ Holds(Held, disk, Len(disk))
           /\ state = StateAfter(disk, Len(disk)) /\ lastHash = HashAt(disk, Len(disk))
<1>1. Level /\ Replays(disk)
  BY Zenon DEF HeadInv, HistoryReplays, Free, Resting, Awaiting, Answered
<1>2. \A t \in DOMAIN accepted :
        /\ accepted[t].seq \in 1..Len(disk)
        /\ disk[accepted[t].seq].id = t
        /\ disk[accepted[t].seq].body = accepted[t].body
        /\ binding[t] = disk[accepted[t].seq].created
  BY Zenon DEF Inv, AcceptedBound, RecordedAt, BindingTrue
<1>3. \A n \in 1..Len(disk) : disk[n].id \in DOMAIN accepted
  BY Zenon, <1>1 DEF Level
<1>4. \A m, n \in 1..Len(disk) : disk[m].id = disk[n].id => m = n
  BY Zenon, <1>1 DEF Replays
<1>5. DOMAIN accepted = {disk[n].id : n \in 1..Len(disk)}
  BY Zenon, <1>2, <1>3
<1>6. ASSUME NEW n \in 1..Len(disk)
      PROVE  Held[disk[n].id] =
               [body |-> disk[n].body, seq |-> n, hash |-> disk[n].created]
  <2>1. /\ disk[n].id \in DOMAIN accepted
        /\ accepted[disk[n].id].seq = n
    <3>1. disk[n].id \in DOMAIN accepted
      BY <1>3
    <3>2. /\ accepted[disk[n].id].seq \in 1..Len(disk)
          /\ disk[accepted[disk[n].id].seq].id = disk[n].id
      BY Zenon, <1>2, <3>1
    <3>. QED
      BY <1>4, <3>1, <3>2
  <2>2. accepted[disk[n].id].body = disk[n].body /\ binding[disk[n].id] = disk[n].created
    BY Zenon, <1>2, <2>1
  <2>. QED
    BY <2>1, <2>2 DEF Held
<1>7. Held = [t \in DOMAIN accepted |-> Held[t]]
  BY DEF Held
<1>. QED
  BY <1>1, <1>5, <1>6, <1>7 DEF Holds, Level

\* Checkpoint takes the ledger's head.
LEMMA CheckpointIsGood ==
    ASSUME Inv, HeadInv, BindingTrue, TakeCheckpoint
    PROVE  Good(checkpoint', disk)
<1> DEFINE k == Len(disk)
<1>1. Free
  BY DEF TakeCheckpoint
<1>2. Holds(Held, disk, k) /\ state = StateAfter(disk, k)
  BY Zenon, <1>1, HeldHolds
<1>3. disk \in Seq(Evidence) /\ k \in Nat
  <2>1. disk \in Seq(Evidence)
    BY Zenon DEF Inv, SidecarTypeOK
  <2>. QED
    BY <2>1
<1>4. /\ DOMAIN Held = {disk[n].id : n \in 1..k}
      /\ \A n \in 1..k :
           Held[disk[n].id] = [body |-> disk[n].body, seq |-> n, hash |-> disk[n].created]
  BY <1>2 DEF Holds
<1>5. ASSUME NEW n \in 1..k
      PROVE  Held[disk[n].id].seq = n /\ Held[disk[n].id].hash = disk[n].created
  <2>1. Held[disk[n].id] = [body |-> disk[n].body, seq |-> n, hash |-> disk[n].created]
    BY <1>4
  <2>. QED
    BY <2>1
<1>6. checkpoint' =
        [state |-> state, accepted |-> Held,
         seq |-> IF Held = <<>> THEN 0 ELSE Held[Newest(Held)].seq,
         hash |-> IF Held = <<>> THEN 0 ELSE Held[Newest(Held)].hash]
  BY Zenon DEF TakeCheckpoint
<1>7. checkpoint'.seq = k /\ checkpoint'.hash = HashAt(disk, k)
  <2>1. CASE k = 0
    <3>1. DOMAIN Held = {}
      BY <1>4, <2>1
    <3>2. Held = <<>>
      BY <1>2, <2>1, <3>1 DEF Holds
    <3>. QED
      BY <1>6, <2>1, <3>2 DEF HashAt
  <2>2. CASE k # 0
    <3>1. k \in 1..k /\ disk[k].id \in DOMAIN Held
      BY <1>3, <1>4, <2>2
    <3>2. Held # <<>>
      BY <3>1
    <3>3. \A t \in DOMAIN Held : \E n \in 1..k : t = disk[n].id
      BY Zenon, <1>4
    <3>4. \A u \in DOMAIN Held : Held[u].seq <= Held[disk[k].id].seq
      <4>1. ASSUME NEW u \in DOMAIN Held PROVE Held[u].seq <= Held[disk[k].id].seq
        <5>1. PICK n \in 1..k : u = disk[n].id
          BY <3>3
        <5>2. Held[u].seq = n /\ Held[disk[k].id].seq = k
          BY Zenon, <1>5, <3>1, <5>1
        <5>. QED
          BY <1>3, <5>1, <5>2
      <4>. QED
        BY <4>1
    <3>5. /\ Newest(Held) \in DOMAIN Held
          /\ \A u \in DOMAIN Held : Held[u].seq <= Held[Newest(Held)].seq
      BY Zenon, <3>1, <3>4 DEF Newest
    <3>6. PICK n \in 1..k : Newest(Held) = disk[n].id
      BY <3>3, <3>5
    <3>7. Held[Newest(Held)].seq = n /\ Held[Newest(Held)].hash = disk[n].created
      BY Zenon, <1>5, <3>6
    <3>8. Held[disk[k].id].seq = k
      BY Zenon, <1>5, <3>1
    <3>9. n = k
      BY <1>3, <3>1, <3>5, <3>6, <3>7, <3>8
    <3>. QED
      BY <1>6, <2>2, <3>2, <3>7, <3>9 DEF HashAt
  <2>. QED
    BY <2>1, <2>2
<1>8. checkpoint'.state = state /\ checkpoint'.accepted = Held
  BY <1>6
<1>9. k \in 0..k
  BY <1>3
<1>. QED
  BY Zenon, <1>2, <1>7, <1>8, <1>9 DEF Good

\* What Accept finds: the ledger has the event in flight, where Go put it.
LEMMA AcceptFinds ==
    ASSUME Inv, HeadInv, Accept
    PROVE  /\ inflight \in Evidence /\ inflight.id \notin DOMAIN accepted
           /\ inflight.seq \in 1..Len(disk) /\ disk[inflight.seq] = inflight
<1>1. inflight # NoEvent /\ AckAccepted
  BY Zenon DEF Accept, MirrorEvent
<1>2. /\ inflight \in Evidence /\ inflight.seq = seq
      /\ inflight.id \notin DOMAIN accepted /\ disk \in Seq(Evidence)
  BY Zenon, <1>1 DEF Inv, LogValues, Flight, SidecarTypeOK
<1>3. reply \in Ack
  BY <1>1, <1>2 DEF AckAccepted, Ack, Evidence
<1>4. Answered
  BY Zenon, <1>1, <1>3 DEF HeadInv, Resting, Awaiting
<1>. QED
  BY <1>2, <1>4 DEF Answered

LEMMA BindingStep ==
    ASSUME Inv, HeadInv, BindingTrue, [CheckpointedNext]_checkpointedVars
    PROVE  BindingTrue'
<1>1. [Next]_vars
  BY Zenon, StepsAreAuthoritys
<1>2. /\ \A n \in 1..Len(disk) : disk'[n] = disk[n]
      /\ \A t \in DOMAIN accepted : accepted[t].seq \in 1..Len(disk)
  BY Zenon, <1>1, DiskKeeps DEF Inv, AcceptedBound, RecordedAt
<1>3. CASE UNCHANGED <<accepted, binding>>
  BY Zenon, <1>2, <1>3 DEF BindingTrue
<1>4. CASE AcceptBound
  <2>1. /\ Accept
        /\ DOMAIN accepted' = DOMAIN accepted \cup {inflight.id}
        /\ DOMAIN binding' = DOMAIN accepted'
        /\ binding'[inflight.id] = inflight.created
        /\ \A t \in DOMAIN accepted : t # inflight.id => binding'[t] = binding[t]
        /\ \A t \in DOMAIN accepted : t # inflight.id => accepted'[t] = accepted[t]
        /\ accepted'[inflight.id] = [body |-> inflight.body, seq |-> inflight.seq]
    BY <1>4 DEF AcceptBound, Accept
  <2>2. /\ inflight.id \notin DOMAIN accepted
        /\ inflight.seq \in 1..Len(disk) /\ disk[inflight.seq] = inflight
    BY Zenon, <2>1, AcceptFinds
  <2>3. accepted'[inflight.id].seq = inflight.seq
    BY <2>1
  <2>4. binding'[inflight.id] = disk'[accepted'[inflight.id].seq].created
    BY Zenon, <1>2, <2>1, <2>2, <2>3
  <2>5. \A t \in DOMAIN accepted : binding'[t] = disk'[accepted'[t].seq].created
    <3>1. ASSUME NEW t \in DOMAIN accepted PROVE binding'[t] = disk'[accepted'[t].seq].created
      <4>1. t # inflight.id
        BY <2>2
      <4>2. binding'[t] = binding[t] /\ accepted'[t] = accepted[t]
        BY Zenon, <2>1, <4>1
      <4>3. binding[t] = disk[accepted[t].seq].created
        BY Zenon DEF BindingTrue
      <4>. QED
        BY Zenon, <1>2, <4>2, <4>3
    <3>. QED
      BY Zenon, <3>1
  <2>. QED
    BY Zenon, <2>1, <2>4, <2>5 DEF BindingTrue
<1>5. CASE StartBound
  <2> DEFINE at(t) == CHOOSE n \in 1..Len(disk) : disk[n].id = t
             D == {disk[n].id : n \in 1..Len(disk)}
  <2>1. /\ DOMAIN binding' = D /\ DOMAIN accepted' = D
        /\ \A t \in D : /\ binding'[t] = disk[at(t)].created
                        /\ accepted'[t] = [body |-> disk[at(t)].body, seq |-> at(t)]
        /\ UNCHANGED disk
    BY <1>5 DEF StartBound, GoStart, HashesFrom, AcceptedFrom, sidecarVars
  <2> HIDE DEF at, D
  <2>2. \A t \in D : accepted'[t].seq = at(t)
    BY <2>1
  <2>. QED
    BY Zenon, <2>1, <2>2 DEF BindingTrue
<1>6. CASE CrashUnbound
  <2>1. binding' = <<>> /\ accepted' = <<>>
    BY <1>6 DEF CrashUnbound, GoCrash
  <2>2. DOMAIN accepted' = {}
    BY <2>1
  <2>. QED
    BY <2>1, <2>2 DEF BindingTrue
<1>7. CASE TakeCheckpoint \/ UNCHANGED checkpointedVars
  <2>1. UNCHANGED <<accepted, binding>>
    BY <1>7 DEF TakeCheckpoint, checkpointedVars, vars
  <2>. QED
    BY <1>3, <2>1
<1>8. CASE OtherStep
  <2>1. UNCHANGED binding
    BY <1>8 DEF OtherStep
  <2>2. UNCHANGED accepted
    <3>1. ASSUME NEW c \in Caller, ReadPrior(c) \/ Propose(c) PROVE UNCHANGED accepted
      BY Zenon, <3>1 DEF ReadPrior, Propose, ProposeDuplicate, ProposeRejected,
         ProposeAdmitted, authorityVars
    <3>2. CASE RejectDurable \/ Deliver \/ VerifyReplay \/ RustLifecycle
      BY Zenon, <3>2 DEF RejectDurable, Deliver, VerifyReplay, RustLifecycle, authorityVars
    <3>. QED
      BY Zenon, <1>8, <3>1, <3>2 DEF OtherStep
  <2>. QED
    BY <1>3, <2>1, <2>2
<1>. QED
  BY Zenon, <1>4, <1>5, <1>6, <1>7, <1>8 DEF CheckpointedNext

LEMMA CheckpointStep ==
    ASSUME Inv, HeadInv, BindingTrue, CheckpointGood, [CheckpointedNext]_checkpointedVars
    PROVE  CheckpointGood'
<1>1. [Next]_vars
  BY Zenon, StepsAreAuthoritys
<1>2. CASE TakeCheckpoint
  <2>1. Good(checkpoint', disk) /\ disk' = disk
    BY Zenon, <1>2, CheckpointIsGood DEF TakeCheckpoint, vars
  <2>. QED
    BY Zenon, <2>1 DEF CheckpointGood
<1>3. CASE ~TakeCheckpoint
  <2>1. UNCHANGED checkpoint
    BY Zenon, <1>3 DEF CheckpointedNext, AcceptBound, StartBound, CrashUnbound, OtherStep,
       checkpointedVars
  <2>. QED
    BY Zenon, <1>1, <2>1, GoodKeeps DEF CheckpointGood
<1>. QED
  BY <1>2, <1>3

LEMMA MirrorExactStep ==
    ASSUME Inv, HeadInv, MirrorExact, [Next]_vars
    PROVE  MirrorExact'
<1>1. /\ Len(disk) \in Nat /\ Len(disk') \in Nat /\ Len(disk) <= Len(disk')
      /\ \A n \in 1..Len(disk) : n \in 1..Len(disk') /\ disk'[n] = disk[n]
  BY Zenon, DiskKeeps
<1>2. CASE mirror' = mirror
  BY Zenon, <1>1, <1>2 DEF MirrorExact, Parsed
<1>3. CASE Accept
  <2>1. inflight.seq \in 1..Len(disk) /\ disk[inflight.seq] = inflight
    BY Zenon, <1>3, AcceptFinds
  <2>2. mirror' = Append(mirror, MirrorLine) /\ MirrorLine \in {Garbage, inflight}
    BY <1>3 DEF Accept, MirrorEvent, MirrorLine
  <2>3. mirror \in Seq(Evidence \cup {Garbage}) /\ MirrorLine \in Evidence \cup {Garbage}
    BY <1>3, <2>2, AcceptFinds DEF Inv, LogValues
  <2>4. ASSUME NEW k \in Parsed'
        PROVE  mirror'[k].seq \in 1..Len(disk) /\ disk[mirror'[k].seq] = mirror'[k]
    <3>1. k \in 1..Len(mirror') /\ mirror'[k] # Garbage
      BY <2>4 DEF Parsed
    <3>2. (k \in 1..Len(mirror) /\ mirror'[k] = mirror[k]) \/ mirror'[k] = MirrorLine
      BY <2>2, <2>3, <3>1
    <3>3. CASE k \in 1..Len(mirror) /\ mirror'[k] = mirror[k]
      BY Zenon, <3>1, <3>3 DEF MirrorExact, Parsed
    <3>4. CASE mirror'[k] = MirrorLine
      BY <2>1, <2>2, <3>1, <3>4
    <3>. QED
      BY <3>2, <3>3, <3>4
  <2>. QED
    BY Zenon, <1>1, <2>4 DEF MirrorExact
<1>. QED
  BY Zenon, <1>2, <1>3, MirrorSteps

LEMMA CheckpointInvAlways ==
    ASSUME NoAnswerLost
    PROVE  CheckpointedSpec => []CheckpointInv
<1>1. CheckpointedInit => CheckpointInv
  <2>. SUFFICES ASSUME CheckpointedInit PROVE CheckpointInv
    OBVIOUS
  <2>1. mirror = <<>> /\ accepted = <<>> /\ binding = <<>> /\ checkpoint = NoCheckpoint
    BY Zenon DEF CheckpointedInit, Init, LogInit
  <2>2. Parsed = {} /\ DOMAIN accepted = {} /\ DOMAIN binding = {}
    BY <2>1 DEF Parsed
  <2>. QED
    BY <2>1, <2>2 DEF CheckpointInv, BindingTrue, CheckpointGood, MirrorExact
<1>2. Inv /\ HeadInv /\ CheckpointInv /\ [CheckpointedNext]_checkpointedVars => CheckpointInv'
  BY Zenon, BindingStep, CheckpointStep, MirrorExactStep, StepsAreAuthoritys DEF CheckpointInv
<1>. QED
  BY <1>1, <1>2, HeadAlways, PTL DEF CheckpointedSpec

\* As long as no answer is lost a checkpoint stays good, whoever keeps it for
\* how long: it verifies against every later history of the ledger, and
\* rebuilding from it gives what a restart on the whole history gives
\* (VerifyCheckpoint, rebuild.go).
THEOREM CheckpointsRebuild ==
    ASSUME NoAnswerLost
    PROVE  CheckpointedSpec => []CheckpointRebuilds
<1>1. Inv /\ HeadInv /\ CheckpointInv => CheckpointRebuilds
  <2>. SUFFICES ASSUME Inv, HeadInv, CheckpointInv, checkpoint # NoCheckpoint
                PROVE  VerifyCheckpoint(checkpoint, disk)
    BY DEF CheckpointRebuilds
  <2>1. /\ disk \in Seq(Evidence) /\ ValidHistory(disk) /\ Replays(disk)
        /\ Good(checkpoint, disk)
    BY Zenon DEF Inv, SidecarTypeOK, HeadInv, HistoryReplays, CheckpointInv, CheckpointGood
  <2>2. AtHead(checkpoint, disk)
    BY <2>1, GoodAtHead
  <2>3. RebuildsFrom(checkpoint, disk)
    BY <2>1, GoodRebuilds
  <2>. QED
    BY <2>2, <2>3 DEF VerifyCheckpoint
<1>. QED
  BY <1>1, HeadAlways, CheckpointInvAlways, PTL

\* As long as no answer is lost, a mirror the verification approves has every
\* event of the ledger up to its last one, though a crash between the
\* acknowledgement and the mirror may have cost it a line (Service.Verify).
THEOREM ApprovedMirrorsArePrefixes ==
    ASSUME NoAnswerLost
    PROVE  CheckpointedSpec => []ApprovedMirrorIsPrefix
<1>1. CheckpointInv => ApprovedMirrorIsPrefix
  BY Zenon DEF CheckpointInv, MirrorExact, ApprovedMirrorIsPrefix, MirrorApproved
<1>. QED
  BY <1>1, CheckpointInvAlways, PTL

============================================================================
