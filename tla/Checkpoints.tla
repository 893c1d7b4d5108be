----------------------------- MODULE Checkpoints ----------------------------
(***************************************************************************)
(* Checkpoints of the transition authority (internal/transition,           *)
(* rebuild.go), taken beside everything Authority does, and the check of   *)
(* the Go mirror (internal/eventlog, verify.go).  A checkpoint is kept by  *)
(* whoever took it, also while the servers crash and restart, and is       *)
(* verified later against whatever history the ledger then holds.          *)
(***************************************************************************)
EXTENDS Authority, SequencesExt

CONSTANT NoCheckpoint

VARIABLES
    binding,     \* DurableBinding.EventHash of each accepted transition
    checkpoint   \* the newest checkpoint taken, or NoCheckpoint

checkpointedVars == <<vars, binding, checkpoint>>

\* What a checkpoint keeps of an accepted transition.
Bound == [body : Request, seq : Nat, hash : Nat]

ASSUME NoCheckpointAssumption ==
    NoCheckpoint \notin [state : Projection, seq : Nat, hash : Nat,
                         accepted : UNION {[S -> Bound] : S \in SUBSET ID}]

CheckpointedInit == Init /\ binding = <<>> /\ checkpoint = NoCheckpoint

----------------------------------------------------------------------------
\* Accept, and the binding durableBinding makes of the event Append returned.
AcceptBound ==
    /\ Accept
    /\ binding' = [ t \in DOMAIN accepted' |->
                      IF t = inflight.id THEN inflight.created ELSE binding[t] ]
    /\ UNCHANGED checkpoint

\* The hashes that replay binds the transitions of history d to.
HashesFrom(d) ==
    [ t \in {d[n].id : n \in 1..Len(d)} |->
        d[CHOOSE n \in 1..Len(d) : d[n].id = t].created ]

\* NewFromEventLog binds to the events the ledger holds.
StartBound ==
    /\ GoStart
    /\ binding' = HashesFrom(disk)
    /\ UNCHANGED checkpoint

CrashUnbound ==
    /\ GoCrash
    /\ binding' = <<>>
    /\ UNCHANGED checkpoint

\* What Checkpoint writes of the accepted transitions.
Held == [ t \in DOMAIN accepted |->
            [body |-> accepted[t].body, seq |-> accepted[t].seq,
             hash |-> binding[t]] ]

\* Mutant of Newest: the last one of the map, whichever that is.
NewestOfAny(held) == CHOOSE t \in DOMAIN held : TRUE

\* The transition with the highest durable sequence.
Newest(held) ==
    CHOOSE t \in DOMAIN held :
        \A u \in DOMAIN held : held[u].seq <= held[t].seq

\* Checkpoint, under the authority's mutex.
TakeCheckpoint ==
    /\ Free
    /\ checkpoint' =
         [ state    |-> state,
           accepted |-> Held,
           seq      |-> IF Held = <<>> THEN 0 ELSE Held[Newest(Held)].seq,
           hash     |-> IF Held = <<>> THEN 0 ELSE Held[Newest(Held)].hash ]
    /\ UNCHANGED <<vars, binding>>

\* Every other step of the authority's.
OtherStep ==
    /\ \/ \E c \in Caller : ReadPrior(c) \/ Propose(c)
       \/ RejectDurable
       \/ Deliver
       \/ VerifyReplay
       \/ RustLifecycle
    /\ UNCHANGED <<binding, checkpoint>>

CheckpointedNext ==
    \/ AcceptBound
    \/ StartBound
    \/ CrashUnbound
    \/ TakeCheckpoint
    \/ OtherStep

CheckpointedSpec == CheckpointedInit /\ [][CheckpointedNext]_checkpointedVars

----------------------------------------------------------------------------
\* The events up to the checkpoint's head: the first ones, of a valid history.
Prefix(cp, d) == [n \in {m \in 1..Len(d) : d[m].seq <= cp.seq} |-> d[n]]

\* acceptedSlice of the authority that Rebuild makes of d.
BoundFrom(d) ==
    LET held == AcceptedFrom(d)
    IN  [ t \in DOMAIN held |->
            [body |-> held[t].body, seq |-> held[t].seq,
             hash |-> HashesFrom(d)[t]] ]

\* VerifyCheckpoint, the first half: the head is in the history, and replay
\* up to it gives the checkpoint's state and transitions.
AtHead(cp, d) ==
    LET prefix == Prefix(cp, d)
    IN  /\ ValidHistory(d)
        /\ IF cp.seq = 0
           THEN cp.hash = 0
           ELSE /\ prefix # <<>>
                /\ Last(prefix).seq = cp.seq
                /\ Last(prefix).created = cp.hash
        /\ Replays(prefix)
        /\ cp.state = StateAfter(prefix, Len(prefix))
        /\ cp.accepted = BoundFrom(prefix)

\* The projection after event n of d, replayed from the checkpoint.
StateFrom(cp, d, n) ==
    IF n <= cp.seq THEN cp.state ELSE Apply(d[n].body.prior, d[n].body)

\* authorityFromCheckpoint accepts the checkpoint (no transition is bound to
\* an event of another id: the map is keyed by it) and replay goes through
\* all later events.
SuffixReplays(cp, d) ==
    \A n \in (cp.seq + 1)..Len(d) :
        /\ d[n].id \notin DOMAIN cp.accepted
        /\ \A m \in (cp.seq + 1)..(n - 1) : d[m].id # d[n].id
        /\ d[n].body.prior = StateFrom(cp, d, n - 1)

\* The transitions held after that.
HeldFrom(cp, d) ==
    [ t \in DOMAIN cp.accepted \cup {d[n].id : n \in (cp.seq + 1)..Len(d)} |->
        IF t \in DOMAIN cp.accepted THEN cp.accepted[t] ELSE BoundFrom(d)[t] ]

\* VerifyCheckpoint, the second half: replaying the suffix from the
\* checkpoint gives what replaying everything gives.
RebuildsFrom(cp, d) ==
    /\ SuffixReplays(cp, d)
    /\ Replays(d)
    /\ StateFrom(cp, d, Len(d)) = StateAfter(d, Len(d))
    /\ HeldFrom(cp, d) = BoundFrom(d)

VerifyCheckpoint(cp, d) == AtHead(cp, d) /\ RebuildsFrom(cp, d)

\* A checkpoint, whenever it was taken, stays good: it verifies against every
\* later history of the ledger, and rebuilding from it and the suffix gives
\* the authority that a restart on the whole history gives.
CheckpointRebuilds ==
    checkpoint # NoCheckpoint => VerifyCheckpoint(checkpoint, disk)

----------------------------------------------------------------------------
\* The lines of the mirror that parse, and the number of each among them.
Parsed == {k \in 1..Len(mirror) : mirror[k] # Garbage}
Place(k) == Cardinality(Parsed \cap 1..k)

\* Mutant of MirrorApproved: the links are compared, not where they start.
MirrorLinksApproved ==
    \A j, k \in Parsed : Place(k) = Place(j) + 1 =>
        mirror[k].seq = mirror[j].seq + 1 /\ mirror[k].prev = mirror[j].created

\* Service.Verify: the lines that parse carry the numbers 1, 2, ... and each
\* names the one before it.
MirrorApproved ==
    /\ \A k \in Parsed : mirror[k].seq = Place(k)
    /\ \A k \in Parsed : Place(k) = 1 => mirror[k].prev = 0
    /\ \A j, k \in Parsed :
         Place(k) = Place(j) + 1 => mirror[k].prev = mirror[j].created

\* GET /api/ledger/verify says "local ok" only of a mirror that is the
\* beginning of the ledger, event for event: a line lost to a crash between
\* the acknowledgement and the mirror is always noticed.
ApprovedMirrorIsPrefix ==
    MirrorApproved =>
        \A k \in Parsed : Place(k) \in 1..Len(disk) /\ disk[Place(k)] = mirror[k]

----------------------------------------------------------------------------
\* What the code does not keep when an answer is lost (see the README).

\* A checkpoint verifies against every later history that can be replayed.
CheckpointStaysGood ==
    checkpoint # NoCheckpoint /\ ValidHistory(disk) /\ Replays(disk)
        => VerifyCheckpoint(checkpoint, disk)

============================================================================
