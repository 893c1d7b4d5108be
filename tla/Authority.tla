------------------------------ MODULE Authority -----------------------------
(***************************************************************************)
(* The transition authority, internal/transition, with its callers, the    *)
(* event log it writes through and the Rust ledger behind it.  Callers     *)
(* (ingest, the orchestrator, the server's handlers) read the projection,  *)
(* build a proposal on it and propose it later; the authority admits one   *)
(* proposal at a time and holds its mutex until Append returns.            *)
(***************************************************************************)
EXTENDS EventLog

CONSTANTS
    Caller,      \* goroutines that propose
    Node,        \* (entity, node) pairs of the projection
    Data,        \* result data
    NoData,      \* a node the projection does not hold
    NoPrior      \* a caller that has read no predecessor

\* Projection: the version and the nodes.  A StateRef is {id, version, hash}
\* with a hash of just these, so it is the projection itself.  The version
\* counts accepted transitions, of which there are at most MaxAttempts.
Projection == [version : 0..MaxAttempts, nodes : [Node -> Data \cup {NoData}]]

Initial == [version |-> 0, nodes |-> [x \in Node |-> NoData]]

\* The canonical proposal without its id.  Operation, proposal and request
\* ids and admission data are part of the data: all are compared as bytes.
Request ==
    [ prior : [version : 0..(MaxAttempts - 1),
               nodes : [Node -> Data \cup {NoData}]],
      node  : Node,
      data  : Data ]

ASSUME BodyAssumption == Body = Request
ASSUME DataAssumption == NoData \notin Data
ASSUME PriorAssumption == NoPrior \notin Projection
ASSUME RoomAssumption == MaxAttempts > 0 /\ MaxRecords >= MaxAttempts

VARIABLES
    state,        \* Authority.state
    accepted,     \* Authority.accepted: transition id -> request and place
    prior,        \* the predecessor each caller has read
    promised      \* history: the transitions a caller was told are accepted

authorityVars == <<state, accepted>>
vars == <<disk, torn, synced, entry, checkpoints, broken, up, rustAccepted,
          acked, goUp, seq, lastHash, attempts, mirror, mirrorTorn, inflight,
          reply, wire, state, accepted, prior, promised>>

\* acceptedRecord: the canonical request and the durable sequence.
Accepted == [body : Request, seq : Nat]

Promise == [id : ID, body : Request, seq : Nat]

TypeOK ==
    /\ SidecarTypeOK
    /\ LogTypeOK
    /\ state \in Projection
    /\ DOMAIN accepted \subseteq ID
    /\ \A t \in DOMAIN accepted : accepted[t] \in Accepted
    /\ prior \in [Caller -> Projection \cup {NoPrior}]
    /\ promised \subseteq Promise

Init ==
    /\ SidecarInit
    /\ LogInit
    /\ state = Initial
    /\ accepted = <<>>
    /\ prior = [c \in Caller |-> NoPrior]
    /\ promised = {}

----------------------------------------------------------------------------
\* apply: upsert one node, next version.
Apply(p, request) ==
    [ version |-> p.version + 1,
      nodes   |-> [p.nodes EXCEPT ![request.node] = request.data] ]

\* The projection after the first n events of history d.  Each event carries
\* the predecessor it was admitted on, and Replays compares it with this.
StateAfter(d, n) == IF n = 0 THEN Initial ELSE Apply(d[n].body.prior, d[n].body)

\* Rebuild finds no corruption: no transition id twice, and every transition
\* was admitted on the state the ones before it give.
Replays(d) ==
    /\ \A m, n \in 1..Len(d) : d[m].id = d[n].id => m = n
    /\ \A n \in 1..Len(d) : d[n].body.prior = StateAfter(d, n - 1)

\* Mutant of AcceptedFrom: the newest record is not read.
AcceptedFromOlder(d) ==
    [ t \in {d[n].id : n \in 1..(Len(d) - 1)} |->
        LET n == CHOOSE k \in 1..Len(d) : d[k].id = t
        IN  [body |-> d[n].body, seq |-> n] ]

\* The accepted map Rebuild derives.
AcceptedFrom(d) ==
    [ t \in {d[n].id : n \in 1..Len(d)} |->
        LET n == CHOOSE k \in 1..Len(d) : d[k].id = t
        IN  [body |-> d[n].body, seq |-> n] ]

\* The mutex of the authority: free unless a proposal waits for Append.
Free == goUp /\ inflight = NoEvent

----------------------------------------------------------------------------
\* A caller reads the projection it will build its proposal on.
ReadPrior(c) ==
    /\ Free
    /\ prior[c] = NoPrior
    /\ prior' = [prior EXCEPT ![c] = state]
    /\ UNCHANGED <<sidecarVars, logVars, authorityVars, promised>>

\* The canonical request of caller c.
RequestOf(c, x, d) == [prior |-> prior[c], node |-> x, data |-> d]

Proposing(c) ==
    /\ Free
    /\ prior[c] # NoPrior
    /\ prior' = [prior EXCEPT ![c] = NoPrior]

\* Propose: the id was accepted with this very request; its result is given
\* again.
ProposeDuplicate(c, t, x, d) ==
    /\ Proposing(c)
    /\ t \in DOMAIN accepted
    /\ accepted[t].body = RequestOf(c, x, d)
    /\ promised' = promised \cup
         {[id |-> t, body |-> accepted[t].body, seq |-> accepted[t].seq]}
    /\ UNCHANGED <<sidecarVars, logVars, authorityVars>>

\* Propose: Conflict (the id was accepted with another request) or Stale
\* (the predecessor is no longer the current state).
ProposeRejected(c, t, x, d) ==
    /\ Proposing(c)
    /\ IF t \in DOMAIN accepted
       THEN accepted[t].body # RequestOf(c, x, d)
       ELSE prior[c] # state
    /\ UNCHANGED <<sidecarVars, logVars, authorityVars, promised>>

\* Propose: admitted; the accepted event goes to the log.
ProposeAdmitted(c, t, x, d) ==
    /\ Proposing(c)
    /\ t \notin DOMAIN accepted
    /\ prior[c] = state
    /\ state.version < MaxAttempts
    /\ BeginAppend(t, RequestOf(c, x, d))
    /\ UNCHANGED <<sidecarVars, authorityVars, promised>>

Propose(c) ==
    \E t \in ID, x \in Node, d \in Data :
        \/ ProposeDuplicate(c, t, x, d)
        \/ ProposeRejected(c, t, x, d)
        \/ ProposeAdmitted(c, t, x, d)

\* Propose: Append succeeded; the projection advances.
Accept ==
    /\ goUp
    /\ MirrorEvent
    /\ state' = Apply(state, inflight.body)
    /\ accepted' = [ t \in DOMAIN accepted \cup {inflight.id} |->
                       IF t = inflight.id
                       THEN [body |-> inflight.body, seq |-> inflight.seq]
                       ELSE accepted[t] ]
    /\ promised' = promised \cup
         {[id |-> inflight.id, body |-> inflight.body, seq |-> inflight.seq]}
    /\ UNCHANGED <<sidecarVars, prior>>

\* Propose: Append failed; a Durable rejection, and nothing advances.
RejectDurable ==
    /\ goUp
    /\ RejectEvent \/ TimeoutEvent \/ MirrorFails
    /\ UNCHANGED <<sidecarVars, authorityVars, prior, promised>>

\* The ledger handles a request, or there is no ledger to handle it.
Deliver ==
    /\ \E e \in wire : HandlePost(e) \/ NoServer(e)
    /\ UNCHANGED <<authorityVars, prior, promised>>

\* GET replay verification: opVerifyReplay reads the ledger, which rebases
\* the service; the authority it rebuilds is thrown away.
VerifyReplay ==
    /\ Free
    /\ LedgerReadable
    /\ Rebase
    /\ UNCHANGED <<sidecarVars, goUp, attempts, mirrorVars, exchangeVars,
                   authorityVars, prior, promised>>

\* The Go server stops.
GoCrash ==
    /\ "crash" \in Faults
    /\ LogStops
    /\ state' = Initial
    /\ accepted' = <<>>
    /\ prior' = [c \in Caller |-> NoPrior]
    /\ UNCHANGED <<sidecarVars, promised>>

\* Mutant of GoStart: the accepted map is restored, the projection is not.
GoStartEmpty ==
    /\ ~goUp
    /\ LedgerReadable
    /\ Replays(disk)
    /\ goUp' = TRUE
    /\ Rebase
    /\ state' = Initial
    /\ accepted' = AcceptedFrom(disk)
    /\ UNCHANGED <<sidecarVars, attempts, mirrorVars, exchangeVars, prior,
                   promised>>

\* NewFromEventLog: the server starts on the history the ledger holds, or
\* panics and stays down.
GoStart ==
    /\ ~goUp
    /\ LedgerReadable
    /\ Replays(disk)
    /\ goUp' = TRUE
    /\ Rebase
    /\ state' = StateAfter(disk, Len(disk))
    /\ accepted' = AcceptedFrom(disk)
    /\ UNCHANGED <<sidecarVars, attempts, mirrorVars, exchangeVars, prior,
                   promised>>

\* The ledger stops and starts on its own.
RustLifecycle ==
    /\ Start \/ Restart
    /\ UNCHANGED <<logVars, authorityVars, prior, promised>>

Next ==
    \/ \E c \in Caller : ReadPrior(c) \/ Propose(c)
    \/ Accept
    \/ RejectDurable
    \/ Deliver
    \/ VerifyReplay
    \/ GoCrash
    \/ GoStart
    \/ RustLifecycle

Spec == Init /\ [][Next]_vars

----------------------------------------------------------------------------
\* What the composition promises.

\* Record n of the ledger is transition t with this request.
RecordedAt(n, t, body) ==
    /\ n \in 1..Len(disk)
    /\ disk[n].id = t
    /\ disk[n].body = body

\* Every transition the authority holds is the record of the ledger at the
\* sequence it is bound to, whatever was retried, lost or came late.
AcceptedBound ==
    \A t \in DOMAIN accepted : RecordedAt(accepted[t].seq, t, accepted[t].body)

\* Whatever a caller was told is accepted stays a record of the ledger.
PromisedDurable == \A p \in promised : RecordedAt(p.seq, p.id, p.body)

\* A server that runs holds every transition a caller was ever told is
\* accepted, also after crashes: a restart adopts all of the ledger or fails.
PromisedVisible ==
    goUp => \A p \in promised :
              /\ p.id \in DOMAIN accepted
              /\ accepted[p.id] = [body |-> p.body, seq |-> p.seq]

\* Of two transitions told as accepted, the one with the earlier record was
\* admitted on the earlier version.
PromisedInOrder ==
    \A p, q \in promised :
        p.seq < q.seq <=> p.body.prior.version < q.body.prior.version

\* The accepted transitions form one chain from the initial projection to
\* the current one: each was admitted on the result of another, and callers
\* were told of them in that order.
OneChain ==
    /\ TypeOK
    /\ PromisedInOrder
    /\ Cardinality(DOMAIN accepted) = state.version
    /\ \A t \in DOMAIN accepted :
         LET result == Apply(accepted[t].body.prior, accepted[t].body)
         IN  \/ result = state
             \/ \E u \in DOMAIN accepted : accepted[u].body.prior = result

\* The ledger's history can be read back and replayed: a server started on
\* it comes up.
HistoryReplays == ValidHistory(disk) /\ Replays(disk)

\* The ledger replays, and between proposals the service's head is the
\* ledger's, so that the next event gets the place and the predecessor the
\* ledger will give it.
HeadsAgree ==
    /\ HistoryReplays
    /\ Free =>
         /\ seq = Len(disk)
         /\ lastHash = HashAt(disk, Len(disk))
         /\ state = StateAfter(disk, Len(disk))

----------------------------------------------------------------------------
\* What the repository says of the composition and the code does not keep
\* when an answer is lost.

\* Rust is the sequence authority for the next append (RustAcknowledgedEvents):
\* an event carries the sequence number the ledger records it under.
RustNumbersEvents == \A n \in 1..Len(disk) : disk[n].seq = n

\* A retry of an event whose answer was lost is not another event (comment on
\* same_semantic_evidence): events the ledger holds at the places they carry
\* also form Go's hash chain.
RetryKeepsChain ==
    \A n \in 2..Len(disk) :
        disk[n - 1].seq = n - 1 /\ disk[n].seq = n
            => disk[n].prev = disk[n - 1].created

\* Replay after a restart reproduces the state: once a caller was told that
\* a transition is accepted, a chain that is intact can be replayed.
PromisedReplays == promised # {} /\ ValidHistory(disk) => Replays(disk)

----------------------------------------------------------------------------
\* The history of the abstract specification is the ledger without the
\* transport fields of its events.
History == [n \in 1..Len(disk) |-> [id |-> disk[n].id, body |-> disk[n].body]]

Abstract == INSTANCE AcceptedHistory WITH history <- History

\* The system implements the abstract specification.
ImplementsAcceptedHistory == Abstract!Spec

----------------------------------------------------------------------------
\* Append never waits for ever: the http.Client has a timeout, so the end of
\* an exchange that goes on is not postponed for ever.
FairSpec == Spec /\ WF_vars(Accept \/ RejectDurable)

\* Whoever waits for Append, and everyone who waits for the mutexes it
\* holds, is served in the end, though answers are lost and servers die.
ProposalAnswered == (inflight # NoEvent) ~> (inflight = NoEvent)

============================================================================
