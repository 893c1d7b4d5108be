------------------------------ MODULE EventLog ------------------------------
(***************************************************************************)
(* The Go event log, internal/eventlog: Service.Append forwards an event   *)
(* to the Rust ledger over HTTP, checks the acknowledgement and mirrors    *)
(* the event into a local file; RustAcknowledgedEvents reads the ledger    *)
(* back and rebases the service on it.                                     *)
(*                                                                         *)
(* Append holds the service's mutex from its first line to its last, the   *)
(* HTTP call included, so at most one event is in flight and no read or    *)
(* rebase happens meanwhile.  The exchange itself is several steps: the    *)
(* request travels, the ledger handles it, the answer travels, and Go may  *)
(* stop waiting (client.Timeout) at any point of it.                       *)
(***************************************************************************)
EXTENDS Sidecar

CONSTANTS
    NoEvent,      \* Append forwards nothing
    NoReply,      \* no answer yet
    Refused,      \* a status other than 201, or no server
    Garbage       \* a mirror line that does not parse

VARIABLES
    goUp,         \* the Go server runs
    seq,          \* Service.seq
    lastHash,     \* Service.lastHash: the created stamp of an envelope
    attempts,     \* envelopes created so far: the clock behind created_at
    mirror,       \* the lines of Go's ledger.jsonl
    mirrorTorn,   \* its last line is unterminated
    inflight,     \* the event Append is forwarding, or NoEvent
    reply,        \* the ledger's answer to it, or NoReply
    wire          \* POST requests not yet handled

serviceVars == <<seq, lastHash>>
mirrorVars == <<mirror, mirrorTorn>>
exchangeVars == <<inflight, reply, wire>>
logVars == <<goUp, seq, lastHash, attempts, mirror, mirrorTorn,
             inflight, reply, wire>>

\* RustAcknowledgement without its hash, which Go only checks for its form.
Ack == [id : ID \cup {NoID}, seq : Nat]

ASSUME NoEventAssumption == NoEvent \notin Evidence
ASSUME ReplyAssumption ==
    /\ NoReply \notin Ack
    /\ Refused \notin Ack
    /\ NoReply # Refused
ASSUME GarbageAssumption == Garbage \notin Evidence

LogTypeOK ==
    /\ goUp \in BOOLEAN
    /\ seq \in Nat
    /\ lastHash \in Nat
    /\ attempts \in 0..MaxAttempts
    /\ mirror \in Seq(Evidence \cup {Garbage})
    /\ mirrorTorn \in BOOLEAN
    /\ inflight \in Evidence \cup {NoEvent}
    /\ reply \in Ack \cup {NoReply, Refused}
    /\ wire \in SUBSET Evidence

LogInit ==
    /\ goUp = FALSE
    /\ seq = 0 /\ lastHash = 0
    /\ attempts = 0
    /\ mirror = <<>> /\ mirrorTorn = FALSE
    /\ inflight = NoEvent /\ reply = NoReply /\ wire = {}

----------------------------------------------------------------------------
\* Reading the ledger.

\* The stamp of the event at place n of history d; 0 is "genesis".
HashAt(d, n) == IF n = 0 THEN 0 ELSE d[n].created

\* ValidateHistory, and the seq check of RustAcknowledgedEvents: every event
\* carries its own place and names the envelope before it.
ValidHistory(d) ==
    \A n \in 1..Len(d) : d[n].seq = n /\ d[n].prev = HashAt(d, n - 1)

\* RustAcknowledgedEvents succeeds: GET /events answers and validates.
LedgerReadable == up /\ Verified /\ ValidHistory(disk)

\* Rust is the sequence authority for the next append.
Rebase ==
    /\ seq' = Len(disk)
    /\ lastHash' = HashAt(disk, Len(disk))

----------------------------------------------------------------------------
\* Append, from the mutex to the request.
BeginAppend(id, body) ==
    LET event == [ id      |-> id,
                   body    |-> body,
                   seq     |-> seq + 1,
                   prev    |-> lastHash,
                   created |-> attempts + 1 ]
    IN  /\ inflight = NoEvent
        /\ attempts < MaxAttempts
        /\ attempts' = attempts + 1
        /\ seq' = seq + 1
        /\ inflight' = event
        /\ reply' = NoReply
        /\ wire' = wire \cup {event}
        /\ UNCHANGED <<goUp, lastHash, mirrorVars>>

\* Only the answer to the event in flight finds a reader.
Answer(e, r) == reply' = IF e = inflight THEN r ELSE reply

\* The ledger handles request e and answers, or dies without an answer.
HandlePost(e) ==
    /\ e \in wire
    /\ wire' = wire \ {e}
    /\ \/ RefusePost(e) /\ Answer(e, Refused)
       \/ \E n \in 1..Len(disk) :
            Reacknowledge(e, n) /\ Answer(e, [id |-> disk[n].id, seq |-> n])
       \/ AppendEvidence(e) /\ Answer(e, [id |-> e.id, seq |-> Len(disk) + 1])
       \/ AppendFails(e) /\ Answer(e, Refused)
       \/ KillInAppend(e) /\ Answer(e, Refused)
    /\ UNCHANGED <<goUp, serviceVars, attempts, mirrorVars, inflight>>

\* No server: the connection is refused, or breaks.
NoServer(e) ==
    /\ e \in wire
    /\ ~up
    /\ wire' = wire \ {e}
    /\ Answer(e, Refused)
    /\ UNCHANGED <<goUp, serviceVars, attempts, mirrorVars, inflight,
                   sidecarVars>>

\* Mutants of AckAccepted: the sequence is not compared; any answer will do.
AckOfAnyPlace == reply \in Ack /\ reply.id = inflight.id

AckUnchecked == reply # NoReply

\* forward accepts an answer that names this event at this place.
AckAccepted == reply = [id |-> inflight.id, seq |-> inflight.seq]

\* Append returns: the exchange is over.
EndExchange == inflight' = NoEvent /\ reply' = NoReply

\* A line written after an unterminated one continues it.
MirrorLine == IF mirrorTorn THEN Garbage ELSE inflight

\* Mutant of MirrorEvent: lastHash is left behind.
MirrorEventOnly ==
    /\ inflight # NoEvent
    /\ AckAccepted
    /\ mirror' = Append(mirror, MirrorLine)
    /\ mirrorTorn' = FALSE
    /\ EndExchange
    /\ UNCHANGED <<goUp, seq, lastHash, attempts, wire>>

\* Append, the end of it: mirrored, and lastHash moves on.
MirrorEvent ==
    /\ inflight # NoEvent
    /\ AckAccepted
    /\ mirror' = Append(mirror, MirrorLine)
    /\ mirrorTorn' = FALSE
    /\ lastHash' = inflight.created
    /\ EndExchange
    /\ UNCHANGED <<goUp, seq, attempts, wire>>

\* Every failure of Append takes the sequence number back.
TakeBack == seq' = seq - 1 /\ EndExchange

\* The ledger refused, or acknowledged another place.
RejectEvent ==
    /\ inflight # NoEvent
    /\ reply # NoReply
    /\ ~AckAccepted
    /\ TakeBack
    /\ UNCHANGED <<goUp, lastHash, attempts, mirrorVars, wire>>

\* Mutant of TimeoutEvent: the client has no timeout.
TimeoutNever == FALSE

\* client.Timeout: the answer is late or lost.  The request itself is lost
\* unless "late" lets the ledger still get it.
TimeoutEvent ==
    /\ "timeout" \in Faults
    /\ inflight # NoEvent
    /\ TakeBack
    /\ wire' = IF "late" \in Faults THEN wire ELSE wire \ {inflight}
    /\ UNCHANGED <<goUp, lastHash, attempts, mirrorVars>>

\* The event is acknowledged but the mirror cannot be opened or written.
MirrorFails ==
    /\ "mirror" \in Faults
    /\ inflight # NoEvent
    /\ AckAccepted
    /\ TakeBack
    /\ mirrorTorn' \in {mirrorTorn, TRUE}
    /\ UNCHANGED <<goUp, lastHash, attempts, mirror, wire>>

\* The Go server stops; the mirror may keep a part of the line being written.
LogStops ==
    /\ goUp
    /\ goUp' = FALSE
    /\ seq' = 0 /\ lastHash' = 0
    /\ EndExchange
    /\ wire' = IF "late" \in Faults THEN wire ELSE {}
    /\ mirrorTorn' \in IF inflight # NoEvent /\ AckAccepted
                       THEN {mirrorTorn, TRUE} ELSE {mirrorTorn}
    /\ UNCHANGED <<attempts, mirror>>

----------------------------------------------------------------------------
\* Every line of the mirror that parses is a record of the ledger, at its
\* place: the mirror never shows an event that was not durably acknowledged.
\* (Its envelope may be a later one than the ledger's.)
MirrorFaithful ==
    \A k \in 1..Len(mirror) :
        mirror[k] # Garbage =>
            /\ mirror[k].seq \in 1..Len(disk)
            /\ SameSemantic(disk[mirror[k].seq], mirror[k])

============================================================================
