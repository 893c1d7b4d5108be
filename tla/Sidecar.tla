------------------------------ MODULE Sidecar ------------------------------
(***************************************************************************)
(* The Rust ledger of sidecar/src/main.rs: one file of hash-chained lines, *)
(* a directory of checkpoints and the state accepted in memory.  Every     *)
(* HTTP handler takes the one mutex, so a handler is one action; an action *)
(* that ends in the middle of a handler is a failed system call or the end *)
(* of the process.                                                         *)
(*                                                                         *)
(* A record's sequence number is its place in the file, and its hash and   *)
(* the history hash are injective in the evidence up to that place.  A     *)
(* LedgerState {seq, head_hash, history_hash, accepted_count} is therefore *)
(* the sequence of evidence it summarises, called a chain below.           *)
(***************************************************************************)
EXTENDS Naturals, FiniteSets, SequencesExt

CONSTANTS
    ID,           \* evidence ids
    NoID,         \* evidence without an id, or with an empty one
    Body,         \* the fields of an evidence that bind it semantically
    MaxAttempts,  \* bound: how many transport envelopes are ever created
    MaxRecords,   \* bound: lines the ledger grows to
    Faults        \* the kinds of fault a run allows

FaultKind ==
    { "write",       \* a system call of a handler fails, the process lives
      "restart",     \* the sidecar stops between two requests
      "kill",        \* the sidecar stops inside a request
      "power",       \* the machine stops: what was not synced may be lost
      "timeout",     \* Go gives up waiting for an answer
      "late",        \* the sidecar still gets a request Go gave up on
      "mirror",      \* Go cannot write its mirror
      "crash" }      \* the Go server stops

ASSUME NoIDAssumption == NoID \notin ID
ASSUME BoundAssumption == MaxAttempts \in Nat /\ MaxRecords \in Nat
ASSUME FaultAssumption == Faults \subseteq FaultKind

(***************************************************************************)
(* What a client posts.  Of the Go event, created_at tells one envelope    *)
(* from another: it stands for the envelope's hash too, and prev_hash      *)
(* names the envelope of the event before it (0 is "genesis").             *)
(***************************************************************************)
Evidence == [ id      : ID \cup {NoID},
              body    : Body,
              seq     : Nat,
              prev    : Nat,
              created : Nat ]

\* Posts of a client of the ledger alone.  No handler reads seq or prev.
Posts == [ id : ID \cup {NoID}, body : Body, seq : {1}, prev : {0},
           created : 1..MaxAttempts ]

VARIABLES
    disk,          \* the complete lines of ledger.jsonl
    torn,          \* the file ends in an unterminated line
    synced,        \* how many lines a sync has put on the medium
    entry,         \* the file's directory entry: absent, unsynced, synced
    checkpoints,   \* the chains bound by complete checkpoint files
    broken,        \* some checkpoint file is empty or unterminated
    up,            \* the process serves requests
    rustAccepted,  \* AppState.accepted: a chain
    acked          \* history: the chains a client was acknowledged

ledgerVars == <<disk, torn, synced, entry>>
checkpointVars == <<checkpoints, broken>>
sidecarVars == <<disk, torn, synced, entry, checkpoints, broken,
                 up, rustAccepted, acked>>

SidecarTypeOK ==
    /\ disk \in Seq(Evidence)
    /\ torn \in BOOLEAN
    /\ synced \in 0..Len(disk)
    /\ entry \in {"absent", "unsynced", "synced"}
    /\ checkpoints \subseteq Seq(Evidence)
    /\ broken \in BOOLEAN
    /\ up \in BOOLEAN
    /\ rustAccepted \in Seq(Evidence)
    /\ acked \subseteq Seq(Evidence)

SidecarInit ==
    /\ disk = <<>> /\ torn = FALSE /\ synced = 0 /\ entry = "absent"
    /\ checkpoints = {} /\ broken = FALSE
    /\ up = FALSE /\ rustAccepted = <<>>
    /\ acked = {}

----------------------------------------------------------------------------
\* The helpers of the handlers.

\* open_verified_state returns the chain on disk instead of an error.
Verified ==
    /\ ~torn
    /\ ~broken
    /\ \A c \in checkpoints : IsPrefix(c, disk)

\* Mutant of Settled: the disk is not compared with what was accepted.
SettledOnDisk == up /\ Verified

\* The disk is verified and is what the process has accepted.
Settled == up /\ Verified /\ disk = rustAccepted

\* The lines that carry e's id; evidence without an id matches none.
Matching(e) ==
    {n \in 1..Len(disk) : e.id # NoID /\ disk[n].id = e.id}

\* same_semantic_evidence: the transport fields do not count.
SameSemantic(d, e) == d.id = e.id /\ d.body = e.body

\* Mutant of Appendable: an id is looked for in the newest record only.
AppendableUnlessNewest(e) ==
    /\ Settled
    /\ Len(disk) \notin Matching(e)
    /\ Len(disk) < MaxRecords

\* Nothing stands in the way of a new record (append_evidence reaches its
\* write); MaxRecords bounds the file.
Appendable(e) ==
    /\ Settled
    /\ Matching(e) = {}
    /\ Len(disk) < MaxRecords

\* The directory entry once the file has been opened for append.
Opened == IF entry = "absent" THEN "unsynced" ELSE entry

\* Mutants of WholeAppend: the file is opened for truncation; sync_all is left
\* out; sync_parent is left out.
WholeAppendTruncating(e) ==
    /\ disk' = <<e>>
    /\ torn' = FALSE
    /\ synced' = 1
    /\ entry' = "synced"

WholeAppendUnsynced(e) ==
    /\ disk' = Append(disk, e)
    /\ torn' = FALSE
    /\ synced' = synced
    /\ entry' = IF entry = "absent" THEN "synced" ELSE entry

WholeAppendNoParent(e) ==
    /\ disk' = Append(disk, e)
    /\ torn' = FALSE
    /\ synced' = Len(disk) + 1
    /\ entry' = IF entry = "absent" THEN "unsynced" ELSE entry

\* The line is written and synced, and so is the entry of a new file.  An
\* existing file's entry is taken to be durable and is not synced again.
WholeAppend(e) ==
    /\ disk' = Append(disk, e)
    /\ torn' = FALSE
    /\ synced' = Len(disk) + 1
    /\ entry' = IF entry = "absent" THEN "synced" ELSE entry

\* The append stops after open, inside write_all, before sync_all or before
\* sync_parent.
PartialAppend(e) ==
    \/ UNCHANGED <<disk, torn, synced>> /\ entry' = Opened
    \/ UNCHANGED <<disk, synced>> /\ torn' = TRUE /\ entry' = Opened
    \/ /\ disk' = Append(disk, e)
       /\ UNCHANGED <<torn, synced>>
       /\ entry' = Opened
    \/ /\ entry = "absent"
       /\ disk' = Append(disk, e)
       /\ synced' = Len(disk) + 1
       /\ entry' = "unsynced"
       /\ UNCHANGED torn

\* The process ends; what it held in memory is gone.
Stop == up /\ up' = FALSE /\ rustAccepted' = <<>>

----------------------------------------------------------------------------
\* Mutant of Start: a torn tail is repaired, and with it goes the last whole
\* line.
StartRepairing ==
    /\ ~up
    /\ ~broken
    /\ \A c \in checkpoints : IsPrefix(c, disk)
    /\ up' = TRUE
    /\ disk' = IF torn /\ disk # <<>> THEN Front(disk) ELSE disk
    /\ torn' = FALSE
    /\ synced' = IF synced > Len(disk') THEN Len(disk') ELSE synced
    /\ rustAccepted' = disk'
    /\ UNCHANGED <<entry, checkpointVars, acked>>

\* main: strict startup adopts the chain on disk or refuses to serve.
Start ==
    /\ ~up
    /\ Verified
    /\ up' = TRUE
    /\ rustAccepted' = disk
    /\ UNCHANGED <<ledgerVars, checkpointVars, acked>>

\* POST /events: 500, since the disk is unverified, is not what was accepted,
\* or binds the id to other semantic evidence.
RefusePost(e) ==
    /\ up
    /\ \/ ~Settled
       \/ \E n \in Matching(e) : ~SameSemantic(disk[n], e)
    /\ UNCHANGED sidecarVars

\* POST /events: the evidence is on line n already; its ack is repeated.
Reacknowledge(e, n) ==
    /\ Settled
    /\ n \in Matching(e)
    /\ SameSemantic(disk[n], e)
    /\ acked' = acked \cup {SubSeq(disk, 1, n)}
    /\ UNCHANGED <<ledgerVars, checkpointVars, up, rustAccepted>>

\* POST /events: written, synced, accepted and acknowledged.
AppendEvidence(e) ==
    /\ Appendable(e)
    /\ WholeAppend(e)
    /\ rustAccepted' = disk'
    /\ acked' = acked \cup {disk'}
    /\ UNCHANGED <<checkpointVars, up>>

\* POST /events: open, write or sync fails and the handler returns 500.
AppendFails(e) ==
    /\ "write" \in Faults
    /\ Appendable(e)
    /\ \/ UNCHANGED ledgerVars
       \/ PartialAppend(e)
    /\ UNCHANGED <<checkpointVars, up, rustAccepted, acked>>

\* The process is killed inside append_evidence.
KillInAppend(e) ==
    /\ "kill" \in Faults
    /\ Appendable(e)
    /\ WholeAppend(e) \/ PartialAppend(e)
    /\ Stop
    /\ UNCHANGED <<checkpointVars, acked>>

\* POST /checkpoints: the file is created, or is found to bind this chain.
CreateCheckpoint ==
    /\ Settled
    /\ checkpoints' = checkpoints \cup {disk}
    /\ UNCHANGED <<ledgerVars, broken, up, rustAccepted, acked>>

\* A new checkpoint file is left complete but unsynced, or incomplete.
PartialCheckpoint ==
    /\ Settled
    /\ disk \notin checkpoints
    /\ \/ checkpoints' = checkpoints \cup {disk} /\ UNCHANGED broken
       \/ broken' = TRUE /\ UNCHANGED checkpoints

CheckpointFails ==
    /\ "write" \in Faults
    /\ PartialCheckpoint
    /\ UNCHANGED <<ledgerVars, up, rustAccepted, acked>>

KillInCheckpoint ==
    /\ "kill" \in Faults
    /\ PartialCheckpoint
    /\ Stop
    /\ UNCHANGED <<ledgerVars, acked>>

Restart ==
    /\ "restart" \in Faults
    /\ Stop
    /\ UNCHANGED <<ledgerVars, checkpointVars, acked>>

\* The machine stops.  A file whose entry was never synced may vanish; of a
\* file that stays, the synced lines and any prefix of the rest are there,
\* and all that is there is on the medium.
PowerLoss ==
    /\ "power" \in Faults
    /\ up' = FALSE /\ rustAccepted' = <<>>
    /\ \/ /\ entry # "synced"
          /\ disk' = <<>> /\ torn' = FALSE /\ synced' = 0 /\ entry' = "absent"
       \/ /\ entry # "absent"
          /\ entry' = "synced"
          /\ \E k \in synced..Len(disk) :
               /\ disk' = SubSeq(disk, 1, k)
               /\ synced' = k
               /\ torn' \in BOOLEAN
               /\ torn' => k < Len(disk) \/ torn
    /\ UNCHANGED <<checkpointVars, acked>>

\* The machine stops inside append_evidence and leaves a part of the line or
\* all of it; what it leaves otherwise is PowerLoss.
PowerLossInAppend(e) ==
    /\ "power" \in Faults
    /\ Appendable(e)
    /\ Stop
    /\ entry' = "synced"
    /\ \/ disk' = disk /\ torn' = TRUE /\ synced' = Len(disk)
       \/ disk' = Append(disk, e) /\ torn' = FALSE /\ synced' = Len(disk) + 1
    /\ UNCHANGED <<checkpointVars, acked>>

PostEvent(e) ==
    \/ RefusePost(e)
    \/ \E n \in 1..Len(disk) : Reacknowledge(e, n)
    \/ AppendEvidence(e)
    \/ AppendFails(e)
    \/ KillInAppend(e)
    \/ PowerLossInAppend(e)

SidecarNext ==
    \/ Start
    \/ \E e \in Posts : PostEvent(e)
    \/ CreateCheckpoint
    \/ CheckpointFails
    \/ KillInCheckpoint
    \/ Restart
    \/ PowerLoss

SidecarSpec == SidecarInit /\ [][SidecarNext]_sidecarVars

----------------------------------------------------------------------------
\* What the ledger promises.

\* No evidence id is ever on two lines, whatever is retried, fails, is
\* killed or is lost: the duplicate check of append_evidence reads the disk
\* it then appends to.
UniqueEvidence ==
    \A m, n \in 1..Len(disk) :
        disk[m].id # NoID /\ disk[m].id = disk[n].id => m = n

\* Every chain a client was acknowledged is still the beginning of the file:
\* an ack is given after the sync, and an uncertain line is never rewritten.
AckedDurable == \A c \in acked : IsPrefix(c, disk)

\* While the process serves, the file is what it has accepted and at most
\* one more line, complete or torn, whose fate a failed append left open: no
\* append papers over an uncertain write (comment in append_evidence).
OneUncertainWrite ==
    up => /\ IsPrefix(rustAccepted, disk)
          /\ Len(disk) <= Len(rustAccepted) + 1
          /\ torn => disk = rustAccepted

\* No checkpoint ever claims history that the file does not hold, so no
\* complete checkpoint makes open_verified_state refuse the ledger.
CheckpointsBound == \A c \in checkpoints : IsPrefix(c, disk)

\* A step never removes or rewrites a line of the file.
AppendOnly == [][IsPrefix(disk, disk')]_sidecarVars

\* Accepted state is committed only after open, write and sync completed
\* (comment in append_evidence): all that is accepted is on the medium.
AcceptedIsSynced ==
    up => Len(rustAccepted) <= synced

============================================================================
