----------------------------- MODULE Workspaces -----------------------------
(***************************************************************************)
(* The server's workspaces: what the handlers of internal/server do with   *)
(* the files and the quarantined blobs of a workspace, and the store of    *)
(* internal/quarantine behind them.  Every change has the same course: the *)
(* handler reads the workspace, proposes a transition on what it read,     *)
(* saves a receipt, and only then changes the workspace.  Nothing but the  *)
(* store's own mutex guards a workspace, so handlers interleave.           *)
(*                                                                         *)
(* The authority is what AcceptedHistory says it is: a proposal is refused *)
(* or is the next entry of the ledger.  One archive is imported, over and  *)
(* over, or an envelope exported from it: its hash is the workspace's id.   *)
(***************************************************************************)
EXTENDS Naturals, Sequences, FiniteSets, SequencesExt

CONSTANTS
    Handler,       \* goroutines that serve requests
    Op,            \* what they are asked for: subset of Ops
    Body,          \* documents and event lines they bring
    Document,      \* paths of build-ledger/ that are written as a whole
    EventsPath,    \* build-ledger/events/ledger.jsonl
    Elsewhere,     \* paths outside build-ledger/
    Below,         \* pairs <<p, q>> of paths: q is a directory in the path p
    Target,        \* paths blobs are admitted to
    Archive,       \* paths that are in the archive
    ArchiveBody,   \* what they contain there
    Blob,          \* entries of the archive that are quarantined
    Editable,      \* entries of an exported envelope that clients edit
    None,          \* no path, no blob, no envelope, no snapshot
    Unsafe,        \* a path that IsSafePath refuses
    Faults,        \* subset of FaultKinds
    MaxLedger,     \* bound: accepted transitions
    MaxImports     \* bound: imports

Ops == {"update", "append", "admit", "reject", "decide", "bind",
        "materialize", "ingest", "export", "edit", "snapshot"}
FaultKinds == {"receipt", "persist", "write", "kill"}

LedgerPath == Document \cup {EventsPath}
Path == LedgerPath \cup Elsewhere
Piece == Body \cup Blob \cup {ArchiveBody}

ASSUME PathsAssumption ==
    /\ EventsPath \notin Document /\ LedgerPath \cap Elsewhere = {}
    /\ Target \subseteq Path /\ Archive \subseteq Path
    /\ Editable \subseteq Elsewhere
    /\ Below \subseteq Path \X Path
    /\ None \notin Path \cup Blob /\ Unsafe \notin Path \cup {None}
    /\ IsFiniteSet(Path)
ASSUME KindsAssumption == Op \subseteq Ops /\ Faults \subseteq FaultKinds
ASSUME BoundsAssumption == MaxLedger \in Nat /\ MaxImports \in Nat

\* A content is a sequence of documents or lines; no file is the empty one.
\* A workspace object; its list of blobs is the archive's until it is synced,
\* and empty if it was made of an envelope.  Decisions and the binding are the
\* places in the ledger of the transitions that their receipts name.
Statuses == {"absent", "quarantined", "approved", "rejected"}
Contents == [Path -> Seq(Piece)]
Object == [files : Contents, blobs : [Blob -> Statuses],
           decisions : [Blob -> 0..MaxLedger], binding : 0..MaxLedger,
           synced : BOOLEAN]

\* A transition; the files are the baseline's, and a history of what was
\* parsed in an import's.
Actions == {"imported", "baseline", "updated", "appended", "admitted",
            "rejected", "decided", "bound", "materialized"}
Transition == [action : Actions, path : Path \cup {None},
               content : Seq(Piece), blob : Blob \cup {None},
               files : Contents]

INSTANCE Envelope WITH NoPath <- None, NoData <- <<>>

VARIABLES
    ledger,     \* the accepted transitions
    receipts,   \* places of the ledger that a receipt was saved for
    objects,    \* workspaces made since the server started
    store,      \* the object the store has for the workspace, or 0
    quarantine, \* Store.items: blob -> status
    files,      \* the item files: blob -> status
    effects,    \* history: places of the ledger whose change was made
    written,    \* what materialization has put on disk
    envelope,   \* the newest envelope a client was given, or None
    exported,   \* history: the files it was made of
    snapshot,   \* the newest snapshot a client was given, or None
    handler     \* what each handler is at

acceptedVars == <<ledger, receipts>>
storeVars == <<objects, store>>
quarantineVars == <<quarantine, files>>
clientVars == <<envelope, exported, snapshot>>
vars == <<acceptedVars, storeVars, quarantineVars, effects,
          written, clientVars, handler>>

Steps == {"idle", "got", "ready", "accepted", "receipted", "decided",
          "exposed", "added", "listed", "projected"}

NoFiles == [p \in Path |-> <<>>]

TypeOK ==
    /\ ledger \in Seq(Transition)
    /\ receipts \subseteq 1..Len(ledger) /\ effects \subseteq 1..Len(ledger)
    /\ objects \in Seq(Object) /\ store \in 0..Len(objects)
    /\ quarantine \in [Blob -> Statuses] /\ files \in [Blob -> Statuses]
    /\ written \in [Path -> Seq(Piece)]
    /\ exported \in Contents
    /\ handler \in [Handler ->
         [step : Steps, op : Ops \cup {"import", "baseline", "none"},
          object : 0..Len(objects), at : 0..Len(ledger), synced : BOOLEAN,
          path : Path \cup {None}, content : Seq(Piece),
          blob : Blob \cup {None}, files : Contents, zip : BOOLEAN]]

\* What handlers carry: the files they parsed or projected, and whether from
\* the archive or from an envelope.
Idle == [step |-> "idle", op |-> "none", object |-> 0, at |-> 0,
         synced |-> FALSE, path |-> None, content |-> <<>>, blob |-> None,
         files |-> NoFiles, zip |-> FALSE]

Init ==
    /\ ledger = <<>> /\ receipts = {} /\ effects = {}
    /\ objects = <<>> /\ store = 0
    /\ quarantine = [b \in Blob |-> "absent"]
    /\ files = [b \in Blob |-> "absent"]
    /\ written = NoFiles
    /\ envelope = None /\ exported = NoFiles /\ snapshot = None
    /\ handler = [h \in Handler |-> Idle]

At(h, step) == handler[h].step = step
Goto(h, step) == handler' = [handler EXCEPT ![h].step = step]
Return(h) == handler' = [handler EXCEPT ![h] = Idle]
The(h) == objects[handler[h].object]

\* The paths that have a file.
Present(contents) == {p \in Path : contents[p] # <<>>}
FilesOf(contents) == [p \in Present(contents) |-> contents[p]]

----------------------------------------------------------------------------
\* A request for the workspace: the store is asked for it, then the body is
\* read.
Get(h) ==
    /\ At(h, "idle") /\ store # 0
    /\ \E op \in Op \ {"ingest", "export", "edit"}, body \in Body,
          b \in Blob \cup {None} :
         \E p \in IF op = "update" THEN Document
                  ELSE IF op = "append" THEN {EventsPath}
                  ELSE IF op = "admit" THEN Target ELSE {None} :
           /\ (b # None) <=> op \in {"admit", "reject", "decide"}
           /\ handler' = [handler EXCEPT ![h] =
                [Idle EXCEPT !.step = "got", !.op = op, !.object = store,
                             !.path = p, !.blob = b,
                             !.content = IF op \in {"update", "append"}
                                         THEN <<body>> ELSE <<>>]]
    /\ UNCHANGED <<acceptedVars, storeVars, quarantineVars,
                   effects, written, clientVars>>

\* projectroot.Verify with verify_files, of the root it was materialized to.
RootComplete(h) == \A p \in Present(The(h).files) : written[p] # <<>>

\* The blob is there and has not been decided.
Decidable(h) == The(h).blobs[handler[h].blob] = "quarantined"

\* Mutant of Candidate: the line is proposed, not the file it makes.
CandidateLine(h) == handler[h].content

\* The content the transition will have: candidateUpsert, candidateAppend.
Candidate(h) ==
    IF handler[h].op = "append"
    THEN The(h).files[EventsPath] \o handler[h].content
    ELSE handler[h].content

\* Mutant of Prepare: the candidate is built in the workspace itself.
PrepareInPlace(h) ==
    /\ At(h, "got")
    /\ handler' = [handler EXCEPT ![h].step = "ready", ![h].content = Candidate(h)]
    /\ objects' = IF handler[h].op = "append"
                  THEN [objects EXCEPT ![handler[h].object].files[EventsPath] =
                          Candidate(h)] ELSE objects
    /\ UNCHANGED <<acceptedVars, store, quarantineVars, effects, written, clientVars>>

\* The candidate, and the checks of the quarantine handlers, on the workspace
\* as it is now.  A decision by name is always possible: the names of the
\* quarantined entries stay, and so is a binding that is forced.
Prepare(h) ==
    /\ At(h, "got") /\ handler[h].op # "snapshot"
    /\ handler[h].op \in {"admit", "reject"} => Decidable(h)
    /\ handler' = [handler EXCEPT ![h].step = "ready",
                                  ![h].synced = The(h).synced,
                                  ![h].content = Candidate(h)]
    /\ UNCHANGED <<acceptedVars, storeVars, quarantineVars,
                   effects, written, clientVars>>

\* The blob has been decided, or the root of a binding that is not forced
\* lacks a file.
TurnDown(h) ==
    /\ At(h, "got")
    /\ \/ handler[h].op \in {"admit", "reject"} /\ ~ Decidable(h)
       \/ handler[h].op = "bind" /\ ~ RootComplete(h)
    /\ Return(h)
    /\ UNCHANGED <<acceptedVars, storeVars, quarantineVars,
                   effects, written, clientVars>>

MayImport ==
    Cardinality({n \in DOMAIN ledger : ledger[n].action = "imported"})
      + Cardinality({g \in Handler : At(g, "ready") /\ handler[g].op = "import"})
      < MaxImports

\* What FromZipBytes makes of the archive.
ArchiveFiles == [p \in Path |-> IF p \in Archive THEN <<ArchiveBody>> ELSE <<>>]

\* opImportZip of the archive: it is parsed before anything is proposed.
ImportZip(h) ==
    /\ At(h, "idle") /\ MayImport
    /\ handler' = [handler EXCEPT
                     ![h] = [Idle EXCEPT !.step = "ready", !.op = "import",
                                         !.files = ArchiveFiles, !.zip = TRUE]]
    /\ UNCHANGED <<acceptedVars, storeVars, quarantineVars,
                   effects, written, clientVars>>

\* opImportEnvelope of what a client was given; an empty tree is refused.
ImportEnvelope(h) ==
    /\ At(h, "idle") /\ MayImport
    /\ envelope # None /\ envelope.tree # <<>>
    /\ LET parsed == FromEnvelope(envelope).files
       IN  handler' = [handler EXCEPT
             ![h] = [Idle EXCEPT
                       !.step = "ready", !.op = "import",
                       !.files = [p \in Path |-> IF p \in DOMAIN parsed
                                                 THEN parsed[p] ELSE <<>>]]]
    /\ UNCHANGED <<acceptedVars, storeVars, quarantineVars,
                   effects, written, clientVars>>

----------------------------------------------------------------------------
\* recordTransition.

ActionOf(op) ==
    CASE op = "import" -> "imported" [] op = "baseline" -> "baseline"
      [] op = "update" -> "updated"  [] op = "append" -> "appended"
      [] op = "admit" -> "admitted"  [] op = "reject" -> "rejected"
      [] op = "decide" -> "decided"  [] op = "bind" -> "bound"
      [] op = "materialize" -> "materialized"

\* The proposal is accepted.
Accept(h) ==
    /\ At(h, "ready") /\ Len(ledger) < MaxLedger
    /\ ledger' = Append(ledger,
                   [action |-> ActionOf(handler[h].op), path |-> handler[h].path,
                    content |-> handler[h].content, blob |-> handler[h].blob,
                    files |-> handler[h].files])
    /\ handler' = [handler EXCEPT ![h].step = "accepted",
                                  ![h].at = Len(ledger) + 1]
    /\ UNCHANGED <<receipts, storeVars, quarantineVars, effects,
                   written, clientVars>>

\* It is not: secrets in it, a stale predecessor, no recorder.
Refuse(h) ==
    /\ At(h, "ready")
    /\ Return(h)
    /\ UNCHANGED <<acceptedVars, storeVars, quarantineVars,
                   effects, written, clientVars>>

SaveReceipt(h) ==
    /\ At(h, "accepted")
    /\ receipts' = receipts \cup {handler[h].at}
    /\ Goto(h, "receipted")
    /\ UNCHANGED <<ledger, storeVars, quarantineVars, effects, written, clientVars>>

\* Receipts.Save fails: the handler returns the error.
ReceiptFails(h) ==
    /\ "receipt" \in Faults
    /\ At(h, "accepted")
    /\ Return(h)
    /\ UNCHANGED <<acceptedVars, storeVars, quarantineVars,
                   effects, written, clientVars>>

----------------------------------------------------------------------------
\* The change itself.

\* UpsertFile with the body, AppendToFile with the line.
Changed(h) ==
    LET body == handler[h].content[Len(handler[h].content)]
    IN  [The(h) EXCEPT !.files[handler[h].path] =
           IF handler[h].op = "append" THEN @ \o <<body>> ELSE <<body>>]

Apply(h) ==
    /\ At(h, "receipted") /\ handler[h].op \in {"update", "append"}
    /\ objects' = [objects EXCEPT ![handler[h].object] = Changed(h)]
    /\ effects' = effects \cup {handler[h].at}
    /\ Return(h)
    /\ UNCHANGED <<acceptedVars, store, quarantineVars, written, clientVars>>

\* Mutant of Verdict: the other one's status.
VerdictSwapped(h) == IF handler[h].op = "admit" THEN "rejected" ELSE "approved"

Verdict(h) == IF handler[h].op = "admit" THEN "approved" ELSE "rejected"

\* The workspace with the blob decided.  The handler holds the blob it found:
\* if the list has been synced since, the workspace's own is another one.
Decided(h) ==
    [The(h) EXCEPT
       !.files = IF handler[h].op = "admit"
                 THEN [@ EXCEPT ![handler[h].path] = <<handler[h].blob>>] ELSE @,
       !.blobs = IF handler[h].synced = The(h).synced
                 THEN [@ EXCEPT ![handler[h].blob] = Verdict(h)] ELSE @]

Decide(h) ==
    /\ At(h, "receipted") /\ handler[h].op \in {"admit", "reject"}
    /\ objects' = [objects EXCEPT ![handler[h].object] = Decided(h)]
    /\ effects' = effects \cup {handler[h].at}
    /\ Goto(h, "decided")
    /\ UNCHANGED <<acceptedVars, store, quarantineVars, written, clientVars>>

\* opQuarantineDecision: it replaces what was decided of the item before.
\* opBindWorkspace: it replaces the binding.
Note(h) ==
    /\ At(h, "receipted") /\ handler[h].op \in {"decide", "bind"}
    /\ objects' =
         IF handler[h].op = "bind"
         THEN [objects EXCEPT ![handler[h].object].binding = handler[h].at]
         ELSE [objects EXCEPT ![handler[h].object].decisions[handler[h].blob] =
                 handler[h].at]
    /\ effects' = effects \cup {handler[h].at}
    /\ Return(h)
    /\ UNCHANGED <<acceptedVars, store, quarantineVars, written, clientVars>>

\* What a persist that fails leaves of the item's file: the old one, or one
\* cut short, which loading skips.
Spoilt(b) == {files, [files EXCEPT ![b] = "absent"]}

\* Mutant of Persisted: a decision stays in memory.
PersistedNot(b, status) ==
    /\ quarantine' = [quarantine EXCEPT ![b] = status]
    /\ UNCHANGED files

\* persist of a status.
Persisted(b, status) ==
    /\ quarantine' = [quarantine EXCEPT ![b] = status]
    /\ \/ files' = [files EXCEPT ![b] = status]
       \/ "persist" \in Faults /\ files' \in Spoilt(b)

\* Quarantine.UpdateStatus: memory first; its error is ignored.  Then the
\* decision is added to those shown.
UpdateStatus(h) ==
    /\ At(h, "decided")
    /\ objects' = [objects EXCEPT ![handler[h].object].decisions[handler[h].blob] =
                     handler[h].at]
    /\ IF quarantine[handler[h].blob] = "absent"
       THEN UNCHANGED quarantineVars
       ELSE Persisted(handler[h].blob, Verdict(h))
    /\ Return(h)
    /\ UNCHANGED <<acceptedVars, store, effects, written, clientVars>>

\* Paths that cannot be written: a directory of theirs is a file, or they
\* are a directory on disk.
Blocked(present) ==
    {p \in present :
        \/ \E q \in present \cup Present(written) : <<p, q>> \in Below
        \/ \E q \in Present(written) : <<q, p>> \in Below}

\* WriteWorkspace writes what the workspace has now, or stops at a path that
\* is blocked or fails.
Materialize(h) ==
    /\ At(h, "receipted") /\ handler[h].op = "materialize"
    /\ LET present == Present(The(h).files)
       IN  \E done \in SUBSET (present \ Blocked(present)) :
             /\ written' = [p \in Path |-> IF p \in done THEN The(h).files[p]
                                           ELSE written[p]]
             /\ \/ done = present /\ effects' = effects \cup {handler[h].at}
                \/ /\ "write" \in Faults \/ Blocked(present) # {}
                   /\ UNCHANGED effects
    /\ Return(h)
    /\ UNCHANGED <<acceptedVars, storeVars, quarantineVars, clientVars>>

----------------------------------------------------------------------------
\* The rest of an import.

\* The build-ledger files an import brings.
Baseline(h) == Present(handler[h].files) \cap LedgerPath

\* The baseline is the second transition, if there is one.
ProposeBaseline(h) ==
    /\ At(h, "receipted") /\ handler[h].op = "import" /\ Baseline(h) # {}
    /\ effects' = effects \cup {handler[h].at}
    /\ handler' = [handler EXCEPT ![h].step = "ready", ![h].op = "baseline"]
    /\ UNCHANGED <<acceptedVars, storeVars, quarantineVars, written, clientVars>>

\* The workspace an import makes.
Imported(parsed, zip) ==
    [files |-> parsed,
     blobs |-> [b \in Blob |-> IF zip THEN "quarantined" ELSE "absent"],
     decisions |-> [b \in Blob |-> 0], binding |-> 0, synced |-> FALSE]

\* handleIngest: its packets are proposed one by one (ContextGraph), and the
\* workspace they were parsed from is put in the store whatever became of them.
Ingest(h) ==
    /\ "ingest" \in Op
    /\ At(h, "idle") /\ Len(objects) < MaxImports
    /\ objects' = Append(objects, Imported(ArchiveFiles, TRUE))
    /\ store' = Len(objects) + 1
    /\ UNCHANGED <<acceptedVars, quarantineVars, effects, written,
                   clientVars, handler>>

\* Mutant of Admitted: the import is exposed before its baseline.
AdmittedEarly(h) == handler[h].op \in {"import", "baseline"}

\* Every transition of the import has been accepted.
Admitted(h) == handler[h].op = IF Baseline(h) = {} THEN "import" ELSE "baseline"

\* store.Add; only opImportZip goes on with the quarantine.
Expose(h) ==
    /\ At(h, "receipted") /\ Admitted(h)
    /\ objects' = Append(objects, Imported(handler[h].files, handler[h].zip))
    /\ store' = Len(objects) + 1
    /\ effects' = effects \cup {handler[h].at}
    /\ IF handler[h].zip
       THEN handler' = [handler EXCEPT ![h] =
              [Idle EXCEPT !.step = "exposed", !.op = handler[h].op,
                           !.at = handler[h].at, !.object = Len(objects) + 1]]
       ELSE Return(h)
    /\ UNCHANGED <<acceptedVars, quarantineVars, written, clientVars>>

\* syncWorkspaceQuarantine, its Adds: an item there is stays; one that cannot
\* be persisted is not kept.
AddItems(h) ==
    /\ At(h, "exposed")
    /\ LET missing == {b \in Blob : quarantine[b] = "absent"}
       IN  \E bad \in SUBSET missing :
             /\ bad # {} => "persist" \in Faults
             /\ quarantine' = [b \in Blob |-> IF b \in missing \ bad
                                 THEN The(h).blobs[b] ELSE quarantine[b]]
             /\ files' = [b \in Blob |-> IF b \in missing \ bad
                            THEN The(h).blobs[b]
                            ELSE IF b \in bad THEN "absent" ELSE files[b]]
    /\ Goto(h, "added")
    /\ UNCHANGED <<acceptedVars, storeVars, effects, written, clientVars>>

\* Its list: new blobs, with the status the items have.
Listed(h) == [The(h) EXCEPT !.blobs = quarantine, !.synced = TRUE]

ListItems(h) ==
    /\ At(h, "added")
    /\ objects' = [objects EXCEPT ![handler[h].object] = Listed(h)]
    /\ Return(h)
    /\ UNCHANGED <<acceptedVars, store, quarantineVars, effects, written, clientVars>>

----------------------------------------------------------------------------
\* What clients take away.

\* GET .../envelope.
Export ==
    /\ "export" \in Op /\ store # 0
    /\ envelope' = ToEnvelope(FilesOf(objects[store].files), Cardinality(Archive))
    /\ exported' = objects[store].files
    /\ UNCHANGED <<acceptedVars, storeVars, quarantineVars, effects, written,
                   snapshot, handler>>

\* A client edits one thing in the envelope it was given.
Edit ==
    /\ "edit" \in Op /\ envelope # None
    /\ envelope = ToEnvelope(FilesOf(exported), Cardinality(Archive))
    /\ envelope' \in Edits(envelope, {<<b>> : b \in Body}, Editable)
    /\ UNCHANGED <<acceptedVars, storeVars, quarantineVars, effects, written,
                   exported, snapshot, handler>>

\* snapshotWorkspace: the events are listed, WriteZip projects the files, and
\* writes them after that.
ListEvents(h) ==
    /\ At(h, "got") /\ handler[h].op = "snapshot"
    /\ handler' = [handler EXCEPT ![h].step = "listed", ![h].at = Len(ledger)]
    /\ UNCHANGED <<acceptedVars, storeVars, quarantineVars, effects, written,
                   clientVars>>

Project(h) ==
    /\ At(h, "listed")
    /\ handler' = [handler EXCEPT ![h].step = "projected",
                                  ![h].files = The(h).files]
    /\ UNCHANGED <<acceptedVars, storeVars, quarantineVars, effects, written,
                   clientVars>>

WriteSnapshot(h) ==
    /\ At(h, "projected")
    /\ snapshot' = [events |-> handler[h].at, projection |-> handler[h].files,
                    files |-> The(h).files]
    /\ Return(h)
    /\ UNCHANGED <<acceptedVars, storeVars, quarantineVars, effects, written,
                   envelope, exported>>

----------------------------------------------------------------------------
\* The server is restarted: workspaces are in memory, items on disk.  With
\* "kill", in the middle of requests: two handlers writing one map is enough
\* for the Go runtime to end the process.
Restart ==
    /\ "kill" \in Faults \/ \A h \in Handler : At(h, "idle")
    /\ objects' = <<>> /\ store' = 0
    /\ quarantine' = files
    /\ handler' = [h \in Handler |-> Idle]
    /\ UNCHANGED <<acceptedVars, files, effects, written, clientVars>>

Next ==
    \/ \E h \in Handler :
         \/ Get(h) \/ Prepare(h) \/ TurnDown(h)
         \/ ImportZip(h) \/ ImportEnvelope(h)
         \/ Accept(h) \/ Refuse(h) \/ SaveReceipt(h) \/ ReceiptFails(h)
         \/ Apply(h) \/ Decide(h) \/ UpdateStatus(h) \/ Note(h)
         \/ Materialize(h)
         \/ ProposeBaseline(h) \/ Expose(h) \/ AddItems(h) \/ ListItems(h)
         \/ Ingest(h)
         \/ ListEvents(h) \/ Project(h) \/ WriteSnapshot(h)
    \/ Export \/ Edit
    \/ Restart

Spec == Init /\ [][Next]_vars

----------------------------------------------------------------------------
\* What replay makes of the ledger: the last transition that has a content
\* for the path.  An admitted blob has none.
Sets(n, p) ==
    \/ ledger[n].action = "baseline" /\ ledger[n].files[p] # <<>>
    \/ ledger[n].action \in {"updated", "appended"} /\ ledger[n].path = p

\* The content of p after the first k transitions.
ReplayedTo(k, p) ==
    LET S == {n \in 1..k : Sets(n, p)}
    IN  IF S = {} THEN <<>>
        ELSE LET last == CHOOSE n \in S : \A m \in S : m <= n
             IN  IF ledger[last].action = "baseline" THEN ledger[last].files[p]
                 ELSE ledger[last].content

Replayed(p) == ReplayedTo(Len(ledger), p)

Quiet == \A h \in Handler : At(h, "idle")

Pieces(content) == {content[n] : n \in DOMAIN content}

\* The pieces the accepted transitions allow at path p.
AcceptedPieces(p) ==
    (IF p \in Archive THEN {ArchiveBody} ELSE {})
      \cup (UNION {Pieces(ledger[n].files[p]) : n \in DOMAIN ledger})
      \cup (UNION {Pieces(ledger[n].content) : n \in
             {m \in DOMAIN ledger : ledger[m].path = p}})
      \cup {ledger[n].blob : n \in
             {m \in DOMAIN ledger : ledger[m].action = "admitted"
                                      /\ ledger[m].path = p}}

DecidedIn(b, actions) ==
    \E n \in DOMAIN ledger : ledger[n].action \in actions /\ ledger[n].blob = b

\* Nothing is in a workspace, on disk or in what a client was given that was
\* not in the archive, in an accepted import or accepted for that very path,
\* whatever fails in whatever order; quarantined data in particular
\* (TestStateAdmissionFailureLeavesWorkspaceUnchanged,
\* TestZipImportKeepsUnsafeBlobQuarantined).
ContentAccepted ==
    /\ TypeOK
    /\ \A p \in Path :
         /\ \A n \in DOMAIN objects :
              Pieces(objects[n].files[p]) \subseteq AcceptedPieces(p)
         /\ Pieces(written[p]) \subseteq AcceptedPieces(p)
         /\ Pieces(exported[p]) \subseteq AcceptedPieces(p)
         /\ snapshot # None =>
              Pieces(snapshot.files[p]) \cup Pieces(snapshot.projection[p])
                \subseteq AcceptedPieces(p)

\* A workspace is visible only after its import and its baseline have been
\* accepted (import.go: "A workspace becomes visible only after every durable
\* import transition").
VisibleImported ==
    \A a \in {"imported"} \cup
            (IF Archive \cap LedgerPath = {} THEN {} ELSE {"baseline"}) :
        Len(objects) <=
            Cardinality({n \in DOMAIN ledger \cap receipts : ledger[n].action = a})

\* The transition n was accepted with one of the actions, and receipted.
Backed(n, actions) == n \in receipts /\ ledger[n].action \in actions

\* A decision about a blob, shown, kept or on disk, was accepted; a shown one
\* and a binding name a receipt of theirs.
DecisionAccepted ==
    /\ \A b \in Blob :
         LET shown == {quarantine[b], files[b]}
                        \cup {objects[n].blobs[b] : n \in DOMAIN objects}
         IN  /\ "approved" \in shown => DecidedIn(b, {"admitted"})
             /\ "rejected" \in shown => DecidedIn(b, {"rejected"})
    /\ \A k \in DOMAIN objects :
         /\ objects[k].binding # 0 => Backed(objects[k].binding, {"bound"})
         /\ \A b \in Blob :
              LET n == objects[k].decisions[b]
              IN  n # 0 => /\ Backed(n, {"admitted", "rejected", "decided"})
                           /\ ledger[n].blob = b

\* A blob is decided once: the handlers refuse one that "already has status".
DecidedOnce ==
    \A m, n \in DOMAIN ledger :
        ( /\ ledger[m].action \in {"admitted", "rejected"}
          /\ ledger[n].action \in {"admitted", "rejected"}
          /\ ledger[m].blob = ledger[n].blob ) => m = n

\* What the workspace shows of a blob it lists is what was decided about it,
\* and the decision it shows is the last one.
DecisionShown ==
    (Quiet /\ store # 0) =>
        \A b \in Blob :
            LET status == objects[store].blobs[b]
                latest == objects[store].decisions[b]
            IN  /\ status # "absent" =>
                     /\ status = quarantine[b] /\ status = files[b]
                     /\ (status = "approved") <=> DecidedIn(b, {"admitted"})
                     /\ (status = "rejected") <=> DecidedIn(b, {"rejected"})
                /\ latest # 0 =>
                     \A n \in DOMAIN ledger : ledger[n].blob = b => n <= latest

\* One request at a time decides a blob once and for all: the decision is what
\* the workspace shows, also after restarts and imports of the same archive,
\* and nobody is asked again.
DecisionFinal == DecidedOnce /\ DecisionShown

\* The events of a snapshot give its build-ledger files, and its projection
\* is of its files.
SnapshotReplays ==
    snapshot # None =>
        /\ snapshot.projection = snapshot.files
        /\ \A p \in LedgerPath :
             snapshot.files[p] = ReplayedTo(snapshot.events, p)

\* Replay of the ledger gives the workspace's build-ledger files
\* (TestReplayEquivalence), and those of a snapshot (VerifyLoaded).
ReplayEquivalent ==
    /\ (Quiet /\ store # 0) =>
         \A p \in LedgerPath : objects[store].files[p] = Replayed(p)
    /\ SnapshotReplays

\* An envelope gives a workspace's files back, verified, but for those below
\* another file; if it has been edited, no file that is verified differs, and
\* what is missing or moved is an issue (docs/CHUNK-05-ingest-compatibility-
\* map.md: it "still round-trips via ToEnvelope/Parse").
EnvelopeKeeps ==
    envelope # None =>
        LET parsed  == FromEnvelope(envelope)
            present == Present(exported)
            plain   == {p \in present : \A q \in present : <<p, q>> \notin Below}
        IN  /\ \A p \in present \cap parsed.verified :
                 parsed.files[p] = exported[p]
            /\ parsed.issues \subseteq {"file count"} =>
                 parsed.files = FilesOf(exported)
            /\ envelope = ToEnvelope(FilesOf(exported), Cardinality(Archive)) =>
                 /\ plain = parsed.verified
                 /\ ("not in tree" \in parsed.issues) <=> plain # present

\* A receipt is truthful: once the handler is done, what it says was done
\* (ARCHITECTURE_RECONCILED: effect first, then "truthful receipt").
ReceiptTruthful ==
    \A n \in receipts :
        (\A h \in Handler : handler[h].at # n) => n \in effects

\* The file of an admitted blob is in the workspace ("Admit quarantined ZIP
\* blob into workspace").
AdmittedPresent ==
    (Quiet /\ store # 0) =>
        \A b \in Blob :
            objects[store].blobs[b] = "approved" =>
                \E p \in Path : objects[store].files[p] # <<>>
                                  /\ \E n \in DOMAIN ledger :
                                       /\ ledger[n].action = "admitted"
                                       /\ ledger[n].blob = b
                                       /\ ledger[n].path = p
============================================================================
