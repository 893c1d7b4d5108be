-------------------------- MODULE WorkspacesProofs --------------------------
(***************************************************************************)
(* Proofs about Workspaces: whatever handlers interleave, fail or are      *)
(* killed, nothing is in a workspace, on disk or in what a client takes    *)
(* away that was not accepted for its path, and every decision shown was   *)
(* accepted; envelopes keep what they say they keep; a workspace that is   *)
(* visible was imported.  And of one request after the other: decisions    *)
(* are final, and replay of the ledger gives the build-ledger files.       *)
(***************************************************************************)
EXTENDS Workspaces, SequenceTheorems, FiniteSetTheorems, FunctionTheorems,
        WellFoundedInduction, TLAPS

\* What the ledger L allows: the invariants below are about a ledger, and kept
\* when it grows.
Allowed(L, p) ==
    (IF p \in Archive THEN {ArchiveBody} ELSE {})
      \cup (UNION {Pieces(L[n].files[p]) : n \in DOMAIN L})
      \cup (UNION {Pieces(L[n].content) : n \in {m \in DOMAIN L : L[m].path = p}})
      \cup {L[n].blob : n \in {m \in DOMAIN L : L[m].action = "admitted"
                                                  /\ L[m].path = p}}

AllowedFiles(f, L) ==
    f \in Contents /\ \A p \in Path : Pieces(f[p]) \subseteq Allowed(L, p)

DecidedBy(L, b, actions) ==
    \E n \in DOMAIN L : L[n].action \in actions /\ L[n].blob = b

StatusesFit(s, L) ==
    /\ s \in [Blob -> Statuses]
    /\ \A b \in Blob :
         /\ s[b] = "approved" => DecidedBy(L, b, {"admitted"})
         /\ s[b] = "rejected" => DecidedBy(L, b, {"rejected"})

\* The transition at n is one of the actions, and has its receipt.
BackedBy(n, L, R, actions) == n \in R /\ L[n].action \in actions

ObjectFits(o, L, R) ==
    /\ o \in Object
    /\ AllowedFiles(o.files, L)
    /\ StatusesFit(o.blobs, L)
    /\ o.binding # 0 => BackedBy(o.binding, L, R, {"bound"})
    /\ \A b \in Blob : o.decisions[b] # 0 =>
         /\ BackedBy(o.decisions[b], L, R, {"admitted", "rejected", "decided"})
         /\ L[o.decisions[b]].blob = b

HandlerState ==
    [step : Steps, op : Ops \cup {"import", "baseline", "none"},
     object : Nat, at : Nat, synced : BOOLEAN,
     path : Path \cup {None}, content : Seq(Piece),
     blob : Blob \cup {None}, files : Contents, zip : BOOLEAN]

\* The operations that are proposed, and those of them that make a workspace.
Makes == {"import", "baseline"}
Changes == Makes \cup {"update", "append", "admit", "reject", "decide", "bind",
                       "materialize"}

\* The transition of the handler's request is its own.
Owns(x, L) ==
    /\ x.at \in DOMAIN L
    /\ L[x.at].action = ActionOf(x.op) /\ L[x.at].path = x.path
    /\ L[x.at].content = x.content /\ L[x.at].blob = x.blob

\* What a handler at x has, with k workspaces made.
HandlerFits(x, L, R, k) ==
    /\ x.object \in 0..k /\ x.at \in 0..Len(L)
    /\ x.op \in {"update", "append"} => x.path \in Path /\ x.content # <<>>
    /\ x.op = "admit" => x.path \in Path
    /\ x.op \in {"admit", "reject", "decide"} => x.blob \in Blob
    /\ x.step = "got" => x.op \in (Changes \ Makes) \cup {"snapshot"}
    /\ x.step \in {"ready", "accepted", "receipted"} => x.op \in Changes
    /\ x.step = "decided" => x.op \in {"admit", "reject"}
    /\ x.step \in {"accepted", "receipted", "decided"} => Owns(x, L)
    /\ x.step \in {"receipted", "decided"} => x.at \in R
    /\ x.step # "ready" \/ x.op # "import" => AllowedFiles(x.files, L)
    /\ \/ x.object # 0 \/ x.step = "idle"
       \/ x.step \in {"ready", "accepted", "receipted"} /\ x.op \in Makes

EntryType == [path : Path, declared : Path \cup {None, Unsafe},
              data : Seq(Piece), size : Seq(Piece), sha : Seq(Piece)]

LedgerInv ==
    /\ ledger \in Seq(Transition) /\ Len(ledger) <= MaxLedger
    /\ receipts \subseteq 1..Len(ledger) /\ effects \subseteq 1..Len(ledger)

ObjectsInv ==
    /\ objects \in Seq(Object) /\ store \in 0..Len(objects)
    /\ \A k \in DOMAIN objects : ObjectFits(objects[k], ledger, receipts)

ItemsInv == StatusesFit(quarantine, ledger) /\ StatusesFit(files, ledger)

ClientsInv ==
    /\ AllowedFiles(written, ledger) /\ AllowedFiles(exported, ledger)
    /\ snapshot # None =>
         AllowedFiles(snapshot.files, ledger) /\ AllowedFiles(snapshot.projection, ledger)
    /\ envelope # None =>
         /\ envelope = [tree |-> envelope.tree, manifest |-> envelope.manifest,
                        count |-> envelope.count]
         /\ envelope.tree \in Seq(EntryType)

HandlersInv ==
    /\ handler \in [Handler -> HandlerState]
    /\ \A h \in Handler : HandlerFits(handler[h], ledger, receipts, Len(objects))

Inv == LedgerInv /\ ObjectsInv /\ ItemsInv /\ ClientsInv /\ HandlersInv

-----------------------------------------------------------------------------
\* A ledger that grows.
Continues(L, M) ==
    /\ L \in Seq(Transition) /\ M \in Seq(Transition)
    /\ \A n \in DOMAIN L : n \in DOMAIN M /\ M[n] = L[n]

LEMMA ContinuesLen ==
    ASSUME NEW L, NEW M, Continues(L, M)
    PROVE  Len(L) \in Nat /\ Len(M) \in Nat /\ Len(L) <= Len(M)
<1>1. Len(L) \in Nat /\ Len(M) \in Nat /\ DOMAIN L = 1..Len(L) /\ DOMAIN M = 1..Len(M)
  BY DEF Continues
<1>2. Len(L) = 0 \/ Len(L) \in DOMAIN L
  BY <1>1
<1> QED
  BY <1>1, <1>2 DEF Continues

\* What makes a piece allowed.
LEMMA AllowedIff ==
    ASSUME NEW L, NEW p, NEW x
    PROVE  x \in Allowed(L, p) <=>
             \/ p \in Archive /\ x = ArchiveBody
             \/ \E n \in DOMAIN L :
                  \/ x \in Pieces(L[n].files[p])
                  \/ L[n].path = p /\ x \in Pieces(L[n].content)
                  \/ L[n].action = "admitted" /\ L[n].path = p /\ x = L[n].blob
<1> DEFINE A == IF p \in Archive THEN {ArchiveBody} ELSE {}
           F == UNION {Pieces(L[n].files[p]) : n \in DOMAIN L}
           C == UNION {Pieces(L[n].content) : n \in {m \in DOMAIN L : L[m].path = p}}
           B == {L[n].blob : n \in {m \in DOMAIN L : L[m].action = "admitted"
                                                       /\ L[m].path = p}}
<1>1. Allowed(L, p) = A \cup F \cup C \cup B
  BY Zenon DEF Allowed
<1>2. x \in A <=> p \in Archive /\ x = ArchiveBody
  OBVIOUS
<1>3. x \in F <=> \E n \in DOMAIN L : x \in Pieces(L[n].files[p])
  BY Zenon
<1>4. x \in C <=> \E n \in DOMAIN L : L[n].path = p /\ x \in Pieces(L[n].content)
  BY Zenon
<1>5. x \in B <=> \E n \in DOMAIN L :
                    L[n].action = "admitted" /\ L[n].path = p /\ x = L[n].blob
  BY Zenon
<1> HIDE DEF A, F, C, B
<1> QED
  BY <1>1, <1>2, <1>3, <1>4, <1>5

LEMMA AllowedGrows ==
    ASSUME NEW L, NEW M, Continues(L, M), NEW p
    PROVE  Allowed(L, p) \subseteq Allowed(M, p)
<1> SUFFICES ASSUME NEW x \in Allowed(L, p) PROVE x \in Allowed(M, p)
  OBVIOUS
<1>1. \A n \in DOMAIN L : n \in DOMAIN M /\ M[n] = L[n]
  BY DEF Continues
<1>2. CASE p \in Archive /\ x = ArchiveBody
  BY <1>2, AllowedIff
<1>3. ASSUME NEW n \in DOMAIN L,
             \/ x \in Pieces(L[n].files[p])
             \/ L[n].path = p /\ x \in Pieces(L[n].content)
             \/ L[n].action = "admitted" /\ L[n].path = p /\ x = L[n].blob
      PROVE  x \in Allowed(M, p)
  <2>1. n \in DOMAIN M /\ M[n] = L[n]
    BY <1>1
  <2>2. \/ x \in Pieces(M[n].files[p])
        \/ M[n].path = p /\ x \in Pieces(M[n].content)
        \/ M[n].action = "admitted" /\ M[n].path = p /\ x = M[n].blob
    BY <1>3, <2>1
  <2> QED
    BY <2>1, <2>2, AllowedIff
<1> QED
  BY <1>2, <1>3, AllowedIff

LEMMA FilesStay ==
    ASSUME NEW L, NEW M, Continues(L, M), NEW f, AllowedFiles(f, L)
    PROVE  AllowedFiles(f, M)
<1>1. \A p : Allowed(L, p) \subseteq Allowed(M, p)
  BY AllowedGrows
<1> QED
  BY <1>1 DEF AllowedFiles

LEMMA StatusesStay ==
    ASSUME NEW L, NEW M, Continues(L, M), NEW s, StatusesFit(s, L)
    PROVE  StatusesFit(s, M)
<1>1. \A b, a : DecidedBy(L, b, a) => DecidedBy(M, b, a)
  BY DEF Continues, DecidedBy
<1> QED
  BY <1>1 DEF StatusesFit

LEMMA ObjectStays ==
    ASSUME NEW L, NEW M, Continues(L, M), NEW R, NEW S, R \subseteq S, R \subseteq DOMAIN L,
           NEW o, ObjectFits(o, L, R)
    PROVE  ObjectFits(o, M, S)
<1>1. AllowedFiles(o.files, M) /\ StatusesFit(o.blobs, M)
  BY FilesStay, StatusesStay DEF ObjectFits
<1>2. \A n \in R : n \in S /\ M[n] = L[n]
  BY DEF Continues
<1> QED
  BY <1>1, <1>2 DEF ObjectFits, BackedBy

LEMMA HandlerStays ==
    ASSUME NEW L, NEW M, Continues(L, M), NEW R, NEW S, R \subseteq S,
           NEW j \in Nat, NEW k \in Nat, j <= k,
           NEW x, HandlerFits(x, L, R, j)
    PROVE  HandlerFits(x, M, S, k)
<1>1. x.object \in 0..k
  BY DEF HandlerFits
<1>2. x.at \in 0..Len(M)
  BY ContinuesLen DEF HandlerFits
<1>3. Owns(x, L) => Owns(x, M)
  BY DEF Owns, Continues
<1>4. AllowedFiles(x.files, L) => AllowedFiles(x.files, M)
  BY FilesStay
<1> QED
  BY <1>1, <1>2, <1>3, <1>4 DEF HandlerFits

\* No file, and what the archive brings, is allowed by any ledger.
LEMMA ArchiveAllowed ==
    ASSUME NEW L
    PROVE  AllowedFiles(NoFiles, L) /\ AllowedFiles(ArchiveFiles, L)
<1>1. <<>> \in Seq(Piece) /\ Pieces(<<>>) = {}
  BY DEF Pieces
<1>2. <<ArchiveBody>> \in Seq(Piece) /\ Pieces(<<ArchiveBody>>) = {ArchiveBody}
  <2>1. ArchiveBody \in Piece
    BY DEF Piece
  <2>2. <<ArchiveBody>> \in Seq(Piece) /\ DOMAIN <<ArchiveBody>> = {1}
        /\ <<ArchiveBody>>[1] = ArchiveBody
    BY <2>1
  <2> QED
    BY <2>2 DEF Pieces
<1>3. NoFiles \in Contents /\ ArchiveFiles \in Contents
  BY <1>1, <1>2 DEF NoFiles, ArchiveFiles, Contents
<1>4. \A p \in Path : Pieces(NoFiles[p]) \subseteq Allowed(L, p)
  BY <1>1 DEF NoFiles
<1>5. \A p \in Path : Pieces(ArchiveFiles[p]) \subseteq Allowed(L, p)
  <2> SUFFICES ASSUME NEW p \in Path, NEW x \in Pieces(ArchiveFiles[p])
               PROVE  x \in Allowed(L, p)
    OBVIOUS
  <2>1. p \in Archive /\ x = ArchiveBody
    BY <1>1, <1>2 DEF ArchiveFiles
  <2> QED
    BY <2>1, AllowedIff
<1> QED
  BY <1>3, <1>4, <1>5 DEF AllowedFiles

LEMMA IdleFits ==
    ASSUME NEW L \in Seq(Transition), NEW R, NEW k \in Nat
    PROVE  Idle \in HandlerState /\ HandlerFits(Idle, L, R, k)
<1>1. AllowedFiles(NoFiles, L)
  BY ArchiveAllowed
<1>2. Idle \in HandlerState
  BY <1>1 DEF Idle, HandlerState, Steps, AllowedFiles
<1>3. Len(L) \in Nat
  OBVIOUS
<1> QED
  BY <1>1, <1>2, <1>3 DEF HandlerFits, Idle

-----------------------------------------------------------------------------
\* The ledger only grows, and receipts and effects are places of it.

USE DEF At, Goto, Return, The

LEMMA HandlerAt ==
    ASSUME Inv, NEW h \in Handler
    PROVE  /\ handler[h] \in HandlerState
           /\ HandlerFits(handler[h], ledger, receipts, Len(objects))
           /\ handler \in [Handler -> HandlerState]
  BY DEF Inv, HandlersInv

LEMMA TransitionTyped ==
    ASSUME NEW x \in HandlerState, x.op \in Changes
    PROVE  [action |-> ActionOf(x.op), path |-> x.path, content |-> x.content,
            blob |-> x.blob, files |-> x.files] \in Transition
<1>1. ActionOf(x.op) \in Actions
  BY DEF ActionOf, Actions, Changes, Makes
<1> QED
  BY <1>1 DEF HandlerState, Transition

\* The transition of a handler that has one (Accept).
NewTransition(h) ==
    [action |-> ActionOf(handler[h].op), path |-> handler[h].path,
     content |-> handler[h].content, blob |-> handler[h].blob,
     files |-> handler[h].files]

LEMMA AcceptStep ==
    ASSUME Inv, NEW h \in Handler, Accept(h)
    PROVE  /\ NewTransition(h) \in Transition
           /\ ledger' = Append(ledger, NewTransition(h))
           /\ ledger' \in Seq(Transition) /\ Len(ledger') = Len(ledger) + 1
           /\ Len(ledger) \in Nat /\ ledger'[Len(ledger) + 1] = NewTransition(h)
           /\ Continues(ledger, ledger')
<1>1. ledger \in Seq(Transition)
  BY DEF Inv, LedgerInv
<1>2. NewTransition(h) \in Transition
  BY HandlerAt, TransitionTyped DEF Accept, HandlerFits, NewTransition
<1>3. ledger' = Append(ledger, NewTransition(h))
  BY DEF Accept, NewTransition
<1>4. \A n \in 1..Len(ledger) : ledger'[n] = ledger[n]
  BY <1>1, <1>2, <1>3
<1> QED
  BY <1>1, <1>2, <1>3, <1>4 DEF Continues

\* What a step does to the ledger.
LEMMA LedgerStep ==
    Inv /\ [Next]_vars =>
        /\ LedgerInv'
        /\ Continues(ledger, ledger') /\ receipts \subseteq receipts'
        /\ receipts \subseteq DOMAIN ledger
<1> SUFFICES ASSUME Inv, [Next]_vars
             PROVE  /\ LedgerInv'
                    /\ Continues(ledger, ledger') /\ receipts \subseteq receipts'
                    /\ receipts \subseteq DOMAIN ledger
  OBVIOUS
<1>0. LedgerInv /\ receipts \subseteq DOMAIN ledger
  BY DEF Inv, LedgerInv
<1>1. CASE UNCHANGED <<ledger, receipts, effects>>
  BY <1>0, <1>1 DEF LedgerInv, Continues
<1>2. ASSUME NEW h \in Handler, Accept(h)
      PROVE  LedgerInv' /\ Continues(ledger, ledger') /\ receipts \subseteq receipts'
  <2>1. UNCHANGED <<receipts, effects>> /\ Len(ledger) < MaxLedger
    BY <1>2 DEF Accept
  <2> QED
    BY <1>0, <1>2, <2>1, AcceptStep, BoundsAssumption DEF LedgerInv
<1>3. ASSUME NEW h \in Handler, handler[h].at \in DOMAIN ledger, ledger' = ledger,
             receipts' \in {receipts, receipts \cup {handler[h].at}},
             effects' \in {effects, effects \cup {handler[h].at}}
      PROVE  LedgerInv' /\ Continues(ledger, ledger') /\ receipts \subseteq receipts'
  BY <1>0, <1>3 DEF LedgerInv, Continues
<1>4. ASSUME NEW h \in Handler, handler[h].step \in {"accepted", "receipted"}
      PROVE  handler[h].at \in DOMAIN ledger
  BY <1>4, HandlerAt DEF HandlerFits, Owns
<1>5. ASSUME NEW h \in Handler,
             \/ SaveReceipt(h) \/ Apply(h) \/ Decide(h) \/ Note(h) \/ Materialize(h)
             \/ ProposeBaseline(h) \/ Expose(h)
      PROVE  LedgerInv' /\ Continues(ledger, ledger') /\ receipts \subseteq receipts'
  <2>1. /\ handler[h].step \in {"accepted", "receipted"}
        /\ ledger' = ledger
        /\ receipts' \in {receipts, receipts \cup {handler[h].at}}
        /\ effects' \in {effects, effects \cup {handler[h].at}}
    <3>1. CASE SaveReceipt(h)
      BY <3>1 DEF SaveReceipt
    <3>2. CASE Apply(h)
      BY <3>2 DEF Apply, acceptedVars
    <3>3. CASE Decide(h)
      BY <3>3 DEF Decide, acceptedVars
    <3>4. CASE Note(h)
      BY <3>4 DEF Note, acceptedVars
    <3>5. CASE Materialize(h)
      BY <3>5 DEF Materialize, acceptedVars
    <3>6. CASE ProposeBaseline(h)
      BY <3>6 DEF ProposeBaseline, acceptedVars
    <3>7. CASE Expose(h)
      BY <3>7 DEF Expose, acceptedVars
    <3> QED
      BY <1>5, <3>1, <3>2, <3>3, <3>4, <3>5, <3>6, <3>7
  <2> QED
    BY <1>3, <1>4, <2>1
<1>6. ASSUME NEW h \in Handler,
             \/ Get(h) \/ Prepare(h) \/ TurnDown(h) \/ ImportZip(h)
             \/ ImportEnvelope(h) \/ Refuse(h) \/ ReceiptFails(h) \/ UpdateStatus(h)
             \/ AddItems(h) \/ ListItems(h) \/ Ingest(h) \/ ListEvents(h)
             \/ Project(h) \/ WriteSnapshot(h)
      PROVE  UNCHANGED <<ledger, receipts, effects>>
  BY <1>6 DEF Get, Prepare, TurnDown, ImportZip, ImportEnvelope, Refuse,
     ReceiptFails, UpdateStatus, AddItems, ListItems, Ingest, ListEvents, Project,
     WriteSnapshot, acceptedVars
<1>7. Export \/ Edit \/ Restart \/ UNCHANGED vars => UNCHANGED <<ledger, receipts, effects>>
  BY DEF Export, Edit, Restart, vars, acceptedVars
<1> QED
  BY <1>0, <1>1, <1>2, <1>5, <1>6, <1>7 DEF Next

-----------------------------------------------------------------------------
\* Workspaces.

LEMMA StoreStays ==
    ASSUME Inv, [Next]_vars, UNCHANGED storeVars
    PROVE  ObjectsInv'
<1>1. ASSUME NEW k \in DOMAIN objects PROVE ObjectFits(objects[k], ledger', receipts')
  BY LedgerStep, ObjectStays DEF Inv, ObjectsInv
<1> QED
  BY <1>1 DEF Inv, ObjectsInv, storeVars

LEMMA StoreChanged ==
    ASSUME Inv, [Next]_vars, NEW k \in DOMAIN objects, NEW o,
           ObjectFits(o, ledger', receipts'),
           objects' = [objects EXCEPT ![k] = o], store' = store
    PROVE  ObjectsInv'
<1>1. ASSUME NEW j \in DOMAIN objects PROVE ObjectFits(objects[j], ledger', receipts')
  BY LedgerStep, ObjectStays DEF Inv, ObjectsInv
<1>2. /\ objects' \in Seq(Object) /\ Len(objects') = Len(objects)
      /\ \A j \in DOMAIN objects : objects'[j] = IF j = k THEN o ELSE objects[j]
      /\ DOMAIN objects' = DOMAIN objects
  BY DEF Inv, ObjectsInv, ObjectFits
<1> QED
  BY <1>1, <1>2 DEF Inv, ObjectsInv

LEMMA StoreAdded ==
    ASSUME Inv, [Next]_vars, NEW o, ObjectFits(o, ledger', receipts'),
           objects' = Append(objects, o), store' = Len(objects) + 1
    PROVE  ObjectsInv'
<1>1. ASSUME NEW j \in DOMAIN objects PROVE ObjectFits(objects[j], ledger', receipts')
  BY LedgerStep, ObjectStays DEF Inv, ObjectsInv
<1>2. /\ objects' \in Seq(Object) /\ Len(objects') = Len(objects) + 1
      /\ Len(objects) \in Nat /\ DOMAIN objects' = DOMAIN objects \cup {Len(objects) + 1}
      /\ \A j \in DOMAIN objects : objects'[j] = objects[j]
      /\ objects'[Len(objects) + 1] = o
  BY DEF Inv, ObjectsInv, ObjectFits
<1> QED
  BY <1>1, <1>2 DEF Inv, ObjectsInv

\* The workspace of a handler that has one.
LEMMA ObjectAt ==
    ASSUME Inv, NEW h \in Handler, handler[h].object # 0
    PROVE  /\ handler[h].object \in DOMAIN objects
           /\ ObjectFits(The(h), ledger, receipts)
<1>1. handler[h].object \in DOMAIN objects
  BY HandlerAt DEF HandlerFits, Inv, ObjectsInv
<1> QED
  BY <1>1 DEF Inv, ObjectsInv

\* A piece that is allowed, alone or after what is there, is an allowed file.
LEMMA PiecePut ==
    ASSUME NEW L, NEW f, AllowedFiles(f, L), NEW p \in Path, NEW x \in Piece,
           x \in Allowed(L, p), NEW c, c \in {<<x>>, f[p] \o <<x>>}
    PROVE  AllowedFiles([f EXCEPT ![p] = c], L)
<1>0. f \in [Path -> Seq(Piece)] /\ f[p] \in Seq(Piece) /\ Pieces(f[p]) \subseteq Allowed(L, p)
  BY DEF AllowedFiles, Contents
<1>1. c \in Seq(Piece) /\ Pieces(c) \subseteq Allowed(L, p)
  <2>1. CASE c = <<x>>
    <3>1. <<x>> \in Seq(Piece) /\ DOMAIN <<x>> = {1} /\ <<x>>[1] = x
      OBVIOUS
    <3> QED
      BY <2>1, <3>1 DEF Pieces
  <2>2. CASE c = f[p] \o <<x>>
    <3>1. c = Append(f[p], x)
      BY <1>0, <2>2
    <3>2. c \in Seq(Piece) /\ DOMAIN c = DOMAIN f[p] \cup {Len(f[p]) + 1}
      BY <1>0, <3>1
    <3>3. c[Len(f[p]) + 1] = x /\ \A n \in DOMAIN f[p] : c[n] = f[p][n]
      BY <1>0, <3>1
    <3>4. \A n \in DOMAIN f[p] : f[p][n] \in Allowed(L, p)
      BY <1>0 DEF Pieces
    <3> QED
      BY <3>2, <3>3, <3>4 DEF Pieces
  <2> QED
    BY <2>1, <2>2
<1>2. [f EXCEPT ![p] = c] \in Contents
  BY <1>0, <1>1 DEF Contents
<1>3. \A q \in Path : Pieces([f EXCEPT ![p] = c][q]) \subseteq Allowed(L, q)
  BY <1>0, <1>1 DEF AllowedFiles
<1> QED
  BY <1>2, <1>3 DEF AllowedFiles

\* Content, blob and decision of a transition of one's own.
LEMMA OwnAllowed ==
    ASSUME NEW L \in Seq(Transition), NEW x \in HandlerState, Owns(x, L)
    PROVE  /\ x.op = "admit" => x.blob \in Allowed(L, x.path)
           /\ \A n \in DOMAIN x.content : x.content[n] \in Allowed(L, x.path)
           /\ x.op = "admit" => DecidedBy(L, x.blob, {"admitted"})
           /\ x.op = "reject" => DecidedBy(L, x.blob, {"rejected"})
<1>1. /\ x.at \in DOMAIN L /\ L[x.at].path = x.path /\ L[x.at].content = x.content
      /\ L[x.at].blob = x.blob
      /\ x.op = "admit" => L[x.at].action = "admitted"
      /\ x.op = "reject" => L[x.at].action = "rejected"
  BY DEF Owns, ActionOf
<1>2. \A n \in DOMAIN x.content : x.content[n] \in Pieces(L[x.at].content)
  BY <1>1 DEF Pieces
<1> QED
  BY <1>1, <1>2, AllowedIff DEF DecidedBy

LEMMA ApplyFits ==
    ASSUME Inv, NEW h \in Handler, Apply(h)
    PROVE  ObjectsInv'
<1> DEFINE x == handler[h]
           o == The(h)
<1>0. /\ x \in HandlerState /\ x.op \in {"update", "append"} /\ x.step = "receipted"
      /\ HandlerFits(x, ledger, receipts, Len(objects))
      /\ ledger \in Seq(Transition)
  BY HandlerAt DEF Apply, Inv, LedgerInv
<1>1. x.object \in DOMAIN objects /\ ObjectFits(o, ledger, receipts)
  <2>1. x.object # 0
    BY <1>0 DEF HandlerFits, Makes
  <2> QED
    BY <2>1, ObjectAt
<1>2. /\ x.path \in Path /\ x.content # <<>> /\ Owns(x, ledger)
      /\ x.content \in Seq(Piece)
  BY <1>0 DEF HandlerFits, HandlerState
<1> DEFINE body == x.content[Len(x.content)]
           c == IF x.op = "append" THEN o.files[x.path] \o <<body>> ELSE <<body>>
           f == [o.files EXCEPT ![x.path] = c]
<1>3. Len(x.content) \in DOMAIN x.content /\ body \in Piece
  BY <1>2
<1>4. body \in Allowed(ledger, x.path)
  BY <1>0, <1>2, <1>3, OwnAllowed
<1>5. AllowedFiles(o.files, ledger) /\ o \in Object
  BY <1>1 DEF ObjectFits
<1>6. c \in {<<body>>, o.files[x.path] \o <<body>>}
  OBVIOUS
<1>7. AllowedFiles(f, ledger)
  <2> HIDE DEF x, o, body, c
  <2> QED
    BY <1>2, <1>3, <1>4, <1>5, <1>6, PiecePut DEF f
<1>8. Changed(h) = [o EXCEPT !.files = f]
  <2>1. Changed(h) = [o EXCEPT !.files[x.path] =
                        IF x.op = "append" THEN @ \o <<body>> ELSE <<body>>]
    BY DEF Changed
  <2> QED
    BY <1>5, <2>1 DEF Object
<1>9. ObjectFits([o EXCEPT !.files = f], ledger, receipts)
  <2> HIDE DEF f, o
  <2> QED
    BY <1>1, <1>5, <1>7 DEF ObjectFits, Object, AllowedFiles
<1>10. UNCHANGED <<ledger, receipts, store>> /\ Next
  BY DEF Apply, acceptedVars, Next
<1>11. objects' = [objects EXCEPT ![x.object] = Changed(h)]
  BY DEF Apply
<1> QED
  <2> HIDE DEF f, o, x
  <2> QED
    BY <1>1, <1>8, <1>9, <1>10, <1>11, StoreChanged

LEMMA DecideFits ==
    ASSUME Inv, NEW h \in Handler, Decide(h)
    PROVE  ObjectsInv'
<1> DEFINE x == handler[h]
           o == The(h)
           f == IF x.op = "admit" THEN [o.files EXCEPT ![x.path] = <<x.blob>>] ELSE o.files
           s == IF x.synced = o.synced THEN [o.blobs EXCEPT ![x.blob] = Verdict(h)]
                ELSE o.blobs
<1>0. /\ x \in HandlerState /\ x.op \in {"admit", "reject"} /\ x.step = "receipted"
      /\ HandlerFits(x, ledger, receipts, Len(objects))
      /\ ledger \in Seq(Transition)
  BY HandlerAt DEF Decide, Inv, LedgerInv
<1>1. x.object \in DOMAIN objects /\ ObjectFits(o, ledger, receipts)
  <2>1. x.object # 0
    BY <1>0 DEF HandlerFits, Makes
  <2> QED
    BY <2>1, ObjectAt
<1>2. /\ x.op = "admit" => x.path \in Path
      /\ x.blob \in Blob /\ x.blob \in Piece /\ Owns(x, ledger)
  BY <1>0 DEF HandlerFits, Piece
<1>3. AllowedFiles(o.files, ledger) /\ StatusesFit(o.blobs, ledger) /\ o \in Object
  BY <1>1 DEF ObjectFits
<1>4. AllowedFiles(f, ledger)
  <2>1. CASE x.op = "admit"
    <3>1. x.blob \in Allowed(ledger, x.path)
      BY <1>0, <1>2, <2>1, OwnAllowed
    <3> HIDE DEF x, o
    <3> QED
      BY <1>2, <1>3, <2>1, <3>1, PiecePut
  <2>2. CASE x.op # "admit"
    BY <1>3, <2>2
  <2> QED
    BY <2>1, <2>2
<1>5. StatusesFit(s, ledger)
  <2>1. /\ x.op = "admit" => Verdict(h) = "approved" /\ DecidedBy(ledger, x.blob, {"admitted"})
        /\ x.op = "reject" => Verdict(h) = "rejected" /\ DecidedBy(ledger, x.blob, {"rejected"})
    BY <1>0, <1>2, OwnAllowed DEF Verdict
  <2>2. CASE x.synced = o.synced
    <3> DEFINE v == Verdict(h)
    <3>1. v \in Statuses
      BY <1>0, <2>1 DEF Statuses
    <3>2. s = [o.blobs EXCEPT ![x.blob] = v]
      BY <2>2
    <3>3. (v = "approved" => x.op = "admit") /\ (v = "rejected" => x.op = "reject")
      BY <1>0, <2>1
    <3> HIDE DEF x, o, s, v
    <3> QED
      BY <1>2, <1>3, <2>1, <3>1, <3>2, <3>3 DEF StatusesFit
  <2>3. CASE x.synced # o.synced
    BY <1>3, <2>3
  <2> QED
    BY <2>2, <2>3
<1>6. Decided(h) = [o EXCEPT !.files = f, !.blobs = s]
  BY <1>3 DEF Decided, Object
<1>7. ObjectFits([o EXCEPT !.files = f, !.blobs = s], ledger, receipts)
  <2> HIDE DEF f, o, s
  <2> QED
    BY <1>1, <1>3, <1>4, <1>5 DEF ObjectFits, Object, AllowedFiles, StatusesFit
<1>8. UNCHANGED <<ledger, receipts, store>> /\ Next
  BY DEF Decide, acceptedVars, Next
<1>9. objects' = [objects EXCEPT ![x.object] = Decided(h)]
  BY DEF Decide
<1> QED
  <2> HIDE DEF f, o, x, s
  <2> QED
    BY <1>1, <1>6, <1>7, <1>8, <1>9, StoreChanged

\* The decision or the binding a workspace shows is the handler's own
\* transition.
LEMMA NoteFits ==
    ASSUME Inv, NEW h \in Handler, Note(h) \/ UpdateStatus(h)
    PROVE  ObjectsInv'
<1> DEFINE x == handler[h]
           o == The(h)
<1>0. /\ x \in HandlerState /\ HandlerFits(x, ledger, receipts, Len(objects))
      /\ x.step \in {"receipted", "decided"} /\ x.op \in {"bind", "decide", "admit", "reject"}
      /\ ledger \in Seq(Transition) /\ Len(ledger) <= MaxLedger
  BY HandlerAt DEF Note, UpdateStatus, Inv, LedgerInv, HandlerFits
<1>1. x.object \in DOMAIN objects /\ ObjectFits(o, ledger, receipts)
  <2>1. x.object # 0
    BY <1>0 DEF HandlerFits, Makes
  <2> QED
    BY <2>1, ObjectAt
<1>2. /\ x.at \in receipts /\ x.at \in 0..MaxLedger /\ Owns(x, ledger)
      /\ x.op # "bind" => x.blob \in Blob
  BY <1>0, BoundsAssumption DEF HandlerFits, Owns
<1>3. /\ x.op = "bind" => ledger[x.at].action = "bound"
      /\ x.op # "bind" => /\ ledger[x.at].action \in {"admitted", "rejected", "decided"}
                          /\ ledger[x.at].blob = x.blob
  BY <1>0, <1>2 DEF Owns, ActionOf
<1>4. UNCHANGED <<ledger, receipts, store>> /\ Next
  BY DEF Note, UpdateStatus, acceptedVars, Next
<1>5. o \in Object
  BY <1>1 DEF ObjectFits
<1>6. CASE x.op = "bind"
  <2> DEFINE new == [o EXCEPT !.binding = x.at]
  <2>1. ~UpdateStatus(h)
    BY <1>6, HandlerAt DEF UpdateStatus, HandlerFits
  <2>2. objects' = [objects EXCEPT ![x.object] = new]
    BY <1>6, <2>1 DEF Note
  <2>3. ObjectFits(new, ledger, receipts)
    <3> HIDE DEF o, x
    <3> QED
      BY <1>1, <1>2, <1>3, <1>5, <1>6 DEF ObjectFits, Object, BackedBy
  <2> HIDE DEF new, o, x
  <2> QED
    BY <1>1, <1>4, <2>2, <2>3, StoreChanged
<1>7. CASE x.op # "bind"
  <2> DEFINE d == [o.decisions EXCEPT ![x.blob] = x.at]
             new == [o EXCEPT !.decisions = d]
  <2>1. objects' = [objects EXCEPT ![x.object].decisions[x.blob] = x.at]
    BY <1>7 DEF Note, UpdateStatus
  <2>2. objects' = [objects EXCEPT ![x.object] = new]
    BY <1>1, <2>1
  <2>3. o.decisions \in [Blob -> 0..MaxLedger]
    BY <1>5 DEF Object
  <2>4. /\ d \in [Blob -> 0..MaxLedger]
        /\ \A b \in Blob : d[b] = IF b = x.blob THEN x.at ELSE o.decisions[b]
    <3> HIDE DEF o, x
    <3> QED
      BY <1>2, <1>7, <2>3
  <2>5. ObjectFits(new, ledger, receipts)
    <3> HIDE DEF o, x, d
    <3> QED
      BY <1>1, <1>2, <1>3, <1>5, <1>7, <2>4 DEF ObjectFits, Object, BackedBy
  <2> HIDE DEF new, o, x
  <2> QED
    BY <1>1, <1>4, <2>2, <2>5, StoreChanged
<1> QED
  BY <1>6, <1>7

LEMMA ListFits ==
    ASSUME Inv, NEW h \in Handler, ListItems(h)
    PROVE  ObjectsInv'
<1> DEFINE x == handler[h]
           o == The(h)
<1>1. x.object \in DOMAIN objects /\ ObjectFits(o, ledger, receipts)
  <2>1. x.object # 0
    BY HandlerAt DEF HandlerFits, ListItems
  <2> QED
    BY <2>1, ObjectAt
<1>2. StatusesFit(quarantine, ledger)
  BY DEF Inv, ItemsInv
<1>3. Listed(h) = [o EXCEPT !.blobs = quarantine, !.synced = TRUE]
  BY DEF Listed
<1>4. ObjectFits([o EXCEPT !.blobs = quarantine, !.synced = TRUE], ledger, receipts)
  <2> HIDE DEF o
  <2> QED
    BY <1>1, <1>2 DEF ObjectFits, Object, StatusesFit
<1>5. UNCHANGED <<ledger, receipts, store>> /\ Next
  BY DEF ListItems, acceptedVars, Next
<1>6. objects' = [objects EXCEPT ![x.object] = Listed(h)]
  BY DEF ListItems
<1> QED
  <2> HIDE DEF o, x
  <2> QED
    BY <1>1, <1>3, <1>4, <1>5, <1>6, StoreChanged

LEMMA ImportedFits ==
    ASSUME NEW L, NEW R, NEW f, AllowedFiles(f, L), NEW zip \in BOOLEAN
    PROVE  ObjectFits(Imported(f, zip), L, R)
<1>1. Imported(f, zip) \in Object
  BY BoundsAssumption DEF Imported, Object, AllowedFiles, Statuses
<1> QED
  BY <1>1 DEF ObjectFits, Imported, StatusesFit, Statuses

LEMMA AddedFits ==
    ASSUME Inv, NEW h \in Handler, Expose(h) \/ Ingest(h)
    PROVE  ObjectsInv'
<1>0. UNCHANGED <<ledger, receipts>> /\ Next /\ store' = Len(objects) + 1
  BY DEF Expose, Ingest, acceptedVars, Next
<1>1. CASE Expose(h)
  <2>1. AllowedFiles(handler[h].files, ledger) /\ handler[h].zip \in BOOLEAN
    BY <1>1, HandlerAt DEF Expose, HandlerFits, HandlerState
  <2>2. objects' = Append(objects, Imported(handler[h].files, handler[h].zip))
    BY <1>1 DEF Expose
  <2> QED
    BY <1>0, <2>1, <2>2, ImportedFits, StoreAdded
<1>2. CASE Ingest(h)
  <2>1. AllowedFiles(ArchiveFiles, ledger)
    BY ArchiveAllowed
  <2>2. objects' = Append(objects, Imported(ArchiveFiles, TRUE))
    BY <1>2 DEF Ingest
  <2> QED
    BY <1>0, <2>1, <2>2, ImportedFits, StoreAdded
<1> QED
  BY <1>1, <1>2

\* No step puts into a workspace what the ledger does not allow (all actions).
LEMMA ObjectsStep == Inv /\ [Next]_vars => ObjectsInv'
<1> SUFFICES ASSUME Inv, [Next]_vars PROVE ObjectsInv'
  OBVIOUS
<1>1. CASE UNCHANGED storeVars
  BY <1>1, StoreStays
<1>2. CASE Restart
  BY <1>2 DEF Restart, ObjectsInv
<1>3. ASSUME NEW h \in Handler,
             \/ Get(h) \/ Prepare(h) \/ TurnDown(h) \/ ImportZip(h)
             \/ ImportEnvelope(h) \/ Accept(h) \/ Refuse(h) \/ SaveReceipt(h)
             \/ ReceiptFails(h) \/ Materialize(h) \/ ProposeBaseline(h)
             \/ AddItems(h) \/ ListEvents(h) \/ Project(h) \/ WriteSnapshot(h)
      PROVE  UNCHANGED storeVars
  BY <1>3 DEF Get, Prepare, TurnDown, ImportZip, ImportEnvelope, Accept, Refuse,
     SaveReceipt, ReceiptFails, Materialize, ProposeBaseline, AddItems, ListEvents,
     Project, WriteSnapshot
<1>4. Export \/ Edit \/ UNCHANGED vars => UNCHANGED storeVars
  BY DEF Export, Edit, vars
<1> QED
  BY <1>1, <1>2, <1>3, <1>4, ApplyFits, DecideFits, NoteFits, ListFits, AddedFits
     DEF Next

-----------------------------------------------------------------------------
\* Items, and what clients and the disk have.

LEMMA StatusPut ==
    ASSUME NEW L, NEW s, StatusesFit(s, L), NEW b \in Blob, NEW v \in Statuses,
           v = "approved" => DecidedBy(L, b, {"admitted"}),
           v = "rejected" => DecidedBy(L, b, {"rejected"})
    PROVE  StatusesFit([s EXCEPT ![b] = v], L)
  BY DEF StatusesFit

\* A decision is in the quarantine, in memory or on disk, only once it has been
\* accepted (all actions).
LEMMA ItemsStep == Inv /\ [Next]_vars => ItemsInv'
<1> SUFFICES ASSUME Inv, [Next]_vars PROVE ItemsInv'
  OBVIOUS
<1>0. ItemsInv /\ Continues(ledger, ledger')
  BY LedgerStep DEF Inv
<1>1. CASE UNCHANGED quarantineVars
  BY <1>0, <1>1, StatusesStay DEF ItemsInv, quarantineVars
<1>2. CASE Restart
  <2>1. StatusesFit(files, ledger')
    BY <1>0, StatusesStay DEF ItemsInv
  <2> QED
    BY <1>2, <2>1 DEF ItemsInv, Restart
<1>3. ASSUME NEW h \in Handler, UpdateStatus(h) PROVE ItemsInv'
  <2> DEFINE b == handler[h].blob
             v == Verdict(h)
  <2>0. UNCHANGED ledger
    BY <1>3 DEF UpdateStatus, acceptedVars
  <2>1. /\ handler[h] \in HandlerState /\ handler[h].op \in {"admit", "reject"}
        /\ b \in Blob /\ Owns(handler[h], ledger) /\ ledger \in Seq(Transition)
    BY <1>3, HandlerAt DEF UpdateStatus, HandlerFits, Inv, LedgerInv
  <2>2. /\ v = "approved" => DecidedBy(ledger, b, {"admitted"})
        /\ v = "rejected" => DecidedBy(ledger, b, {"rejected"})
        /\ v \in Statuses
    <3>1. /\ handler[h].op = "admit" => v = "approved" /\ DecidedBy(ledger, b, {"admitted"})
          /\ handler[h].op = "reject" => v = "rejected" /\ DecidedBy(ledger, b, {"rejected"})
      BY <2>1, OwnAllowed DEF Verdict
    <3> QED
      BY <2>1, <3>1 DEF Statuses
  <2>3. /\ StatusesFit([quarantine EXCEPT ![b] = v], ledger)
        /\ StatusesFit([files EXCEPT ![b] = v], ledger)
    BY <1>0, <2>1, <2>2, StatusPut DEF ItemsInv
  <2>4. StatusesFit([files EXCEPT ![b] = "absent"], ledger)
    BY <1>0, <2>1, StatusPut DEF ItemsInv, Statuses
  <2>5. /\ quarantine' \in {quarantine, [quarantine EXCEPT ![b] = v]}
        /\ files' \in {files, [files EXCEPT ![b] = v], [files EXCEPT ![b] = "absent"]}
    BY <1>3 DEF UpdateStatus, Persisted, Spoilt, quarantineVars
  <2> QED
    BY <1>0, <2>0, <2>3, <2>4, <2>5 DEF ItemsInv
<1>4. ASSUME NEW h \in Handler, AddItems(h) PROVE ItemsInv'
  <2>0. UNCHANGED ledger
    BY <1>4 DEF AddItems, acceptedVars
  <2>1. handler[h].object # 0
    BY <1>4, HandlerAt DEF HandlerFits, AddItems
  <2> DEFINE new == The(h).blobs
  <2>2. StatusesFit(new, ledger)
    BY <2>1, ObjectAt DEF ObjectFits
  <2>3. PICK kept \in SUBSET Blob, bad \in SUBSET Blob :
          /\ quarantine' = [b \in Blob |-> IF b \in kept THEN new[b] ELSE quarantine[b]]
          /\ files' = [b \in Blob |-> IF b \in kept THEN new[b]
                         ELSE IF b \in bad THEN "absent" ELSE files[b]]
    <3> DEFINE missing == {b \in Blob : quarantine[b] = "absent"}
    <3>1. PICK bad \in SUBSET missing :
            /\ quarantine' = [b \in Blob |-> IF b \in missing \ bad
                                THEN The(h).blobs[b] ELSE quarantine[b]]
            /\ files' = [b \in Blob |-> IF b \in missing \ bad THEN The(h).blobs[b]
                           ELSE IF b \in bad THEN "absent" ELSE files[b]]
      BY <1>4 DEF AddItems
    <3>2. missing \ bad \in SUBSET Blob /\ bad \in SUBSET Blob
      OBVIOUS
    <3> HIDE DEF missing
    <3> QED
      BY <3>1, <3>2
  <2> HIDE DEF new
  <2> QED
    BY <1>0, <2>0, <2>2, <2>3 DEF ItemsInv, StatusesFit, Statuses
<1>5. ASSUME NEW h \in Handler,
             \/ Get(h) \/ Prepare(h) \/ TurnDown(h) \/ ImportZip(h)
             \/ ImportEnvelope(h) \/ Accept(h) \/ Refuse(h) \/ SaveReceipt(h)
             \/ ReceiptFails(h) \/ Apply(h) \/ Decide(h) \/ Note(h) \/ Materialize(h)
             \/ ProposeBaseline(h) \/ Expose(h) \/ ListItems(h) \/ Ingest(h)
             \/ ListEvents(h) \/ Project(h) \/ WriteSnapshot(h)
      PROVE  UNCHANGED quarantineVars
  BY <1>5 DEF Get, Prepare, TurnDown, ImportZip, ImportEnvelope, Accept, Refuse,
     SaveReceipt, ReceiptFails, Apply, Decide, Note, Materialize, ProposeBaseline,
     Expose, ListItems, Ingest, ListEvents, Project, WriteSnapshot
<1>6. Export \/ Edit \/ UNCHANGED vars => UNCHANGED quarantineVars
  BY DEF Export, Edit, vars
<1> QED
  BY <1>1, <1>2, <1>3, <1>4, <1>5, <1>6 DEF Next

-----------------------------------------------------------------------------
\* Envelopes.

LEMMA SetToSeqTyped ==
    ASSUME NEW S, IsFiniteSet(S)
    PROVE  SetToSeq(S) \in Seq(S)
<1>1. Cardinality(S) \in Nat /\ ExistsBijection(1..Cardinality(S), S)
  BY FS_CardinalityType
<1>2. PICK f : f \in Bijection(1..Cardinality(S), S)
  BY <1>1 DEF ExistsBijection
<1>3. f \in [1..Cardinality(S) -> S] /\ IsInjective(f)
  BY <1>2 DEF Bijection, Injection
<1>4. SetToSeq(S) \in [1..Cardinality(S) -> S]
  BY <1>3 DEF SetToSeq
<1> QED
  BY <1>1, <1>4, SeqDef

\* The envelope of a workspace's files.
LEMMA ToEnvelopeTyped ==
    ASSUME NEW f \in Contents, NEW n
    PROVE  /\ ToEnvelope(FilesOf(f), n) =
                [tree |-> ToEnvelope(FilesOf(f), n).tree,
                 manifest |-> ToEnvelope(FilesOf(f), n).manifest,
                 count |-> ToEnvelope(FilesOf(f), n).count]
           /\ ToEnvelope(FilesOf(f), n).tree \in Seq(EntryType)
<1> DEFINE S == Present(f)
           g == FilesOf(f)
           paths == SetToSeq(S)
           tree == [i \in DOMAIN paths |-> Entry(paths[i], g[paths[i]])]
<1>1. S \subseteq Path /\ DOMAIN g = S /\ \A p \in S : g[p] \in Seq(Piece)
  BY DEF Present, FilesOf, Contents
<1>2. IsFiniteSet(S)
  BY <1>1, PathsAssumption, FS_Subset
<1>3. paths \in Seq(S)
  BY <1>2, SetToSeqTyped
<1>4. DOMAIN paths = 1..Len(paths) /\ Len(paths) \in Nat /\ \A i \in DOMAIN paths : paths[i] \in S
  <2> HIDE DEF paths, S
  <2> QED
    BY <1>3
<1>5. \A i \in DOMAIN paths : Entry(paths[i], g[paths[i]]) \in EntryType
  <2> SUFFICES ASSUME NEW i \in DOMAIN paths
               PROVE  Entry(paths[i], g[paths[i]]) \in EntryType
    OBVIOUS
  <2>1. paths[i] \in Path /\ g[paths[i]] \in Seq(Piece)
    BY <1>1, <1>4
  <2> HIDE DEF paths, g
  <2> QED
    BY <2>1 DEF Entry, EntryType
<1>6. tree \in Seq(EntryType)
  <2> HIDE DEF paths, g
  <2> QED
    BY <1>4, <1>5
<1>7. ToEnvelope(g, n) =
        [tree |-> tree,
         manifest |-> [i \in DOMAIN paths |-> Listing(paths[i], g[paths[i]])],
         count |-> n]
  BY <1>1 DEF ToEnvelope
<1> QED
  <2> HIDE DEF tree, paths, g
  <2>1. /\ ToEnvelope(g, n) =
             [tree |-> ToEnvelope(g, n).tree, manifest |-> ToEnvelope(g, n).manifest,
              count |-> ToEnvelope(g, n).count]
        /\ ToEnvelope(g, n).tree = tree
    BY <1>7
  <2> QED
    BY <1>6, <2>1 DEF g

LEMMA EditsTyped ==
    ASSUME NEW env, env = [tree |-> env.tree, manifest |-> env.manifest,
                           count |-> env.count],
           env.tree \in Seq(EntryType),
           NEW new \in Edits(env, {<<b>> : b \in Body}, Editable)
    PROVE  /\ new = [tree |-> new.tree, manifest |-> new.manifest, count |-> new.count]
           /\ new.tree \in Seq(EntryType)
<1> DEFINE T == env.tree
           nodes == {i \in DOMAIN env.tree : env.tree[i].path \in Editable}
           ok(e) == /\ e = [tree |-> e.tree, manifest |-> e.manifest, count |-> e.count]
                    /\ e.tree \in Seq(EntryType)
<1>0. \A i \in DOMAIN T : T[i] \in EntryType
  OBVIOUS
<1>1. ASSUME NEW i \in nodes, NEW d \in {<<b>> : b \in Body}, new = [env EXCEPT !.tree[i].data = d]
      PROVE  ok(new)
  <2>1. d \in Seq(Piece)
    <3>1. PICK b \in Body : d = <<b>>
      BY <1>1
    <3>2. b \in Piece
      BY DEF Piece
    <3> QED
      BY <3>1, <3>2
  <2>2. [T[i] EXCEPT !.data = d] \in EntryType
    BY <1>0, <1>1, <2>1 DEF EntryType
  <2>3. [T EXCEPT ![i] = [T[i] EXCEPT !.data = d]] \in Seq(EntryType)
    BY <1>1, <2>2
  <2>4. new = [tree |-> [T EXCEPT ![i] = [T[i] EXCEPT !.data = d]],
               manifest |-> env.manifest, count |-> env.count]
    BY <1>1
  <2> QED
    BY <2>3, <2>4
<1>2. ASSUME NEW i \in nodes, new = [env EXCEPT !.tree = RemoveAt(@, i)]
      PROVE  ok(new)
  <2>1. i \in 1..Len(T) /\ T \in Seq(EntryType) /\ Len(T) \in Nat
    OBVIOUS
  <2>2. SubSeq(T, 1, i-1) \in Seq(EntryType) /\ SubSeq(T, i+1, Len(T)) \in Seq(EntryType)
    <3> HIDE DEF T
    <3> QED
      BY <2>1, SubSeqProperties
  <2>3. RemoveAt(T, i) \in Seq(EntryType)
    BY <2>2 DEF RemoveAt
  <2>4. new = [tree |-> RemoveAt(T, i), manifest |-> env.manifest, count |-> env.count]
    BY <1>2
  <2> QED
    BY <2>3, <2>4
<1>3. ASSUME NEW i \in nodes, NEW p \in Editable \cup {Unsafe},
             new = [env EXCEPT !.tree[i].declared = p]
      PROVE  ok(new)
  <2>1. p \in Path \cup {None, Unsafe}
    BY <1>3, PathsAssumption DEF Path
  <2>2. [T[i] EXCEPT !.declared = p] \in EntryType
    BY <1>0, <1>3, <2>1 DEF EntryType
  <2>3. [T EXCEPT ![i] = [T[i] EXCEPT !.declared = p]] \in Seq(EntryType)
    BY <1>3, <2>2
  <2>4. new = [tree |-> [T EXCEPT ![i] = [T[i] EXCEPT !.declared = p]],
               manifest |-> env.manifest, count |-> env.count]
    BY <1>3
  <2> QED
    BY <2>3, <2>4
<1> QED
  BY SMTT(60), <1>1, <1>2, <1>3 DEF Edits

LEMMA ClientsStay ==
    ASSUME Inv, [Next]_vars, UNCHANGED clientVars, AllowedFiles(written', ledger')
    PROVE  ClientsInv'
<1>1. \A f : AllowedFiles(f, ledger) => AllowedFiles(f, ledger')
  BY LedgerStep, FilesStay
<1>2. ClientsInv
  BY DEF Inv
<1> QED
  BY <1>1, <1>2 DEF ClientsInv, clientVars

\* No step gives a client, or puts on disk, what the ledger does not allow
\* (all actions).
LEMMA ClientsStep == Inv /\ [Next]_vars => ClientsInv'
<1> SUFFICES ASSUME Inv, [Next]_vars PROVE ClientsInv'
  OBVIOUS
<1>0. ClientsInv /\ \A f : AllowedFiles(f, ledger) => AllowedFiles(f, ledger')
  BY LedgerStep, FilesStay DEF Inv
<1>1. CASE UNCHANGED <<written, clientVars>>
  BY <1>0, <1>1, ClientsStay DEF ClientsInv
<1>2. ASSUME NEW h \in Handler, Materialize(h) PROVE ClientsInv'
  <2> DEFINE new == The(h).files
  <2>1. handler[h].object # 0
    BY <1>2, HandlerAt DEF Materialize, HandlerFits, Makes
  <2>2. AllowedFiles(new, ledger) /\ AllowedFiles(written, ledger)
    BY <1>0, <2>1, ObjectAt DEF ObjectFits, ClientsInv
  <2>3. PICK done \in SUBSET Path :
          written' = [p \in Path |-> IF p \in done THEN new[p] ELSE written[p]]
    <3> DEFINE present == Present(The(h).files)
    <3>1. PICK done \in SUBSET (present \ Blocked(present)) :
            written' = [p \in Path |-> IF p \in done THEN The(h).files[p] ELSE written[p]]
      BY <1>2 DEF Materialize
    <3>2. done \in SUBSET Path
      BY DEF Present
    <3> QED
      BY <3>1, <3>2
  <2>4. AllowedFiles(written', ledger)
    <3> HIDE DEF new
    <3> QED
      BY <2>2, <2>3 DEF AllowedFiles, Contents
  <2>5. UNCHANGED clientVars
    BY <1>2 DEF Materialize
  <2> QED
    BY <1>0, <2>4, <2>5, ClientsStay
<1>3. ASSUME NEW h \in Handler, WriteSnapshot(h) PROVE ClientsInv'
  <2>1. handler[h].object # 0 /\ AllowedFiles(handler[h].files, ledger)
    BY <1>3, HandlerAt DEF WriteSnapshot, HandlerFits
  <2>2. AllowedFiles(The(h).files, ledger)
    BY <2>1, ObjectAt DEF ObjectFits
  <2>3. /\ snapshot'.projection = handler[h].files /\ snapshot'.files = The(h).files
        /\ UNCHANGED <<ledger, written, envelope, exported>>
    BY <1>3 DEF WriteSnapshot, acceptedVars
  <2> QED
    BY <1>0, <2>1, <2>2, <2>3 DEF ClientsInv
<1>4. CASE Export
  <2> DEFINE f == objects[store].files
             env == ToEnvelope(FilesOf(f), Cardinality(Archive))
  <2>1. store \in DOMAIN objects
    BY <1>4 DEF Export, Inv, ObjectsInv
  <2>2. AllowedFiles(f, ledger)
    BY <2>1 DEF Inv, ObjectsInv, ObjectFits
  <2>3. /\ env = [tree |-> env.tree, manifest |-> env.manifest, count |-> env.count]
        /\ env.tree \in Seq(EntryType)
    <3>1. f \in Contents
      BY <2>2 DEF AllowedFiles
    <3> HIDE DEF f
    <3> QED
      BY <3>1, ToEnvelopeTyped
  <2>4. envelope' = env /\ exported' = f /\ UNCHANGED <<ledger, written, snapshot>>
    BY <1>4 DEF Export, acceptedVars
  <2> HIDE DEF f, env
  <2> QED
    BY <1>0, <2>2, <2>3, <2>4 DEF ClientsInv
<1>5. CASE Edit
  <2>1. /\ envelope # None /\ envelope' \in Edits(envelope, {<<b>> : b \in Body}, Editable)
        /\ UNCHANGED <<ledger, written, exported, snapshot>>
    BY <1>5 DEF Edit, acceptedVars
  <2>2. /\ envelope' = [tree |-> envelope'.tree, manifest |-> envelope'.manifest,
                        count |-> envelope'.count]
        /\ envelope'.tree \in Seq(EntryType)
    BY <1>0, <2>1, EditsTyped DEF ClientsInv
  <2> QED
    BY <1>0, <2>1, <2>2 DEF ClientsInv
<1>6. ASSUME NEW h \in Handler,
             \/ Get(h) \/ Prepare(h) \/ TurnDown(h) \/ ImportZip(h)
             \/ ImportEnvelope(h) \/ Accept(h) \/ Refuse(h) \/ SaveReceipt(h)
             \/ ReceiptFails(h) \/ Apply(h) \/ Decide(h) \/ UpdateStatus(h) \/ Note(h)
             \/ ProposeBaseline(h) \/ Expose(h) \/ AddItems(h) \/ ListItems(h)
             \/ Ingest(h) \/ ListEvents(h) \/ Project(h)
      PROVE  UNCHANGED <<written, clientVars>>
  BY <1>6 DEF Get, Prepare, TurnDown, ImportZip, ImportEnvelope, Accept, Refuse,
     SaveReceipt, ReceiptFails, Apply, Decide, UpdateStatus, Note, ProposeBaseline,
     Expose, AddItems, ListItems, Ingest, ListEvents, Project
<1>7. Restart \/ UNCHANGED vars => UNCHANGED <<written, clientVars>>
  BY DEF Restart, vars
<1> QED
  BY <1>1, <1>2, <1>3, <1>4, <1>5, <1>6, <1>7 DEF Next

-----------------------------------------------------------------------------
\* Handlers.

LEMMA LeastIndex ==
    ASSUME NEW S, S \subseteq Nat, S # {}
    PROVE  \E i \in S : \A j \in S : i <= j
<1> DEFINE R == OpToRel(<, Nat)
<1>1. IsWellFoundedOn(R, Nat)
  BY NatLessThanWellFounded
<1> HIDE DEF R
<1>2. PICK i \in S : \A j \in S : ~ (<<j, i>> \in R)
  BY <1>1, WFMin
<1>3. \A j \in S : ~ (j < i)
  BY <1>2 DEF R, OpToRel
<1> QED
  BY <1>3

\* What the parser makes of an envelope are contents.
LEMMA FromEnvelopeTyped ==
    ASSUME NEW env, env.tree \in Seq(EntryType), NEW p \in DOMAIN FromEnvelope(env).files
    PROVE  FromEnvelope(env).files[p] \in Seq(Piece)
<1> DEFINE found == {i \in Walked(env) : Place(env.tree[i]) = p}
           i == CHOOSE i \in found : \A j \in found : i <= j
<1>1. p \in Places(env) /\ FromEnvelope(env).files[p] = Kept(env, p).data
  BY DEF FromEnvelope
<1>2. found # {}
  BY <1>1 DEF Places
<1>3. Walked(env) \subseteq DOMAIN env.tree /\ DOMAIN env.tree \subseteq Nat
  BY DEF Walked
<1>4. found \subseteq DOMAIN env.tree /\ found \subseteq Nat
  BY <1>3
<1>5. i \in found
  <2> HIDE DEF found
  <2> QED
    BY <1>2, <1>4, LeastIndex
<1>6. Kept(env, p) = env.tree[i]
  BY Zenon DEF Kept
<1>7. env.tree[i] \in EntryType
  <2> HIDE DEF i, found
  <2> QED
    BY <1>4, <1>5
<1>8. env.tree[i].data \in Seq(Piece)
  BY <1>7 DEF EntryType
<1> QED
  BY <1>1, <1>6, <1>8

\* What ImportEnvelope parsed.
LEMMA ParsedTyped ==
    ASSUME NEW env, env.tree \in Seq(EntryType),
           NEW f, f = [p \in Path |-> IF p \in DOMAIN FromEnvelope(env).files
                                      THEN FromEnvelope(env).files[p] ELSE <<>>]
    PROVE  f \in Contents
<1>1. \A p \in Path : f[p] \in Seq(Piece)
  BY FromEnvelopeTyped
<1> QED
  BY <1>1 DEF Contents

LEMMA HandlerPut ==
    ASSUME Inv, [Next]_vars, Len(objects) <= Len(objects'), Len(objects') \in Nat,
           NEW h \in Handler, NEW y \in HandlerState,
           HandlerFits(y, ledger', receipts', Len(objects')),
           handler' = [handler EXCEPT ![h] = y]
    PROVE  HandlersInv'
<1>1. handler \in [Handler -> HandlerState] /\ Len(objects) \in Nat
  BY DEF Inv, HandlersInv, ObjectsInv
<1>2. ASSUME NEW g \in Handler
      PROVE  HandlerFits(handler[g], ledger', receipts', Len(objects'))
  BY <1>1, LedgerStep, HandlerStays DEF Inv, HandlersInv
<1>3. /\ handler' \in [Handler -> HandlerState]
      /\ \A g \in Handler : handler'[g] = IF g = h THEN y ELSE handler[g]
  BY <1>1
<1> QED
  BY <1>2, <1>3 DEF HandlersInv

LEMMA HandlersStay ==
    ASSUME Inv, [Next]_vars, Len(objects) <= Len(objects'), Len(objects') \in Nat,
           UNCHANGED handler
    PROVE  HandlersInv'
<1>1. Len(objects) \in Nat
  BY DEF Inv, ObjectsInv
<1>2. ASSUME NEW g \in Handler
      PROVE  HandlerFits(handler[g], ledger', receipts', Len(objects'))
  BY <1>1, LedgerStep, HandlerStays DEF Inv, HandlersInv
<1> QED
  BY <1>2 DEF Inv, HandlersInv

\* A handler that returns.
LEMMA Returned ==
    ASSUME Inv, [Next]_vars, Len(objects) <= Len(objects'), Len(objects') \in Nat,
           NEW h \in Handler, handler' = [handler EXCEPT ![h] = Idle]
    PROVE  HandlersInv'
<1>1. ledger' \in Seq(Transition)
  BY LedgerStep DEF LedgerInv
<1>2. Idle \in HandlerState /\ HandlerFits(Idle, ledger', receipts', Len(objects'))
  BY <1>1, IdleFits
<1> QED
  BY <1>2, HandlerPut

\* Only Restart takes workspaces away.
LEMMA ObjectsLen ==
    ASSUME Inv, [Next]_vars, NEW o,
           \/ DOMAIN objects' = DOMAIN objects
           \/ objects' = Append(objects, o)
    PROVE  /\ Len(objects) \in Nat /\ Len(objects') \in Nat
           /\ Len(objects) <= Len(objects')
           /\ objects' = Append(objects, o) => Len(objects') = Len(objects) + 1
<1>1. objects \in Seq(Object) /\ objects' \in Seq(Object)
  BY ObjectsStep DEF Inv, ObjectsInv
<1>0. Len(Append(objects, o)) = Len(objects) + 1 /\ Len(objects) \in Nat
  <2>1. objects \in Seq(Object \cup {o}) /\ o \in Object \cup {o}
    BY <1>1
  <2> QED
    BY <2>1, AppendProperties
<1>2. CASE DOMAIN objects' = DOMAIN objects
  <2>1. /\ DOMAIN objects = 1..Len(objects) /\ DOMAIN objects' = 1..Len(objects')
        /\ Len(objects) \in Nat /\ Len(objects') \in Nat
    BY <1>1
  <2>2. Len(objects) = Len(objects')
    BY <1>2, <2>1
  <2>3. objects' # Append(objects, o)
    BY <1>0, <2>2
  <2>4. Len(objects) <= Len(objects')
    BY <2>1, <2>2
  <2> QED
    BY <2>1, <2>3, <2>4
<1>3. CASE objects' = Append(objects, o)
  BY <1>0, <1>3
<1> QED
  BY <1>2, <1>3

\* A handler that takes the next step on the way to its proposal.
LEMMA AskedFits ==
    ASSUME Inv, [Next]_vars, NEW h \in Handler, Get(h) \/ Prepare(h)
    PROVE  HandlersInv'
<1>0. ledger \in Seq(Transition) /\ Len(objects) \in Nat /\ Len(objects) <= Len(objects)
  BY DEF ObjectsInv, Inv, LedgerInv
<1>00. UNCHANGED <<ledger, receipts, objects>>
  BY DEF Get, Prepare, acceptedVars, storeVars
<1>1. CASE Get(h)
  <2>1. PICK op \in Op \ {"ingest", "export", "edit"}, body \in Body,
             b \in Blob \cup {None} :
          \E p \in IF op = "update" THEN Document
                   ELSE IF op = "append" THEN {EventsPath}
                   ELSE IF op = "admit" THEN Target ELSE {None} :
            /\ (b # None) <=> op \in {"admit", "reject", "decide"}
            /\ handler' = [handler EXCEPT ![h] =
                 [Idle EXCEPT !.step = "got", !.op = op, !.object = store,
                              !.path = p, !.blob = b,
                              !.content = IF op \in {"update", "append"}
                                          THEN <<body>> ELSE <<>>]]
    BY <1>1 DEF Get
  <2>2. PICK p \in IF op = "update" THEN Document
                   ELSE IF op = "append" THEN {EventsPath}
                   ELSE IF op = "admit" THEN Target ELSE {None} :
            /\ (b # None) <=> op \in {"admit", "reject", "decide"}
            /\ handler' = [handler EXCEPT ![h] =
                 [Idle EXCEPT !.step = "got", !.op = op, !.object = store,
                              !.path = p, !.blob = b,
                              !.content = IF op \in {"update", "append"}
                                          THEN <<body>> ELSE <<>>]]
    BY <2>1
  <2> DEFINE c == IF op \in {"update", "append"} THEN <<body>> ELSE <<>>
             y == [Idle EXCEPT !.step = "got", !.op = op, !.object = store,
                               !.path = p, !.blob = b, !.content = c]
  <2>3. /\ store \in 0..Len(objects) /\ store # 0
    BY <1>1 DEF Get, Inv, ObjectsInv
  <2>4. c \in Seq(Piece) /\ (op \in {"update", "append"} => c # <<>>)
    <3>1. body \in Piece
      BY DEF Piece
    <3> QED
      BY <3>1
  <2>5. op \in (Changes \ Makes) \cup {"snapshot"}
    BY KindsAssumption DEF Ops, Changes, Makes
  <2>6. /\ p \in Path \cup {None}
        /\ op \in {"update", "append", "admit"} => p \in Path
    BY PathsAssumption DEF Path, LedgerPath
  <2>7. op \in {"admit", "reject", "decide"} => b \in Blob
    BY <2>2
  <2>8. Idle \in HandlerState /\ HandlerFits(Idle, ledger, receipts, Len(objects))
    BY <1>0, IdleFits
  <2>9. Idle.step = "idle" /\ Idle.op = "none"
    BY DEF Idle
  <2> HIDE DEF c
  <2>10. y \in HandlerState
    <3>1. op \in Ops
      BY KindsAssumption
    <3>2. store \in Nat /\ c \in Seq(Piece) /\ p \in Path \cup {None}
      BY <1>0, <2>3, <2>4, <2>6
    <3> QED
      BY <2>8, <3>1, <3>2 DEF HandlerState, Steps
  <2>11. HandlerFits(y, ledger, receipts, Len(objects))
    BY <2>3, <2>4, <2>5, <2>6, <2>7, <2>8, <2>9, <1>0
       DEF HandlerFits, HandlerState, Changes, Makes
  <2>12. handler' = [handler EXCEPT ![h] = y]
    BY <2>2 DEF c
  <2>13. HandlerFits(y, ledger', receipts', Len(objects')) /\ Len(objects') = Len(objects)
    BY <1>00, <2>11
  <2> HIDE DEF y
  <2> QED
    BY <1>0, <2>10, <2>12, <2>13, HandlerPut
<1>2. CASE Prepare(h)
  <2> DEFINE x == handler[h]
             s == The(h).synced
             c == Candidate(h)
             y == [x EXCEPT !.step = "ready", !.synced = s, !.content = c]
  <2>1. x \in HandlerState /\ HandlerFits(x, ledger, receipts, Len(objects))
        /\ handler \in [Handler -> HandlerState] /\ x.step = "got"
        /\ x.op \in Changes \ Makes /\ x.object # 0
    BY <1>2, HandlerAt DEF Prepare, HandlerFits, Changes, Makes
  <2>2. The(h) \in Object
    BY <2>1, ObjectAt DEF ObjectFits
  <2>3. s \in BOOLEAN
    BY <2>2 DEF Object
  <2>4. c \in Seq(Piece) /\ (x.op \in {"update", "append"} => c # <<>>)
    <3>1. x.content \in Seq(Piece) /\ (x.op \in {"update", "append"} => x.content # <<>>)
      BY <2>1 DEF HandlerState, HandlerFits
    <3>2. The(h).files[EventsPath] \in Seq(Piece)
      BY <2>2 DEF Object, Contents, Path, LedgerPath
    <3>3. \A d \in Seq(Piece) : d \o x.content \in Seq(Piece)
            /\ (x.content # <<>> => d \o x.content # <<>>)
      <4> SUFFICES ASSUME NEW d \in Seq(Piece)
                   PROVE  d \o x.content \in Seq(Piece)
                            /\ (x.content # <<>> => d \o x.content # <<>>)
        OBVIOUS
      <4>1. d \o x.content \in Seq(Piece) /\ Len(d \o x.content) = Len(d) + Len(x.content)
        BY <3>1
      <4>2. x.content # <<>> => Len(x.content) > 0
        BY <3>1
      <4> HIDE DEF x
      <4> QED
        BY <3>1, <4>1, <4>2
    <3> QED
      BY <3>1, <3>2, <3>3 DEF Candidate
  <2>5. handler' = [handler EXCEPT ![h] = y]
    BY <1>2, <2>1 DEF Prepare
  <2> HIDE DEF c, s
  <2>6. y \in HandlerState
    BY <2>1, <2>3, <2>4 DEF HandlerState, Steps
  <2>7. HandlerFits(y, ledger, receipts, Len(objects))
    BY <2>1, <2>4 DEF HandlerFits, HandlerState
  <2>8. HandlerFits(y, ledger', receipts', Len(objects')) /\ Len(objects') = Len(objects)
    BY <1>00, <2>7
  <2> HIDE DEF y
  <2> QED
    BY <1>0, <2>5, <2>6, <2>8, HandlerPut
<1> QED
  BY <1>1, <1>2

LEMMA ImportingFits ==
    ASSUME Inv, [Next]_vars, NEW h \in Handler, ImportZip(h) \/ ImportEnvelope(h)
    PROVE  HandlersInv'
<1>0. ledger \in Seq(Transition) /\ Len(objects) \in Nat /\ Len(objects) <= Len(objects)
  BY DEF ObjectsInv, Inv, LedgerInv
<1>00. UNCHANGED <<ledger, receipts, objects>>
  BY DEF ImportZip, ImportEnvelope, acceptedVars, storeVars
<1>1. ASSUME NEW f \in Contents, NEW z \in BOOLEAN,
             handler' = [handler EXCEPT ![h] =
               [Idle EXCEPT !.step = "ready", !.op = "import", !.files = f, !.zip = z]]
      PROVE  HandlersInv'
  <2> DEFINE y == [Idle EXCEPT !.step = "ready", !.op = "import", !.files = f, !.zip = z]
  <2>1. Idle \in HandlerState /\ HandlerFits(Idle, ledger, receipts, Len(objects))
    BY <1>0, IdleFits
  <2>2. y \in HandlerState
    BY <2>1 DEF HandlerState, Steps
  <2>3. HandlerFits(y, ledger, receipts, Len(objects))
    BY <2>1 DEF HandlerFits, HandlerState, Changes, Makes
  <2>4. handler' = [handler EXCEPT ![h] = y]
    BY <1>1
  <2>5. HandlerFits(y, ledger', receipts', Len(objects')) /\ Len(objects') = Len(objects)
    BY <1>00, <2>3
  <2> HIDE DEF y
  <2> QED
    BY <1>0, <2>2, <2>4, <2>5, HandlerPut
<1>2. CASE ImportZip(h)
  <2>1. ArchiveFiles \in Contents
    BY ArchiveAllowed DEF AllowedFiles
  <2>2. handler' = [handler EXCEPT ![h] =
          [Idle EXCEPT !.step = "ready", !.op = "import", !.files = ArchiveFiles,
                       !.zip = TRUE]]
    BY <1>2 DEF ImportZip
  <2> QED
    BY <1>1, <2>1, <2>2
<1>3. CASE ImportEnvelope(h)
  <2> DEFINE f == [p \in Path |-> IF p \in DOMAIN FromEnvelope(envelope).files
                                  THEN FromEnvelope(envelope).files[p] ELSE <<>>]
  <2>1. envelope.tree \in Seq(EntryType)
    BY <1>3 DEF ImportEnvelope, Inv, ClientsInv
  <2>2. f \in Contents
    BY <2>1, ParsedTyped
  <2>3. handler' = [handler EXCEPT ![h] =
          [Idle EXCEPT !.step = "ready", !.op = "import", !.files = f]]
    BY <1>3 DEF ImportEnvelope
  <2> HIDE DEF f
  <2>4. [Idle EXCEPT !.step = "ready", !.op = "import", !.files = f]
          = [Idle EXCEPT !.step = "ready", !.op = "import", !.files = f, !.zip = FALSE]
    <3>1. Idle \in HandlerState /\ Idle.zip = FALSE
      BY <1>0, IdleFits DEF Idle
    <3> QED
      BY <3>1 DEF HandlerState
  <2> QED
    BY <1>1, <2>2, <2>3, <2>4
<1> QED
  BY <1>2, <1>3

\* A handler whose proposal is accepted has that transition.
LEMMA AcceptFits ==
    ASSUME Inv, [Next]_vars, NEW h \in Handler, Accept(h)
    PROVE  HandlersInv'
<1> DEFINE x == handler[h]
           n == Len(ledger) + 1
           y == [x EXCEPT !.step = "accepted", !.at = n]
<1>1. /\ x \in HandlerState /\ HandlerFits(x, ledger, receipts, Len(objects))
      /\ handler \in [Handler -> HandlerState] /\ x.step = "ready"
  BY HandlerAt DEF Accept
<1>2. /\ UNCHANGED <<receipts, objects>>
      /\ handler' = [handler EXCEPT ![h] = y]
  BY <1>1 DEF Accept, storeVars
<1>3. Len(objects) \in Nat /\ Len(objects) <= Len(objects) /\ Len(objects') = Len(objects)
  BY <1>2 DEF Inv, ObjectsInv
<1>4. /\ ledger' \in Seq(Transition) /\ n \in DOMAIN ledger' /\ Len(ledger') = n /\ n \in Nat
      /\ ledger'[n] = NewTransition(h) /\ Continues(ledger, ledger')
  BY AcceptStep
<1>5. /\ ledger'[n].action = ActionOf(x.op) /\ ledger'[n].path = x.path
      /\ ledger'[n].content = x.content /\ ledger'[n].blob = x.blob
      /\ ledger'[n].files = x.files
  BY <1>4 DEF NewTransition
<1>6. AllowedFiles(x.files, ledger')
  <2>1. \A p \in Path : Pieces(x.files[p]) \subseteq Allowed(ledger', p)
    BY <1>4, <1>5, AllowedIff
  <2> QED
    BY <1>1, <2>1 DEF AllowedFiles, HandlerState
<1>7. x.op \in Changes /\ (x.object # 0 \/ x.op \in Makes) /\ x.object \in 0..Len(objects)
  BY <1>1 DEF HandlerFits
<1> HIDE DEF x, n
<1>8. y \in HandlerState
  BY <1>1, <1>4 DEF HandlerState, Steps
<1>9. /\ y.step = "accepted" /\ y.at = n /\ y.op = x.op /\ y.path = x.path
      /\ y.content = x.content /\ y.blob = x.blob /\ y.files = x.files
      /\ y.object = x.object
  BY <1>1 DEF HandlerState
<1>10. Owns(y, ledger')
  BY <1>4, <1>5, <1>9 DEF Owns
<1> HIDE DEF y
<1>11. HandlerFits(y, ledger', receipts', Len(objects'))
  BY <1>1, <1>3, <1>4, <1>6, <1>7, <1>9, <1>10 DEF HandlerFits
<1> QED
  BY <1>2, <1>3, <1>8, <1>11, HandlerPut

\* A handler that goes on with the transition it has.
LEMMA GoneOnFits ==
    ASSUME Inv, [Next]_vars, NEW h \in Handler,
           SaveReceipt(h) \/ Decide(h) \/ ProposeBaseline(h)
    PROVE  HandlersInv'
<1> DEFINE x == handler[h]
<1>1. /\ x \in HandlerState /\ HandlerFits(x, ledger, receipts, Len(objects))
      /\ handler \in [Handler -> HandlerState]
  BY HandlerAt
<1>2. UNCHANGED ledger /\ receipts \subseteq receipts'
  BY LedgerStep DEF SaveReceipt, Decide, ProposeBaseline, acceptedVars
<1>3. DOMAIN objects' = DOMAIN objects
  BY DEF SaveReceipt, Decide, ProposeBaseline, storeVars
<1>4. /\ Len(objects) \in Nat /\ Len(objects') \in Nat /\ Len(objects) <= Len(objects')
  BY <1>3, ObjectsLen
<1>5. HandlerFits(x, ledger', receipts', Len(objects'))
  BY <1>1, <1>4, LedgerStep, HandlerStays
<1>6. CASE SaveReceipt(h)
  <2> DEFINE y == [x EXCEPT !.step = "receipted"]
  <2>1. handler' = [handler EXCEPT ![h] = y]
    BY <1>1, <1>6 DEF SaveReceipt
  <2>2. x.step = "accepted" /\ x.at \in receipts'
    BY <1>6 DEF SaveReceipt
  <2> HIDE DEF x
  <2>3. y \in HandlerState
    BY <1>1 DEF HandlerState, Steps
  <2>4. HandlerFits(y, ledger', receipts', Len(objects'))
    BY <1>1, <1>5, <2>2 DEF HandlerFits, HandlerState, Owns
  <2> HIDE DEF y
  <2> QED
    BY <1>4, <2>1, <2>3, <2>4, HandlerPut
<1>7. CASE Decide(h)
  <2> DEFINE y == [x EXCEPT !.step = "decided"]
  <2>1. handler' = [handler EXCEPT ![h] = y]
    BY <1>1, <1>7 DEF Decide
  <2>2. x.step = "receipted" /\ x.op \in {"admit", "reject"}
    BY <1>7 DEF Decide
  <2> HIDE DEF x
  <2>3. y \in HandlerState
    BY <1>1 DEF HandlerState, Steps
  <2>4. HandlerFits(y, ledger', receipts', Len(objects'))
    BY <1>1, <1>5, <2>2 DEF HandlerFits, HandlerState, Owns, Makes
  <2> HIDE DEF y
  <2> QED
    BY <1>4, <2>1, <2>3, <2>4, HandlerPut
<1>8. CASE ProposeBaseline(h)
  <2> DEFINE y == [x EXCEPT !.step = "ready", !.op = "baseline"]
  <2>1. handler' = [handler EXCEPT ![h] = y]
    BY <1>1, <1>8 DEF ProposeBaseline
  <2>2. x.step = "receipted"
    BY <1>8 DEF ProposeBaseline
  <2> HIDE DEF x
  <2>3. y \in HandlerState
    BY <1>1 DEF HandlerState, Steps
  <2>4. HandlerFits(y, ledger', receipts', Len(objects'))
    BY <1>1, <1>5, <2>2 DEF HandlerFits, HandlerState, Changes, Makes
  <2> HIDE DEF y
  <2> QED
    BY <1>4, <2>1, <2>3, <2>4, HandlerPut
<1> QED
  BY <1>6, <1>7, <1>8

\* Expose, and the synchronisation and the snapshots that begin after it.
LEMMA ExposedFits ==
    ASSUME Inv, [Next]_vars, NEW h \in Handler, Expose(h)
    PROVE  HandlersInv'
<1> DEFINE x == handler[h]
           o == Imported(x.files, x.zip)
           k == Len(objects) + 1
           y == [Idle EXCEPT !.step = "exposed", !.op = x.op, !.at = x.at, !.object = k]
<1>1. /\ x \in HandlerState /\ HandlerFits(x, ledger, receipts, Len(objects))
      /\ x.op \in Makes /\ x.at \in 0..Len(ledger)
  BY HandlerAt DEF Expose, Admitted, Makes, HandlerFits
<1>2. UNCHANGED <<ledger, receipts>> /\ objects' = Append(objects, o)
  BY DEF Expose, acceptedVars
<1>3. /\ Len(objects) \in Nat /\ Len(objects') \in Nat /\ Len(objects) <= Len(objects')
      /\ Len(objects') = k
  <2> HIDE DEF o
  <2> QED
    BY <1>2, ObjectsLen
<1>4. CASE handler' = [handler EXCEPT ![h] = Idle]
  BY <1>3, <1>4, Returned
<1>5. CASE handler' = [handler EXCEPT ![h] = y]
  <2>1. ledger \in Seq(Transition) /\ Len(ledger) \in Nat
    BY DEF Inv, LedgerInv
  <2>2. /\ Idle \in HandlerState /\ HandlerFits(Idle, ledger, receipts, k)
        /\ Idle.step = "idle" /\ Idle.op = "none"
    BY <1>3, <2>1, IdleFits DEF Idle
  <2> HIDE DEF x
  <2>3. k \in Nat /\ k # 0 /\ x.at \in Nat
    BY <1>1, <1>3, <2>1
  <2> HIDE DEF k
  <2>4. y \in HandlerState
    <3>1. x.op \in Ops \cup {"import", "baseline", "none"}
      BY <1>1 DEF Makes
    <3> QED
      BY <2>2, <2>3, <3>1 DEF HandlerState, Steps
  <2>5. HandlerFits(y, ledger, receipts, k)
    BY <1>1, <2>2, <2>3 DEF HandlerFits, HandlerState, Makes
  <2> HIDE DEF y
  <2>6. HandlerFits(y, ledger', receipts', Len(objects'))
    BY <1>2, <1>3, <2>5
  <2> QED
    BY <1>3, <1>5, <2>4, <2>6, HandlerPut
<1> QED
  BY <1>4, <1>5 DEF Expose

LEMMA TakingFits ==
    ASSUME Inv, [Next]_vars, NEW h \in Handler, AddItems(h) \/ ListEvents(h) \/ Project(h)
    PROVE  HandlersInv'
<1> DEFINE x == handler[h]
<1>1. /\ x \in HandlerState /\ HandlerFits(x, ledger, receipts, Len(objects))
      /\ handler \in [Handler -> HandlerState]
      /\ x.step \in {"exposed", "got", "listed"} /\ x.object # 0
      /\ AllowedFiles(x.files, ledger)
  BY HandlerAt DEF AddItems, ListEvents, Project, HandlerFits
<1>2. UNCHANGED <<ledger, receipts, objects>>
  BY DEF AddItems, ListEvents, Project, acceptedVars, storeVars
<1>3. /\ Len(objects) \in Nat /\ Len(objects) <= Len(objects)
      /\ ledger \in Seq(Transition) /\ Len(ledger) \in Nat
  BY DEF Inv, ObjectsInv, LedgerInv
<1>4. AllowedFiles(The(h).files, ledger)
  BY <1>1, ObjectAt DEF ObjectFits
<1>5. ASSUME NEW s \in {"added", "listed", "projected"}, NEW n \in 0..Len(ledger),
             NEW f, AllowedFiles(f, ledger),
             handler' = [handler EXCEPT ![h] = [x EXCEPT !.step = s, !.at = n, !.files = f]]
      PROVE  HandlersInv'
  <2> DEFINE y == [x EXCEPT !.step = s, !.at = n, !.files = f]
  <2>0. handler' = [handler EXCEPT ![h] = y]
    BY <1>5
  <2> HIDE DEF x
  <2>1. y \in HandlerState
    <3>1. x \in HandlerState /\ s \in Steps /\ n \in Nat /\ f \in Contents
      BY <1>1, <1>3, <1>5 DEF Steps, AllowedFiles
    <3> QED
      BY <3>1 DEF HandlerState
  <2>2. HandlerFits(y, ledger, receipts, Len(objects))
    BY <1>1, <1>3, <1>5 DEF HandlerFits, HandlerState
  <2> HIDE DEF y
  <2>3. HandlerFits(y, ledger', receipts', Len(objects')) /\ Len(objects') = Len(objects)
    BY <1>2, <2>2
  <2> QED
    BY <1>3, <2>0, <2>1, <2>3, HandlerPut
<1>6. x.at \in 0..Len(ledger) /\ Len(ledger) \in 0..Len(ledger)
  BY <1>1, <1>3 DEF HandlerFits
<1>7. CASE AddItems(h)
  <2>1. handler' = [handler EXCEPT ![h] =
                      [x EXCEPT !.step = "added", !.at = x.at, !.files = x.files]]
    BY <1>1, <1>7 DEF AddItems, HandlerState
  <2> HIDE DEF x
  <2> QED
    BY <1>1, <1>5, <1>6, <2>1
<1>8. CASE ListEvents(h)
  <2>1. handler' = [handler EXCEPT ![h] =
                      [x EXCEPT !.step = "listed", !.at = Len(ledger), !.files = x.files]]
    BY <1>1, <1>8 DEF ListEvents, HandlerState
  <2> HIDE DEF x
  <2> QED
    BY <1>1, <1>5, <1>6, <2>1
<1>9. CASE Project(h)
  <2>1. handler' = [handler EXCEPT ![h] =
                      [x EXCEPT !.step = "projected", !.at = x.at, !.files = The(h).files]]
    BY <1>1, <1>9 DEF Project, HandlerState
  <2> HIDE DEF x
  <2> QED
    BY <1>4, <1>5, <1>6, <2>1
<1> QED
  BY <1>7, <1>8, <1>9

\* What a handler holds is in the workspaces there are, in the ledger or, until
\* it is proposed, nowhere (all actions).
LEMMA HandlersStep == Inv /\ [Next]_vars => HandlersInv'
<1> SUFFICES ASSUME Inv, [Next]_vars PROVE HandlersInv'
  OBVIOUS
<1>1. /\ Len(objects) \in Nat /\ Len(objects) <= Len(objects)
      /\ (UNCHANGED objects => Len(objects') = Len(objects))
  BY DEF Inv, ObjectsInv
<1>2. ASSUME NEW h \in Handler,
             \/ TurnDown(h) \/ Refuse(h) \/ ReceiptFails(h) \/ Apply(h)
             \/ UpdateStatus(h) \/ Note(h) \/ Materialize(h) \/ ListItems(h)
             \/ WriteSnapshot(h)
      PROVE  HandlersInv'
  <2>1. handler' = [handler EXCEPT ![h] = Idle]
    BY <1>2 DEF TurnDown, Refuse, ReceiptFails, Apply, UpdateStatus, Note, Materialize,
       ListItems, WriteSnapshot
  <2>2. DOMAIN objects' = DOMAIN objects
    <3>1. CASE Note(h)
      BY <3>1 DEF Note
    <3>2. CASE ~Note(h)
      BY <1>2, <3>2 DEF TurnDown, Refuse, ReceiptFails, Apply, UpdateStatus, Materialize,
         ListItems, WriteSnapshot, storeVars
    <3> QED
      BY <3>1, <3>2
  <2>3. Len(objects') \in Nat /\ Len(objects) <= Len(objects')
    BY <2>2, ObjectsLen
  <2> QED
    BY <2>1, <2>3, Returned
<1>3. ASSUME NEW h \in Handler, Ingest(h) PROVE HandlersInv'
  <2> DEFINE o == Imported(ArchiveFiles, TRUE)
  <2>1. objects' = Append(objects, o) /\ UNCHANGED handler
    BY <1>3 DEF Ingest
  <2>2. Len(objects') \in Nat /\ Len(objects) <= Len(objects')
    <3> HIDE DEF o
    <3> QED
      BY <2>1, ObjectsLen
  <2> QED
    BY <2>1, <2>2, HandlersStay
<1>4. CASE Export \/ Edit \/ UNCHANGED vars
  <2>1. UNCHANGED handler /\ UNCHANGED objects
    BY <1>4 DEF Export, Edit, vars, storeVars
  <2> QED
    BY <1>1, <2>1, HandlersStay
<1>5. CASE Restart
  <2>1. /\ handler' = [g \in Handler |-> Idle] /\ objects' = <<>>
        /\ ledger' \in Seq(Transition)
    BY <1>5, LedgerStep DEF Restart, LedgerInv
  <2>2. Len(objects') = 0 /\ 0 \in Nat
    BY <2>1
  <2>3. Idle \in HandlerState /\ HandlerFits(Idle, ledger', receipts', 0)
    BY <2>1, <2>2, IdleFits
  <2> QED
    BY <2>1, <2>2, <2>3 DEF HandlersInv
<1> QED
  BY <1>2, <1>3, <1>4, <1>5, AskedFits, ImportingFits, AcceptFits, GoneOnFits,
     ExposedFits, TakingFits DEF Next

-----------------------------------------------------------------------------
LEMMA InitInv == Init => Inv
<1> SUFFICES ASSUME Init PROVE Inv
  OBVIOUS
<1>1. ledger = <<>> /\ ledger \in Seq(Transition) /\ Len(ledger) = 0
  BY DEF Init
<1>2. LedgerInv
  BY <1>1, BoundsAssumption DEF Init, LedgerInv
<1>3. ObjectsInv
  BY DEF Init, ObjectsInv
<1>4. ItemsInv
  BY DEF Init, ItemsInv, StatusesFit, Statuses
<1>5. AllowedFiles(NoFiles, ledger)
  BY ArchiveAllowed
<1>6. ClientsInv
  BY <1>5 DEF Init, ClientsInv
<1>7. Idle \in HandlerState /\ HandlerFits(Idle, ledger, receipts, Len(objects))
  <2>1. Len(objects) = 0
    BY DEF Init
  <2> QED
    BY <1>1, <2>1, IdleFits
<1>8. HandlersInv
  BY <1>7 DEF Init, HandlersInv
<1> QED
  BY <1>2, <1>3, <1>4, <1>6, <1>8 DEF Inv

LEMMA InvStep == Inv /\ [Next]_vars => Inv'
  BY LedgerStep, ObjectsStep, ItemsStep, ClientsStep, HandlersStep DEF Inv

\* The inductive invariant: what anything in the system holds is allowed by the
\* ledger as it is (all of Workspaces).
THEOREM AllowedByLedger == Spec => []Inv
  BY InitInv, InvStep, PTL DEF Spec

LEMMA InvTyped == Inv => TypeOK
<1> SUFFICES ASSUME Inv PROVE TypeOK
  OBVIOUS
<1>1. /\ ledger \in Seq(Transition)
      /\ receipts \subseteq 1..Len(ledger) /\ effects \subseteq 1..Len(ledger)
      /\ objects \in Seq(Object) /\ store \in 0..Len(objects)
  BY DEF Inv, LedgerInv, ObjectsInv
<1>2. quarantine \in [Blob -> Statuses] /\ files \in [Blob -> Statuses]
  BY DEF Inv, ItemsInv, StatusesFit
<1>3. written \in [Path -> Seq(Piece)] /\ exported \in Contents
  BY DEF Inv, ClientsInv, AllowedFiles, Contents
<1>4. ASSUME NEW h \in Handler
      PROVE  handler[h] \in
         [step : Steps, op : Ops \cup {"import", "baseline", "none"},
          object : 0..Len(objects), at : 0..Len(ledger), synced : BOOLEAN,
          path : Path \cup {None}, content : Seq(Piece),
          blob : Blob \cup {None}, files : Contents, zip : BOOLEAN]
  BY HandlerAt DEF HandlerState, HandlerFits
<1>5. handler \in [Handler -> HandlerState]
  BY DEF Inv, HandlersInv
<1> QED
  BY <1>1, <1>2, <1>3, <1>4, <1>5 DEF TypeOK

LEMMA InvAccepted == Inv => ContentAccepted
<1> SUFFICES ASSUME Inv PROVE ContentAccepted
  OBVIOUS
<1>1. \A p : AcceptedPieces(p) = Allowed(ledger, p)
  BY DEF AcceptedPieces, Allowed
<1>2. ASSUME NEW n \in DOMAIN objects PROVE AllowedFiles(objects[n].files, ledger)
  BY DEF Inv, ObjectsInv, ObjectFits
<1>3. /\ AllowedFiles(written, ledger) /\ AllowedFiles(exported, ledger)
      /\ snapshot # None =>
           AllowedFiles(snapshot.files, ledger) /\ AllowedFiles(snapshot.projection, ledger)
  BY DEF Inv, ClientsInv
<1>4. ASSUME NEW p \in Path
      PROVE  /\ \A n \in DOMAIN objects : Pieces(objects[n].files[p]) \subseteq Allowed(ledger, p)
             /\ Pieces(written[p]) \subseteq Allowed(ledger, p)
             /\ Pieces(exported[p]) \subseteq Allowed(ledger, p)
             /\ snapshot # None =>
                  Pieces(snapshot.files[p]) \cup Pieces(snapshot.projection[p])
                    \subseteq Allowed(ledger, p)
  BY <1>2, <1>3 DEF AllowedFiles
<1> QED
  BY <1>1, <1>4, InvTyped DEF ContentAccepted

\* Whatever the handlers do, in whatever order, and whatever fails or is
\* killed: nothing is in a workspace, in what was materialized, in an envelope's
\* files or in a snapshot that was not in the archive or accepted for that very
\* path (recordTransition before every change, internal/server).
THEOREM OnlyAcceptedContent == Spec => []ContentAccepted
  BY AllowedByLedger, InvAccepted, PTL

LEMMA InvDecided == Inv => DecisionAccepted
<1> SUFFICES ASSUME Inv PROVE DecisionAccepted
  OBVIOUS
<1>1. ASSUME NEW b \in Blob
      PROVE  LET shown == {quarantine[b], files[b]}
                            \cup {objects[n].blobs[b] : n \in DOMAIN objects}
             IN  /\ "approved" \in shown => DecidedIn(b, {"admitted"})
                 /\ "rejected" \in shown => DecidedIn(b, {"rejected"})
  <2>1. \A a : DecidedIn(b, a) <=> DecidedBy(ledger, b, a)
    BY DEF DecidedIn, DecidedBy
  <2>2. ASSUME NEW s, StatusesFit(s, ledger)
        PROVE  /\ s[b] = "approved" => DecidedIn(b, {"admitted"})
               /\ s[b] = "rejected" => DecidedIn(b, {"rejected"})
    BY <2>1, <2>2 DEF StatusesFit
  <2>3. /\ StatusesFit(quarantine, ledger) /\ StatusesFit(files, ledger)
        /\ \A n \in DOMAIN objects : StatusesFit(objects[n].blobs, ledger)
    BY DEF Inv, ItemsInv, ObjectsInv, ObjectFits
  <2>4. \A n \in DOMAIN objects :
          /\ objects[n].blobs[b] = "approved" => DecidedIn(b, {"admitted"})
          /\ objects[n].blobs[b] = "rejected" => DecidedIn(b, {"rejected"})
    BY <2>2, <2>3
  <2> QED
    BY <2>2, <2>3, <2>4
<1>2. ASSUME NEW k \in DOMAIN objects PROVE ObjectFits(objects[k], ledger, receipts)
  BY DEF Inv, ObjectsInv
<1>3. ASSUME NEW n, NEW a, BackedBy(n, ledger, receipts, a) PROVE Backed(n, a)
  BY <1>3 DEF Backed, BackedBy
<1>4. ASSUME NEW k \in DOMAIN objects
      PROVE  /\ objects[k].binding # 0 => Backed(objects[k].binding, {"bound"})
             /\ \A b \in Blob :
                  LET n == objects[k].decisions[b]
                  IN  n # 0 => /\ Backed(n, {"admitted", "rejected", "decided"})
                               /\ ledger[n].blob = b
  BY <1>2, <1>3 DEF ObjectFits
<1> QED
  BY <1>1, <1>4 DEF DecisionAccepted

\* A decision about a quarantined entry, wherever it is shown or kept, was
\* accepted, and those shown, like the binding of a root, have their receipts
\* (opAdmitQuarantine, opRejectQuarantine, opQuarantineDecision, opBindWorkspace).
THEOREM OnlyAcceptedDecisions == Spec => []DecisionAccepted
  BY AllowedByLedger, InvDecided, PTL

-----------------------------------------------------------------------------
\* What an envelope keeps.

LEMMA SetToSeqOnto ==
    ASSUME NEW S, IsFiniteSet(S), NEW x \in S
    PROVE  \E i \in DOMAIN SetToSeq(S) : SetToSeq(S)[i] = x
<1> DEFINE n == Cardinality(S)
<1>1. n \in Nat /\ ExistsBijection(1..n, S)
  BY FS_CardinalityType
<1>2. PICK f : f \in Bijection(1..n, S)
  BY <1>1 DEF ExistsBijection
<1>3. f \in [1..n -> S] /\ IsInjective(f)
  BY <1>2 DEF Bijection, Injection
<1>4. SetToSeq(S) \in [1..n -> S] /\ IsInjective(SetToSeq(S))
  BY <1>3 DEF SetToSeq
<1>5. SetToSeq(S) \in Injection(1..n, S)
  BY <1>4 DEF Injection
<1>6. IsFiniteSet(1..n) /\ Cardinality(1..n) = n
  BY <1>1, FS_Interval
<1>7. SetToSeq(S) \in Surjection(1..n, S)
  BY <1>5, <1>6, FS_Injection
<1> QED
  BY <1>4, <1>7 DEF Surjection

\* The envelope that was exported.
Given == ToEnvelope(FilesOf(exported), Cardinality(Archive))

\* Tree and manifest of the envelope of the files f are about the files there
\* are.
LEMMA EnvelopeOf ==
    ASSUME NEW f \in Contents, NEW n
    PROVE  LET e == ToEnvelope(FilesOf(f), n)
           IN  /\ DOMAIN e.tree = DOMAIN e.manifest /\ DOMAIN e.tree \subseteq Nat
               /\ \A i \in DOMAIN e.tree :
                    \E p \in Present(f) : e.tree[i] = Entry(p, f[p])
               /\ \A p \in Present(f) :
                    \E i \in DOMAIN e.tree : e.tree[i] = Entry(p, f[p])
               /\ \A m \in ToSet(e.manifest) :
                    \E p \in Present(f) : m = Listing(p, f[p])
               /\ \A p \in Present(f) : Listing(p, f[p]) \in ToSet(e.manifest)
               /\ e.manifest = <<>> => Present(f) = {}
<1> DEFINE S == Present(f)
           g == FilesOf(f)
           s == SetToSeq(S)
           e == ToEnvelope(g, n)
<1>1. DOMAIN g = S /\ \A p \in S : g[p] = f[p]
  BY DEF FilesOf
<1>2. IsFiniteSet(S)
  BY PathsAssumption, FS_Subset DEF Present
<1>3. /\ DOMAIN s \subseteq Nat /\ \A i \in DOMAIN s : s[i] \in S
      /\ \A p \in S : \E i \in DOMAIN s : s[i] = p
  <2>1. s \in Seq(S)
    BY <1>2, SetToSeqTyped
  <2>2. \A p \in S : \E i \in DOMAIN s : s[i] = p
    BY <1>2, SetToSeqOnto
  <2> HIDE DEF s, S
  <2> QED
    BY <2>1, <2>2
<1>4. e = [tree     |-> [i \in DOMAIN s |-> Entry(s[i], g[s[i]])],
           manifest |-> [i \in DOMAIN s |-> Listing(s[i], g[s[i]])],
           count    |-> n]
  BY <1>1 DEF ToEnvelope
<1>5. /\ e.tree = [i \in DOMAIN s |-> Entry(s[i], g[s[i]])]
      /\ e.manifest = [i \in DOMAIN s |-> Listing(s[i], g[s[i]])]
  BY <1>4
<1> HIDE DEF e, s, g, S
<1>6. /\ DOMAIN e.tree = DOMAIN s /\ DOMAIN e.manifest = DOMAIN s
      /\ \A i \in DOMAIN s : /\ e.tree[i] = Entry(s[i], f[s[i]])
                             /\ e.manifest[i] = Listing(s[i], f[s[i]])
  BY <1>1, <1>3, <1>5
<1>7. ToSet(e.manifest) = {e.manifest[i] : i \in DOMAIN s}
  BY <1>6 DEF ToSet
<1>8. e.manifest = <<>> => S = {}
  <2> SUFFICES ASSUME e.manifest = <<>>, NEW p \in S PROVE FALSE
    OBVIOUS
  <2>1. DOMAIN s = {}
    BY <1>6
  <2> QED
    BY <1>3, <2>1
<1>9. \A i \in DOMAIN e.tree : \E p \in S : e.tree[i] = Entry(p, f[p])
  BY <1>3, <1>6
<1>10. \A p \in S : \E i \in DOMAIN e.tree : e.tree[i] = Entry(p, f[p])
  BY <1>3, <1>6
<1>11. \A m \in ToSet(e.manifest) : \E p \in S : m = Listing(p, f[p])
  BY <1>3, <1>6, <1>7
<1>12. \A p \in S : Listing(p, f[p]) \in ToSet(e.manifest)
  BY <1>3, <1>6, <1>7
<1> QED
  BY <1>3, <1>6, <1>8, <1>9, <1>10, <1>11, <1>12 DEF e, g, S

\* The envelope that a client has was exported, and edited once at most.
EnvelopeInv ==
    envelope # None =>
        \/ envelope = Given
        \/ envelope \in Edits(Given, {<<b>> : b \in Body}, Editable)

LEMMA EnvelopeStep == EnvelopeInv /\ [Next]_vars => EnvelopeInv'
<1> SUFFICES ASSUME EnvelopeInv, [Next]_vars PROVE EnvelopeInv'
  OBVIOUS
<1>1. CASE UNCHANGED clientVars \/ UNCHANGED <<envelope, exported>>
  BY <1>1 DEF EnvelopeInv, Given, clientVars
<1>2. CASE Export
  BY <1>2 DEF Export, EnvelopeInv, Given
<1>3. CASE Edit
  <2>1. envelope = Given /\ exported' = exported
        /\ envelope' \in Edits(envelope, {<<b>> : b \in Body}, Editable)
    BY <1>3 DEF Edit, Given
  <2> QED
    BY <2>1 DEF EnvelopeInv, Given
<1>4. ASSUME NEW h \in Handler,
             \/ Get(h) \/ Prepare(h) \/ TurnDown(h) \/ ImportZip(h)
             \/ ImportEnvelope(h) \/ Accept(h) \/ Refuse(h) \/ SaveReceipt(h)
             \/ ReceiptFails(h) \/ Apply(h) \/ Decide(h) \/ UpdateStatus(h) \/ Note(h)
             \/ Materialize(h)
             \/ ProposeBaseline(h) \/ Expose(h) \/ AddItems(h) \/ ListItems(h)
             \/ Ingest(h) \/ ListEvents(h) \/ Project(h) \/ WriteSnapshot(h)
      PROVE  UNCHANGED clientVars \/ UNCHANGED <<envelope, exported>>
  BY <1>4 DEF Get, Prepare, TurnDown, ImportZip, ImportEnvelope, Accept, Refuse,
     SaveReceipt, ReceiptFails, Apply, Decide, UpdateStatus, Note, Materialize,
     ProposeBaseline, Expose, AddItems, ListItems, Ingest, ListEvents, Project,
     WriteSnapshot
<1>5. Restart \/ UNCHANGED vars => UNCHANGED clientVars
  BY DEF Restart, vars
<1> QED
  BY <1>1, <1>2, <1>3, <1>4, <1>5 DEF Next

LEMMA EditedManifest ==
    ASSUME NEW e, e = [tree |-> e.tree, manifest |-> e.manifest, count |-> e.count],
           NEW d, NEW P, NEW new \in Edits(e, d, P)
    PROVE  new.manifest = e.manifest /\ DOMAIN e.tree # {}
<1> DEFINE nodes == {i \in DOMAIN e.tree : e.tree[i].path \in P}
<1>1. PICK c : c = e
  OBVIOUS
<1>2. /\ c = [tree |-> c.tree, manifest |-> c.manifest, count |-> c.count]
      /\ nodes \subseteq DOMAIN e.tree
  BY <1>1
<1>3. ASSUME NEW i \in nodes, NEW x \in d, new = [e EXCEPT !.tree[i].data = x]
      PROVE  new.manifest = e.manifest
  BY <1>3
<1>4. ASSUME NEW i \in nodes, new = [e EXCEPT !.tree = RemoveAt(@, i)]
      PROVE  new.manifest = e.manifest
  BY <1>4
<1>5. ASSUME NEW i \in nodes, NEW p \in P \cup {Unsafe}, new = [e EXCEPT !.tree[i].declared = p]
      PROVE  new.manifest = e.manifest
  BY <1>5
<1>6. /\ nodes # {}
      /\ \/ \E i \in nodes, x \in d : new = [e EXCEPT !.tree[i].data = x]
         \/ \E i \in nodes : new = [e EXCEPT !.tree = RemoveAt(@, i)]
         \/ \E i \in nodes, p \in P \cup {Unsafe} : new = [e EXCEPT !.tree[i].declared = p]
  BY DEF Edits
<1> QED
  BY <1>2, <1>3, <1>4, <1>5, <1>6

LEMMA ListingIssuesAre ==
    ASSUME NEW env, NEW m
    PROVE  /\ "not in tree" \in ListingIssues(env, m) <=> m.path \notin Places(env)
           /\ m.path \in Places(env) =>
                /\ "manifest size" \in ListingIssues(env, m) <=>
                     m.size \notin {<<>>, Kept(env, m.path).data}
                /\ "manifest sha" \in ListingIssues(env, m) <=>
                     m.sha \notin {<<>>, Kept(env, m.path).data}
           /\ ListingIssues(env, m) \subseteq {"not in tree", "manifest size", "manifest sha"}
  BY DEF ListingIssues

\* No file that is listed and has no issue with its listing differs from it.
LEMMA ListedIs ==
    ASSUME NEW env, NEW f, NEW p \in Present(f),
           Listing(p, f[p]) \in ToSet(env.manifest), p \in Places(env),
           "manifest size" \notin ListingIssues(env, Listing(p, f[p]))
    PROVE  FromEnvelope(env).files[p] = f[p]
<1> DEFINE m == Listing(p, f[p])
<1>1. /\ m.path = p /\ m.size = f[p] /\ f[p] # <<>>
      /\ m.path \in Places(env) /\ "manifest size" \notin ListingIssues(env, m)
  BY DEF Listing, Present
<1>2. f[p] = Kept(env, p).data
  <2> HIDE DEF m
  <2> QED
    BY <1>1, ListingIssuesAre
<1> QED
  BY <1>2 DEF FromEnvelope

LEMMA IssuesOfListings ==
    ASSUME NEW env, NEW m \in ToSet(env.manifest)
    PROVE  ListingIssues(env, m) \subseteq Issues(env)
  BY DEF Issues

\* What an envelope of the files f, edited or not, keeps of them.
LEMMA ManifestKeeps ==
    ASSUME NEW f \in Contents, NEW n, NEW env,
           env.manifest = ToEnvelope(FilesOf(f), n).manifest,
           env.manifest = <<>> => Places(env) = {}
    PROVE  /\ \A p \in Present(f) \cap FromEnvelope(env).verified :
                FromEnvelope(env).files[p] = f[p]
           /\ FromEnvelope(env).issues \subseteq {"file count"} =>
                FromEnvelope(env).files = FilesOf(f)
<1>1. /\ \A m \in ToSet(env.manifest) : \E p \in Present(f) : m = Listing(p, f[p])
      /\ \A p \in Present(f) : Listing(p, f[p]) \in ToSet(env.manifest)
      /\ env.manifest = <<>> => Present(f) = {}
  BY EnvelopeOf
<1>2. \A p \in Present(f) : Listing(p, f[p]).path = p
  BY DEF Listing
<1>3. ASSUME NEW p \in Present(f) \cap FromEnvelope(env).verified
      PROVE  FromEnvelope(env).files[p] = f[p]
  <2>1. p \in Places(env) /\ ListingIssues(env, Listing(p, f[p])) = {}
    BY <1>1, <1>2 DEF FromEnvelope, Verified
  <2> QED
    BY ZenonT(60), <1>1, <2>1, ListedIs
<1>4. ASSUME FromEnvelope(env).issues \subseteq {"file count"}
      PROVE  FromEnvelope(env).files = FilesOf(f)
  <2>1. Issues(env) \subseteq {"file count"}
    BY <1>4 DEF FromEnvelope
  <2>2. ASSUME NEW p \in Present(f)
        PROVE  p \in Places(env) /\ FromEnvelope(env).files[p] = f[p]
    <3>1. ListingIssues(env, Listing(p, f[p])) \subseteq {"file count"}
      BY <1>1, <2>1, IssuesOfListings
    <3>2. p \in Places(env)
      BY <1>2, <3>1, ListingIssuesAre
    <3> QED
      BY <1>1, <3>1, <3>2, ListedIs
  <2>3. Places(env) \subseteq Present(f)
    <3>1. CASE env.manifest = <<>>
      BY <3>1
    <3>2. CASE env.manifest # <<>>
      <4>1. "not in manifest" \notin Issues(env)
        BY <2>1
      <4>2. Places(env) \subseteq {m.path : m \in ToSet(env.manifest)}
        BY <3>2, <4>1 DEF Issues
      <4> QED
        BY <1>1, <1>2, <4>2
    <3> QED
      BY <3>1, <3>2
  <2>4. FromEnvelope(env).files = [p \in Places(env) |-> Kept(env, p).data]
    BY DEF FromEnvelope
  <2>5. Places(env) = Present(f)
    BY <2>2, <2>3
  <2> QED
    BY <2>2, <2>4, <2>5 DEF FilesOf
<1> QED
  BY <1>3, <1>4

\* The entry a file is kept of.
LEMMA KeptIs ==
    ASSUME NEW env, DOMAIN env.tree \subseteq Nat, NEW p \in Places(env)
    PROVE  \E i \in Walked(env) : Place(env.tree[i]) = p /\ Kept(env, p) = env.tree[i]
<1> DEFINE found == {i \in Walked(env) : Place(env.tree[i]) = p}
           i == CHOOSE i \in found : \A j \in found : i <= j
<1>1. found # {} /\ found \subseteq Nat
  BY DEF Places, Walked
<1>2. i \in found
  <2> HIDE DEF found
  <2> QED
    BY <1>1, LeastIndex
<1>3. Kept(env, p) = env.tree[i]
  BY Zenon DEF Kept
<1> QED
  BY <1>2, <1>3

\* The envelope itself, unedited.
LEMMA UneditedKeeps ==
    ASSUME NEW f \in Contents, NEW n, NEW env, env = ToEnvelope(FilesOf(f), n),
           NEW plain, plain = {p \in Present(f) : \A q \in Present(f) : <<p, q>> \notin Below}
    PROVE  /\ plain = FromEnvelope(env).verified
           /\ ("not in tree" \in FromEnvelope(env).issues) <=> plain # Present(f)
<1>1. /\ DOMAIN env.tree \subseteq Nat
      /\ \A i \in DOMAIN env.tree : \E p \in Present(f) : env.tree[i] = Entry(p, f[p])
      /\ \A p \in Present(f) : \E i \in DOMAIN env.tree : env.tree[i] = Entry(p, f[p])
      /\ \A m \in ToSet(env.manifest) : \E p \in Present(f) : m = Listing(p, f[p])
      /\ \A p \in Present(f) : Listing(p, f[p]) \in ToSet(env.manifest)
  <2> DEFINE e == ToEnvelope(FilesOf(f), n)
  <2>1. /\ DOMAIN e.tree \subseteq Nat
        /\ \A i \in DOMAIN e.tree : \E p \in Present(f) : e.tree[i] = Entry(p, f[p])
        /\ \A p \in Present(f) : \E i \in DOMAIN e.tree : e.tree[i] = Entry(p, f[p])
        /\ \A m \in ToSet(e.manifest) : \E p \in Present(f) : m = Listing(p, f[p])
        /\ \A p \in Present(f) : Listing(p, f[p]) \in ToSet(e.manifest)
    BY EnvelopeOf
  <2>2. env = e
    OBVIOUS
  <2> HIDE DEF e
  <2> QED
    BY <2>1, <2>2
<1>2. \A p \in Present(f) : /\ Entry(p, f[p]).path = p /\ Place(Entry(p, f[p])) = p
                            /\ EntryIssues(Entry(p, f[p])) = {}
                            /\ Entry(p, f[p]).data = f[p]
  <2> SUFFICES ASSUME NEW p \in Present(f)
               PROVE  /\ Entry(p, f[p]).path = p /\ Place(Entry(p, f[p])) = p
                      /\ EntryIssues(Entry(p, f[p])) = {}
                      /\ Entry(p, f[p]).data = f[p]
    OBVIOUS
  <2>1. p \notin {None, Unsafe}
    BY PathsAssumption DEF Present
  <2>2. PICK e : e = Entry(p, f[p])
    OBVIOUS
  <2>3. e.path = p /\ e.declared = p /\ e.data = f[p] /\ e.size = f[p] /\ e.sha = f[p]
    BY <2>2 DEF Entry
  <2>4. Place(e) = p
    BY <2>1, <2>3 DEF Place
  <2>5. EntryIssues(e) = {}
    BY <2>1, <2>3 DEF EntryIssues
  <2> QED
    BY <2>2, <2>3, <2>4, <2>5
<1>3. \A i \in DOMAIN env.tree : i \in Walked(env) <=> env.tree[i].path \in plain
  <2> SUFFICES ASSUME NEW i \in DOMAIN env.tree
               PROVE  i \in Walked(env) <=> env.tree[i].path \in plain
    OBVIOUS
  <2>1. env.tree[i].path \in Present(f)
    BY <1>1, <1>2
  <2>2. \A q : q \in Present(f) <=> \E j \in DOMAIN env.tree : env.tree[j].path = q
    BY <1>1, <1>2
  <2> QED
    BY <2>1, <2>2 DEF Walked
<1>4. Places(env) = plain
  <2>1. Walked(env) \subseteq DOMAIN env.tree
    BY DEF Walked
  <2>2. \A i \in DOMAIN env.tree : Place(env.tree[i]) = env.tree[i].path
    BY <1>1, <1>2
  <2>3. plain \subseteq Present(f)
    OBVIOUS
  <2> QED
    BY <1>1, <1>2, <1>3, <2>1, <2>2, <2>3 DEF Places
<1>5. \A p \in plain : Kept(env, p) = Entry(p, f[p])
  <2> SUFFICES ASSUME NEW p \in plain PROVE Kept(env, p) = Entry(p, f[p])
    OBVIOUS
  <2>1. PICK i \in Walked(env) : Place(env.tree[i]) = p /\ Kept(env, p) = env.tree[i]
    BY <1>1, <1>4, KeptIs
  <2>2. i \in DOMAIN env.tree
    BY DEF Walked
  <2>3. PICK q \in Present(f) : env.tree[i] = Entry(q, f[q])
    BY <1>1, <2>2
  <2> QED
    BY <1>2, <2>1, <2>3
<1>6. ASSUME NEW p \in plain, NEW m \in ToSet(env.manifest), m.path = p
      PROVE  ListingIssues(env, m) = {}
  <2>1. PICK q \in Present(f) : m = Listing(q, f[q])
    BY <1>1
  <2>2. m.size = f[p] /\ m.sha = f[p]
    BY <1>6, <2>1 DEF Listing
  <2>3. Kept(env, m.path).data = f[p]
    <3>1. p \in Present(f)
      OBVIOUS
    <3> QED
      BY <1>2, <1>5, <1>6, <3>1
  <2>4. m.path \in Places(env)
    BY <1>4, <1>6
  <2> QED
    BY <2>2, <2>3, <2>4, ListingIssuesAre
<1>7. plain = FromEnvelope(env).verified
  <2>1. \A p \in plain : Verified(env, p)
    <3>1. \A p \in plain : p \in Present(f)
      OBVIOUS
    <3> QED
      BY <1>2, <1>5, <1>6, <3>1 DEF Verified
  <2>2. FromEnvelope(env).verified = {p \in Places(env) : Verified(env, p)}
    BY DEF FromEnvelope
  <2> QED
    BY <1>4, <2>1, <2>2
<1>8. "not in tree" \in Issues(env) <=>
        \E m \in ToSet(env.manifest) : m.path \notin Places(env)
  <2>1. \A e : "not in tree" \notin EntryIssues(e)
    BY DEF EntryIssues
  <2>2. \A m : "not in tree" \in ListingIssues(env, m) <=> m.path \notin Places(env)
    BY ListingIssuesAre
  <2> QED
    BY <2>1, <2>2 DEF Issues
<1>9. (\E m \in ToSet(env.manifest) : m.path \notin Places(env)) <=> plain # Present(f)
  <2>1. \A p \in Present(f) : Listing(p, f[p]).path = p
    BY DEF Listing
  <2>2. plain \subseteq Present(f)
    OBVIOUS
  <2> QED
    BY <1>1, <1>4, <2>1, <2>2
<1>10. FromEnvelope(env).issues = Issues(env)
  BY DEF FromEnvelope
<1> QED
  BY <1>7, <1>8, <1>9, <1>10

LEMMA EnvelopeKept == Inv /\ EnvelopeInv => EnvelopeKeeps
<1> SUFFICES ASSUME Inv, EnvelopeInv, envelope # None PROVE EnvelopeKeeps
  BY DEF EnvelopeKeeps
<1>1. exported \in Contents
  BY DEF Inv, ClientsInv, AllowedFiles
<1>2. /\ DOMAIN Given.tree = DOMAIN Given.manifest
      /\ Given = [tree |-> Given.tree, manifest |-> Given.manifest, count |-> Given.count]
  BY <1>1, EnvelopeOf, ToEnvelopeTyped DEF Given
<1>3. /\ envelope.manifest = Given.manifest
      /\ envelope = Given \/ DOMAIN Given.tree # {}
  BY <1>2, EditedManifest DEF EnvelopeInv
<1>4. envelope.manifest = <<>> => Places(envelope) = {}
  <2> SUFFICES ASSUME envelope.manifest = <<>> PROVE Places(envelope) = {}
    OBVIOUS
  <2>1. DOMAIN Given.tree = {}
    BY <1>2, <1>3
  <2>2. envelope = Given
    BY <1>3, <2>1
  <2> QED
    BY <2>1, <2>2 DEF Places, Walked
<1>5. /\ \A p \in Present(exported) \cap FromEnvelope(envelope).verified :
           FromEnvelope(envelope).files[p] = exported[p]
      /\ FromEnvelope(envelope).issues \subseteq {"file count"} =>
           FromEnvelope(envelope).files = FilesOf(exported)
  BY <1>1, <1>3, <1>4, ManifestKeeps DEF Given
<1> DEFINE plain == {p \in Present(exported) :
                       \A q \in Present(exported) : <<p, q>> \notin Below}
<1>6. envelope = Given =>
        /\ plain = FromEnvelope(envelope).verified
        /\ ("not in tree" \in FromEnvelope(envelope).issues) <=> plain # Present(exported)
  <2> HIDE DEF plain
  <2>1. plain = {p \in Present(exported) :
                   \A q \in Present(exported) : <<p, q>> \notin Below}
    BY DEF plain
  <2> QED
    BY <1>1, <2>1, UneditedKeeps DEF Given
<1> QED
  BY <1>5, <1>6 DEF EnvelopeKeeps, Given

\* An envelope gives the workspace's files back, whatever other requests do:
\* no verified file of it differs, even if it was edited, one without issues
\* has them all, and an unedited one lacks only files below another one
\* (ToEnvelope and FromEnvelope, internal/workspace).
THEOREM EnvelopesKeep == Spec => []EnvelopeKeeps
<1>1. Init => EnvelopeInv
  BY DEF Init, EnvelopeInv
<1> QED
  BY <1>1, EnvelopeStep, EnvelopeKept, AllowedByLedger, PTL DEF Spec

-----------------------------------------------------------------------------
\* Build-ledger files come through an envelope unchanged: nobody edits them, and
\* they are not below another file.

LedgerUncovered == \A pq \in Below : pq[1] \notin LedgerPath

\* The entries of the tree T that get a place in build-ledger/ are those files
\* of f.
TreeFaithful(T, f) ==
    /\ DOMAIN T \subseteq Nat
    /\ \A i \in DOMAIN T : Place(T[i]) \in LedgerPath =>
         /\ Place(T[i]) \in Present(f)
         /\ T[i] = Entry(Place(T[i]), f[Place(T[i])])
    /\ \A p \in Present(f) \cap LedgerPath : \E i \in DOMAIN T : T[i] = Entry(p, f[p])

LEMMA EntryIs ==
    ASSUME NEW p \in Path, NEW d
    PROVE  /\ Entry(p, d).path = p /\ Entry(p, d).declared = p /\ Entry(p, d).data = d
           /\ Place(Entry(p, d)) = p
<1>1. p \notin {None, Unsafe}
  BY PathsAssumption
<1>2. PICK e : e = Entry(p, d)
  OBVIOUS
<1>3. e.path = p /\ e.declared = p /\ e.data = d
  BY <1>2 DEF Entry
<1> QED
  BY <1>1, <1>2, <1>3 DEF Place

LEMMA GivenFaithful ==
    ASSUME NEW f \in Contents, NEW n
    PROVE  /\ TreeFaithful(ToEnvelope(FilesOf(f), n).tree, f)
           /\ \A i \in DOMAIN ToEnvelope(FilesOf(f), n).tree :
                Place(ToEnvelope(FilesOf(f), n).tree[i])
                  = ToEnvelope(FilesOf(f), n).tree[i].path
<1> DEFINE T == ToEnvelope(FilesOf(f), n).tree
<1>1. /\ DOMAIN T \subseteq Nat
      /\ \A i \in DOMAIN T : \E p \in Present(f) : T[i] = Entry(p, f[p])
      /\ \A p \in Present(f) : \E i \in DOMAIN T : T[i] = Entry(p, f[p])
  BY EnvelopeOf
<1>2. \A p \in Present(f) : Place(Entry(p, f[p])) = p /\ Entry(p, f[p]).path = p
  BY EntryIs DEF Present
<1> HIDE DEF T
<1>3. \A i \in DOMAIN T : /\ Place(T[i]) \in Present(f)
                          /\ T[i] = Entry(Place(T[i]), f[Place(T[i])])
                          /\ Place(T[i]) = T[i].path
  BY <1>1, <1>2
<1> QED
  BY <1>1, <1>3 DEF TreeFaithful, T

LEMMA RemoveAtIs ==
    ASSUME NEW S, NEW T \in Seq(S), NEW i \in DOMAIN T
    PROVE  /\ RemoveAt(T, i) \in Seq(S) /\ Len(RemoveAt(T, i)) = Len(T) - 1
           /\ \A j \in 1..(Len(T) - 1) :
                RemoveAt(T, i)[j] = IF j < i THEN T[j] ELSE T[j + 1]
<1> DEFINE A == SubSeq(T, 1, i - 1)
           B == SubSeq(T, i + 1, Len(T))
<1>1. i \in 1..Len(T) /\ Len(T) \in Nat
  OBVIOUS
<1>2. /\ A \in Seq(S) /\ Len(A) = i - 1 /\ \A j \in 1..(i - 1) : A[j] = T[j]
      /\ B \in Seq(S) /\ Len(B) = Len(T) - i
      /\ \A j \in 1..(Len(T) - i) : B[j] = T[i + j]
  BY <1>1, SubSeqProperties
<1>3. RemoveAt(T, i) = A \o B
  BY DEF RemoveAt
<1> HIDE DEF A, B
<1>4. /\ A \o B \in Seq(S) /\ Len(A \o B) = Len(T) - 1
      /\ \A j \in 1..(Len(T) - 1) :
           (A \o B)[j] = IF j <= i - 1 THEN A[j] ELSE B[j - (i - 1)]
  BY SMTT(60), <1>1, <1>2
<1>5. ASSUME NEW j \in 1..(Len(T) - 1)
      PROVE  (A \o B)[j] = IF j < i THEN T[j] ELSE T[j + 1]
  <2>1. CASE j < i
    BY <1>1, <1>2, <1>4, <2>1
  <2>2. CASE ~ (j < i)
    <3>1. (j - (i - 1)) \in 1..(Len(T) - i) /\ i + (j - (i - 1)) = j + 1
      BY <1>1, <2>2
    <3>2. B[j - (i - 1)] = T[j + 1]
      BY <1>2, <3>1
    <3> QED
      BY <1>1, <1>4, <2>2, <3>2
  <2> QED
    BY <2>1, <2>2
<1> QED
  BY <1>3, <1>4, <1>5

LEMMA EditedFaithful ==
    ASSUME NEW f \in Contents, NEW e,
           e = [tree |-> e.tree, manifest |-> e.manifest, count |-> e.count],
           e.tree \in Seq(EntryType), TreeFaithful(e.tree, f),
           \A i \in DOMAIN e.tree : Place(e.tree[i]) = e.tree[i].path,
           NEW d, NEW new \in Edits(e, d, Editable)
    PROVE  TreeFaithful(new.tree, f)
<1> DEFINE T == e.tree
           nodes == {i \in DOMAIN e.tree : e.tree[i].path \in Editable}
<1>0. /\ \A p \in Editable : p \notin LedgerPath /\ p \in Path
      /\ DOMAIN T = 1..Len(T) /\ Len(T) \in Nat
      /\ \A i \in DOMAIN T : T[i] \in EntryType
  BY PathsAssumption DEF Path
<1>1. ASSUME NEW i \in DOMAIN T, T[i].path \in Editable, NEW y,
             Place(y) \notin LedgerPath, NEW U, U = [T EXCEPT ![i] = y]
      PROVE  TreeFaithful(U, f)
  <2>1. DOMAIN U = DOMAIN T /\ \A j \in DOMAIN T : U[j] = IF j = i THEN y ELSE T[j]
    BY <1>1
  <2>2. \A p \in Present(f) \cap LedgerPath : Entry(p, f[p]).path = p
    BY EntryIs DEF Present
  <2>3. \A p \in Present(f) \cap LedgerPath : \E j \in DOMAIN U : U[j] = Entry(p, f[p])
    <3> SUFFICES ASSUME NEW p \in Present(f) \cap LedgerPath
                 PROVE  \E j \in DOMAIN U : U[j] = Entry(p, f[p])
      OBVIOUS
    <3>1. PICK j \in DOMAIN T : T[j] = Entry(p, f[p])
      BY DEF TreeFaithful
    <3>2. j # i
      BY <1>0, <1>1, <2>2, <3>1
    <3> QED
      BY <2>1, <3>1, <3>2
  <2> QED
    BY <1>1, <2>1, <2>3 DEF TreeFaithful
<1>2. ASSUME NEW i \in nodes, NEW x \in d, new = [e EXCEPT !.tree[i].data = x]
      PROVE  TreeFaithful(new.tree, f)
  <2> DEFINE y == [T[i] EXCEPT !.data = x]
  <2>1. new.tree = [T EXCEPT ![i] = y]
    BY <1>2
  <2>2. y.declared = T[i].declared /\ y.path = T[i].path
    BY <1>0 DEF EntryType
  <2>3. Place(y) = T[i].path
    BY <2>2 DEF Place
  <2> HIDE DEF y
  <2> QED
    BY <1>0, <1>1, <2>1, <2>3
<1>3. ASSUME NEW i \in nodes, NEW p \in Editable \cup {Unsafe},
             new = [e EXCEPT !.tree[i].declared = p]
      PROVE  TreeFaithful(new.tree, f)
  <2> DEFINE y == [T[i] EXCEPT !.declared = p]
  <2>1. new.tree = [T EXCEPT ![i] = y]
    BY <1>3
  <2>2. y.declared = p /\ y.path = T[i].path
    BY <1>0 DEF EntryType
  <2>3. Place(y) \in Editable
    BY <1>3, <2>2 DEF Place
  <2> HIDE DEF y
  <2> QED
    BY <1>0, <1>1, <2>1, <2>3
<1>4. ASSUME NEW i \in nodes, new = [e EXCEPT !.tree = RemoveAt(@, i)]
      PROVE  TreeFaithful(new.tree, f)
  <2> DEFINE U == RemoveAt(T, i)
  <2>1. new.tree = U
    BY <1>4
  <2>2. U \in Seq(EntryType) /\ Len(U) = Len(T) - 1
        /\ \A j \in 1..(Len(T) - 1) : U[j] = IF j < i THEN T[j] ELSE T[j + 1]
    BY RemoveAtIs
  <2> HIDE DEF U, T
  <2>3. DOMAIN U = 1..(Len(T) - 1) /\ i \in 1..Len(T)
    BY <1>0, <2>2 DEF T
  <2>4. \A j \in DOMAIN U : \E k \in DOMAIN T : U[j] = T[k]
    <3> SUFFICES ASSUME NEW j \in DOMAIN U PROVE \E k \in DOMAIN T : U[j] = T[k]
      OBVIOUS
    <3>1. j \in DOMAIN T /\ j + 1 \in DOMAIN T
      BY <1>0, <2>3
    <3> QED
      BY <2>2, <2>3, <3>1
  <2>5. \A k \in DOMAIN T : k # i => \E j \in DOMAIN U : U[j] = T[k]
    <3> SUFFICES ASSUME NEW k \in DOMAIN T, k # i PROVE \E j \in DOMAIN U : U[j] = T[k]
      OBVIOUS
    <3>1. CASE k < i
      BY <1>0, <2>2, <2>3, <3>1
    <3>2. CASE k > i
      <4>1. k - 1 \in DOMAIN U /\ ~ (k - 1 < i) /\ (k - 1) + 1 = k
        BY <1>0, <2>3, <3>2
      <4> QED
        BY <2>2, <2>3, <4>1
    <3> QED
      BY <1>0, <2>3, <3>1, <3>2
  <2>6. \A p \in Present(f) \cap LedgerPath : \E j \in DOMAIN U : U[j] = Entry(p, f[p])
    <3> SUFFICES ASSUME NEW p \in Present(f) \cap LedgerPath
                 PROVE  \E j \in DOMAIN U : U[j] = Entry(p, f[p])
      OBVIOUS
    <3>1. PICK k \in DOMAIN T : T[k] = Entry(p, f[p])
      BY DEF TreeFaithful, T
    <3>2. T[k].path = p
      BY <3>1, EntryIs DEF Present
    <3>3. k # i
      BY <1>0, <3>2 DEF T
    <3> QED
      BY <2>5, <3>1, <3>3
  <2>7. DOMAIN U \subseteq Nat
    BY <2>3, <1>0
  <2> QED
    BY <2>1, <2>4, <2>6, <2>7 DEF TreeFaithful, T
<1> QED
  BY SMTT(60), <1>2, <1>3, <1>4 DEF Edits

\* What ImportEnvelope parses.
ParsedFiles(env) ==
    [p \in Path |-> IF p \in DOMAIN FromEnvelope(env).files
                    THEN FromEnvelope(env).files[p] ELSE <<>>]

LEMMA FaithfulParsed ==
    ASSUME LedgerUncovered, NEW f \in Contents, NEW env, TreeFaithful(env.tree, f),
           NEW p \in LedgerPath
    PROVE  ParsedFiles(env)[p] = f[p]
<1>0. p \in Path /\ ParsedFiles(env)[p] = IF p \in Places(env) THEN Kept(env, p).data ELSE <<>>
  BY DEF Path, ParsedFiles, FromEnvelope
<1>1. DOMAIN env.tree \subseteq Nat
  BY DEF TreeFaithful
<1>2. CASE p \in Places(env)
  <2>1. PICK i \in Walked(env) : Place(env.tree[i]) = p /\ Kept(env, p) = env.tree[i]
    BY <1>1, <1>2, KeptIs
  <2>2. i \in DOMAIN env.tree
    BY DEF Walked
  <2>3. env.tree[i] = Entry(p, f[p])
    BY <2>1, <2>2 DEF TreeFaithful
  <2>4. Kept(env, p).data = f[p]
    BY <1>0, <2>1, <2>3, EntryIs
  <2> QED
    BY <1>0, <1>2, <2>4
<1>3. CASE p \notin Places(env)
  <2> SUFFICES ASSUME p \in Present(f) PROVE FALSE
    BY <1>0, <1>3 DEF Present
  <2>1. PICK i \in DOMAIN env.tree : env.tree[i] = Entry(p, f[p])
    BY DEF TreeFaithful
  <2>2. env.tree[i].path = p /\ Place(env.tree[i]) = p
    BY <1>0, <2>1, EntryIs
  <2>3. \A j \in DOMAIN env.tree : <<env.tree[i].path, env.tree[j].path>> \notin Below
    <3> SUFFICES ASSUME NEW q, <<p, q>> \in Below PROVE FALSE
      BY <2>2
    <3>1. <<p, q>>[1] = p
      OBVIOUS
    <3> QED
      BY <3>1 DEF LedgerUncovered
  <2>4. i \in Walked(env)
    BY <2>3 DEF Walked
  <2> QED
    BY <1>3, <2>2, <2>4 DEF Places
<1> QED
  BY <1>2, <1>3

LEMMA ParsedLedger ==
    ASSUME LedgerUncovered, Inv, EnvelopeInv, envelope # None, NEW p \in LedgerPath
    PROVE  ParsedFiles(envelope)[p] = exported[p]
<1>1. exported \in Contents
  BY DEF Inv, ClientsInv, AllowedFiles
<1>2. /\ Given = [tree |-> Given.tree, manifest |-> Given.manifest, count |-> Given.count]
      /\ Given.tree \in Seq(EntryType)
  BY <1>1, ToEnvelopeTyped DEF Given
<1>3. /\ TreeFaithful(Given.tree, exported)
      /\ \A i \in DOMAIN Given.tree : Place(Given.tree[i]) = Given.tree[i].path
  BY <1>1, GivenFaithful DEF Given
<1>4. TreeFaithful(envelope.tree, exported)
  <2>1. CASE envelope = Given
    BY <1>3, <2>1
  <2>2. CASE envelope \in Edits(Given, {<<b>> : b \in Body}, Editable)
    BY <1>1, <1>2, <1>3, <2>2, EditedFaithful
  <2> QED
    BY <2>1, <2>2 DEF EnvelopeInv
<1> QED
  BY <1>1, <1>4, FaithfulParsed

-----------------------------------------------------------------------------
\* Build-ledger files that are in the archive are in all that is made of it.

AllThere(f) == \A p \in Archive \cap LedgerPath : f[p] # <<>>

\* The handler's files are an import's.
Brings(x) == x.op \in Makes /\ x.step \in {"ready", "accepted", "receipted"}

ThereInv ==
    /\ \A k \in DOMAIN objects : AllThere(objects[k].files)
    /\ envelope # None => AllThere(exported)
    /\ \A h \in Handler : Brings(handler[h]) => AllThere(handler[h].files)

\* A handler with files of an import imports them, goes on with them, or stays
\* as it is.
LEMMA BringsStep ==
    ASSUME Inv, [Next]_vars, NEW g \in Handler, Brings(handler'[g])
    PROVE  \/ ImportZip(g) \/ ImportEnvelope(g)
           \/ handler'[g] = handler[g]
           \/ /\ Accept(g) \/ SaveReceipt(g) \/ ProposeBaseline(g)
              /\ Brings(handler[g]) /\ handler'[g].files = handler[g].files
<1>1. handler \in [Handler -> HandlerState]
  BY DEF Inv, HandlersInv
<1>2. CASE UNCHANGED handler
  BY <1>2
<1>3. ASSUME NEW h \in Handler,
             \/ TurnDown(h) \/ Refuse(h) \/ ReceiptFails(h) \/ Apply(h)
             \/ UpdateStatus(h) \/ Note(h) \/ Materialize(h) \/ ListItems(h)
             \/ WriteSnapshot(h)
      PROVE  handler'[g] = handler[g]
  <2>1. handler' = [handler EXCEPT ![h] = Idle]
    BY <1>3 DEF TurnDown, Refuse, ReceiptFails, Apply, UpdateStatus, Note, Materialize,
       ListItems, WriteSnapshot
  <2>2. ~Brings(Idle)
    BY DEF Brings, Idle, Makes
  <2> QED
    BY <1>1, <2>1, <2>2
<1>5. ASSUME NEW h \in Handler, Get(h)
      PROVE  handler'[g] = handler[g]
  <2>1. handler'[h].step = "got" /\ \A k \in Handler \ {h} : handler'[k] = handler[k]
    BY <1>1, <1>5 DEF Get, Idle
  <2> QED
    BY <2>1 DEF Brings
<1>6. ASSUME NEW h \in Handler, Prepare(h)
      PROVE  handler'[g] = handler[g]
  <2>1. handler'[h].op = handler[h].op /\ \A k \in Handler \ {h} : handler'[k] = handler[k]
    BY <1>1, <1>6 DEF Prepare, HandlerState
  <2>2. handler[h].op \notin Makes
    BY <1>6, HandlerAt DEF Prepare, HandlerFits, Makes, Changes
  <2> QED
    BY <2>1, <2>2 DEF Brings
<1>7. ASSUME NEW h \in Handler, Accept(h) \/ SaveReceipt(h) \/ ProposeBaseline(h)
      PROVE  \/ handler'[g] = handler[g]
             \/ g = h /\ Brings(handler[g]) /\ handler'[g].files = handler[g].files
  <2>1. /\ handler'[h].files = handler[h].files
        /\ handler[h].step \in {"ready", "accepted", "receipted"}
        /\ handler'[h].op \in Makes => handler[h].op \in Makes
        /\ \A k \in Handler \ {h} : handler'[k] = handler[k]
    <3>1. CASE Accept(h)
      BY <1>1, <3>1 DEF Accept, HandlerState
    <3>2. CASE SaveReceipt(h)
      BY <1>1, <3>2 DEF SaveReceipt, HandlerState
    <3>3. CASE ProposeBaseline(h)
      BY <1>1, <3>3 DEF ProposeBaseline, HandlerState, Makes
    <3> QED
      BY <1>7, <3>1, <3>2, <3>3
  <2> QED
    BY <2>1 DEF Brings
<1>8. ASSUME NEW h \in Handler,
             \/ Decide(h) \/ Expose(h) \/ AddItems(h) \/ ListEvents(h) \/ Project(h)
      PROVE  handler'[g] = handler[g]
  <2>1. /\ handler'[h].step \in {"idle", "decided", "exposed", "added", "listed", "projected"}
        /\ \A k \in Handler \ {h} : handler'[k] = handler[k]
    <3>1. CASE Decide(h)
      BY <1>1, <3>1 DEF Decide, HandlerState
    <3>2. CASE Expose(h)
      <4> DEFINE y == [Idle EXCEPT !.step = "exposed", !.op = handler[h].op,
                                   !.at = handler[h].at, !.object = Len(objects) + 1]
      <4>1. y.step = "exposed" /\ Idle.step = "idle"
        BY DEF Idle
      <4>2. \E z \in {y, Idle} : handler' = [handler EXCEPT ![h] = z]
        BY <3>2 DEF Expose
      <4> HIDE DEF y
      <4> QED
        BY <1>1, <4>1, <4>2
    <3>3. CASE AddItems(h)
      BY <1>1, <3>3 DEF AddItems, HandlerState
    <3>4. CASE ListEvents(h) \/ Project(h)
      BY <1>1, <3>4 DEF ListEvents, Project, HandlerState
    <3> QED
      BY <1>8, <3>1, <3>2, <3>3, <3>4
  <2> QED
    BY <2>1 DEF Brings
<1>9. ASSUME NEW h \in Handler, ImportZip(h) \/ ImportEnvelope(h), h # g
      PROVE  handler'[g] = handler[g]
  BY <1>1, <1>9 DEF ImportZip, ImportEnvelope
<1>10. CASE Restart
  BY <1>10 DEF Restart, Brings, Idle
<1>11. ASSUME NEW h \in Handler, Ingest(h) PROVE UNCHANGED handler
  BY <1>11 DEF Ingest
<1>12. Export \/ Edit \/ UNCHANGED vars => UNCHANGED handler
  BY DEF Export, Edit, vars
<1> QED
  BY <1>2, <1>3, <1>5, <1>6, <1>7, <1>8, <1>9, <1>10, <1>11, <1>12 DEF Next

\* What a step leaves in a workspace's place: files go away only with it.
LEMMA FilesKept ==
    ASSUME Inv, [Next]_vars, NEW k \in DOMAIN objects'
    PROVE  \/ k \in DOMAIN objects
                /\ \A p \in Path : objects[k].files[p] # <<>> => objects'[k].files[p] # <<>>
           \/ objects'[k].files = ArchiveFiles
           \/ \E h \in Handler : Expose(h) /\ objects'[k].files = handler[h].files
<1> DEFINE Same == /\ k \in DOMAIN objects
                   /\ \A p \in Path : objects[k].files[p] # <<>> => objects'[k].files[p] # <<>>
<1>0. objects \in Seq(Object) /\ objects' \in Seq(Object)
  BY ObjectsStep DEF Inv, ObjectsInv
<1>1. CASE UNCHANGED objects
  BY <1>1
<1>2. CASE Restart
  BY <1>2 DEF Restart
<1>3. ASSUME NEW j \in DOMAIN objects, NEW o, objects' = [objects EXCEPT ![j] = o],
             \A p \in Path : objects[j].files[p] # <<>> => o.files[p] # <<>>
      PROVE  Same
  BY <1>0, <1>3
<1>4. ASSUME NEW h \in Handler, Apply(h) PROVE Same
  <2>1. handler[h].object # 0
    BY <1>4, HandlerAt DEF Apply, HandlerFits, Makes
  <2>2. handler[h].object \in DOMAIN objects /\ The(h) \in Object
    BY <2>1, ObjectAt DEF ObjectFits
  <2> DEFINE x == handler[h]
             o == The(h)
             body == x.content[Len(x.content)]
             c == IF x.op = "append" THEN o.files[x.path] \o <<body>> ELSE <<body>>
  <2>3. body \in Piece /\ o.files \in Contents /\ x.path \in Path
    <3>1. x.content \in Seq(Piece) /\ x.content # <<>> /\ x.path \in Path
      BY <1>4, HandlerAt DEF Apply, HandlerFits, HandlerState
    <3>2. body \in Piece
      <4> HIDE DEF x
      <4> QED
        BY <3>1
    <3> QED
      BY <2>2, <3>1, <3>2 DEF Object
  <2>4. c # <<>>
    <3> HIDE DEF body, x, o
    <3>1. o.files[x.path] \in Seq(Piece)
      BY <2>3 DEF Contents
    <3>2. Len(<<body>>) = 1 /\ Len(o.files[x.path] \o <<body>>) = Len(o.files[x.path]) + 1
      BY <2>3, <3>1
    <3>3. Len(o.files[x.path]) \in Nat /\ Len(<<>>) = 0
      BY <3>1
    <3> QED
      BY <3>2, <3>3
  <2>5. objects' = [objects EXCEPT ![x.object] = [o EXCEPT !.files[x.path] = c]]
    <3>1. Changed(h) = [o EXCEPT !.files[x.path] =
                          IF x.op = "append" THEN @ \o <<body>> ELSE <<body>>]
      BY DEF Changed
    <3>2. Changed(h) = [o EXCEPT !.files[x.path] = c]
      BY <2>2, <2>3, <3>1 DEF Object, Contents
    <3>3. objects' = [objects EXCEPT ![x.object] = Changed(h)]
      BY <1>4 DEF Apply
    <3> QED
      BY <3>2, <3>3
  <2> HIDE DEF c
  <2>6. \A p \in Path : o.files[p] # <<>> => [o EXCEPT !.files[x.path] = c].files[p] # <<>>
    <3> HIDE DEF o, x
    <3> QED
      BY <2>2, <2>3, <2>4 DEF Object, Contents, o
  <2> QED
    BY <1>3, <2>2, <2>5, <2>6
<1>5. ASSUME NEW h \in Handler, Decide(h) PROVE Same
  <2>1. handler[h].object # 0
    BY <1>5, HandlerAt DEF Decide, HandlerFits, Makes
  <2>2. handler[h].object \in DOMAIN objects /\ The(h) \in Object
    BY <2>1, ObjectAt DEF ObjectFits
  <2>3. objects' = [objects EXCEPT ![handler[h].object] = Decided(h)]
    BY <1>5 DEF Decide
  <2>4. The(h).files \in Contents
    BY <2>2 DEF Object
  <2>5. Decided(h).files = IF handler[h].op = "admit"
                           THEN [The(h).files EXCEPT ![handler[h].path] = <<handler[h].blob>>]
                           ELSE The(h).files
    BY <2>2 DEF Decided, Object
  <2>6. \A p \in Path : The(h).files[p] # <<>> => Decided(h).files[p] # <<>>
    BY <2>4, <2>5 DEF Contents
  <2> QED
    BY <1>3, <2>2, <2>3, <2>6
<1>6. ASSUME NEW h \in Handler, Note(h) \/ UpdateStatus(h) \/ ListItems(h) PROVE Same
  <2>1. handler[h].object # 0
    BY <1>6, HandlerAt DEF Note, UpdateStatus, ListItems, HandlerFits, Makes
  <2>2. handler[h].object \in DOMAIN objects /\ The(h) \in Object
    BY <2>1, ObjectAt DEF ObjectFits
  <2>3. objects'[handler[h].object].files = The(h).files
        /\ DOMAIN objects' = DOMAIN objects
        /\ \A j \in DOMAIN objects : j # handler[h].object => objects'[j] = objects[j]
    <3>1. CASE Note(h)
      BY <2>2, <3>1 DEF Note, Object
    <3>2. CASE UpdateStatus(h)
      BY <2>2, <3>2 DEF UpdateStatus, Object
    <3>3. CASE ListItems(h)
      BY <2>2, <3>3 DEF ListItems, Listed, Object
    <3> QED
      BY <1>6, <3>1, <3>2, <3>3
  <2> QED
    BY <2>3
<1>7. ASSUME NEW o, objects' = Append(objects, o)
      PROVE  Same \/ objects'[k] = o
  <2>1. o = objects'[Len(objects) + 1] /\ Len(objects') = Len(objects) + 1
        /\ Len(objects) \in Nat /\ \A j \in DOMAIN objects : objects'[j] = objects[j]
    <3>1. objects \in Seq(Object \cup {o}) /\ o \in Object \cup {o}
      BY <1>0
    <3> QED
      BY <1>7, <3>1, AppendProperties
  <2>2. k \in 1..(Len(objects) + 1) /\ DOMAIN objects = 1..Len(objects)
    BY <1>0, <2>1
  <2> QED
    BY <2>1, <2>2
<1>8. ASSUME NEW h \in Handler, Expose(h)
      PROVE  Same \/ objects'[k].files = handler[h].files
  <2>1. Same \/ objects'[k] = Imported(handler[h].files, handler[h].zip)
    <3> HIDE DEF Same
    <3> QED
      BY <1>7, <1>8 DEF Expose
  <2> QED
    BY <2>1 DEF Imported
<1>9. ASSUME NEW h \in Handler, Ingest(h)
      PROVE  Same \/ objects'[k].files = ArchiveFiles
  <2>1. Same \/ objects'[k] = Imported(ArchiveFiles, TRUE)
    <3> HIDE DEF Same
    <3> QED
      BY <1>7, <1>9 DEF Ingest
  <2> QED
    BY <2>1 DEF Imported
<1>10. ASSUME NEW h \in Handler,
             \/ Get(h) \/ Prepare(h) \/ TurnDown(h) \/ ImportZip(h)
             \/ ImportEnvelope(h) \/ Accept(h) \/ Refuse(h) \/ SaveReceipt(h)
             \/ ReceiptFails(h) \/ Materialize(h) \/ ProposeBaseline(h)
             \/ AddItems(h) \/ ListEvents(h) \/ Project(h) \/ WriteSnapshot(h)
       PROVE  UNCHANGED objects
  BY <1>10 DEF Get, Prepare, TurnDown, ImportZip, ImportEnvelope, Accept, Refuse,
     SaveReceipt, ReceiptFails, Materialize, ProposeBaseline, AddItems, ListEvents,
     Project, WriteSnapshot, storeVars
<1>11. Export \/ Edit \/ UNCHANGED vars => UNCHANGED objects
  BY DEF Export, Edit, vars, storeVars
<1> QED
  BY <1>1, <1>2, <1>4, <1>5, <1>6, <1>8, <1>9, <1>10, <1>11 DEF Next

LEMMA ArchiveThere == AllThere(ArchiveFiles)
<1>1. <<ArchiveBody>> # <<>> /\ LedgerPath \subseteq Path
  BY DEF Path
<1> QED
  BY <1>1 DEF AllThere, ArchiveFiles

\* The archive's build-ledger files stay, through edits and imports of
\* envelopes too (all actions).
LEMMA ThereStep ==
    ASSUME LedgerUncovered
    PROVE  Inv /\ EnvelopeInv /\ ThereInv /\ [Next]_vars => ThereInv'
<1> SUFFICES ASSUME Inv, EnvelopeInv, ThereInv, [Next]_vars PROVE ThereInv'
  OBVIOUS
<1>1. ASSUME NEW k \in DOMAIN objects' PROVE AllThere(objects'[k].files)
  <2>1. ASSUME NEW h \in Handler, Expose(h) PROVE AllThere(handler[h].files)
    <3>1. Brings(handler[h])
      BY <2>1 DEF Expose, Admitted, Brings, Makes
    <3> QED
      BY <3>1 DEF ThereInv
  <2>2. k \in DOMAIN objects => AllThere(objects[k].files)
    BY DEF ThereInv
  <2>3. LedgerPath \subseteq Path
    BY DEF Path
  <2> QED
    BY <2>1, <2>2, <2>3, FilesKept, ArchiveThere DEF AllThere
<1>2. envelope' # None => AllThere(exported')
  <2>1. CASE Export
    <3>1. store \in DOMAIN objects /\ exported' = objects[store].files
      BY <2>1 DEF Export, Inv, ObjectsInv
    <3> QED
      BY <3>1 DEF ThereInv
  <2>2. CASE Edit
    BY <2>2 DEF Edit, ThereInv
  <2>3. CASE UNCHANGED <<envelope, exported>>
    BY <2>3 DEF ThereInv
  <2>4. ASSUME NEW h \in Handler,
               \/ Get(h) \/ Prepare(h) \/ TurnDown(h) \/ ImportZip(h)
               \/ ImportEnvelope(h) \/ Accept(h) \/ Refuse(h) \/ SaveReceipt(h)
               \/ ReceiptFails(h) \/ Apply(h) \/ Decide(h) \/ UpdateStatus(h) \/ Note(h)
               \/ Materialize(h)
               \/ ProposeBaseline(h) \/ Expose(h) \/ AddItems(h) \/ ListItems(h)
               \/ Ingest(h) \/ ListEvents(h) \/ Project(h) \/ WriteSnapshot(h)
        PROVE  UNCHANGED <<envelope, exported>>
    BY <2>4 DEF Get, Prepare, TurnDown, ImportZip, ImportEnvelope, Accept, Refuse,
       SaveReceipt, ReceiptFails, Apply, Decide, UpdateStatus, Note, Materialize,
       ProposeBaseline, Expose, AddItems, ListItems, Ingest, ListEvents, Project,
       WriteSnapshot, clientVars
  <2>5. Restart \/ UNCHANGED vars => UNCHANGED <<envelope, exported>>
    BY DEF Restart, vars, clientVars
  <2> QED
    BY <2>1, <2>2, <2>3, <2>4, <2>5 DEF Next
<1>3. ASSUME NEW g \in Handler, Brings(handler'[g]) PROVE AllThere(handler'[g].files)
  <2>0. handler \in [Handler -> HandlerState]
    BY DEF Inv, HandlersInv
  <2>1. CASE ImportZip(g)
    <3>1. handler'[g].files = ArchiveFiles
      BY <2>0, <2>1 DEF ImportZip, Idle
    <3> QED
      BY <3>1, ArchiveThere
  <2>2. CASE ImportEnvelope(g)
    <3>1. handler'[g].files = ParsedFiles(envelope) /\ envelope # None
      <4> DEFINE f == ParsedFiles(envelope)
      <4>1. handler' = [handler EXCEPT ![g] =
                          [Idle EXCEPT !.step = "ready", !.op = "import", !.files = f]]
        BY <2>2 DEF ImportEnvelope, ParsedFiles
      <4>2. envelope # None
        BY <2>2 DEF ImportEnvelope
      <4> HIDE DEF f
      <4>3. handler'[g].files = f
        BY <2>0, <4>1 DEF Idle
      <4> QED
        BY <4>2, <4>3 DEF f
    <3>2. AllThere(exported)
      BY <3>1 DEF ThereInv
    <3>3. \A p \in LedgerPath : ParsedFiles(envelope)[p] = exported[p]
      BY <3>1, ParsedLedger
    <3> QED
      BY <3>1, <3>2, <3>3 DEF AllThere
  <2>3. CASE Brings(handler[g]) /\ handler'[g].files = handler[g].files
    BY <2>3 DEF ThereInv
  <2>4. CASE handler'[g] = handler[g]
    BY <1>3, <2>4 DEF ThereInv
  <2> QED
    BY <1>3, <2>1, <2>2, <2>3, <2>4, BringsStep
<1> QED
  BY <1>1, <1>2, <1>3 DEF ThereInv

-----------------------------------------------------------------------------
\* Every workspace is paid for: a receipted transition is there for it that is
\* there for no other, and for no import that goes on.

\* No two handlers have one transition to save a receipt for, and it has none.
FreshInv ==
    \A g \in Handler : handler[g].step = "accepted" =>
        /\ handler[g].at \notin receipts
        /\ \A h \in Handler \ {g} : handler[h].step = "accepted" =>
             handler[h].at # handler[g].at

LEMMA FreshStep == Inv /\ FreshInv /\ [Next]_vars => FreshInv'
<1> SUFFICES ASSUME Inv, FreshInv, [Next]_vars PROVE FreshInv'
  OBVIOUS
<1>0. handler \in [Handler -> HandlerState]
  BY DEF Inv, HandlersInv
<1>1. ASSUME NEW h \in Handler, Accept(h) PROVE FreshInv'
  <2>1. handler'[h].at = Len(ledger) + 1 /\ \A g \in Handler \ {h} : handler'[g] = handler[g]
    BY <1>0, <1>1 DEF Accept, HandlerState
  <2>2. UNCHANGED receipts
    BY <1>1 DEF Accept
  <2>3. /\ Len(ledger) \in Nat /\ receipts \subseteq 1..Len(ledger)
        /\ \A g \in Handler : handler[g].at \in 0..Len(ledger)
    BY HandlerAt DEF Inv, LedgerInv, HandlerFits
  <2>4. Len(ledger) + 1 \notin receipts
        /\ \A g \in Handler : handler[g].at # Len(ledger) + 1
    BY <2>3
  <2> QED
    BY <2>1, <2>2, <2>4 DEF FreshInv
<1>2. ASSUME NEW h \in Handler, SaveReceipt(h) PROVE FreshInv'
  <2>1. handler'[h].step = "receipted" /\ \A g \in Handler \ {h} : handler'[g] = handler[g]
    BY <1>0, <1>2 DEF SaveReceipt, HandlerState
  <2>2. receipts' = receipts \cup {handler[h].at} /\ handler[h].step = "accepted"
    BY <1>2 DEF SaveReceipt
  <2> QED
    BY <2>1, <2>2 DEF FreshInv
<1>3. CASE UNCHANGED <<receipts, handler>>
  BY <1>3 DEF FreshInv
<1>4. ASSUME UNCHANGED receipts, NEW h \in Handler, handler'[h].step # "accepted",
             \A g \in Handler \ {h} : handler'[g] = handler[g]
      PROVE  FreshInv'
  BY <1>4 DEF FreshInv
<1>5. ASSUME NEW h \in Handler, NEW y, handler' = [handler EXCEPT ![h] = y],
             y.step # "accepted", UNCHANGED receipts
      PROVE  FreshInv'
  BY <1>0, <1>4, <1>5
<1>6. ASSUME NEW h \in Handler,
             \/ TurnDown(h) \/ Refuse(h) \/ ReceiptFails(h) \/ Apply(h)
             \/ UpdateStatus(h) \/ Note(h) \/ Materialize(h) \/ ListItems(h)
             \/ WriteSnapshot(h)
      PROVE  FreshInv'
  <2>1. handler' = [handler EXCEPT ![h] = Idle] /\ UNCHANGED receipts
    BY <1>6 DEF TurnDown, Refuse, ReceiptFails, Apply, UpdateStatus, Note, Materialize,
       ListItems, WriteSnapshot, acceptedVars
  <2>2. Idle.step # "accepted"
    BY DEF Idle
  <2> QED
    BY <1>5, <2>1, <2>2
<1>7. ASSUME NEW h \in Handler,
             \/ Get(h) \/ Prepare(h) \/ ImportZip(h) \/ ImportEnvelope(h) \/ Decide(h)
             \/ ProposeBaseline(h) \/ AddItems(h) \/ ListEvents(h) \/ Project(h)
      PROVE  FreshInv'
  <2>1. UNCHANGED receipts
    BY <1>7 DEF Get, Prepare, ImportZip, ImportEnvelope, Decide, ProposeBaseline,
       AddItems, ListEvents, Project, acceptedVars
  <2>2. handler'[h].step # "accepted" /\ \A g \in Handler \ {h} : handler'[g] = handler[g]
    <3>1. CASE Get(h)
      BY <1>0, <3>1 DEF Get, Idle
    <3>2. CASE ImportZip(h)
      BY <1>0, <3>2 DEF ImportZip, Idle
    <3>3. CASE ImportEnvelope(h)
      <4> DEFINE f == [p \in Path |-> IF p \in DOMAIN FromEnvelope(envelope).files
                                      THEN FromEnvelope(envelope).files[p] ELSE <<>>]
      <4>1. handler' = [handler EXCEPT ![h] =
                          [Idle EXCEPT !.step = "ready", !.op = "import", !.files = f]]
        BY <3>3 DEF ImportEnvelope
      <4> HIDE DEF f
      <4> QED
        BY <1>0, <4>1 DEF Idle
    <3>4. CASE Prepare(h)
      BY <1>0, <3>4 DEF Prepare, HandlerState
    <3>5. CASE Decide(h) \/ AddItems(h)
      BY <1>0, <3>5 DEF Decide, AddItems, HandlerState
    <3>6. CASE ProposeBaseline(h)
      BY <1>0, <3>6 DEF ProposeBaseline, HandlerState
    <3>7. CASE ListEvents(h) \/ Project(h)
      BY <1>0, <3>7 DEF ListEvents, Project, HandlerState
    <3> QED
      BY <1>7, <3>1, <3>2, <3>3, <3>4, <3>5, <3>6, <3>7
  <2> QED
    BY <1>4, <2>1, <2>2
<1>8. ASSUME NEW h \in Handler, Expose(h) PROVE FreshInv'
  <2> DEFINE y == [Idle EXCEPT !.step = "exposed", !.op = handler[h].op,
                               !.at = handler[h].at, !.object = Len(objects) + 1]
  <2>1. y.step # "accepted" /\ Idle.step # "accepted"
    BY DEF Idle
  <2>2. \E z \in {y, Idle} : handler' = [handler EXCEPT ![h] = z]
    BY <1>8 DEF Expose
  <2>3. UNCHANGED receipts
    BY <1>8 DEF Expose, acceptedVars
  <2> HIDE DEF y
  <2> QED
    BY <1>5, <2>1, <2>2, <2>3
<1>9. CASE Restart
  BY <1>9 DEF Restart, FreshInv, Idle
<1>10. ASSUME NEW h \in Handler, Ingest(h) PROVE UNCHANGED <<receipts, handler>>
  BY <1>10 DEF Ingest, acceptedVars
<1>11. Export \/ Edit \/ UNCHANGED vars => UNCHANGED <<receipts, handler>>
  BY DEF Export, Edit, vars, acceptedVars
<1> QED
  BY <1>1, <1>2, <1>3, <1>6, <1>7, <1>8, <1>9, <1>10, <1>11 DEF Next

\* The transition a workspace is paid with that the handler goes on with has its
\* receipt.
Holds(x, a) ==
    IF a = "imported"
    THEN \/ x.op = "import" /\ x.step = "receipted"
         \/ x.op = "baseline" /\ x.step \in {"ready", "accepted", "receipted"}
    ELSE x.op = "baseline" /\ x.step = "receipted"

Holding(a) == {h \in Handler : Holds(handler[h], a)}
Receipted(a) == {n \in DOMAIN ledger \cap receipts : ledger[n].action = a}

PaidInv(a) ==
    /\ IsFiniteSet(Holding(a))
    /\ Len(objects) + Cardinality(Holding(a)) <= Cardinality(Receipted(a))

\* Only a receipt makes a handler one that holds a transition.
LEMMA HoldsStep ==
    ASSUME Inv, [Next]_vars, NEW a, NEW g \in Handler, Holds(handler'[g], a)
    PROVE  Holds(handler[g], a) \/ SaveReceipt(g)
<1>1. handler \in [Handler -> HandlerState]
  BY DEF Inv, HandlersInv
<1>2. Brings(handler'[g])
  BY DEF Holds, Brings, Makes
<1>4. CASE ImportZip(g)
  <2>1. handler'[g].step = "ready" /\ handler'[g].op = "import"
    BY <1>1, <1>4 DEF ImportZip, Idle
  <2> QED
    BY <2>1 DEF Holds
<1>5. CASE ImportEnvelope(g)
  <2> DEFINE f == ParsedFiles(envelope)
  <2>1. handler' = [handler EXCEPT ![g] =
                      [Idle EXCEPT !.step = "ready", !.op = "import", !.files = f]]
    BY <1>5 DEF ImportEnvelope, ParsedFiles
  <2> HIDE DEF f
  <2>2. handler'[g].step = "ready" /\ handler'[g].op = "import"
    BY <1>1, <2>1 DEF Idle
  <2> QED
    BY <2>2 DEF Holds
<1>6. CASE Accept(g)
  <2>1. handler'[g].step = "accepted" /\ handler'[g].op = handler[g].op
        /\ handler[g].step = "ready"
    BY <1>1, <1>6 DEF Accept, HandlerState
  <2> QED
    BY <2>1 DEF Holds
<1>7. CASE ProposeBaseline(g)
  <2>1. handler'[g].step = "ready" /\ handler'[g].op = "baseline"
        /\ handler[g].step = "receipted" /\ handler[g].op = "import"
    BY <1>1, <1>7 DEF ProposeBaseline, HandlerState
  <2> QED
    BY <2>1 DEF Holds
<1> QED
  BY <1>2, <1>4, <1>5, <1>6, <1>7, BringsStep

LEMMA PlacesFinite ==
    ASSUME NEW n \in Nat, NEW S, S \subseteq 1..n
    PROVE  IsFiniteSet(S) /\ Cardinality(S) \in Nat
<1>1. IsFiniteSet(1..n)
  BY FS_Interval
<1>2. IsFiniteSet(S)
  BY <1>1, FS_Subset
<1> QED
  BY <1>2, FS_CardinalityType

LEMMA ReceiptedFinite ==
    ASSUME Inv, NEW a
    PROVE  IsFiniteSet(Receipted(a)) /\ Cardinality(Receipted(a)) \in Nat
<1>1. Len(ledger) \in Nat /\ Receipted(a) \subseteq 1..Len(ledger)
  BY DEF Inv, LedgerInv, Receipted
<1> QED
  BY <1>1, PlacesFinite

LEMMA ReceiptedStays ==
    ASSUME Inv, [Next]_vars, NEW a
    PROVE  /\ Receipted(a) \subseteq Receipted(a)'
           /\ IsFiniteSet(Receipted(a)') /\ Cardinality(Receipted(a)') \in Nat
           /\ Cardinality(Receipted(a)) <= Cardinality(Receipted(a)')
<1>1. LedgerInv' /\ Continues(ledger, ledger') /\ receipts \subseteq receipts'
  BY LedgerStep
<1>2. Receipted(a) \subseteq Receipted(a)'
  BY <1>1 DEF Continues, Receipted
<1>3. Len(ledger') \in Nat /\ Receipted(a)' \subseteq 1..Len(ledger')
  BY <1>1 DEF LedgerInv, Receipted
<1>4. IsFiniteSet(Receipted(a)') /\ Cardinality(Receipted(a)') \in Nat
  BY <1>3, PlacesFinite
<1> QED
  BY <1>2, <1>4, FS_Subset

\* The number of workspaces changes with Expose, Ingest and Restart.
LEMMA CountOfObjects ==
    ASSUME Inv, [Next]_vars, \A h \in Handler : ~Expose(h) /\ ~Ingest(h)
    PROVE  Len(objects') <= Len(objects) /\ Len(objects) \in Nat /\ Len(objects') \in Nat
<1>0. /\ objects \in Seq(Object) /\ objects' \in Seq(Object)
      /\ Len(objects) \in Nat /\ Len(objects') \in Nat
      /\ DOMAIN objects = 1..Len(objects) /\ DOMAIN objects' = 1..Len(objects')
  BY ObjectsStep DEF Inv, ObjectsInv
<1>1. CASE Restart
  <2>1. Len(objects') = 0
    BY <1>1 DEF Restart
  <2> QED
    BY <1>0, <2>1
<1>2. CASE DOMAIN objects' = DOMAIN objects
  <2>1. \A m, n \in Nat : 1..m = 1..n => m = n
    OBVIOUS
  <2>2. Len(objects) = Len(objects')
    BY <1>0, <1>2, <2>1
  <2> QED
    BY <1>0, <2>2
<1>3. ASSUME NEW h \in Handler, Apply(h) \/ Decide(h) \/ Note(h) \/ UpdateStatus(h) \/ ListItems(h)
      PROVE  DOMAIN objects' = DOMAIN objects
  <2>1. CASE Note(h)
    BY <2>1 DEF Note
  <2>2. CASE ~Note(h)
    BY <1>3, <2>2 DEF Apply, Decide, UpdateStatus, ListItems
  <2> QED
    BY <2>1, <2>2
<1>4. ASSUME NEW h \in Handler,
             \/ Get(h) \/ Prepare(h) \/ TurnDown(h) \/ ImportZip(h)
             \/ ImportEnvelope(h) \/ Accept(h) \/ Refuse(h) \/ SaveReceipt(h)
             \/ ReceiptFails(h) \/ Materialize(h) \/ ProposeBaseline(h)
             \/ AddItems(h) \/ ListEvents(h) \/ Project(h) \/ WriteSnapshot(h)
       PROVE  UNCHANGED objects
  BY <1>4 DEF Get, Prepare, TurnDown, ImportZip, ImportEnvelope, Accept, Refuse,
     SaveReceipt, ReceiptFails, Materialize, ProposeBaseline, AddItems, ListEvents,
     Project, WriteSnapshot, storeVars
<1>5. Export \/ Edit \/ UNCHANGED vars => UNCHANGED objects
  BY DEF Export, Edit, vars, storeVars
<1> QED
  BY <1>1, <1>2, <1>3, <1>4, <1>5 DEF Next

LEMMA AddedCount ==
    ASSUME NEW S, IsFiniteSet(S), NEW x, NEW T, T \subseteq S \cup {x}
    PROVE  IsFiniteSet(T) /\ Cardinality(T) \in Nat /\ Cardinality(T) <= Cardinality(S) + 1
<1>1. /\ IsFiniteSet(S \cup {x}) /\ Cardinality(S) \in Nat
      /\ Cardinality(S \cup {x}) \in Nat /\ Cardinality(S \cup {x}) <= Cardinality(S) + 1
  BY SMTT(60), FS_AddElement, FS_CardinalityType
<1>2. IsFiniteSet(T) /\ Cardinality(T) <= Cardinality(S \cup {x}) /\ Cardinality(T) \in Nat
  BY <1>1, FS_Subset, FS_CardinalityType
<1> QED
  BY <1>1, <1>2

LEMMA FewerCount ==
    ASSUME NEW S, IsFiniteSet(S), NEW x \in S, NEW T, T \subseteq S \ {x}
    PROVE  IsFiniteSet(T) /\ Cardinality(T) \in Nat /\ Cardinality(T) + 1 <= Cardinality(S)
<1>1. /\ IsFiniteSet(S \ {x}) /\ Cardinality(S) \in Nat
      /\ Cardinality(S \ {x}) = Cardinality(S) - 1
  BY FS_RemoveElement, FS_CardinalityType
<1>2. IsFiniteSet(T) /\ Cardinality(T) <= Cardinality(S \ {x}) /\ Cardinality(T) \in Nat
  BY <1>1, FS_Subset, FS_CardinalityType
<1> QED
  BY <1>1, <1>2

\* What an import must have had accepted: its baseline too, if the archive has
\* build-ledger files.
Required == {"imported"} \cup (IF Archive \cap LedgerPath = {} THEN {} ELSE {"baseline"})

LEMMA PaidStep ==
    ASSUME "ingest" \notin Op, NEW a \in Required
    PROVE  Inv /\ FreshInv /\ ThereInv /\ PaidInv(a) /\ [Next]_vars => PaidInv(a)'
<1> SUFFICES ASSUME Inv, FreshInv, ThereInv, PaidInv(a), [Next]_vars PROVE PaidInv(a)'
  OBVIOUS
<1> DEFINE H == Holding(a)
           R == Receipted(a)
           Hn == Holding(a)'
           Rn == Receipted(a)'
<1>0. /\ IsFiniteSet(H) /\ Cardinality(H) \in Nat
      /\ Len(objects) + Cardinality(H) <= Cardinality(R)
      /\ IsFiniteSet(R) /\ Cardinality(R) \in Nat /\ Len(objects) \in Nat
      /\ R \subseteq Rn /\ IsFiniteSet(Rn) /\ Cardinality(Rn) \in Nat
      /\ Cardinality(R) <= Cardinality(Rn)
      /\ handler \in [Handler -> HandlerState]
  BY ReceiptedFinite, ReceiptedStays, FS_CardinalityType DEF PaidInv, Inv, ObjectsInv, HandlersInv
<1>00. a \in {"imported", "baseline"}
  BY DEF Required
<1>1. \A g \in Handler : Holds(handler'[g], a) => Holds(handler[g], a) \/ SaveReceipt(g)
  BY HoldsStep
<1>2. ASSUME NEW h \in Handler, SaveReceipt(h) PROVE PaidInv(a)'
  <2> DEFINE n == handler[h].at
  <2>1. \A g \in Handler \ {h} : handler'[g] = handler[g]
    BY <1>0, <1>2 DEF SaveReceipt
  <2>2. /\ handler'[h].op = handler[h].op /\ handler'[h].step = "receipted"
        /\ handler[h].step = "accepted" /\ receipts' = receipts \cup {n}
        /\ UNCHANGED <<ledger, objects>>
    BY <1>0, <1>2 DEF SaveReceipt, HandlerState, storeVars
  <2>3. n \notin receipts /\ n \in DOMAIN ledger /\ ledger[n].action = ActionOf(handler[h].op)
    BY <2>2, HandlerAt DEF FreshInv, HandlerFits, Owns
  <2>4. CASE ledger[n].action = a
    <3>1. Rn = R \cup {n} /\ n \notin R
      BY <2>2, <2>3, <2>4 DEF Receipted
    <3>2. Cardinality(Rn) = Cardinality(R) + 1
      <4> HIDE DEF R, Rn, n
      <4> QED
        BY <1>0, <3>1, FS_AddElement
    <3>3. Hn \subseteq H \cup {h}
      BY <2>1 DEF Holding
    <3>4. IsFiniteSet(Hn) /\ Cardinality(Hn) \in Nat /\ Cardinality(Hn) <= Cardinality(H) + 1
      <4> HIDE DEF H, Hn
      <4> QED
        BY <1>0, <3>3, AddedCount
    <3> HIDE DEF H, Hn, R, Rn, n
    <3>5. Len(objects') + Cardinality(Hn) <= Cardinality(Rn)
      BY <1>0, <2>2, <3>2, <3>4
    <3> QED
      BY <3>4, <3>5 DEF PaidInv, H, Hn, R, Rn
  <2>5. CASE ledger[n].action # a
    <3>1. Hn \subseteq H
      <4>1. Holds(handler'[h], a) => Holds(handler[h], a)
        <5>1. handler[h].op = "import" => ledger[n].action = "imported"
          BY <2>3 DEF ActionOf
        <5>2. handler[h].op = "baseline" => ledger[n].action = "baseline"
          BY <2>3 DEF ActionOf
        <5> QED
          BY <1>00, <2>2, <2>5, <5>1, <5>2 DEF Holds
      <4> QED
        BY <2>1, <4>1 DEF Holding
    <3>2. IsFiniteSet(Hn) /\ Cardinality(Hn) <= Cardinality(H) /\ Cardinality(Hn) \in Nat
      <4> HIDE DEF H, Hn
      <4> QED
        BY <1>0, <3>1, FS_Subset, FS_CardinalityType
    <3> HIDE DEF H, Hn, R, Rn, n
    <3>3. Len(objects') + Cardinality(Hn) <= Cardinality(Rn)
      BY <1>0, <2>2, <3>2
    <3> QED
      BY <3>2, <3>3 DEF PaidInv, Hn, Rn
  <2> QED
    BY <2>4, <2>5
<1>3. ASSUME NEW h \in Handler, Expose(h) PROVE PaidInv(a)'
  <2>1. h \in H
    <3>1. handler[h].step = "receipted" /\ Admitted(h)
      BY <1>3 DEF Expose
    <3>2. CASE a = "imported"
      BY <3>1, <3>2 DEF Admitted, Holds, Holding
    <3>3. CASE a = "baseline"
      <4>1. Archive \cap LedgerPath # {}
        BY <3>3 DEF Required
      <4>2. AllThere(handler[h].files)
        BY <3>1 DEF ThereInv, Brings, Admitted, Makes
      <4>3. Baseline(h) # {}
        BY <4>1, <4>2 DEF AllThere, Baseline, Present, Path
      <4> QED
        BY <3>1, <3>3, <4>3 DEF Admitted, Holds, Holding
    <3> QED
      BY <1>00, <3>2, <3>3
  <2>2. \A g \in Handler : ~SaveReceipt(g)
    <3> SUFFICES ASSUME NEW g \in Handler, SaveReceipt(g) PROVE FALSE
      OBVIOUS
    <3>1. handler'[g].step = "receipted" /\ handler[g].step = "accepted"
      BY <1>0 DEF SaveReceipt, HandlerState
    <3>2. g # h
      BY <1>3, <3>1 DEF Expose
    <3>3. handler'[g] = handler[g]
      BY <1>0, <1>3, <3>2 DEF Expose
    <3> QED
      BY <3>1, <3>3
  <2>3. ~Holds(handler'[h], a)
    <3> DEFINE y == [Idle EXCEPT !.step = "exposed", !.op = handler[h].op,
                                 !.at = handler[h].at, !.object = Len(objects) + 1]
    <3>1. ~Holds(y, a) /\ ~Holds(Idle, a)
      BY <1>00 DEF Idle, Holds
    <3>2. \E z \in {y, Idle} : handler' = [handler EXCEPT ![h] = z]
      BY <1>3 DEF Expose
    <3> HIDE DEF y
    <3> QED
      BY <1>0, <3>1, <3>2
  <2>4. Hn \subseteq H \ {h}
    BY <1>1, <2>2, <2>3 DEF Holding
  <2>5. IsFiniteSet(Hn) /\ Cardinality(Hn) \in Nat /\ Cardinality(Hn) + 1 <= Cardinality(H)
    <3> HIDE DEF H, Hn
    <3> QED
      BY <1>0, <2>1, <2>4, FewerCount
  <2>6. Len(objects') = Len(objects) + 1
    <3> DEFINE o == Imported(handler[h].files, handler[h].zip)
    <3>1. objects' = Append(objects, o)
      BY <1>3 DEF Expose
    <3> HIDE DEF o
    <3> QED
      BY <3>1, ObjectsLen
  <2> HIDE DEF H, Hn, R, Rn
  <2>7. Len(objects') + Cardinality(Hn) <= Cardinality(Rn)
    BY <1>0, <2>5, <2>6
  <2> QED
    BY <2>5, <2>7 DEF PaidInv, Hn, Rn
<1>4. ASSUME \A h \in Handler : ~SaveReceipt(h) /\ ~Expose(h)
      PROVE  PaidInv(a)'
  <2>1. \A h \in Handler : ~Ingest(h)
    BY DEF Ingest
  <2>2. Len(objects') <= Len(objects) /\ Len(objects') \in Nat
    BY <1>4, <2>1, CountOfObjects
  <2>3. Hn \subseteq H
    BY <1>1, <1>4 DEF Holding
  <2>4. IsFiniteSet(Hn) /\ Cardinality(Hn) <= Cardinality(H) /\ Cardinality(Hn) \in Nat
    <3> HIDE DEF H, Hn
    <3> QED
      BY <1>0, <2>3, FS_Subset, FS_CardinalityType
  <2> HIDE DEF H, Hn, R, Rn
  <2>5. Len(objects') + Cardinality(Hn) <= Cardinality(Rn)
    BY <1>0, <2>2, <2>4
  <2> QED
    BY <2>4, <2>5 DEF PaidInv, Hn, Rn
<1> QED
  BY <1>2, <1>3, <1>4

LEMMA InitPaid == Init => EnvelopeInv /\ ThereInv /\ FreshInv /\ \A a : PaidInv(a)
<1> SUFFICES ASSUME Init PROVE EnvelopeInv /\ ThereInv /\ FreshInv /\ \A a : PaidInv(a)
  OBVIOUS
<1>1. \A h \in Handler : handler[h].step = "idle"
  BY DEF Init, Idle
<1>2. EnvelopeInv /\ ThereInv /\ FreshInv
  BY <1>1 DEF Init, EnvelopeInv, ThereInv, FreshInv, Brings
<1>3. ASSUME NEW a PROVE PaidInv(a)
  <2>1. Holding(a) = {}
    BY <1>1 DEF Holding, Holds
  <2>2. Receipted(a) = {} /\ Len(objects) = 0
    BY DEF Init, Receipted
  <2> QED
    BY <2>1, <2>2, FS_EmptySet DEF PaidInv
<1> QED
  BY <1>2, <1>3

AllPaid == \A a \in Required : PaidInv(a)

LEMMA PaidVisible == Inv /\ AllPaid => VisibleImported
<1> SUFFICES ASSUME Inv, AllPaid, NEW a \in Required
             PROVE  Len(objects) <= Cardinality(Receipted(a))
  BY DEF VisibleImported, Required, Receipted
<1>1. Len(objects) \in Nat /\ Cardinality(Receipted(a)) \in Nat
  BY ReceiptedFinite DEF Inv, ObjectsInv
<1>2. PaidInv(a)
  BY DEF AllPaid
<1>3. Cardinality(Holding(a)) \in Nat /\ Len(objects) + Cardinality(Holding(a)) <= Cardinality(Receipted(a))
  BY <1>2, FS_CardinalityType DEF PaidInv
<1> QED
  BY <1>1, <1>3

\* Where nothing is ingested, every workspace that is visible, or was since the
\* server started, has an import of its own that was accepted and receipted,
\* and a baseline of its own if the archive has build-ledger files: whatever
\* handlers do at once, and whatever fails (finishImport, internal/server;
\* handleIngest is the exception).  No build-ledger file is below another file.
THEOREM OnlyImportedVisible ==
    ASSUME "ingest" \notin Op, LedgerUncovered
    PROVE  Spec => []VisibleImported
<1>1. Inv /\ EnvelopeInv /\ ThereInv /\ FreshInv /\ AllPaid /\ [Next]_vars
        => ThereInv' /\ FreshInv' /\ AllPaid'
  BY ThereStep, FreshStep, PaidStep DEF AllPaid, Required
<1>2. Init => EnvelopeInv /\ ThereInv /\ FreshInv /\ AllPaid
  BY InitPaid DEF AllPaid
<1> QED
  BY <1>1, <1>2, EnvelopeStep, PaidVisible, AllowedByLedger, PTL DEF Spec

-----------------------------------------------------------------------------
\* One request at a time.

\* The handler has an accepted transition to carry out.
Active(x) == x.step \in {"accepted", "receipted", "decided"}

\* It is the newest one, and the workspace is the store's.
OneInv(h) ==
    /\ Active(handler[h]) => handler[h].at = Len(ledger)
    /\ handler[h].object # 0 => handler[h].object = store

\* What actions that only move a handler along leave of it.
LEMMA MovesAlong ==
    ASSUME Inv, NEW h \in Handler,
           Prepare(h) \/ Decide(h) \/ ProposeBaseline(h) \/ SaveReceipt(h) \/ AddItems(h)
             \/ ListEvents(h) \/ Project(h) \/ Accept(h)
    PROVE  /\ handler'[h].object = handler[h].object
           /\ handler'[h].path = handler[h].path /\ handler'[h].blob = handler[h].blob
           /\ handler'[h].op = IF ProposeBaseline(h) THEN "baseline" ELSE handler[h].op
           /\ ~Accept(h) /\ ~ListEvents(h) => handler'[h].at = handler[h].at
           /\ ~Project(h) => handler'[h].files = handler[h].files
           /\ ~Prepare(h) => /\ handler'[h].content = handler[h].content
                             /\ handler'[h].synced = handler[h].synced
           /\ Prepare(h) => /\ handler[h].step = "got" /\ handler'[h].step = "ready"
                            /\ handler'[h].content = Candidate(h)
                            /\ handler'[h].synced = The(h).synced
           /\ Accept(h) => /\ handler[h].step = "ready" /\ handler'[h].step = "accepted"
                           /\ handler'[h].at = Len(ledger) + 1
           /\ SaveReceipt(h) => handler[h].step = "accepted" /\ handler'[h].step = "receipted"
           /\ Decide(h) => handler[h].step = "receipted" /\ handler'[h].step = "decided"
           /\ ProposeBaseline(h) =>
                /\ handler[h].step = "receipted" /\ handler'[h].step = "ready"
                /\ handler[h].op = "import"
           /\ AddItems(h) => handler[h].step = "exposed" /\ handler'[h].step = "added"
           /\ ListEvents(h) =>
                /\ handler[h].step = "got" /\ handler'[h].step = "listed"
                /\ handler[h].op = "snapshot" /\ handler'[h].at = Len(ledger)
           /\ Project(h) =>
                /\ handler[h].step = "listed" /\ handler'[h].step = "projected"
                /\ handler'[h].files = The(h).files
<1>0. handler \in [Handler -> HandlerState]
  BY DEF Inv, HandlersInv
<1>1. CASE Prepare(h)
  <2> DEFINE c == Candidate(h)
             s == The(h).synced
  <2>1. handler' = [handler EXCEPT ![h].step = "ready", ![h].synced = s, ![h].content = c]
        /\ handler[h].step = "got"
    BY <1>1 DEF Prepare
  <2>2. ~ (Decide(h) \/ ProposeBaseline(h) \/ SaveReceipt(h) \/ AddItems(h)
             \/ ListEvents(h) \/ Project(h) \/ Accept(h))
    <3>1. ~ListEvents(h)
      BY <1>1 DEF Prepare, ListEvents
    <3> QED
      BY <2>1, <3>1 DEF Decide, ProposeBaseline, SaveReceipt, AddItems, Project, Accept
  <2> HIDE DEF c, s
  <2> QED
    BY <1>0, <1>1, <2>1, <2>2 DEF HandlerState, c, s
<1>2. CASE Decide(h)
  <2>1. handler' = [handler EXCEPT ![h].step = "decided"] /\ handler[h].step = "receipted"
        /\ handler[h].op \in {"admit", "reject"}
    BY <1>2 DEF Decide
  <2>2. ~ (Prepare(h) \/ ProposeBaseline(h) \/ SaveReceipt(h) \/ AddItems(h)
             \/ ListEvents(h) \/ Project(h) \/ Accept(h))
    BY <2>1 DEF Prepare, ProposeBaseline, SaveReceipt, AddItems, ListEvents, Project, Accept
  <2> QED
    BY <1>0, <1>2, <2>1, <2>2 DEF HandlerState
<1>3. CASE ProposeBaseline(h)
  <2>1. handler' = [handler EXCEPT ![h].step = "ready", ![h].op = "baseline"]
        /\ handler[h].step = "receipted" /\ handler[h].op = "import"
    BY <1>3 DEF ProposeBaseline
  <2>2. ~ (Prepare(h) \/ Decide(h) \/ SaveReceipt(h) \/ AddItems(h)
             \/ ListEvents(h) \/ Project(h) \/ Accept(h))
    BY <2>1 DEF Prepare, Decide, SaveReceipt, AddItems, ListEvents, Project, Accept
  <2> QED
    BY <1>0, <1>3, <2>1, <2>2 DEF HandlerState
<1>4. CASE SaveReceipt(h)
  <2>1. handler' = [handler EXCEPT ![h].step = "receipted"] /\ handler[h].step = "accepted"
    BY <1>4 DEF SaveReceipt
  <2>2. ~ (Prepare(h) \/ Decide(h) \/ ProposeBaseline(h) \/ AddItems(h)
             \/ ListEvents(h) \/ Project(h) \/ Accept(h))
    BY <2>1 DEF Prepare, Decide, ProposeBaseline, AddItems, ListEvents, Project, Accept
  <2> QED
    BY <1>0, <1>4, <2>1, <2>2 DEF HandlerState
<1>5. CASE AddItems(h)
  <2>1. handler' = [handler EXCEPT ![h].step = "added"] /\ handler[h].step = "exposed"
    BY <1>5 DEF AddItems
  <2>2. ~ (Prepare(h) \/ Decide(h) \/ ProposeBaseline(h) \/ SaveReceipt(h)
             \/ ListEvents(h) \/ Project(h) \/ Accept(h))
    BY <2>1 DEF Prepare, Decide, ProposeBaseline, SaveReceipt, ListEvents, Project, Accept
  <2> QED
    BY <1>0, <1>5, <2>1, <2>2 DEF HandlerState
<1>6. CASE ListEvents(h)
  <2>1. handler' = [handler EXCEPT ![h].step = "listed", ![h].at = Len(ledger)]
        /\ handler[h].step = "got" /\ handler[h].op = "snapshot"
    BY <1>6 DEF ListEvents
  <2>2. ~ (Prepare(h) \/ Decide(h) \/ ProposeBaseline(h) \/ SaveReceipt(h)
             \/ AddItems(h) \/ Project(h) \/ Accept(h))
    BY <2>1 DEF Prepare, Decide, ProposeBaseline, SaveReceipt, AddItems, Project, Accept
  <2> QED
    BY <1>0, <1>6, <2>1, <2>2 DEF HandlerState
<1>7. CASE Project(h)
  <2> DEFINE f == The(h).files
  <2>1. handler' = [handler EXCEPT ![h].step = "projected", ![h].files = f]
        /\ handler[h].step = "listed"
    BY <1>7 DEF Project
  <2>2. ~ (Prepare(h) \/ Decide(h) \/ ProposeBaseline(h) \/ SaveReceipt(h)
             \/ AddItems(h) \/ ListEvents(h) \/ Accept(h))
    BY <2>1 DEF Prepare, Decide, ProposeBaseline, SaveReceipt, AddItems, ListEvents, Accept
  <2> HIDE DEF f
  <2> QED
    BY <1>0, <1>7, <2>1, <2>2 DEF HandlerState, f
<1>8. CASE Accept(h)
  <2>1. handler' = [handler EXCEPT ![h].step = "accepted", ![h].at = Len(ledger) + 1]
        /\ handler[h].step = "ready"
    BY <1>8 DEF Accept
  <2>2. ~ (Prepare(h) \/ Decide(h) \/ ProposeBaseline(h) \/ SaveReceipt(h)
             \/ AddItems(h) \/ ListEvents(h) \/ Project(h))
    BY <2>1 DEF Prepare, Decide, ProposeBaseline, SaveReceipt, AddItems, ListEvents, Project
  <2> QED
    BY <1>0, <1>8, <2>1, <2>2 DEF HandlerState
<1> QED
  BY <1>1, <1>2, <1>3, <1>4, <1>5, <1>6, <1>7, <1>8

\* What actions leave of a handler that begins or ends something.
LEMMA MovesAnew ==
    ASSUME Inv, NEW h \in Handler
    PROVE  /\ \/ TurnDown(h) \/ Refuse(h) \/ ReceiptFails(h) \/ Apply(h)
              \/ UpdateStatus(h) \/ Note(h) \/ Materialize(h) \/ ListItems(h)
              \/ WriteSnapshot(h)
              => handler'[h] = Idle
           /\ Get(h) =>
                /\ handler'[h].step = "got" /\ handler'[h].object = store
                /\ handler'[h].op \in Op \ {"ingest", "export", "edit"}
                /\ handler'[h].path \in
                     IF handler'[h].op = "update" THEN Document
                     ELSE IF handler'[h].op = "append" THEN {EventsPath}
                     ELSE IF handler'[h].op = "admit" THEN Target ELSE {None}
                /\ handler'[h].op \in {"update", "append"} =>
                     \E body \in Body : handler'[h].content = <<body>>
                /\ handler'[h].op \notin {"admit", "reject", "decide"} =>
                     handler'[h].blob = None
           /\ ImportZip(h) \/ ImportEnvelope(h) =>
                /\ handler'[h].step = "ready" /\ handler'[h].op = "import"
                /\ handler'[h].object = 0 /\ handler'[h].blob = None
           /\ Expose(h) =>
                \/ handler'[h] = Idle /\ ~handler[h].zip
                \/ /\ handler'[h].step = "exposed" /\ handler'[h].op = handler[h].op
                   /\ handler'[h].object = Len(objects) + 1 /\ handler'[h].blob = None
                   /\ handler[h].zip
<1>0. handler \in [Handler -> HandlerState]
  BY DEF Inv, HandlersInv
<1>1. \/ TurnDown(h) \/ Refuse(h) \/ ReceiptFails(h) \/ Apply(h)
      \/ UpdateStatus(h) \/ Note(h) \/ Materialize(h) \/ ListItems(h)
      \/ WriteSnapshot(h)
      => handler'[h] = Idle
  BY <1>0 DEF TurnDown, Refuse, ReceiptFails, Apply, UpdateStatus, Note, Materialize,
     ListItems, WriteSnapshot
<1>2. ASSUME ImportZip(h)
      PROVE  /\ handler'[h].step = "ready" /\ handler'[h].op = "import"
             /\ handler'[h].object = 0 /\ handler'[h].blob = None
  BY <1>0, <1>2 DEF ImportZip, Idle
<1>3. ASSUME ImportEnvelope(h)
      PROVE  /\ handler'[h].step = "ready" /\ handler'[h].op = "import"
             /\ handler'[h].object = 0 /\ handler'[h].blob = None
  <2> DEFINE f == ParsedFiles(envelope)
  <2>1. handler' = [handler EXCEPT ![h] =
                      [Idle EXCEPT !.step = "ready", !.op = "import", !.files = f]]
    BY <1>3 DEF ImportEnvelope, ParsedFiles
  <2> HIDE DEF f
  <2> QED
    BY <1>0, <2>1 DEF Idle
<1>4. ASSUME Expose(h)
      PROVE  \/ handler'[h] = Idle /\ ~handler[h].zip
             \/ /\ handler'[h].step = "exposed" /\ handler'[h].op = handler[h].op
                /\ handler'[h].object = Len(objects) + 1 /\ handler'[h].blob = None
                /\ handler[h].zip
  <2> DEFINE y == [Idle EXCEPT !.step = "exposed", !.op = handler[h].op,
                               !.at = handler[h].at, !.object = Len(objects) + 1]
  <2>1. \/ handler' = [handler EXCEPT ![h] = y] /\ handler[h].zip
        \/ handler' = [handler EXCEPT ![h] = Idle] /\ ~handler[h].zip
    BY <1>4 DEF Expose
  <2>2. /\ y.step = "exposed" /\ y.op = handler[h].op
        /\ y.object = Len(objects) + 1 /\ y.blob = None
    BY DEF Idle
  <2> HIDE DEF y
  <2> QED
    BY <1>0, <2>1, <2>2
<1>5. ASSUME Get(h)
      PROVE  /\ handler'[h].step = "got" /\ handler'[h].object = store
             /\ handler'[h].op \in Op \ {"ingest", "export", "edit"}
             /\ handler'[h].path \in
                  IF handler'[h].op = "update" THEN Document
                  ELSE IF handler'[h].op = "append" THEN {EventsPath}
                  ELSE IF handler'[h].op = "admit" THEN Target ELSE {None}
             /\ handler'[h].op \in {"update", "append"} =>
                  \E body \in Body : handler'[h].content = <<body>>
             /\ handler'[h].op \notin {"admit", "reject", "decide"} =>
                  handler'[h].blob = None
  <2>1. PICK op \in Op \ {"ingest", "export", "edit"}, body \in Body,
             b \in Blob \cup {None} :
          \E p \in IF op = "update" THEN Document
                   ELSE IF op = "append" THEN {EventsPath}
                   ELSE IF op = "admit" THEN Target ELSE {None} :
            /\ (b # None) <=> op \in {"admit", "reject", "decide"}
            /\ handler' = [handler EXCEPT ![h] =
                 [Idle EXCEPT !.step = "got", !.op = op, !.object = store,
                              !.path = p, !.blob = b,
                              !.content = IF op \in {"update", "append"}
                                          THEN <<body>> ELSE <<>>]]
    BY <1>5 DEF Get
  <2>2. PICK p \in IF op = "update" THEN Document
                   ELSE IF op = "append" THEN {EventsPath}
                   ELSE IF op = "admit" THEN Target ELSE {None} :
            /\ (b # None) <=> op \in {"admit", "reject", "decide"}
            /\ handler' = [handler EXCEPT ![h] =
                 [Idle EXCEPT !.step = "got", !.op = op, !.object = store,
                              !.path = p, !.blob = b,
                              !.content = IF op \in {"update", "append"}
                                          THEN <<body>> ELSE <<>>]]
    BY <2>1
  <2> DEFINE c == IF op \in {"update", "append"} THEN <<body>> ELSE <<>>
             y == [Idle EXCEPT !.step = "got", !.op = op, !.object = store,
                               !.path = p, !.blob = b, !.content = c]
  <2>3. handler'[h] = y
    BY <1>0, <2>2
  <2>4. y.step = "got" /\ y.object = store /\ y.op = op /\ y.path = p /\ y.content = c
        /\ y.blob = b
    <3> HIDE DEF c
    <3> QED
      BY DEF Idle
  <2> HIDE DEF y
  <2> QED
    BY <2>2, <2>3, <2>4
<1> QED
  BY <1>1, <1>2, <1>3, <1>4, <1>5

LEMMA OneStep ==
    ASSUME "ingest" \notin Op, NEW h, Handler = {h}
    PROVE  Inv /\ OneInv(h) /\ [Next]_vars => OneInv(h)'
<1> SUFFICES ASSUME Inv, OneInv(h), [Next]_vars PROVE OneInv(h)'
  OBVIOUS
<1>0. h \in Handler /\ Idle.object = 0 /\ ~Active(Idle)
  BY DEF Idle, Active
<1>1. CASE handler'[h] = Idle
  BY <1>0, <1>1 DEF OneInv
<1>2. CASE Accept(h)
  <2>1. Len(ledger') = Len(ledger) + 1 /\ UNCHANGED store
    BY <1>0, <1>2, AcceptStep DEF Accept, storeVars
  <2> QED
    BY <1>0, <1>2, <2>1, MovesAlong DEF OneInv
<1>3. CASE SaveReceipt(h) \/ Decide(h)
  <2>1. UNCHANGED <<ledger, store>> /\ Active(handler[h])
    BY <1>3 DEF SaveReceipt, Decide, acceptedVars, storeVars, Active
  <2>2. handler'[h].at = handler[h].at /\ handler'[h].object = handler[h].object
    <3>1. ~Accept(h) /\ ~ListEvents(h)
      BY <1>3 DEF SaveReceipt, Decide, Accept, ListEvents
    <3> QED
      BY <1>0, <1>3, <3>1, MovesAlong
  <2> QED
    BY <2>1, <2>2 DEF OneInv
<1>4. CASE Prepare(h) \/ ProposeBaseline(h) \/ AddItems(h) \/ ListEvents(h) \/ Project(h)
  <2>1. UNCHANGED store
    BY <1>4 DEF Prepare, ProposeBaseline, AddItems, ListEvents, Project, storeVars
  <2>2. ~Active(handler'[h]) /\ handler'[h].object = handler[h].object
    BY <1>0, <1>4, MovesAlong DEF Active
  <2> QED
    BY <2>1, <2>2 DEF OneInv
<1>5. CASE Get(h)
  <2>1. UNCHANGED store
    BY <1>5 DEF Get, storeVars
  <2> QED
    BY <1>0, <1>5, <2>1, MovesAnew DEF OneInv, Active
<1>6. CASE ImportZip(h) \/ ImportEnvelope(h)
  BY <1>0, <1>6, MovesAnew DEF OneInv, Active
<1>7. CASE Expose(h)
  <2>1. store' = Len(objects) + 1
    BY <1>7 DEF Expose
  <2>2. CASE handler'[h] = Idle
    BY <1>1, <2>2
  <2>3. CASE handler'[h].step = "exposed" /\ handler'[h].object = Len(objects) + 1
    BY <2>1, <2>3 DEF OneInv, Active
  <2> QED
    BY <1>0, <1>7, <2>2, <2>3, MovesAnew
<1>8. CASE UNCHANGED <<handler, ledger, store>>
  BY <1>8 DEF OneInv
<1>9. Export \/ Edit \/ UNCHANGED vars => UNCHANGED <<handler, ledger, store>>
  BY DEF Export, Edit, vars, acceptedVars, storeVars
<1>10. Restart => handler'[h] = Idle
  BY <1>0 DEF Restart
<1>11. \A g \in Handler : g = h /\ ~Ingest(g)
  BY DEF Ingest
<1>12. \/ TurnDown(h) \/ Refuse(h) \/ ReceiptFails(h) \/ Apply(h)
       \/ UpdateStatus(h) \/ Note(h) \/ Materialize(h) \/ ListItems(h) \/ WriteSnapshot(h)
       => handler'[h] = Idle
  BY <1>0, MovesAnew
<1> QED
  BY <1>1, <1>2, <1>3, <1>4, <1>5, <1>6, <1>7, <1>8, <1>9, <1>10, <1>11, <1>12 DEF Next

\* The ledger as far as its transitions have been carried out.
Settled(x, L) == IF Active(x) THEN Len(L) - 1 ELSE Len(L)

\* The steps that carry a transition out.
Finishes(h) ==
    \/ Apply(h) \/ Note(h) \/ Materialize(h) \/ ProposeBaseline(h) \/ Expose(h)
    \/ UpdateStatus(h)

\* One request after the other, nothing ingested, every receipt saved.
Serial(h) == "ingest" \notin Op /\ "receipt" \notin Faults /\ Handler = {h}

LEMMA SettledTyped ==
    ASSUME Inv, NEW h \in Handler
    PROVE  /\ Settled(handler[h], ledger) \in Nat /\ Len(ledger) \in Nat
           /\ Settled(handler[h], ledger) <= Len(ledger)
           /\ Active(handler[h]) =>
                /\ handler[h].at \in 1..Len(ledger) /\ Owns(handler[h], ledger)
                /\ handler[h].op \in Changes
<1>1. Len(ledger) \in Nat /\ DOMAIN ledger = 1..Len(ledger)
  BY DEF Inv, LedgerInv
<1>2. ASSUME Active(handler[h])
      PROVE  /\ handler[h].at \in 1..Len(ledger) /\ Owns(handler[h], ledger)
             /\ handler[h].op \in Changes
  BY <1>1, <1>2, HandlerAt DEF Active, HandlerFits, Owns, Changes, Makes
<1> QED
  BY <1>1, <1>2 DEF Settled

LEMMA SettledOn ==
    ASSUME NEW h, Serial(h), Inv, OneInv(h), [Next]_vars, ~Restart
    PROVE  \/ /\ Settled(handler[h], ledger)' = Settled(handler[h], ledger)
              /\ ~Finishes(h)
           \/ /\ Finishes(h) /\ Active(handler[h]) /\ ~Active(handler'[h])
              /\ Settled(handler[h], ledger)' = Len(ledger)
              /\ Settled(handler[h], ledger) = Len(ledger) - 1
              /\ handler[h].at = Len(ledger) /\ UNCHANGED <<ledger, receipts>>
<1>0. h \in Handler /\ ~Active(Idle) /\ Len(ledger) \in Nat
  BY SettledTyped DEF Idle, Active, Serial
<1>1. CASE Finishes(h)
  <2>1. Active(handler[h]) /\ UNCHANGED <<ledger, receipts>>
    BY <1>1 DEF Finishes, Apply, Note, Materialize, ProposeBaseline, Expose, UpdateStatus,
       Active, acceptedVars
  <2>2. ~Active(handler'[h])
    <3>1. CASE ProposeBaseline(h)
      BY <1>0, <3>1, MovesAlong DEF Active
    <3>2. CASE ~ProposeBaseline(h)
      BY <1>0, <1>1, <3>2, MovesAnew DEF Active, Finishes
    <3> QED
      BY <3>1, <3>2
  <2> QED
    BY <1>1, <2>1, <2>2 DEF Settled, OneInv
<1>2. CASE ~Finishes(h)
  <2> SUFFICES Settled(handler[h], ledger)' = Settled(handler[h], ledger)
    BY <1>2
  <2>1. CASE UNCHANGED <<handler, ledger>>
    BY <2>1 DEF Settled
  <2>2. ASSUME UNCHANGED ledger, Active(handler'[h]) <=> Active(handler[h])
        PROVE  Settled(handler[h], ledger)' = Settled(handler[h], ledger)
    BY <2>2 DEF Settled
  <2>3. CASE Accept(h)
    <3>1. Len(ledger') = Len(ledger) + 1
      BY <1>0, <2>3, AcceptStep
    <3>2. Active(handler'[h]) /\ ~Active(handler[h])
      BY <1>0, <2>3, MovesAlong DEF Active
    <3> QED
      BY <1>0, <3>1, <3>2 DEF Settled
  <2>4. CASE SaveReceipt(h) \/ Decide(h)
    <3>1. Active(handler'[h]) /\ Active(handler[h])
      BY <1>0, <2>4, MovesAlong DEF Active
    <3>2. UNCHANGED ledger
      BY <2>4 DEF SaveReceipt, Decide, acceptedVars
    <3> QED
      BY <2>2, <3>1, <3>2
  <2>5. CASE Prepare(h) \/ AddItems(h) \/ ListEvents(h) \/ Project(h)
    <3>1. ~Active(handler'[h]) /\ ~Active(handler[h])
      BY <1>0, <2>5, MovesAlong DEF Active
    <3>2. UNCHANGED ledger
      BY <2>5 DEF Prepare, AddItems, ListEvents, Project, acceptedVars
    <3> QED
      BY <2>2, <3>1, <3>2
  <2>6. CASE Get(h) \/ ImportZip(h) \/ ImportEnvelope(h)
    <3>1. ~Active(handler'[h])
      BY <1>0, <2>6, MovesAnew DEF Active
    <3>2. ~Active(handler[h]) /\ UNCHANGED ledger
      BY <2>6 DEF Get, ImportZip, ImportEnvelope, acceptedVars, Active
    <3> QED
      BY <2>2, <3>1, <3>2
  <2>7. CASE TurnDown(h) \/ Refuse(h) \/ ListItems(h) \/ WriteSnapshot(h)
    <3>1. ~Active(handler'[h])
      BY <1>0, <2>7, MovesAnew
    <3>2. ~Active(handler[h]) /\ UNCHANGED ledger
      BY <2>7 DEF TurnDown, Refuse, ListItems, WriteSnapshot, acceptedVars, Active
    <3> QED
      BY <2>2, <3>1, <3>2
  <2>8. \A g \in Handler : g = h /\ ~Ingest(g) /\ ~ReceiptFails(g)
    BY DEF Serial, Ingest, ReceiptFails
  <2>9. Export \/ Edit \/ UNCHANGED vars => UNCHANGED <<handler, ledger>>
    BY DEF Export, Edit, vars, acceptedVars
  <2> QED
    BY <1>2, <2>1, <2>3, <2>4, <2>5, <2>6, <2>7, <2>8, <2>9 DEF Next, Finishes
<1> QED
  BY <1>1, <1>2

LEMMA SettledStep ==
    ASSUME NEW h, Serial(h), "kill" \notin Faults, Inv, OneInv(h), [Next]_vars
    PROVE  \/ /\ Settled(handler[h], ledger)' = Settled(handler[h], ledger)
              /\ ~Finishes(h)
           \/ /\ Finishes(h) /\ Active(handler[h]) /\ ~Active(handler'[h])
              /\ Settled(handler[h], ledger)' = Len(ledger)
              /\ Settled(handler[h], ledger) = Len(ledger) - 1
              /\ handler[h].at = Len(ledger) /\ UNCHANGED <<ledger, receipts>>
<1>1. CASE ~Restart
  BY <1>1, SettledOn
<1>2. CASE Restart
  <2>1. h \in Handler /\ Idle.step = "idle" /\ handler'[h] = Idle /\ UNCHANGED ledger
    BY <1>2 DEF Serial, Restart, Idle, acceptedVars
  <2>2. handler[h].step = "idle"
    BY <1>2, <2>1 DEF Restart
  <2>3. ~Active(handler'[h]) /\ ~Active(handler[h])
    BY <2>1, <2>2 DEF Active
  <2>4. ~Finishes(h)
    BY <2>2 DEF Finishes, Apply, Note, Materialize, ProposeBaseline, Expose, UpdateStatus
  <2> QED
    BY <2>1, <2>3, <2>4 DEF Settled
<1> QED
  BY <1>1, <1>2

-----------------------------------------------------------------------------
\* A decision is final.

Decisive == {"admit", "reject"}
VerdictOf(op) == IF op = "admit" THEN "approved" ELSE "rejected"

DecidedUpTo(L, k, b, a) == \E n \in 1..k : L[n].action = a /\ L[n].blob = b

\* The items q are what the first k transitions decided.
ItemsRight(q, L, k) ==
    \A b \in Blob :
        /\ q[b] = "approved" <=> DecidedUpTo(L, k, b, "admitted")
        /\ q[b] = "rejected" <=> DecidedUpTo(L, k, b, "rejected")

\* The decisions the workspace o shows are the last of the first k transitions.
LastShown(o, L, k) ==
    \A b \in Blob : o.decisions[b] # 0 =>
        \A n \in 1..k : L[n].blob = b => n <= o.decisions[b]

\* Its list of blobs is that of the items, but while it is made and while a
\* decision is on its way to them.
StatusShown(o, x, q) ==
    /\ x.step \in {"exposed", "added"} => \A b \in Blob : o.blobs[b] = "quarantined"
    /\ x.step = "added" => \A b \in Blob : q[b] # "absent"
    /\ x.step \notin {"exposed", "added", "decided"} =>
         \A b \in Blob : o.blobs[b] \in {"absent", q[b]}
    /\ x.step = "decided" =>
         /\ q[x.blob] = "quarantined" /\ o.blobs[x.blob] = VerdictOf(x.op)
         /\ \A b \in Blob \ {x.blob} : o.blobs[b] \in {"absent", q[b]}
    /\ x.op \in Decisive /\ x.step \in {"ready", "accepted", "receipted"} =>
         o.blobs[x.blob] = "quarantined" /\ x.synced = o.synced

DecisionInv(h) ==
    /\ quarantine = files
    /\ DecidedOnce
    /\ ItemsRight(quarantine, ledger, Settled(handler[h], ledger))
    /\ handler[h].op \notin Decisive \cup {"decide"} => handler[h].blob = None
    /\ store # 0 =>
         /\ LastShown(objects[store], ledger, Settled(handler[h], ledger))
         /\ StatusShown(objects[store], handler[h], quarantine)

LEMMA PrefixStays ==
    ASSUME NEW L, NEW M, Continues(L, M), NEW k \in Nat, k <= Len(L), NEW q, NEW o
    PROVE  /\ ItemsRight(q, L, k) => ItemsRight(q, M, k)
           /\ LastShown(o, L, k) => LastShown(o, M, k)
<1>1. \A n \in 1..k : M[n] = L[n]
  <2>1. Len(L) \in Nat /\ DOMAIN L = 1..Len(L)
    BY DEF Continues
  <2> QED
    BY <2>1 DEF Continues
<1>2. \A b, a : DecidedUpTo(M, k, b, a) <=> DecidedUpTo(L, k, b, a)
  BY <1>1 DEF DecidedUpTo
<1> QED
  BY <1>1, <1>2 DEF ItemsRight, LastShown

LEMMA PrefixGrows ==
    ASSUME NEW L, NEW n \in Nat, n > 0, NEW q, NEW o
    PROVE  /\ ItemsRight(q, L, n - 1) /\ L[n].action \notin {"admitted", "rejected"}
                => ItemsRight(q, L, n)
           /\ LastShown(o, L, n - 1) /\ L[n].blob \notin Blob => LastShown(o, L, n)
<1>1. \A m : m \in 1..n <=> m \in 1..(n - 1) \/ m = n
  OBVIOUS
<1>2. L[n].action \notin {"admitted", "rejected"} =>
        \A b : \A a \in {"admitted", "rejected"} :
          DecidedUpTo(L, n, b, a) <=> DecidedUpTo(L, n - 1, b, a)
  BY <1>1 DEF DecidedUpTo
<1> QED
  BY <1>1, <1>2 DEF ItemsRight, LastShown

LEMMA StatusMoved ==
    ASSUME NEW o, NEW x, NEW y, NEW q, StatusShown(o, x, q),
           x.step \notin {"exposed", "added", "decided"},
           y.step \notin {"exposed", "added", "decided"},
           y.op \in Decisive /\ y.step \in {"ready", "accepted", "receipted"} =>
             o.blobs[y.blob] = "quarantined" /\ y.synced = o.synced
    PROVE  StatusShown(o, y, q)
  BY DEF StatusShown

\* The operation of a finished transition that decides nothing.
LEMMA FinishedOp ==
    ASSUME NEW h, Serial(h), Inv, Finishes(h), ~UpdateStatus(h)
    PROVE  /\ handler[h].op \notin Decisive
           /\ ActionOf(handler[h].op) \notin {"admitted", "rejected"}
           /\ handler[h].op = "decide" => Note(h)
<1>0. h \in Handler
  BY DEF Serial
<1>1. handler[h].op \in {"update", "append", "decide", "bind", "materialize", "import",
                         "baseline"}
      /\ (handler[h].op = "decide" => Note(h))
  BY DEF Finishes, Apply, Note, Materialize, ProposeBaseline, Expose, Admitted
<1> QED
  BY <1>1 DEF Decisive, ActionOf

\* A blob that is being decided is quarantined, in the workspace and in the items.
LEMMA DecidingOpen ==
    ASSUME NEW h, Serial(h), Inv, OneInv(h), DecisionInv(h),
           handler[h].op \in Decisive, handler[h].step \in {"ready", "accepted", "receipted"}
    PROVE  /\ handler[h].blob \in Blob /\ store # 0 /\ handler[h].object = store
           /\ The(h).blobs[handler[h].blob] = "quarantined"
           /\ quarantine[handler[h].blob] = "quarantined"
           /\ handler[h].synced = The(h).synced
<1>1. h \in Handler /\ HandlerFits(handler[h], ledger, receipts, Len(objects))
  BY HandlerAt DEF Serial
<1>2. handler[h].blob \in Blob /\ handler[h].object # 0
  BY <1>1 DEF HandlerFits, Decisive, Makes
<1>3. handler[h].object = store /\ store # 0
  BY <1>2 DEF OneInv
<1>4. StatusShown(The(h), handler[h], quarantine)
  BY <1>3 DEF DecisionInv
<1> QED
  BY <1>2, <1>3, <1>4 DEF StatusShown

LEMMA BlobNamed ==
    ASSUME NEW h, Serial(h), Inv, DecisionInv(h), [Next]_vars
    PROVE  handler'[h].op \notin Decisive \cup {"decide"} => handler'[h].blob = None
<1>0. h \in Handler
  BY DEF Serial
<1>1. handler[h].op \notin Decisive \cup {"decide"} => handler[h].blob = None
  BY DEF DecisionInv
<1>2. CASE handler'[h] = Idle
  BY <1>2 DEF Idle
<1>3. CASE Prepare(h) \/ Decide(h) \/ ProposeBaseline(h) \/ SaveReceipt(h) \/ AddItems(h)
             \/ ListEvents(h) \/ Project(h) \/ Accept(h)
  <2>1. handler'[h].blob = handler[h].blob
        /\ (handler'[h].op = handler[h].op \/ handler[h].op = "import")
    BY <1>0, <1>3, MovesAlong
  <2> QED
    BY <1>1, <2>1 DEF Decisive
<1>4. CASE Get(h)
  BY <1>0, <1>4, MovesAnew DEF Decisive
<1>5. CASE ImportZip(h) \/ ImportEnvelope(h)
  BY <1>0, <1>5, MovesAnew
<1>6. CASE Expose(h)
  <2>1. handler'[h] = Idle \/ handler'[h].blob = None
    BY <1>0, <1>6, MovesAnew
  <2> QED
    BY <1>2, <2>1
<1>7. CASE UNCHANGED handler
  BY <1>1, <1>7
<1>8. Export \/ Edit \/ UNCHANGED vars => UNCHANGED handler
  BY DEF Export, Edit, vars
<1>9. Restart => handler'[h] = Idle
  BY <1>0 DEF Restart
<1>10. \A g \in Handler : g = h /\ ~Ingest(g)
  BY DEF Serial, Ingest
<1>11. \/ TurnDown(h) \/ Refuse(h) \/ ReceiptFails(h) \/ Apply(h)
       \/ UpdateStatus(h) \/ Note(h) \/ Materialize(h) \/ ListItems(h) \/ WriteSnapshot(h)
       => handler'[h] = Idle
  BY <1>0, MovesAnew
<1> QED
  BY <1>2, <1>3, <1>4, <1>5, <1>6, <1>7, <1>8, <1>9, <1>10, <1>11 DEF Next

LEMMA OnceStep ==
    ASSUME NEW h, Serial(h), "kill" \notin Faults, Inv, OneInv(h), DecisionInv(h),
           [Next]_vars
    PROVE  DecidedOnce'
<1>0. h \in Handler /\ \A g \in Handler : g = h
  BY DEF Serial
<1>1. DecidedOnce
  BY DEF DecisionInv
<1>2. CASE UNCHANGED ledger
  BY <1>1, <1>2 DEF DecidedOnce
<1>3. CASE Accept(h)
  <2> DEFINE n == Len(ledger) + 1
             t == NewTransition(h)
  <2>1. /\ Len(ledger) \in Nat /\ Len(ledger') = n /\ ledger'[n] = t
        /\ ledger \in Seq(Transition) /\ ledger' \in Seq(Transition)
        /\ \A m \in DOMAIN ledger : ledger'[m] = ledger[m]
    BY <1>0, <1>3, AcceptStep DEF Continues
  <2>2. DOMAIN ledger = 1..Len(ledger) /\ DOMAIN ledger' = 1..n
    BY <2>1
  <2>3. handler[h].step = "ready"
    BY <1>3 DEF Accept
  <2>4. ~Active(handler[h]) /\ handler[h].op \in Changes
    BY <1>0, <2>3, HandlerAt DEF Active, HandlerFits
  <2>5. Settled(handler[h], ledger) = Len(ledger)
    BY <2>4 DEF Settled
  <2>6. t.action = ActionOf(handler[h].op) /\ t.blob = handler[h].blob
    BY DEF NewTransition
  <2>7. t.action \in {"admitted", "rejected"} =>
          \A m \in DOMAIN ledger :
            ~ (ledger[m].action \in {"admitted", "rejected"} /\ ledger[m].blob = t.blob)
    <3> SUFFICES ASSUME t.action \in {"admitted", "rejected"}, NEW m \in DOMAIN ledger,
                        ledger[m].action \in {"admitted", "rejected"}, ledger[m].blob = t.blob
                 PROVE  FALSE
      OBVIOUS
    <3>1. handler[h].op \in Decisive
      BY <2>4, <2>6 DEF ActionOf, Changes, Makes, Decisive
    <3>2. handler[h].blob \in Blob /\ quarantine[handler[h].blob] = "quarantined"
      BY <2>3, <3>1, DecidingOpen
    <3>3. ItemsRight(quarantine, ledger, Len(ledger))
      BY <2>5 DEF DecisionInv
    <3>4. /\ ~DecidedUpTo(ledger, Len(ledger), handler[h].blob, "admitted")
          /\ ~DecidedUpTo(ledger, Len(ledger), handler[h].blob, "rejected")
      BY <3>2, <3>3 DEF ItemsRight
    <3> HIDE DEF t
    <3> QED
      BY <2>2, <2>6, <3>4 DEF DecidedUpTo
  <2>8. \A m \in DOMAIN ledger' : m \in DOMAIN ledger \/ m = n
    BY <2>1, <2>2
  <2> HIDE DEF t, n
  <2> QED
    BY <1>1, <2>1, <2>7, <2>8 DEF DecidedOnce
<1>4. \A g \in Handler : g = h
  BY DEF Serial
<1>5. \/ SaveReceipt(h) \/ Get(h) \/ Prepare(h) \/ TurnDown(h) \/ ImportZip(h)
      \/ ImportEnvelope(h) \/ Refuse(h) \/ ReceiptFails(h) \/ Apply(h) \/ Decide(h)
      \/ UpdateStatus(h) \/ Note(h) \/ Materialize(h) \/ ProposeBaseline(h) \/ Expose(h)
      \/ AddItems(h) \/ ListItems(h) \/ Ingest(h) \/ ListEvents(h) \/ Project(h)
      \/ WriteSnapshot(h)
      => UNCHANGED ledger
  BY DEF SaveReceipt, Get, Prepare, TurnDown, ImportZip, ImportEnvelope, Refuse,
     ReceiptFails, Apply, Decide, UpdateStatus, Note, Materialize, ProposeBaseline, Expose,
     AddItems, ListItems, Ingest, ListEvents, Project, WriteSnapshot, acceptedVars
<1>6. Export \/ Edit \/ Restart \/ UNCHANGED vars => UNCHANGED ledger
  BY DEF Export, Edit, Restart, vars, acceptedVars
<1> QED
  BY <1>2, <1>3, <1>4, <1>5, <1>6 DEF Next

\* The items are what was decided (UpdateStatus and AddItems change them).
LEMMA ItemsAreRight ==
    ASSUME NEW h, Serial(h), "kill" \notin Faults, "persist" \notin Faults, Inv, OneInv(h),
           DecisionInv(h), [Next]_vars
    PROVE  /\ quarantine' = files'
           /\ ItemsRight(quarantine', ledger', Settled(handler[h], ledger)')
<1> DEFINE k == Settled(handler[h], ledger)
           n == Len(ledger)
<1>0. /\ h \in Handler /\ quarantine = files /\ ItemsRight(quarantine, ledger, k)
      /\ k \in Nat /\ n \in Nat /\ k <= n /\ quarantine \in [Blob -> Statuses]
  BY SettledTyped DEF Serial, DecisionInv, Inv, ItemsInv, StatusesFit
<1>1. Continues(ledger, ledger')
  BY LedgerStep
<1>2. ItemsRight(quarantine, ledger', k)
  <2> HIDE DEF k
  <2> QED
    BY <1>0, <1>1, PrefixStays
<1>3. CASE UpdateStatus(h)
  <2> DEFINE b == handler[h].blob
             v == Verdict(h)
             q == [quarantine EXCEPT ![b] = v]
  <2>1. /\ handler[h].step = "decided" /\ Finishes(h) /\ handler[h].op \in Decisive
        /\ b \in Blob
    BY <1>0, <1>3, HandlerAt DEF UpdateStatus, Finishes, HandlerFits, Decisive
  <2>2. /\ k = n - 1 /\ handler[h].at = n /\ UNCHANGED ledger
        /\ Settled(handler[h], ledger)' = n
        /\ Active(handler[h])
    BY <2>1, SettledStep
  <2>3. quarantine[b] = "quarantined"
    <3>1. store # 0
      <4>1. handler[h].object # 0
        BY <1>0, <2>1, HandlerAt DEF HandlerFits
      <4> QED
        BY <4>1, <1>0 DEF OneInv, Inv, ObjectsInv
    <3> QED
      BY <2>1, <3>1 DEF DecisionInv, StatusShown
  <2>4. quarantine' = q /\ files' = q
    <3>1. Persisted(b, v)
      BY <1>3, <2>3 DEF UpdateStatus
    <3> QED
      BY <1>0, <3>1 DEF Persisted
  <2>5. /\ n > 0 /\ Owns(handler[h], ledger)
    BY <1>0, <2>2, SettledTyped
  <2>6. /\ ledger[n].blob = b /\ v \in {"approved", "rejected"}
        /\ v = "approved" => ledger[n].action = "admitted"
        /\ v = "rejected" => ledger[n].action = "rejected"
    BY <2>1, <2>2, <2>5 DEF Owns, ActionOf, Verdict, Decisive
  <2> HIDE DEF k, n, b, v
  <2>7. \A c \in Blob : q[c] = IF c = b THEN v ELSE quarantine[c]
    BY <1>0, <2>1
  <2>8. \A m : m \in 1..n <=> m \in 1..(n - 1) \/ m = n
    BY <1>0, <2>5
  <2>9. ItemsRight(q, ledger, n)
    <3> SUFFICES ASSUME NEW c \in Blob
                 PROVE  /\ q[c] = "approved" <=> DecidedUpTo(ledger, n, c, "admitted")
                        /\ q[c] = "rejected" <=> DecidedUpTo(ledger, n, c, "rejected")
      BY DEF ItemsRight
    <3>1. /\ quarantine[c] = "approved" <=> DecidedUpTo(ledger, n - 1, c, "admitted")
          /\ quarantine[c] = "rejected" <=> DecidedUpTo(ledger, n - 1, c, "rejected")
      BY <1>0, <2>2 DEF ItemsRight
    <3> HIDE DEF q
    <3>2. CASE c = b
      <4>1. q[c] = v
        BY <2>7, <3>2
      <4>2. \A m \in 1..(n - 1) :
              ~ (ledger[m].action \in {"admitted", "rejected"} /\ ledger[m].blob = c)
        BY <2>3, <3>1, <3>2 DEF DecidedUpTo
      <4>3. n \in 1..n
        BY <2>8
      <4> QED
        BY <2>6, <2>8, <3>2, <4>1, <4>2, <4>3 DEF DecidedUpTo
    <3>3. CASE c # b
      BY <2>6, <2>7, <2>8, <3>1, <3>3 DEF DecidedUpTo
    <3> QED
      BY <3>2, <3>3
  <2> QED
    BY <2>2, <2>4, <2>9 DEF n
<1>4. CASE AddItems(h)
  <2>1. ~Finishes(h)
    BY <1>4 DEF AddItems, Finishes, Apply, Note, Materialize, ProposeBaseline, Expose,
       UpdateStatus
  <2>2. Settled(handler[h], ledger)' = k /\ UNCHANGED ledger
    BY <1>4, <2>1, SettledStep DEF AddItems, acceptedVars
  <2>3. handler[h].step = "exposed" /\ store # 0 /\ handler[h].object = store
    <3>1. handler[h].object # 0 /\ handler[h].step = "exposed"
      BY <1>0, <1>4, HandlerAt DEF HandlerFits, AddItems
    <3> QED
      BY <3>1 DEF OneInv
  <2>4. \A b \in Blob : The(h).blobs[b] = "quarantined"
    BY <2>3 DEF DecisionInv, StatusShown
  <2>5. /\ quarantine' = [b \in Blob |-> IF quarantine[b] = "absent" THEN "quarantined"
                                        ELSE quarantine[b]]
        /\ files' = quarantine'
    <3> DEFINE missing == {b \in Blob : quarantine[b] = "absent"}
    <3>1. PICK bad \in SUBSET missing :
            /\ bad # {} => "persist" \in Faults
            /\ quarantine' = [b \in Blob |-> IF b \in missing \ bad
                                THEN The(h).blobs[b] ELSE quarantine[b]]
            /\ files' = [b \in Blob |-> IF b \in missing \ bad THEN The(h).blobs[b]
                           ELSE IF b \in bad THEN "absent" ELSE files[b]]
      BY <1>4 DEF AddItems
    <3>2. bad = {}
      BY <3>1
    <3>3. quarantine' = [b \in Blob |-> IF b \in missing THEN The(h).blobs[b] ELSE quarantine[b]]
          /\ files' = [b \in Blob |-> IF b \in missing THEN The(h).blobs[b] ELSE files[b]]
      BY <3>1, <3>2
    <3> QED
      BY <1>0, <2>4, <3>3
  <2>6. ItemsRight(quarantine', ledger, k)
    <3> HIDE DEF k
    <3> QED
      BY <1>0, <2>5 DEF ItemsRight
  <2> QED
    BY <2>2, <2>5, <2>6
<1>5. ASSUME quarantine' = quarantine, files' = files, ~UpdateStatus(h)
      PROVE  /\ quarantine' = files'
             /\ ItemsRight(quarantine', ledger', Settled(handler[h], ledger)')
  <2>1. CASE ~Finishes(h)
    <3>1. Settled(handler[h], ledger)' = k
      BY <2>1, SettledStep
    <3> QED
      BY <1>0, <1>2, <1>5, <3>1
  <2>2. CASE Finishes(h)
    <3>1. /\ k = n - 1 /\ handler[h].at = n /\ UNCHANGED ledger /\ Active(handler[h])
          /\ Settled(handler[h], ledger)' = n
      BY <2>2, SettledStep
    <3>2. n > 0 /\ Owns(handler[h], ledger)
      BY <1>0, <3>1, SettledTyped
    <3>3. ledger[n].action \notin {"admitted", "rejected"}
      <4>1. ActionOf(handler[h].op) \notin {"admitted", "rejected"}
        BY <1>5, <2>2, FinishedOp
      <4> QED
        BY <3>1, <3>2, <4>1 DEF Owns
    <3>4. ItemsRight(quarantine, ledger, n)
      <4>1. ItemsRight(quarantine, ledger, n - 1)
        BY <1>0, <3>1
      <4> HIDE DEF k, n
      <4> QED
        BY <1>0, <3>2, <3>3, <4>1, PrefixGrows
    <3> QED
      BY <1>0, <1>5, <3>1, <3>4
  <2> QED
    BY <2>1, <2>2
<1>6. CASE Restart
  <2>1. quarantine' = quarantine /\ files' = files
    BY <1>0, <1>6 DEF Restart
  <2>2. ~UpdateStatus(h)
    BY <1>0, <1>6 DEF Restart, UpdateStatus, Serial
  <2> QED
    BY <1>5, <2>1, <2>2
<1>7. \A g \in Handler : g = h
  BY DEF Serial
<1>8. ASSUME \/ SaveReceipt(h) \/ Get(h) \/ Prepare(h) \/ TurnDown(h) \/ ImportZip(h)
             \/ ImportEnvelope(h) \/ Accept(h) \/ Refuse(h) \/ ReceiptFails(h) \/ Apply(h)
             \/ Decide(h) \/ Note(h) \/ Materialize(h) \/ ProposeBaseline(h) \/ Expose(h)
             \/ ListItems(h) \/ Ingest(h) \/ ListEvents(h) \/ Project(h)
             \/ WriteSnapshot(h)
      PROVE  UNCHANGED quarantineVars
  BY <1>8 DEF SaveReceipt, Get, Prepare, TurnDown, ImportZip, ImportEnvelope, Accept,
     Refuse, ReceiptFails, Apply, Decide, Note, Materialize, ProposeBaseline, Expose,
     ListItems, Ingest, ListEvents, Project, WriteSnapshot
<1>9. Export \/ Edit \/ UNCHANGED vars => UNCHANGED quarantineVars
  BY DEF Export, Edit, vars
<1>10. UNCHANGED quarantineVars => quarantine' = quarantine /\ files' = files
  BY DEF quarantineVars
<1> QED
  BY <1>3, <1>4, <1>5, <1>6, <1>7, <1>8, <1>9, <1>10 DEF Next

\* The workspace the store has after a step.
LEMMA NewStore ==
    ASSUME NEW h, Serial(h), Inv, OneInv(h), [Next]_vars
    PROVE  /\ Apply(h) \/ Decide(h) \/ Note(h) \/ UpdateStatus(h) \/ ListItems(h) =>
                /\ store' = store /\ store # 0 /\ store \in DOMAIN objects
                /\ handler[h].object = store
           /\ Apply(h) => objects'[store] = Changed(h)
           /\ Decide(h) => objects'[store] = Decided(h)
           /\ Note(h) => objects'[store] =
                IF handler[h].op = "bind"
                THEN [objects[store] EXCEPT !.binding = handler[h].at]
                ELSE [objects[store] EXCEPT !.decisions[handler[h].blob] = handler[h].at]
           /\ UpdateStatus(h) => objects'[store] =
                [objects[store] EXCEPT !.decisions[handler[h].blob] = handler[h].at]
           /\ ListItems(h) => objects'[store] = Listed(h)
           /\ Expose(h) => /\ store' = Len(objects) + 1
                           /\ objects'[store'] = Imported(handler[h].files, handler[h].zip)
           /\ ~ (Apply(h) \/ Decide(h) \/ Note(h) \/ UpdateStatus(h) \/ ListItems(h)
                   \/ Expose(h)) =>
                store' = 0 \/ (store' = store /\ objects' = objects)
<1>0. /\ h \in Handler /\ objects \in Seq(Object) /\ Len(objects) \in Nat
      /\ HandlerFits(handler[h], ledger, receipts, Len(objects))
  BY HandlerAt DEF Serial, Inv, ObjectsInv
<1>1. ASSUME Apply(h) \/ Decide(h) \/ Note(h) \/ UpdateStatus(h) \/ ListItems(h)
      PROVE  /\ store' = store /\ store # 0 /\ store \in DOMAIN objects
             /\ handler[h].object = store
  <2>1. store' = store
    BY <1>1 DEF Apply, Decide, Note, UpdateStatus, ListItems
  <2>2. handler[h].object # 0
    BY <1>0, <1>1 DEF Apply, Decide, Note, UpdateStatus, ListItems, HandlerFits, Makes
  <2> QED
    BY <1>0, <2>1, <2>2, ObjectAt DEF OneInv
<1>2. Apply(h) => objects'[store] = Changed(h)
  <2> DEFINE o == Changed(h)
  <2>1. Apply(h) => objects' = [objects EXCEPT ![handler[h].object] = o]
    BY DEF Apply
  <2> QED
    BY <1>0, <1>1, <2>1
<1>3. Decide(h) => objects'[store] = Decided(h)
  <2> DEFINE o == Decided(h)
  <2>1. Decide(h) => objects' = [objects EXCEPT ![handler[h].object] = o]
    BY DEF Decide
  <2> QED
    BY <1>0, <1>1, <2>1
<1>4. ListItems(h) => objects'[store] = Listed(h)
  <2> DEFINE o == Listed(h)
  <2>1. ListItems(h) => objects' = [objects EXCEPT ![handler[h].object] = o]
    BY DEF ListItems
  <2> QED
    BY <1>0, <1>1, <2>1
<1>5. Note(h) => objects'[store] =
        IF handler[h].op = "bind"
        THEN [objects[store] EXCEPT !.binding = handler[h].at]
        ELSE [objects[store] EXCEPT !.decisions[handler[h].blob] = handler[h].at]
  BY <1>1 DEF Note
<1>6. UpdateStatus(h) => objects'[store] =
        [objects[store] EXCEPT !.decisions[handler[h].blob] = handler[h].at]
  BY <1>1 DEF UpdateStatus
<1>7. Expose(h) => /\ store' = Len(objects) + 1
                   /\ objects'[store'] = Imported(handler[h].files, handler[h].zip)
  <2> DEFINE o == Imported(handler[h].files, handler[h].zip)
  <2>1. Expose(h) => objects' = Append(objects, o) /\ store' = Len(objects) + 1
    BY DEF Expose
  <2>2. Append(objects, o)[Len(objects) + 1] = o
    <3> HIDE DEF o
    <3> QED
      BY <1>0
  <2> HIDE DEF o
  <2> QED
    BY <2>1, <2>2 DEF o
<1>8. ~ (Apply(h) \/ Decide(h) \/ Note(h) \/ UpdateStatus(h) \/ ListItems(h) \/ Expose(h)) =>
        store' = 0 \/ (store' = store /\ objects' = objects)
  <2>1. \/ SaveReceipt(h) \/ Get(h) \/ Prepare(h) \/ TurnDown(h) \/ ImportZip(h)
        \/ ImportEnvelope(h) \/ Accept(h) \/ Refuse(h) \/ ReceiptFails(h)
        \/ Materialize(h) \/ ProposeBaseline(h) \/ AddItems(h) \/ ListEvents(h)
        \/ Project(h) \/ WriteSnapshot(h)
        => UNCHANGED storeVars
    BY DEF SaveReceipt, Get, Prepare, TurnDown, ImportZip, ImportEnvelope, Accept, Refuse,
       ReceiptFails, Materialize, ProposeBaseline, AddItems, ListEvents, Project,
       WriteSnapshot
  <2>2. Export \/ Edit \/ UNCHANGED vars => UNCHANGED storeVars
    BY DEF Export, Edit, vars
  <2>3. Restart => store' = 0
    BY DEF Restart
  <2>4. \A g \in Handler : g = h /\ ~Ingest(g)
    BY DEF Serial, Ingest
  <2>5. UNCHANGED storeVars => store' = store /\ objects' = objects
    BY DEF storeVars
  <2> QED
    BY <2>1, <2>2, <2>3, <2>4, <2>5 DEF Next
<1> QED
  BY <1>1, <1>2, <1>3, <1>4, <1>5, <1>6, <1>7, <1>8

\* The decisions shown.
LEMMA LastShownStep ==
    ASSUME NEW h, Serial(h), "kill" \notin Faults, Inv, OneInv(h), DecisionInv(h),
           [Next]_vars, store' # 0
    PROVE  LastShown(objects'[store'], ledger', Settled(handler[h], ledger)')
<1> DEFINE k == Settled(handler[h], ledger)
           n == Len(ledger)
<1>0. /\ h \in Handler /\ objects \in Seq(Object) /\ k \in Nat /\ n \in Nat /\ k <= n
      /\ HandlerFits(handler[h], ledger, receipts, Len(objects))
      /\ store # 0 => LastShown(objects[store], ledger, k)
  BY SettledTyped, HandlerAt DEF Serial, Inv, ObjectsInv, DecisionInv
<1>1. Continues(ledger, ledger')
  BY LedgerStep
<1>2. CASE Expose(h)
  <2>1. objects'[store'] = Imported(handler[h].files, handler[h].zip)
    BY <1>2, NewStore
  <2>2. objects'[store'].decisions = [b \in Blob |-> 0]
    BY <2>1 DEF Imported
  <2>3. \A b \in Blob : objects'[store'].decisions[b] = 0
    BY <2>2
  <2> QED
    BY <2>3 DEF LastShown
<1>3. ASSUME store' = store, Finishes(h),
             \/ /\ objects'[store].decisions = objects[store].decisions
                /\ ledger[n].blob \notin Blob
             \/ /\ ledger[n].blob \in Blob
                /\ objects'[store].decisions =
                     [objects[store].decisions EXCEPT ![ledger[n].blob] = n]
                /\ store \in DOMAIN objects
      PROVE  LastShown(objects'[store'], ledger', Settled(handler[h], ledger)')
  <2>1. /\ k = n - 1 /\ UNCHANGED ledger /\ Settled(handler[h], ledger)' = n
        /\ Active(handler[h])
    BY <1>3, SettledStep
  <2>2. n > 0 /\ LastShown(objects[store], ledger, n - 1)
    BY <1>0, <1>3, <2>1, SettledTyped
  <2>3. CASE /\ objects'[store].decisions = objects[store].decisions
             /\ ledger[n].blob \notin Blob
    <3>1. LastShown(objects[store], ledger, n)
      <4> HIDE DEF k, n
      <4> QED
        BY <1>0, <2>2, <2>3, PrefixGrows
    <3> QED
      BY <1>3, <2>1, <2>3, <3>1 DEF LastShown
  <2>4. CASE /\ ledger[n].blob \in Blob
             /\ objects'[store].decisions =
                  [objects[store].decisions EXCEPT ![ledger[n].blob] = n]
             /\ store \in DOMAIN objects
    <3> DEFINE d == objects[store].decisions
               c == ledger[n].blob
    <3>1. d \in [Blob -> 0..MaxLedger]
      <4>1. objects[store] \in Object
        BY <1>0, <2>4
      <4> QED
        BY <4>1 DEF Object
    <3>2. \A b \in Blob : objects'[store].decisions[b] = IF b = c THEN n ELSE d[b]
      BY <2>4, <3>1
    <3>3. \A m : m \in 1..n <=> m \in 1..(n - 1) \/ m = n
      BY <1>0, <2>2
    <3>4. \A m \in 1..n : m <= n
      BY <1>0
    <3>5. \A b \in Blob : d[b] # 0 => \A m \in 1..(n - 1) : ledger[m].blob = b => m <= d[b]
      BY <2>2 DEF LastShown
    <3> HIDE DEF d, n, k
    <3> SUFFICES ASSUME NEW b \in Blob, objects'[store].decisions[b] # 0,
                        NEW m \in 1..n, ledger[m].blob = b
                 PROVE  m <= objects'[store].decisions[b]
      BY <1>3, <2>1 DEF LastShown, n
    <3>6. CASE b = c
      BY <3>2, <3>4, <3>6
    <3>7. CASE b # c
      BY <3>2, <3>3, <3>5, <3>7
    <3> QED
      BY <3>6, <3>7
  <2> QED
    BY <1>3, <2>3, <2>4
<1>4. ASSUME store' = store, ~Finishes(h),
             objects'[store].decisions = objects[store].decisions
      PROVE  LastShown(objects'[store'], ledger', Settled(handler[h], ledger)')
  <2>1. Settled(handler[h], ledger)' = k
    BY <1>4, SettledStep
  <2>2. LastShown(objects[store], ledger', k)
    <3>1. LastShown(objects[store], ledger, k)
      BY <1>0, <1>4
    <3> HIDE DEF k, n
    <3> QED
      BY <1>0, <1>1, <3>1, PrefixStays DEF n
  <2> QED
    BY <1>4, <2>1, <2>2 DEF LastShown
<1>5. Finishes(h) => /\ handler[h].at = n /\ Owns(handler[h], ledger)
                     /\ ledger[n].blob = handler[h].blob
  <2>1. Finishes(h) => handler[h].at = n /\ Active(handler[h])
    BY SettledStep
  <2> QED
    BY <1>0, <2>1, SettledTyped DEF Owns
<1>6. CASE UpdateStatus(h)
  <2>1. Finishes(h) /\ handler[h].blob \in Blob
    BY <1>0, <1>6 DEF Finishes, UpdateStatus, HandlerFits
  <2>2. /\ store' = store /\ store \in DOMAIN objects
        /\ objects'[store].decisions =
             [objects[store].decisions EXCEPT ![handler[h].blob] = handler[h].at]
    <3>1. /\ store' = store /\ store \in DOMAIN objects
          /\ objects'[store] =
               [objects[store] EXCEPT !.decisions[handler[h].blob] = handler[h].at]
      BY <1>6, NewStore
    <3> QED
      BY <1>0, <3>1 DEF Object
  <2> QED
    BY <1>3, <1>5, <2>1, <2>2
<1>7. CASE Note(h)
  <2>1. Finishes(h)
    BY <1>7 DEF Finishes
  <2>2. store' = store /\ store \in DOMAIN objects
    BY <1>7, NewStore
  <2>3. CASE handler[h].op = "bind"
    <3>1. objects'[store] = [objects[store] EXCEPT !.binding = handler[h].at]
      BY <1>7, <2>3, NewStore
    <3>2. objects'[store].decisions = objects[store].decisions
      BY <1>0, <2>2, <3>1 DEF Object
    <3>3. handler[h].blob \notin Blob
      BY <2>3, PathsAssumption DEF DecisionInv, Decisive
    <3> QED
      BY <1>3, <1>5, <2>1, <2>2, <3>2, <3>3
  <2>4. CASE handler[h].op = "decide"
    <3>1. objects'[store] =
            [objects[store] EXCEPT !.decisions[handler[h].blob] = handler[h].at]
      BY <1>7, <2>4, NewStore
    <3>2. objects'[store].decisions =
            [objects[store].decisions EXCEPT ![handler[h].blob] = handler[h].at]
      BY <1>0, <2>2, <3>1 DEF Object
    <3>3. handler[h].blob \in Blob
      BY <1>0, <2>4 DEF HandlerFits
    <3> QED
      BY <1>3, <1>5, <2>1, <2>2, <3>2, <3>3
  <2> QED
    BY <1>7, <2>3, <2>4 DEF Note
<1>8. CASE Apply(h) \/ Decide(h) \/ ListItems(h)
  <2>1. store' = store /\ store \in DOMAIN objects /\ handler[h].object = store
    BY <1>8, NewStore
  <2>2. objects'[store].decisions = objects[store].decisions
    <3>1. objects[store] \in Object
      BY <1>0, <2>1
    <3>2. objects'[store] = Changed(h) \/ objects'[store] = Decided(h)
            \/ objects'[store] = Listed(h)
      BY <1>8, NewStore
    <3> QED
      BY <2>1, <3>1, <3>2 DEF Changed, Decided, Listed, Object
  <2>3. CASE Apply(h)
    <3>1. Finishes(h) /\ handler[h].op \in {"update", "append"}
      BY <2>3 DEF Finishes, Apply
    <3>2. handler[h].blob \notin Blob
      BY <3>1, PathsAssumption DEF DecisionInv, Decisive
    <3> QED
      BY <1>3, <1>5, <2>1, <2>2, <3>1, <3>2
  <2>4. CASE Decide(h) \/ ListItems(h)
    <3>1. ~Finishes(h)
      <4>1. CASE ListItems(h)
        BY <4>1 DEF ListItems, Finishes, Apply, Note, Materialize, ProposeBaseline, Expose,
           UpdateStatus
      <4>2. CASE Decide(h)
        BY <4>2 DEF Decide, Finishes, Apply, Note, Materialize, ProposeBaseline, Expose,
           UpdateStatus, Admitted
      <4> QED
        BY <2>4, <4>1, <4>2
    <3> QED
      BY <1>4, <2>1, <2>2, <3>1
  <2> QED
    BY <1>8, <2>3, <2>4
<1>9. CASE ~ (Apply(h) \/ Decide(h) \/ Note(h) \/ UpdateStatus(h) \/ ListItems(h)
                \/ Expose(h))
  <2>1. store' = store /\ objects' = objects
    BY <1>9, NewStore
  <2>2. CASE ~Finishes(h)
    BY <1>4, <2>1, <2>2
  <2>3. CASE Finishes(h)
    <3>1. handler[h].op \notin Decisive \cup {"decide"}
      BY <1>9, <2>3, FinishedOp
    <3>2. handler[h].blob \notin Blob
      BY <3>1, PathsAssumption DEF DecisionInv
    <3> QED
      BY <1>3, <1>5, <2>1, <2>3, <3>2
  <2> QED
    BY <2>2, <2>3
<1> QED
  BY <1>2, <1>6, <1>7, <1>8, <1>9

\* The blobs shown.
LEMMA StatusShownStep ==
    ASSUME NEW h, Serial(h), "kill" \notin Faults, "persist" \notin Faults, Inv, OneInv(h),
           DecisionInv(h), [Next]_vars, store' # 0
    PROVE  StatusShown(objects'[store'], handler'[h], quarantine')
<1> DEFINE x == handler[h]
           y == handler'[h]
           o == objects[store]
           u == objects'[store']
<1>0. /\ h \in Handler /\ objects \in Seq(Object) /\ quarantine \in [Blob -> Statuses]
      /\ HandlerFits(handler[h], ledger, receipts, Len(objects))
      /\ store # 0 => StatusShown(o, x, quarantine)
      /\ quarantine = files
  BY HandlerAt DEF Serial, Inv, ItemsInv, StatusesFit, ObjectsInv, DecisionInv
<1>1. Idle.step = "idle" /\ Idle.op = "none"
  BY DEF Idle
<1>2. CASE Expose(h)
  <2>1. u = Imported(handler[h].files, handler[h].zip)
    BY <1>2, NewStore
  <2>2. u.blobs = [b \in Blob |-> IF handler[h].zip THEN "quarantined" ELSE "absent"]
    BY <2>1 DEF Imported
  <2>3. handler[h].op \in Makes
    BY <1>2 DEF Expose, Admitted, Makes
  <2> HIDE DEF u, y
  <2>4. CASE handler[h].zip /\ y.step = "exposed" /\ y.op = handler[h].op
    <3>1. \A b \in Blob : u.blobs[b] = "quarantined"
      BY <2>2, <2>4
    <3> QED
      BY <2>3, <2>4, <3>1 DEF StatusShown, u, y
  <2>5. CASE ~handler[h].zip /\ y = Idle
    <3>1. \A b \in Blob : u.blobs[b] = "absent"
      BY <2>2, <2>5
    <3>2. StatusShown(u, Idle, quarantine')
      BY <1>1, <3>1 DEF StatusShown, Decisive
    <3> QED
      BY <2>5, <3>2 DEF u, y
  <2> QED
    BY <1>0, <1>2, <2>4, <2>5, MovesAnew DEF y
<1>3. ASSUME ~Expose(h)
      PROVE  store' = store /\ store # 0
  BY <1>3, NewStore
<1>4. ASSUME ~Expose(h), u.blobs = o.blobs, u.synced = o.synced, quarantine' = quarantine,
             x.step \notin {"exposed", "added", "decided"},
             y.step \notin {"exposed", "added", "decided"},
             y.op \in Decisive /\ y.step \in {"ready", "accepted", "receipted"} =>
               o.blobs[y.blob] = "quarantined" /\ y.synced = o.synced
      PROVE  StatusShown(objects'[store'], handler'[h], quarantine')
  <2>1. StatusShown(o, x, quarantine)
    BY <1>0, <1>3, <1>4
  <2>2. StatusShown(o, y, quarantine)
    <3> HIDE DEF x, y, o
    <3> QED
      BY <1>4, <2>1, StatusMoved
  <2> QED
    BY <1>4, <2>2 DEF StatusShown
<1>5. CASE Decide(h)
  <2>1. /\ store \in DOMAIN objects /\ x.object = store /\ store' = store
        /\ u = Decided(h) /\ quarantine' = quarantine
    BY <1>5, NewStore DEF Decide, quarantineVars
  <2>2. /\ y.step = "decided" /\ y.blob = x.blob /\ y.op = x.op
        /\ x.step = "receipted" /\ x.op \in Decisive
    <3>1. ~ProposeBaseline(h)
      BY <1>5 DEF Decide, ProposeBaseline
    <3> QED
      BY ZenonT(60), <1>0, <1>5, <3>1, MovesAlong DEF Decide, Decisive
  <2>3. /\ x.blob \in Blob /\ quarantine[x.blob] = "quarantined"
        /\ x.synced = The(h).synced
    BY <2>2, DecidingOpen
  <2>4. o \in Object
    BY <1>0, <2>1
  <2>5. u.blobs = [o.blobs EXCEPT ![x.blob] = VerdictOf(x.op)]
    BY <2>1, <2>3, <2>4 DEF Decided, Verdict, VerdictOf, Object
  <2>6. o.blobs \in [Blob -> Statuses]
    BY <2>4 DEF Object
  <2>7. \A b \in Blob : o.blobs[b] \in {"absent", quarantine[b]}
    BY <1>0, <1>3, <2>1, <2>2, NewStore, <1>5 DEF StatusShown
  <2>8. /\ u.blobs[x.blob] = VerdictOf(x.op)
        /\ \A b \in Blob \ {x.blob} : u.blobs[b] = o.blobs[b]
    BY <2>3, <2>5, <2>6
  <2> HIDE DEF u, o, x, y
  <2>9. StatusShown(u, y, quarantine)
    BY <2>2, <2>3, <2>7, <2>8 DEF StatusShown
  <2> QED
    BY <2>1, <2>9 DEF u, y
<1>6. CASE UpdateStatus(h)
  <2>1. /\ store \in DOMAIN objects /\ x.object = store /\ store' = store /\ store # 0
        /\ u = [o EXCEPT !.decisions[x.blob] = x.at]
    BY <1>6, NewStore
  <2>2. y = Idle /\ x.step = "decided" /\ x.op \in Decisive /\ x.blob \in Blob
    BY <1>0, <1>6, MovesAnew DEF UpdateStatus, HandlerFits, Decisive
  <2>3. o \in Object
    BY <1>0, <2>1
  <2>4. u.blobs = o.blobs
    BY <2>3, <2>1 DEF Object
  <2>5. /\ quarantine[x.blob] = "quarantined" /\ o.blobs[x.blob] = VerdictOf(x.op)
        /\ \A b \in Blob \ {x.blob} : o.blobs[b] \in {"absent", quarantine[b]}
    BY <1>0, <2>1, <2>2 DEF StatusShown
  <2>6. quarantine' = [quarantine EXCEPT ![x.blob] = VerdictOf(x.op)]
    BY <1>6, <2>5 DEF UpdateStatus, Persisted, Verdict, VerdictOf
  <2>7. \A b \in Blob : quarantine'[b] = IF b = x.blob THEN VerdictOf(x.op)
                                          ELSE quarantine[b]
    BY <1>0, <2>6
  <2>8. \A b \in Blob : u.blobs[b] \in {"absent", quarantine'[b]}
    <3> HIDE DEF u, o, x
    <3> QED
      BY <2>4, <2>5, <2>7
  <2>9. StatusShown(u, Idle, quarantine')
    <3> HIDE DEF u
    <3> QED
      BY <1>1, <2>8 DEF StatusShown, Decisive
  <2> QED
    BY <2>2, <2>9
<1>7. CASE AddItems(h)
  <2>1. x.step = "exposed" /\ y.step = "added" /\ y.op = x.op
    <3>1. ~ProposeBaseline(h)
      BY <1>7 DEF AddItems, ProposeBaseline
    <3> QED
      BY <1>0, <1>7, <3>1, MovesAlong
  <2>2. store' = store /\ objects' = objects /\ store # 0
    BY <1>7 DEF AddItems, storeVars
  <2>3. \A b \in Blob : o.blobs[b] = "quarantined"
    BY <1>0, <2>1, <2>2 DEF StatusShown
  <2>4. x.object # 0
    BY <1>0, <2>1 DEF HandlerFits
  <2>5. x.object = store
    BY <2>4 DEF OneInv
  <2>6. \A b \in Blob : quarantine'[b] # "absent"
    <3> DEFINE missing == {b \in Blob : quarantine[b] = "absent"}
    <3>1. PICK bad \in SUBSET missing :
            /\ bad # {} => "persist" \in Faults
            /\ quarantine' = [b \in Blob |-> IF b \in missing \ bad
                                THEN The(h).blobs[b] ELSE quarantine[b]]
      BY <1>7 DEF AddItems
    <3>2. bad = {}
      BY <3>1
    <3>3. \A b \in Blob : quarantine'[b] = IF quarantine[b] = "absent" THEN "quarantined"
                                            ELSE quarantine[b]
      BY <2>3, <2>5, <3>1, <3>2
    <3> QED
      BY <3>3
  <2> HIDE DEF x, y, o
  <2>7. StatusShown(o, y, quarantine')
    BY <2>1, <2>3, <2>6 DEF StatusShown
  <2> QED
    BY <2>2, <2>7 DEF o, y
<1>8. CASE ListItems(h)
  <2>1. y = Idle /\ u = Listed(h) /\ quarantine' = quarantine
        /\ store \in DOMAIN objects /\ x.object = store
    BY <1>0, <1>8, MovesAnew, NewStore DEF ListItems, quarantineVars
  <2>2. u.blobs = quarantine
    <3>1. o \in Object
      BY <1>0, <2>1
    <3> QED
      BY <2>1, <3>1 DEF Listed, Object
  <2>3. StatusShown(u, Idle, quarantine')
    <3> HIDE DEF u
    <3> QED
      BY <1>1, <2>1, <2>2 DEF StatusShown, Decisive
  <2> QED
    BY <2>1, <2>3
<1>9. CASE Apply(h) \/ Note(h)
  <2>1. /\ y = Idle /\ quarantine' = quarantine /\ x.step = "receipted"
        /\ store \in DOMAIN objects /\ x.object = store
    BY <1>0, <1>9, MovesAnew, NewStore DEF Apply, Note, quarantineVars
  <2>2. u.blobs = o.blobs /\ u.synced = o.synced
    <3>1. o \in Object
      BY <1>0, <2>1
    <3>2. store' = store
      BY <1>9, NewStore
    <3>3. CASE Apply(h)
      <4>1. u = Changed(h)
        BY <3>3, <3>2, NewStore
      <4> QED
        BY <2>1, <3>1, <4>1 DEF Changed, Object
    <3>4. CASE Note(h)
      BY <2>1, <3>1, <3>4, <3>2, NewStore DEF Object
    <3> QED
      BY <1>9, <3>3, <3>4
  <2>3. ~Expose(h)
    BY <1>9 DEF Apply, Note, Expose, Admitted
  <2> QED
    BY <1>1, <1>4, <2>1, <2>2, <2>3 DEF Decisive
<1>10. ASSUME UNCHANGED storeVars, quarantine' = quarantine, ~Expose(h),
              x.step \notin {"exposed", "added", "decided"},
              y.step \notin {"exposed", "added", "decided"},
              y.op \in Decisive /\ y.step \in {"ready", "accepted", "receipted"} =>
                o.blobs[y.blob] = "quarantined" /\ y.synced = o.synced
       PROVE  StatusShown(objects'[store'], handler'[h], quarantine')
  <2>1. u = o
    BY <1>10 DEF storeVars
  <2> HIDE DEF x, y, u, o
  <2> QED
    BY <1>4, <1>10, <2>1
<1>11. CASE Prepare(h)
  <2>1. /\ y.step = "ready" /\ y.op = x.op /\ y.blob = x.blob /\ y.synced = The(h).synced
        /\ x.step = "got" /\ x.object = store
    <3>1. ~ProposeBaseline(h)
      BY <1>11 DEF Prepare, ProposeBaseline
    <3>2. x.step = "got"
      BY <1>11 DEF Prepare
    <3>3. x.object # 0
      BY <1>0, <3>2 DEF HandlerFits
    <3> QED
      BY <1>0, <1>11, <3>1, <3>2, <3>3, MovesAlong DEF OneInv
  <2>2. x.op \in Decisive => o.blobs[x.blob] = "quarantined"
    BY <1>11, <2>1 DEF Prepare, Decidable, Decisive
  <2>3. UNCHANGED storeVars /\ quarantine' = quarantine /\ ~Expose(h)
    BY <1>11 DEF Prepare, quarantineVars, Expose
  <2> QED
    BY <1>10, <2>1, <2>2, <2>3
<1>12. CASE Accept(h) \/ SaveReceipt(h)
  <2>1. /\ y.op = x.op /\ y.blob = x.blob /\ x.step \in {"ready", "accepted"}
        /\ y.step \in {"accepted", "receipted"}
    <3>1. ~ProposeBaseline(h)
      BY <1>12 DEF Accept, SaveReceipt, ProposeBaseline
    <3> QED
      BY <1>0, <1>12, <3>1, MovesAlong
  <2>2. y.synced = x.synced
    <3>1. ~Prepare(h)
      BY <1>12 DEF Accept, SaveReceipt, Prepare
    <3> QED
      BY <1>0, <1>12, <3>1, MovesAlong
  <2>3. UNCHANGED storeVars /\ quarantine' = quarantine /\ ~Expose(h)
    BY <1>12 DEF Accept, SaveReceipt, quarantineVars, Expose
  <2>4. x.op \in Decisive => o.blobs[x.blob] = "quarantined" /\ x.synced = o.synced
    BY <2>1, DecidingOpen
  <2> QED
    BY <1>10, <2>1, <2>2, <2>3, <2>4
<1>13. CASE ProposeBaseline(h) \/ ListEvents(h) \/ Project(h)
  <2>1. /\ x.step \in {"receipted", "got", "listed"}
        /\ y.step \in {"ready", "listed", "projected"}
        /\ y.step = "ready" => y.op = "baseline"
    BY <1>0, <1>13, MovesAlong
  <2>2. UNCHANGED storeVars /\ quarantine' = quarantine /\ ~Expose(h)
    <3>1. ~Expose(h)
      BY <1>13 DEF ProposeBaseline, ListEvents, Project, Expose, Admitted
    <3> QED
      BY <1>13, <3>1 DEF ProposeBaseline, ListEvents, Project, quarantineVars
  <2> QED
    BY <1>10, <2>1, <2>2 DEF Decisive
<1>14. CASE Get(h) \/ ImportZip(h) \/ ImportEnvelope(h)
  <2>1. /\ x.step = "idle" /\ y.step \in {"got", "ready"}
        /\ y.step = "ready" => y.op = "import"
    BY <1>0, <1>14, MovesAnew DEF Get, ImportZip, ImportEnvelope
  <2>2. UNCHANGED storeVars /\ quarantine' = quarantine /\ ~Expose(h)
    BY <1>14, <2>1 DEF Get, ImportZip, ImportEnvelope, quarantineVars, Expose
  <2> QED
    BY <1>10, <2>1, <2>2 DEF Decisive
<1>15. CASE TurnDown(h) \/ Refuse(h) \/ Materialize(h) \/ WriteSnapshot(h)
  <2>1. x.step \in {"got", "ready", "receipted", "projected"} /\ y = Idle
    BY <1>0, <1>15, MovesAnew DEF TurnDown, Refuse, Materialize, WriteSnapshot
  <2>2. UNCHANGED storeVars /\ quarantine' = quarantine /\ ~Expose(h)
    <3>1. ~Expose(h)
      BY <1>15 DEF TurnDown, Refuse, Materialize, WriteSnapshot, Expose, Admitted
    <3> QED
      BY <1>15, <3>1 DEF TurnDown, Refuse, Materialize, WriteSnapshot, quarantineVars
  <2> QED
    BY <1>1, <1>10, <2>1, <2>2 DEF Decisive
<1>16. CASE Export \/ Edit \/ UNCHANGED vars
  <2>1. UNCHANGED <<storeVars, quarantineVars, handler>>
    BY <1>16 DEF Export, Edit, vars
  <2>2. u = o /\ y = x /\ quarantine' = quarantine /\ store' = store
    BY <2>1 DEF storeVars, quarantineVars
  <2> HIDE DEF u, o, x, y
  <2> QED
    BY <1>0, <2>2 DEF u, y
<1>17. \A g \in Handler : g = h /\ ~Ingest(g) /\ ~ReceiptFails(g)
  BY DEF Serial, Ingest, ReceiptFails
<1>18. ~Restart
  BY DEF Restart
<1> QED
  BY <1>2, <1>5, <1>6, <1>7, <1>8, <1>9, <1>11, <1>12, <1>13, <1>14, <1>15, <1>16,
     <1>17, <1>18 DEF Next

LEMMA DecisionStep ==
    ASSUME NEW h, Serial(h), "kill" \notin Faults, "persist" \notin Faults, Inv, OneInv(h),
           DecisionInv(h), [Next]_vars
    PROVE  DecisionInv(h)'
<1>1. store' # 0 =>
        /\ LastShown(objects'[store'], ledger', Settled(handler[h], ledger)')
        /\ StatusShown(objects'[store'], handler'[h], quarantine')
  BY LastShownStep, StatusShownStep
<1> QED
  BY <1>1, OnceStep, ItemsAreRight, BlobNamed DEF DecisionInv

LEMMA InitDecision ==
    ASSUME NEW h \in Handler
    PROVE  Init => OneInv(h) /\ DecisionInv(h)
<1> SUFFICES ASSUME Init PROVE OneInv(h) /\ DecisionInv(h)
  OBVIOUS
<1>1. handler[h] = Idle /\ ledger = <<>> /\ store = 0 /\ quarantine = files
      /\ quarantine = [b \in Blob |-> "absent"]
  BY DEF Init
<1>2. Idle.step = "idle" /\ Idle.object = 0 /\ Idle.blob = None /\ ~Active(Idle)
  BY DEF Idle, Active
<1>3. Settled(handler[h], ledger) = 0 /\ Len(ledger) = 0 /\ DOMAIN ledger = {}
  BY <1>1, <1>2 DEF Settled
<1>4. ItemsRight(quarantine, ledger, 0)
  <2>1. \A b \in Blob : quarantine[b] = "absent"
    BY <1>1
  <2>2. 1..0 = {}
    OBVIOUS
  <2> QED
    BY <2>1, <2>2 DEF ItemsRight, DecidedUpTo
<1>5. DecidedOnce
  BY <1>3 DEF DecidedOnce
<1> QED
  BY <1>1, <1>2, <1>3, <1>4, <1>5 DEF OneInv, DecisionInv

LEMMA DecisionIsFinal ==
    ASSUME NEW h, Serial(h)
    PROVE  Inv /\ DecisionInv(h) => DecisionFinal
<1> SUFFICES ASSUME Inv, DecisionInv(h) PROVE DecisionFinal
  OBVIOUS
<1>1. DecidedOnce /\ quarantine = files
  BY DEF DecisionInv
<1>2. DecisionShown
  <2> SUFFICES ASSUME Quiet, store # 0, NEW b \in Blob
               PROVE  LET status == objects[store].blobs[b]
                          latest == objects[store].decisions[b]
                      IN  /\ status # "absent" =>
                               /\ status = quarantine[b] /\ status = files[b]
                               /\ (status = "approved") <=> DecidedIn(b, {"admitted"})
                               /\ (status = "rejected") <=> DecidedIn(b, {"rejected"})
                          /\ latest # 0 =>
                               \A n \in DOMAIN ledger : ledger[n].blob = b => n <= latest
    BY DEF DecisionShown
  <2>1. h \in Handler /\ handler[h].step = "idle" /\ DOMAIN ledger = 1..Len(ledger)
    BY DEF Serial, Quiet, Inv, LedgerInv
  <2>2. Settled(handler[h], ledger) = Len(ledger)
    BY <2>1 DEF Settled, Active
  <2>3. /\ ItemsRight(quarantine, ledger, Len(ledger))
        /\ LastShown(objects[store], ledger, Len(ledger))
        /\ StatusShown(objects[store], handler[h], quarantine)
    BY <2>2 DEF DecisionInv
  <2>4. objects[store].blobs[b] \in {"absent", quarantine[b]}
    BY <2>1, <2>3 DEF StatusShown
  <2>5. /\ quarantine[b] = "approved" <=> DecidedIn(b, {"admitted"})
        /\ quarantine[b] = "rejected" <=> DecidedIn(b, {"rejected"})
    BY <2>1, <2>3 DEF ItemsRight, DecidedUpTo, DecidedIn
  <2>6. objects[store].decisions[b] # 0 =>
          \A n \in DOMAIN ledger : ledger[n].blob = b => n <= objects[store].decisions[b]
    BY <2>1, <2>3 DEF LastShown
  <2> QED
    BY <1>1, <2>4, <2>5, <2>6
<1> QED
  BY <1>1, <1>2 DEF DecisionFinal

\* Where requests are served one at a time and nothing is ingested, killed in
\* the middle or fails to be persisted, a blob is decided once, its decision is
\* what the workspace, the item and its file show, also after restarts and
\* imports of the same archive, and the decision shown is the last one
\* (admitQuarantine, rejectQuarantine, internal/server; UpdateStatus).
THEOREM DecisionsFinal ==
    ASSUME NEW h, Serial(h), "kill" \notin Faults, "persist" \notin Faults
    PROVE  Spec => []DecisionFinal
<1>1. h \in Handler
  BY DEF Serial
<1>2. Init => OneInv(h) /\ DecisionInv(h)
  BY <1>1, InitDecision
<1>3. Inv /\ OneInv(h) /\ DecisionInv(h) /\ [Next]_vars => OneInv(h)' /\ DecisionInv(h)'
  BY OneStep, DecisionStep DEF Serial
<1>4. Inv /\ DecisionInv(h) => DecisionFinal
  BY DecisionIsFinal
<1> QED
  BY <1>2, <1>3, <1>4, AllowedByLedger, PTL DEF Spec

-----------------------------------------------------------------------------
\* Replay of a prefix of a ledger.

SetsIn(L, n, p) ==
    \/ L[n].action = "baseline" /\ L[n].files[p] # <<>>
    \/ L[n].action \in {"updated", "appended"} /\ L[n].path = p

\* What the transition at n makes of p, if it sets it.
PutBy(L, n, p) == IF L[n].action = "baseline" THEN L[n].files[p] ELSE L[n].content

SettersOf(L, k, p) == {n \in 1..k : SetsIn(L, n, p)}

Newest(S) == CHOOSE n \in S : \A m \in S : m <= n

PlayedTo(L, k, p) ==
    IF SettersOf(L, k, p) = {} THEN <<>>
    ELSE PutBy(L, Newest(SettersOf(L, k, p)), p)

LEMMA ReplayIs ==
    ASSUME NEW k, NEW p
    PROVE  ReplayedTo(k, p) = PlayedTo(ledger, k, p)
  BY DEF ReplayedTo, PlayedTo, Sets, SetsIn, SettersOf, Newest, PutBy

\* The newest of the places before k.
LEMMA NewestIs ==
    ASSUME NEW k \in Nat, NEW S \in SUBSET (1..k), S # {}
    PROVE  Newest(S) \in S
<1> DEFINE D == {k - n : n \in S}
<1>1. D \subseteq Nat /\ D # {}
  <2>1. \A n \in S : k - n \in Nat
    OBVIOUS
  <2>2. D \subseteq Nat
    BY <2>1
  <2>3. PICK n \in S : TRUE
    OBVIOUS
  <2>4. k - n \in D
    BY <2>3
  <2> QED
    BY <2>2, <2>4
<1>2. PICK i \in D : \A j \in D : i <= j
  BY <1>1, LeastIndex
<1>3. PICK n \in S : i = k - n
  BY <1>2
<1>4. \A m \in S : m <= n
  <2> SUFFICES ASSUME NEW m \in S PROVE m <= n
    OBVIOUS
  <2>1. i <= k - m
    BY <1>2
  <2> QED
    BY <1>3, <2>1
<1> QED
  BY <1>4 DEF Newest

LEMMA ReplayStays ==
    ASSUME NEW L, NEW M, Continues(L, M), NEW k \in Nat, k <= Len(L), NEW p
    PROVE  PlayedTo(M, k, p) = PlayedTo(L, k, p)
<1>1. \A n \in 1..k : M[n] = L[n]
  <2>1. Len(L) \in Nat /\ DOMAIN L = 1..Len(L)
    BY DEF Continues
  <2> QED
    BY <2>1 DEF Continues
<1>2. SettersOf(M, k, p) = SettersOf(L, k, p)
  BY <1>1 DEF SettersOf, SetsIn
<1>3. SettersOf(L, k, p) # {} => Newest(SettersOf(L, k, p)) \in 1..k
  BY NewestIs DEF SettersOf
<1> QED
  BY <1>1, <1>2, <1>3 DEF PlayedTo, PutBy

\* One transition more.
LEMMA ReplayGrows ==
    ASSUME NEW L, NEW n \in Nat, n > 0, NEW p
    PROVE  PlayedTo(L, n, p) = IF SetsIn(L, n, p) THEN PutBy(L, n, p)
                               ELSE PlayedTo(L, n - 1, p)
<1>1. \A m : m \in 1..n <=> m \in 1..(n - 1) \/ m = n
  OBVIOUS
<1>2. CASE SetsIn(L, n, p)
  <2>1. n \in SettersOf(L, n, p) /\ \A m \in SettersOf(L, n, p) : m <= n
    BY <1>1, <1>2 DEF SettersOf
  <2>2. Newest(SettersOf(L, n, p)) = n
    <3>1. SettersOf(L, n, p) \subseteq Nat
      BY DEF SettersOf
    <3>2. \A i \in SettersOf(L, n, p) :
            (\A m \in SettersOf(L, n, p) : m <= i) <=> i = n
      BY <2>1, <3>1
    <3> QED
      BY <2>1, <3>2 DEF Newest
  <2> QED
    BY <1>2, <2>1, <2>2 DEF PlayedTo
<1>3. CASE ~SetsIn(L, n, p)
  <2>1. SettersOf(L, n, p) = SettersOf(L, n - 1, p)
    BY <1>1, <1>3 DEF SettersOf
  <2> QED
    BY <1>3, <2>1 DEF PlayedTo
<1> QED
  BY <1>2, <1>3

-----------------------------------------------------------------------------
\* One request at a time on workspaces that all have the build-ledger files, and
\* whose blobs are admitted elsewhere.

Replayable(h) ==
    /\ Serial(h) /\ LedgerUncovered
    /\ LedgerPath \subseteq Archive /\ Target \cap LedgerPath = {}

\* What a request is about.
Asked(x) ==
    /\ x.op = "append" => x.path = EventsPath
    /\ x.op = "update" => x.path \in Document
    /\ x.op = "admit" => x.path \in Target
    /\ x.op \in {"update", "append"} /\ x.step = "got" => Len(x.content) = 1
    /\ x.op = "update" /\ x.step \in {"ready", "accepted", "receipted"} =>
         x.content = <<x.content[Len(x.content)]>>

\* What is proposed is what the change will make of the workspace o.
Proposed(o, x) ==
    x.op = "append" /\ x.step \in {"ready", "accepted", "receipted"} =>
        x.content = o.files[EventsPath] \o <<x.content[Len(x.content)]>>

FilesReplay(f, L, k) == \A p \in LedgerPath : f[p] = PlayedTo(L, k, p)

TakenInv(h) ==
    /\ handler[h].op = "baseline" /\ Active(handler[h]) =>
         ledger[handler[h].at].files = handler[h].files
    /\ handler[h].step \in {"listed", "projected"} => handler[h].at = Len(ledger)
    /\ handler[h].step = "projected" /\ store # 0 =>
         handler[h].files = objects[store].files

SnapshotInv ==
    snapshot # None =>
        /\ snapshot.events \in 0..Len(ledger)
        /\ snapshot.projection = snapshot.files
        /\ FilesReplay(snapshot.files, ledger, snapshot.events)

ReplayInv(h) ==
    /\ Asked(handler[h])
    /\ store # 0 =>
         /\ Proposed(objects[store], handler[h])
         /\ FilesReplay(objects[store].files, ledger, Settled(handler[h], ledger))
    /\ TakenInv(h) /\ SnapshotInv

\* The workspace of the one handler is the store's.
LEMMA OneObject ==
    ASSUME NEW h, Serial(h), Inv, OneInv(h), handler[h].op \notin Makes,
           handler[h].step # "idle"
    PROVE  /\ handler[h].object = store /\ store # 0 /\ store \in DOMAIN objects
           /\ objects[store] \in Object
<1>1. h \in Handler /\ HandlerFits(handler[h], ledger, receipts, Len(objects))
  BY HandlerAt DEF Serial
<1>2. handler[h].object # 0
  BY <1>1 DEF HandlerFits
<1>3. handler[h].object = store
  BY <1>2 DEF OneInv
<1>4. store \in DOMAIN objects
  BY <1>1, <1>2, <1>3, ObjectAt
<1> QED
  BY <1>2, <1>3, <1>4 DEF Inv, ObjectsInv

LEMMA AskedStep ==
    ASSUME NEW h, Serial(h), Inv, OneInv(h), ReplayInv(h), [Next]_vars
    PROVE  Asked(handler'[h])
<1> DEFINE x == handler[h]
           y == handler'[h]
<1>0. h \in Handler /\ Asked(x)
  BY DEF Serial, ReplayInv
<1>1. CASE y = Idle
  BY <1>1 DEF Asked, Idle
<1>2. CASE \/ Decide(h) \/ ProposeBaseline(h) \/ SaveReceipt(h) \/ AddItems(h)
           \/ ListEvents(h) \/ Project(h) \/ Accept(h)
  <2>1. ~Prepare(h)
    <3>1. CASE ListEvents(h)
      BY <3>1 DEF ListEvents, Prepare
    <3>2. CASE ~ListEvents(h)
      BY <1>2, <3>2 DEF Decide, ProposeBaseline, SaveReceipt, AddItems, Project, Accept,
         Prepare
    <3> QED
      BY <3>1, <3>2
  <2>2. /\ y.path = x.path /\ y.content = x.content
        /\ y.op = x.op \/ y.op = "baseline"
        /\ y.step # "got"
        /\ y.step \in {"ready", "accepted", "receipted"} /\ y.op # "baseline" =>
             x.step \in {"ready", "accepted", "receipted"}
    BY <1>0, <1>2, <2>1, MovesAlong
  <2> HIDE DEF x, y
  <2> QED
    BY <1>0, <2>2 DEF Asked, y
<1>3. CASE Prepare(h)
  <2>1. /\ y.path = x.path /\ y.content = Candidate(h) /\ y.op = x.op
        /\ x.step = "got" /\ y.step = "ready"
    <3>1. ~ProposeBaseline(h)
      BY <1>3 DEF Prepare, ProposeBaseline
    <3> QED
      BY <1>0, <1>3, <3>1, MovesAlong
  <2>2. x.op = "update" => y.content = x.content /\ Len(x.content) = 1
    BY <1>0, <2>1 DEF Candidate, Asked
  <2>3. x.content \in Seq(Piece)
    BY <1>0, HandlerAt DEF HandlerState
  <2>4. x.op = "update" => y.content = <<y.content[Len(y.content)]>>
    <3> DEFINE c == x.content
    <3>1. c \in Seq(Piece)
      BY <2>3
    <3> HIDE DEF c
    <3>2. Len(c) = 1 => c = <<c[1]>>
      BY <3>1
    <3> QED
      BY <2>2, <3>2 DEF c
  <2> HIDE DEF x, y
  <2> QED
    BY <1>0, <2>1, <2>4 DEF Asked, y
<1>4. CASE Get(h)
  <2>1. /\ y.step = "got"
        /\ y.path \in IF y.op = "update" THEN Document
                      ELSE IF y.op = "append" THEN {EventsPath}
                      ELSE IF y.op = "admit" THEN Target ELSE {None}
        /\ y.op \in {"update", "append"} => \E body \in Body : y.content = <<body>>
    BY <1>0, <1>4, MovesAnew
  <2> HIDE DEF x, y
  <2> QED
    BY <2>1 DEF Asked, y
<1>5. CASE ImportZip(h) \/ ImportEnvelope(h)
  <2>1. y.op = "import"
    BY <1>0, <1>5, MovesAnew
  <2> QED
    BY <2>1 DEF Asked
<1>6. CASE Expose(h)
  <2>1. y = Idle \/ y.op = x.op
    BY <1>0, <1>6, MovesAnew
  <2>2. x.op \in {"import", "baseline"}
    BY <1>6 DEF Expose, Admitted
  <2> QED
    BY <1>1, <2>1, <2>2 DEF Asked
<1>7. CASE Export \/ Edit \/ UNCHANGED vars
  <2>1. UNCHANGED handler
    BY <1>7 DEF Export, Edit, vars
  <2> QED
    BY <1>0, <2>1
<1>8. Restart => y = Idle
  BY <1>0 DEF Restart
<1>9. \/ TurnDown(h) \/ Refuse(h) \/ ReceiptFails(h) \/ Apply(h) \/ UpdateStatus(h)
      \/ Note(h) \/ Materialize(h) \/ ListItems(h) \/ WriteSnapshot(h)
      => y = Idle
  BY <1>0, MovesAnew
<1>10. \A g \in Handler : g = h /\ ~Ingest(g)
  BY DEF Serial, Ingest
<1> QED
  BY <1>1, <1>2, <1>3, <1>4, <1>5, <1>6, <1>7, <1>8, <1>9, <1>10 DEF Next

\* The step that brings a handler where it has a proposal, or carries it on.
LEMMA ProposalMoves ==
    ASSUME NEW h, Serial(h), Inv, [Next]_vars, handler'[h].op = "append",
           handler'[h].step \in {"ready", "accepted", "receipted"}
    PROVE  \/ Prepare(h)
           \/ /\ UNCHANGED storeVars /\ handler[h].op = "append"
              /\ handler[h].step \in {"ready", "accepted", "receipted"}
              /\ handler'[h].content = handler[h].content
<1> DEFINE x == handler[h]
           y == handler'[h]
<1>0. h \in Handler
  BY DEF Serial
<1>1. Idle.op = "none"
  BY DEF Idle
<1>2. ~ (TurnDown(h) \/ Refuse(h) \/ ReceiptFails(h) \/ Apply(h) \/ UpdateStatus(h)
           \/ Note(h) \/ Materialize(h) \/ ListItems(h) \/ WriteSnapshot(h))
  BY <1>0, <1>1, MovesAnew
<1>3. ~ (Get(h) \/ ImportZip(h) \/ ImportEnvelope(h) \/ Expose(h))
  BY <1>0, <1>1, MovesAnew
<1>4. ~ (Decide(h) \/ ProposeBaseline(h) \/ AddItems(h) \/ ListEvents(h) \/ Project(h))
  BY <1>0, MovesAlong
<1>5. ~Restart
  BY <1>0, <1>1 DEF Restart
<1>6. CASE Accept(h) \/ SaveReceipt(h)
  <2>1. UNCHANGED storeVars /\ ~Prepare(h)
    BY <1>6 DEF Accept, SaveReceipt, Prepare
  <2>2. /\ y.content = x.content /\ x.step \in {"ready", "accepted"}
        /\ x.op = "append" \/ ProposeBaseline(h)
    BY <1>0, <1>6, <2>1, MovesAlong
  <2> QED
    BY <1>4, <2>1, <2>2
<1>7. CASE Export \/ Edit \/ UNCHANGED vars
  <2>1. UNCHANGED <<handler, storeVars>>
    BY <1>7 DEF Export, Edit, vars
  <2> QED
    BY <2>1
<1>8. \A g \in Handler : g = h /\ ~Ingest(g)
  BY DEF Serial, Ingest
<1> QED
  BY <1>2, <1>3, <1>4, <1>5, <1>6, <1>7, <1>8 DEF Next

LEMMA ProposedStep ==
    ASSUME NEW h, Serial(h), Inv, OneInv(h), ReplayInv(h), [Next]_vars, store' # 0
    PROVE  Proposed(objects'[store'], handler'[h])
<1> DEFINE x == handler[h]
           y == handler'[h]
<1> SUFFICES ASSUME y.op = "append", y.step \in {"ready", "accepted", "receipted"}
             PROVE  y.content = objects'[store'].files[EventsPath]
                                  \o <<y.content[Len(y.content)]>>
  BY DEF Proposed
<1>1. CASE Prepare(h)
  <2>1. /\ x.path = y.path /\ y.content = Candidate(h) /\ x.step = "got"
        /\ x.op = "append"
    <3>1. ~ProposeBaseline(h)
      BY <1>1 DEF Prepare, ProposeBaseline
    <3> QED
      BY <1>1, <3>1, MovesAlong DEF Serial
  <2>2. objects' = objects /\ store' = store
    BY <1>1 DEF Prepare, storeVars
  <2>3. x.object = store /\ objects[store] \in Object
    BY <2>1, OneObject DEF Makes
  <2> DEFINE s == objects[store].files[EventsPath]
             t == x.content
  <2>4. s \in Seq(Piece)
    BY <2>3 DEF Object, Contents, Path, LedgerPath
  <2>5. t \in Seq(Piece) /\ Len(t) = 1
    BY <2>1, HandlerAt DEF Serial, HandlerState, ReplayInv, Asked
  <2>6. y.content = s \o t
    BY <2>1, <2>3 DEF Candidate
  <2> HIDE DEF s, t
  <2>7. t = <<t[1]>>
    BY <2>5
  <2>8. Len(s) \in Nat /\ Len(s \o t) = Len(s) + 1
    <3>1. Len(s \o t) = Len(s) + Len(t)
      BY <2>4, <2>5, ConcatProperties
    <3> QED
      BY <2>4, <2>5, <3>1
  <2>9. (s \o t)[Len(s) + 1] = t[1]
    BY <2>4, <2>5, <2>8
  <2> QED
    BY <2>2, <2>6, <2>7, <2>8, <2>9 DEF s
<1>2. CASE /\ UNCHANGED storeVars /\ x.op = "append"
           /\ x.step \in {"ready", "accepted", "receipted"}
           /\ y.content = x.content
  <2>1. objects' = objects /\ store' = store /\ Proposed(objects[store], x)
    BY <1>2 DEF storeVars, ReplayInv
  <2> QED
    BY <1>2, <2>1 DEF Proposed
<1> QED
  BY <1>1, <1>2, ProposalMoves

\* The actions of the transitions that replay looks at.
Putting == {"baseline", "updated", "appended"}

LEMMA ReplayOn ==
    ASSUME NEW h, Serial(h), Inv, OneInv(h), [Next]_vars, ~Restart, NEW f, NEW g,
           FilesReplay(f, ledger, Settled(handler[h], ledger)),
           \A p \in LedgerPath : g[p] = f[p],
           Finishes(h) => ActionOf(handler[h].op) \notin Putting
    PROVE  FilesReplay(g, ledger', Settled(handler[h], ledger)')
<1> DEFINE k == Settled(handler[h], ledger)
           n == Len(ledger)
<1>0. h \in Handler /\ k \in Nat /\ n \in Nat /\ k <= n
  BY SettledTyped DEF Serial
<1>1. CASE ~Finishes(h)
  <2>1. Settled(handler[h], ledger)' = k
    BY <1>1, SettledOn
  <2>2. Continues(ledger, ledger')
    BY LedgerStep
  <2>3. \A p \in LedgerPath : PlayedTo(ledger', k, p) = PlayedTo(ledger, k, p)
    <3> HIDE DEF k, n
    <3> QED
      BY <1>0, <2>2, ReplayStays DEF n
  <2> QED
    BY <2>1, <2>3 DEF FilesReplay
<1>2. CASE Finishes(h)
  <2>1. /\ k = n - 1 /\ handler[h].at = n /\ UNCHANGED ledger /\ Active(handler[h])
        /\ Settled(handler[h], ledger)' = n
    BY <1>2, SettledOn
  <2>2. n > 0 /\ Owns(handler[h], ledger)
    BY <1>0, <2>1, SettledTyped
  <2>3. ledger[n].action \notin Putting
    BY <1>2, <2>1, <2>2 DEF Owns
  <2>4. \A p \in LedgerPath : ~SetsIn(ledger, n, p)
    BY <2>3 DEF SetsIn, Putting
  <2>5. \A p \in LedgerPath : PlayedTo(ledger, n, p) = PlayedTo(ledger, n - 1, p)
    <3> HIDE DEF k, n
    <3> QED
      BY <1>0, <2>2, <2>4, ReplayGrows
  <2>6. FilesReplay(g, ledger, n)
    BY <2>1, <2>5 DEF FilesReplay
  <2> QED
    BY <2>1, <2>6
<1> QED
  BY <1>1, <1>2

\* A change is what replay makes of its transition.
LEMMA ApplyReplays ==
    ASSUME NEW h, Serial(h), Inv, OneInv(h), ReplayInv(h), [Next]_vars, ~Restart,
           Apply(h)
    PROVE  FilesReplay(objects'[store'].files, ledger', Settled(handler[h], ledger)')
<1> DEFINE x == handler[h]
           n == Len(ledger)
           o == objects[store]
           c == x.content
<1>0. h \in Handler /\ n \in Nat
  BY SettledTyped DEF Serial
<1>1. /\ x.op \in {"update", "append"} /\ x.step = "receipted" /\ Finishes(h)
  BY DEF Apply, Finishes
<1>2. /\ Settled(x, ledger) = n - 1 /\ x.at = n /\ UNCHANGED ledger /\ Active(x)
      /\ Settled(handler[h], ledger)' = n
  BY <1>1, SettledOn
<1>3. n > 0 /\ Owns(x, ledger)
  BY <1>0, <1>2, SettledTyped
<1>4. /\ ledger[n].action = IF x.op = "update" THEN "updated" ELSE "appended"
      /\ ledger[n].path = x.path /\ ledger[n].content = c
  BY <1>1, <1>2, <1>3 DEF Owns, ActionOf
<1>5. /\ x.object = store /\ store # 0 /\ store' = store /\ o \in Object
      /\ objects'[store] = Changed(h)
  BY <1>1, OneObject, NewStore DEF Makes
<1>6. FilesReplay(o.files, ledger, n - 1) /\ Proposed(o, x) /\ Asked(x)
  BY <1>2, <1>5 DEF ReplayInv
<1>7. x.path \in LedgerPath /\ x.path \in Path /\ LedgerPath \subseteq Path
  BY <1>1, <1>6 DEF Asked, LedgerPath, Path
<1> DEFINE b == <<c[Len(c)]>>
           f == objects'[store'].files
<1>8. f = [o.files EXCEPT ![x.path] = IF x.op = "append" THEN @ \o b ELSE b]
  BY <1>5 DEF Changed, Object
<1>9. o.files \in [Path -> Seq(Piece)]
  BY <1>5 DEF Object, Contents
<1>10. f[x.path] = IF x.op = "append" THEN o.files[x.path] \o b ELSE b
  BY <1>7, <1>8, <1>9
<1>11. \A p \in LedgerPath : p # x.path => f[p] = o.files[p]
  BY <1>7, <1>8, <1>9
<1>12. f[x.path] = c
  <2>1. CASE x.op = "update"
    <3>1. c = b
      BY <1>1, <1>6, <2>1 DEF Asked
    <3> QED
      BY <1>10, <2>1, <3>1
  <2>2. CASE x.op = "append"
    <3>1. c = o.files[EventsPath] \o b /\ x.path = EventsPath
      BY <1>1, <1>6, <2>2 DEF Asked, Proposed
    <3> QED
      BY <1>10, <2>2, <3>1
  <2> QED
    BY <1>1, <2>1, <2>2
<1> HIDE DEF f, o, c, x, n
<1>13. ASSUME NEW p \in LedgerPath PROVE f[p] = PlayedTo(ledger, n, p)
  <2>1. PlayedTo(ledger, n, p) = IF SetsIn(ledger, n, p) THEN PutBy(ledger, n, p)
                                 ELSE PlayedTo(ledger, n - 1, p)
    BY <1>0, <1>3, ReplayGrows
  <2>2. ledger[n].action \in {"updated", "appended"}
    BY <1>4
  <2>3. CASE p = x.path
    BY <1>4, <1>12, <2>1, <2>2, <2>3 DEF SetsIn, PutBy
  <2>4. CASE p # x.path
    <3>1. ~SetsIn(ledger, n, p)
      BY <1>4, <2>2, <2>4 DEF SetsIn
    <3> QED
      BY <1>6, <1>11, <2>1, <2>4, <3>1 DEF FilesReplay
  <2> QED
    BY <2>3, <2>4
<1> QED
  BY <1>2, <1>13 DEF FilesReplay, f, n

\* The baseline is what replay makes of its transition.
LEMMA ExposeReplays ==
    ASSUME NEW h, Replayable(h), Inv, OneInv(h), ThereInv, ReplayInv(h), [Next]_vars,
           ~Restart, Expose(h)
    PROVE  FilesReplay(objects'[store'].files, ledger', Settled(handler[h], ledger)')
<1> DEFINE x == handler[h]
           n == Len(ledger)
<1>0. h \in Handler /\ n \in Nat /\ Serial(h)
  BY SettledTyped DEF Replayable, Serial
<1>1. x.step = "receipted" /\ Admitted(h) /\ Finishes(h)
  BY DEF Expose, Finishes
<1>2. Brings(x)
  BY <1>1 DEF Admitted, Brings, Makes
<1>3. \A p \in LedgerPath : x.files[p] # <<>>
  BY <1>0, <1>2 DEF ThereInv, AllThere, Replayable
<1>4. Baseline(h) # {}
  <2>1. EventsPath \in LedgerPath /\ EventsPath \in Path
    BY DEF LedgerPath, Path
  <2>2. EventsPath \in Baseline(h)
    BY <1>3, <2>1 DEF Baseline, Present
  <2> QED
    BY <2>2
<1>5. x.op = "baseline"
  BY <1>1, <1>4 DEF Admitted
<1>6. /\ x.at = n /\ UNCHANGED ledger /\ Active(x) /\ Settled(handler[h], ledger)' = n
      /\ Settled(x, ledger) = n - 1
  BY <1>0, <1>1, SettledOn
<1>7. n > 0 /\ ledger[n].action = "baseline" /\ ledger[n].files = x.files
  <2>1. n > 0 /\ Owns(x, ledger)
    BY <1>0, <1>6, SettledTyped
  <2>2. ledger[n].action = "baseline"
    BY <1>5, <1>6, <2>1 DEF Owns, ActionOf
  <2> QED
    BY <1>5, <1>6, <2>1, <2>2 DEF ReplayInv, TakenInv
<1>8. objects'[store'].files = x.files
  <2>1. objects'[store'] = Imported(x.files, x.zip)
    BY <1>0, NewStore
  <2> QED
    BY <2>1 DEF Imported
<1> HIDE DEF x, n
<1>9. ASSUME NEW p \in LedgerPath PROVE x.files[p] = PlayedTo(ledger, n, p)
  <2>1. SetsIn(ledger, n, p) /\ PutBy(ledger, n, p) = x.files[p]
    BY <1>3, <1>7 DEF SetsIn, PutBy
  <2> QED
    BY <1>0, <1>7, <2>1, ReplayGrows
<1> QED
  BY <1>6, <1>8, <1>9 DEF FilesReplay, n

LEMMA FilesReplayStep ==
    ASSUME NEW h, Replayable(h), Inv, OneInv(h), ThereInv, ReplayInv(h), [Next]_vars,
           store' # 0
    PROVE  FilesReplay(objects'[store'].files, ledger', Settled(handler[h], ledger)')
<1> DEFINE x == handler[h]
           o == objects[store]
           f == objects'[store'].files
<1>0. h \in Handler /\ Serial(h)
  BY DEF Replayable, Serial
<1>1. ASSUME ~Apply(h), ~Expose(h)
      PROVE  \A p \in LedgerPath : f[p] = o.files[p]
  <2>1. CASE Decide(h)
    <3>1. /\ x.object = store /\ store' = store /\ o \in Object
          /\ objects'[store] = Decided(h)
      <4>1. /\ x.object = store /\ store' = store /\ store \in DOMAIN objects
            /\ objects'[store] = Decided(h)
        BY <1>0, <2>1, NewStore
      <4> QED
        BY <4>1 DEF Inv, ObjectsInv
    <3>2. f = IF x.op = "admit" THEN [o.files EXCEPT ![x.path] = <<x.blob>>] ELSE o.files
      BY <3>1 DEF Decided, Object
    <3>3. x.op = "admit" => x.path \notin LedgerPath
      BY DEF Replayable, ReplayInv, Asked
    <3>4. o.files \in [Path -> Seq(Piece)] /\ LedgerPath \subseteq Path
      BY <3>1 DEF Object, Contents, Path
    <3> HIDE DEF f, o, x
    <3> QED
      BY <3>2, <3>3, <3>4
  <2>2. CASE Note(h) \/ UpdateStatus(h) \/ ListItems(h)
    <3>1. store' = store /\ o \in Object /\ x.object = store
      <4>1. store' = store /\ store \in DOMAIN objects /\ x.object = store
        BY <1>0, <2>2, NewStore
      <4> QED
        BY <4>1 DEF Inv, ObjectsInv
    <3>2. CASE ListItems(h)
      BY ZenonT(60), <1>0, <3>1, <3>2, NewStore DEF Listed, Object
    <3>3. CASE UpdateStatus(h)
      BY <1>0, <3>1, <3>3, NewStore DEF Object
    <3>4. CASE Note(h)
      BY <1>0, <3>1, <3>4, NewStore DEF Object
    <3> QED
      BY <2>2, <3>2, <3>3, <3>4
  <2>3. CASE ~ (Decide(h) \/ Note(h) \/ UpdateStatus(h) \/ ListItems(h))
    BY <1>0, <1>1, <2>3, NewStore
  <2> QED
    BY <2>1, <2>2, <2>3
<1>2. ASSUME ~Expose(h) PROVE FilesReplay(o.files, ledger, Settled(x, ledger))
  <2>1. store # 0
    BY <1>0, <1>2, NewStore
  <2> QED
    BY <2>1 DEF ReplayInv
<1>3. ASSUME ~Apply(h), ~Expose(h), Finishes(h)
      PROVE  ActionOf(handler[h].op) \notin Putting
  <2>1. handler[h].op \in {"admit", "reject", "decide", "bind", "materialize", "import"}
    <3>1. UpdateStatus(h) => handler[h].op \in {"admit", "reject"}
      BY <1>0, HandlerAt DEF UpdateStatus, HandlerFits
    <3> QED
      BY <1>3, <3>1 DEF Finishes, Note, Materialize, ProposeBaseline
  <2> QED
    BY <2>1 DEF ActionOf, Putting
<1>4. ~Restart
  BY DEF Restart
<1>5. CASE ~Apply(h) /\ ~Expose(h)
  <2> HIDE DEF o, f, x
  <2> QED
    BY <1>0, <1>1, <1>2, <1>3, <1>4, <1>5, ReplayOn DEF f, x
<1> QED
  BY <1>0, <1>4, <1>5, ApplyReplays, ExposeReplays

LEMMA TakingObject ==
    ASSUME NEW h, Serial(h), Inv, OneInv(h), handler[h].step \in {"listed", "projected"}
    PROVE  handler[h].object = store /\ store # 0
<1>1. h \in Handler /\ HandlerFits(handler[h], ledger, receipts, Len(objects))
  BY HandlerAt DEF Serial
<1>2. handler[h].object # 0
  BY <1>1 DEF HandlerFits
<1> QED
  BY <1>2 DEF OneInv

LEMMA TakenStep ==
    ASSUME NEW h, Serial(h), Inv, OneInv(h), ReplayInv(h), [Next]_vars
    PROVE  TakenInv(h)'
<1> DEFINE x == handler[h]
           y == handler'[h]
<1>0. h \in Handler /\ TakenInv(h)
  BY DEF Serial, ReplayInv
<1>1. ASSUME ~Active(y), y.step \notin {"listed", "projected"} PROVE TakenInv(h)'
  BY <1>1 DEF TakenInv
<1>2. CASE y = Idle
  <2>1. Idle.step = "idle"
    BY DEF Idle
  <2> QED
    BY <1>1, <1>2, <2>1 DEF Active
<1>3. CASE Accept(h)
  <2>1. /\ y.at = Len(ledger) + 1 /\ y.step = "accepted" /\ y.files = x.files
    <3>1. ~Project(h)
      BY <1>3 DEF Accept, Project
    <3> QED
      BY <1>0, <1>3, <3>1, MovesAlong
  <2>2. ledger' = Append(ledger, NewTransition(h)) /\ ledger \in Seq(Transition)
    BY <1>0, <1>3, AcceptStep DEF Inv, LedgerInv
  <2>3. ledger'[Len(ledger) + 1] = NewTransition(h)
    <3> DEFINE t == NewTransition(h)
    <3> HIDE DEF t
    <3>1. Append(ledger, t)[Len(ledger) + 1] = t
      BY <2>2
    <3> QED
      BY <2>2, <3>1 DEF t
  <2>4. NewTransition(h).files = x.files
    BY DEF NewTransition
  <2> QED
    BY <2>1, <2>3, <2>4 DEF TakenInv
<1>4. CASE SaveReceipt(h) \/ Decide(h)
  <2>1. Active(x) /\ y.step \in {"receipted", "decided"}
    BY <1>0, <1>4, MovesAlong DEF Active
  <2>2. y.at = x.at /\ y.files = x.files /\ y.op = x.op
    <3>1. ~Accept(h) /\ ~ListEvents(h) /\ ~Project(h) /\ ~ProposeBaseline(h)
      <4>1. CASE SaveReceipt(h)
        BY <4>1 DEF SaveReceipt, Accept, ListEvents, Project, ProposeBaseline
      <4>2. CASE Decide(h)
        BY <4>2 DEF Decide, Accept, ListEvents, Project, ProposeBaseline
      <4> QED
        BY <1>4, <4>1, <4>2
    <3> QED
      BY <1>0, <1>4, <3>1, MovesAlong
  <2>3. UNCHANGED ledger
    BY <1>4 DEF SaveReceipt, Decide, acceptedVars
  <2> QED
    BY <1>0, <2>1, <2>2, <2>3 DEF TakenInv
<1>5. CASE Prepare(h) \/ ProposeBaseline(h) \/ AddItems(h)
  <2>1. y.step \in {"ready", "added"}
    BY <1>0, <1>5, MovesAlong
  <2> QED
    BY <1>1, <2>1 DEF Active
<1>6. CASE ListEvents(h)
  <2>1. y.step = "listed" /\ y.at = Len(ledger)
    BY <1>0, <1>6, MovesAlong
  <2>2. UNCHANGED ledger
    BY <1>6 DEF ListEvents, acceptedVars
  <2> QED
    BY <2>1, <2>2 DEF TakenInv, Active
<1>7. CASE Project(h)
  <2>1. /\ y.step = "projected" /\ y.at = x.at /\ y.files = The(h).files
        /\ x.step = "listed"
    <3>1. ~Accept(h) /\ ~ListEvents(h)
      BY <1>7 DEF Project, Accept, ListEvents
    <3> QED
      BY <1>0, <1>7, <3>1, MovesAlong
  <2>2. UNCHANGED <<ledger, objects, store>>
    BY <1>7 DEF Project, acceptedVars, storeVars
  <2>3. x.object = store
    BY <2>1, TakingObject
  <2> QED
    BY <1>0, <2>1, <2>2, <2>3 DEF TakenInv, Active
<1>8. CASE Get(h) \/ ImportZip(h) \/ ImportEnvelope(h)
  <2>1. y.step \in {"got", "ready"}
    BY <1>0, <1>8, MovesAnew
  <2> QED
    BY <1>1, <2>1 DEF Active
<1>9. CASE Expose(h)
  <2>1. y = Idle \/ y.step = "exposed"
    BY <1>0, <1>9, MovesAnew
  <2> QED
    BY <1>1, <1>2, <2>1 DEF Active
<1>10. CASE Export \/ Edit \/ UNCHANGED vars
  <2>1. UNCHANGED <<handler, ledger, objects, store>>
    BY <1>10 DEF Export, Edit, vars, acceptedVars, storeVars
  <2> QED
    BY <1>0, <2>1 DEF TakenInv
<1>11. Restart => y = Idle
  BY <1>0 DEF Restart
<1>12. \/ TurnDown(h) \/ Refuse(h) \/ ReceiptFails(h) \/ Apply(h) \/ UpdateStatus(h)
       \/ Note(h) \/ Materialize(h) \/ ListItems(h) \/ WriteSnapshot(h)
       => y = Idle
  BY <1>0, MovesAnew
<1>13. \A g \in Handler : g = h /\ ~Ingest(g)
  BY DEF Serial, Ingest
<1> QED
  BY <1>2, <1>3, <1>4, <1>5, <1>6, <1>7, <1>8, <1>9, <1>10, <1>11, <1>12, <1>13 DEF Next

LEMMA SnapshotStep ==
    ASSUME NEW h, Serial(h), Inv, OneInv(h), ReplayInv(h), [Next]_vars
    PROVE  SnapshotInv'
<1>0. h \in Handler /\ SnapshotInv
  BY DEF Serial, ReplayInv
<1>1. CASE UNCHANGED snapshot
  <2> SUFFICES ASSUME snapshot # None
               PROVE  /\ snapshot.events \in 0..Len(ledger')
                      /\ FilesReplay(snapshot.files, ledger', snapshot.events)
    BY <1>0, <1>1 DEF SnapshotInv
  <2> DEFINE k == snapshot.events
  <2>1. Continues(ledger, ledger')
    BY LedgerStep
  <2>2. Len(ledger) \in Nat /\ Len(ledger') \in Nat /\ Len(ledger) <= Len(ledger')
    BY <2>1, ContinuesLen
  <2>3. k \in Nat /\ k <= Len(ledger)
    BY <1>0, <2>2 DEF SnapshotInv
  <2>4. \A p \in LedgerPath : PlayedTo(ledger', k, p) = PlayedTo(ledger, k, p)
    <3> HIDE DEF k
    <3> QED
      BY <2>1, <2>3, ReplayStays
  <2>5. FilesReplay(snapshot.files, ledger, k)
    BY <1>0 DEF SnapshotInv
  <2> HIDE DEF k
  <2> QED
    BY <2>2, <2>3, <2>4, <2>5 DEF FilesReplay, k
<1>2. CASE WriteSnapshot(h)
  <2> DEFINE x == handler[h]
  <2>1. /\ x.step = "projected" /\ UNCHANGED ledger
        /\ snapshot' = [events |-> x.at, projection |-> x.files, files |-> The(h).files]
    BY <1>2 DEF WriteSnapshot, acceptedVars
  <2>2. x.object = store /\ store # 0
    BY <2>1, TakingObject
  <2>3. x.at = Len(ledger) /\ x.files = objects[store].files /\ Len(ledger) \in Nat
    BY <1>0, <2>1, <2>2, SettledTyped DEF ReplayInv, TakenInv
  <2>4. FilesReplay(objects[store].files, ledger, Len(ledger))
    BY <2>1, <2>2 DEF ReplayInv, Settled, Active
  <2>5. /\ snapshot'.events = Len(ledger) /\ snapshot'.projection = objects[store].files
        /\ snapshot'.files = objects[store].files
    BY <2>1, <2>2, <2>3
  <2> QED
    BY <2>1, <2>3, <2>4, <2>5 DEF SnapshotInv
<1>3. \/ Get(h) \/ Prepare(h) \/ TurnDown(h) \/ ImportZip(h) \/ ImportEnvelope(h)
      \/ Accept(h) \/ Refuse(h) \/ SaveReceipt(h) \/ ReceiptFails(h) \/ Apply(h)
      \/ Decide(h) \/ UpdateStatus(h) \/ Note(h) \/ Materialize(h) \/ ProposeBaseline(h)
      \/ Expose(h) \/ AddItems(h) \/ ListItems(h) \/ Ingest(h) \/ ListEvents(h)
      \/ Project(h)
      => UNCHANGED snapshot
  BY DEF Get, Prepare, TurnDown, ImportZip, ImportEnvelope, Accept, Refuse, SaveReceipt,
     ReceiptFails, Apply, Decide, UpdateStatus, Note, Materialize, ProposeBaseline, Expose,
     AddItems, ListItems, Ingest, ListEvents, Project, clientVars
<1>4. Export \/ Edit \/ Restart \/ UNCHANGED vars => UNCHANGED snapshot
  BY DEF Export, Edit, Restart, vars, clientVars
<1>5. \A g \in Handler : g = h
  BY DEF Serial
<1> QED
  BY <1>1, <1>2, <1>3, <1>4, <1>5 DEF Next

LEMMA ReplayStep ==
    ASSUME NEW h, Replayable(h), Inv, OneInv(h), ThereInv, ReplayInv(h), [Next]_vars
    PROVE  ReplayInv(h)'
<1>1. Serial(h)
  BY DEF Replayable
<1>2. store' # 0 =>
        /\ Proposed(objects'[store'], handler'[h])
        /\ FilesReplay(objects'[store'].files, ledger', Settled(handler[h], ledger)')
  BY <1>1, ProposedStep, FilesReplayStep
<1> QED
  BY <1>1, <1>2, AskedStep, TakenStep, SnapshotStep DEF ReplayInv

LEMMA InitReplay ==
    ASSUME NEW h \in Handler
    PROVE  Init => OneInv(h) /\ ReplayInv(h)
<1> SUFFICES ASSUME Init PROVE OneInv(h) /\ ReplayInv(h)
  OBVIOUS
<1>1. handler[h] = Idle /\ store = 0 /\ snapshot = None
  BY DEF Init
<1>2. Idle.step = "idle" /\ Idle.object = 0 /\ Idle.op = "none" /\ ~Active(Idle)
  BY DEF Idle, Active
<1> QED
  BY <1>1, <1>2 DEF OneInv, ReplayInv, Asked, TakenInv, SnapshotInv

LEMMA ReplayIsEquivalent ==
    ASSUME NEW h, Serial(h)
    PROVE  ReplayInv(h) => ReplayEquivalent
<1> SUFFICES ASSUME ReplayInv(h) PROVE ReplayEquivalent
  OBVIOUS
<1>1. ASSUME Quiet, store # 0, NEW p \in LedgerPath
      PROVE  objects[store].files[p] = Replayed(p)
  <2>1. handler[h].step = "idle"
    BY <1>1 DEF Serial, Quiet
  <2>2. FilesReplay(objects[store].files, ledger, Len(ledger))
    BY <1>1, <2>1 DEF ReplayInv, Settled, Active
  <2> QED
    BY <1>1, <2>2, ReplayIs DEF FilesReplay, Replayed
<1>2. SnapshotReplays
  BY ReplayIs DEF ReplayInv, SnapshotInv, FilesReplay, SnapshotReplays
<1> QED
  BY <1>1, <1>2 DEF ReplayEquivalent

\* Where requests are served one at a time, nothing is ingested, every receipt is
\* saved, the archive has every build-ledger file and blobs are admitted
\* elsewhere: replay of the ledger gives the build-ledger files of the workspace,
\* and that of a snapshot's events those of the snapshot, whatever else fails or
\* is killed, after edits of envelopes, further imports and restarts (candidateUpsert and candidateAppend, internal/server;
\* TestReplayEquivalence).
THEOREM ReplayGivesFiles ==
    ASSUME NEW h, Replayable(h)
    PROVE  Spec => []ReplayEquivalent
<1>1. h \in Handler /\ Serial(h) /\ "ingest" \notin Op /\ Handler = {h} /\ LedgerUncovered
  BY DEF Replayable, Serial
<1>2. Init => OneInv(h) /\ ReplayInv(h) /\ EnvelopeInv /\ ThereInv
  BY <1>1, InitReplay, InitPaid
<1>3. Inv /\ EnvelopeInv /\ ThereInv /\ OneInv(h) /\ ReplayInv(h) /\ [Next]_vars
        => EnvelopeInv' /\ ThereInv' /\ OneInv(h)' /\ ReplayInv(h)'
  BY <1>1, OneStep, EnvelopeStep, ThereStep, ReplayStep
<1>4. ReplayInv(h) => ReplayEquivalent
  BY <1>1, ReplayIsEquivalent
<1> QED
  BY <1>2, <1>3, <1>4, AllowedByLedger, PTL DEF Spec

==============================================================================
