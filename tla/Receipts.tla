------------------------------ MODULE Receipts ------------------------------
(***************************************************************************)
(* The receipt chain of internal/receipts: a receipt for every transition  *)
(* the server has had accepted, one file each, chained by sequence number  *)
(* and the hash of the one before.  Save writes the file in place; a       *)
(* restart reads back the files that parse.                                *)
(*                                                                         *)
(* Details are a map[string]any.  A Go struct among them is marshalled in  *)
(* the order of its fields; read back it is a map, marshalled in the order *)
(* of its keys.  Form tells the two apart, since the hash covers the bytes.*)
(***************************************************************************)
EXTENDS Naturals, Sequences, FiniteSets

CONSTANTS
    ReceiptID,   \* ids.New("receipt"): every receipt has a fresh one
    Form,        \* how details marshal: subset of Forms
    Faults       \* what may go wrong in a Save: subset of FaultKinds

Forms == {"map", "struct"}
FaultKinds == {"error", "kill"}

ASSUME FormAssumption == Form \subseteq Forms
ASSUME FaultAssumption == Faults \subseteq FaultKinds

\* Hashes are injective and cover the receipt and prev_hash, so a hash is the
\* sequence of what was hashed, back to genesis.
Genesis == <<>>

Hash == Seq([id : ReceiptID, seq : Nat, form : Forms])

Receipt == [seq : Nat, form : Forms, prev : Hash, hash : Hash]

VARIABLES
    receipts,   \* Service.receipts: id -> receipt
    seq,        \* Service.seq
    lastHash,   \* Service.lastHash
    files,      \* id -> receipt in its file, of the files that parse
    drawn,      \* ids drawn
    given,      \* history: ids of the receipts callers were given
    failed      \* history: a WriteFile has returned an error

serviceVars == <<receipts, seq, lastHash>>
vars == <<serviceVars, files, drawn, given, failed>>

TypeOK ==
    /\ drawn \subseteq ReceiptID /\ given \subseteq drawn
    /\ DOMAIN receipts \subseteq drawn /\ DOMAIN files \subseteq drawn
    /\ \A id \in DOMAIN receipts : receipts[id] \in Receipt
    /\ \A id \in DOMAIN files : files[id] \in Receipt
    /\ seq \in Nat
    /\ lastHash \in Hash
    /\ failed \in BOOLEAN

Init ==
    /\ receipts = <<>> /\ files = <<>>
    /\ seq = 0 /\ lastHash = Genesis
    /\ drawn = {} /\ given = {} /\ failed = FALSE

----------------------------------------------------------------------------
\* hashReceipt of a receipt as it is in memory.
HashOf(id, r) == Append(r.prev, [id |-> id, seq |-> r.seq, form |-> r.form])

\* The receipt Save makes of what it is given.
New(id, form) ==
    LET r == [seq |-> seq + 1, form |-> form, prev |-> lastHash]
    IN  [seq |-> r.seq, form |-> r.form, prev |-> r.prev, hash |-> HashOf(id, r)]

With(f, id, x) == [y \in DOMAIN f \cup {id} |-> IF y = id THEN x ELSE f[y]]

\* What json.Unmarshal gives back of a receipt.
ReadBack(r) == [r EXCEPT !.form = "map"]

\* Mutant of Latest: the number is restored, the hash is not.
LatestUnlinked(f) ==
    [ seq  |-> Cardinality(DOMAIN f), hash |-> Genesis ]

\* rebuildChainState: the receipt with the highest sequence number.
Latest(f) ==
    IF DOMAIN f = {} THEN [seq |-> 0, hash |-> Genesis]
    ELSE LET id == CHOOSE x \in DOMAIN f :
                     \A y \in DOMAIN f : f[y].seq <= f[x].seq
         IN  [seq |-> f[id].seq, hash |-> f[id].hash]

\* New over the files f: loadFromDisk and rebuildChainState.
Load(f) ==
    /\ receipts' = [id \in DOMAIN f |-> ReadBack(f[id])]
    /\ seq' = Latest(f).seq
    /\ lastHash' = Latest(f).hash

\* Mutant of SaveReceipt: the receipt is kept and answered before it is
\* written.
SaveReceiptEarly(id, form) ==
    /\ receipts' = With(receipts, id, New(id, form))
    /\ seq' = seq + 1 /\ lastHash' = New(id, form).hash
    /\ given' = given \cup {id}
    /\ UNCHANGED <<files, failed>>

\* Save: the file is written, then memory follows.
SaveReceipt(id, form) ==
    /\ files' = With(files, id, New(id, form))
    /\ receipts' = With(receipts, id, New(id, form))
    /\ seq' = seq + 1
    /\ lastHash' = New(id, form).hash
    /\ given' = given \cup {id}
    /\ UNCHANGED failed

\* What a WriteFile that does not succeed may leave: a complete file; or none,
\* or one cut short, which loading skips.
LeftBehind(id, form) == {files, With(files, id, New(id, form))}

\* WriteFile returns an error: the number is used up.
SaveFails(id, form) ==
    /\ "error" \in Faults
    /\ files' \in LeftBehind(id, form)
    /\ seq' = seq + 1
    /\ failed' = TRUE
    /\ UNCHANGED <<receipts, lastHash, given>>

\* The server is killed in Save, and started again.
KillInSave(id, form) ==
    /\ "kill" \in Faults
    /\ files' \in LeftBehind(id, form)
    /\ Load(files')
    /\ UNCHANGED <<given, failed>>

\* The server is restarted between two calls.
Restart ==
    /\ Load(files)
    /\ UNCHANGED <<files, drawn, given, failed>>

Next ==
    \/ \E id \in ReceiptID \ drawn, form \in Form :
         /\ drawn' = drawn \cup {id}
         /\ \/ SaveReceipt(id, form)
            \/ SaveFails(id, form)
            \/ KillInSave(id, form)
    \/ Restart

Spec == Init /\ [][Next]_vars

----------------------------------------------------------------------------
\* No two receipts of the chain have one sequence number, whatever fails.
SeqUnique ==
    \A x, y \in DOMAIN receipts :
        receipts[x].seq = receipts[y].seq => x = y

\* A receipt a caller was given is there, and on disk as it was given, until
\* the end: no failure, kill or restart takes it back or replaces it.
GivenKept ==
    /\ \A id \in given : id \in DOMAIN receipts /\ id \in DOMAIN files
    /\ \A id \in given : receipts[id].hash = files[id].hash

\* The chain goes back to genesis: receipt n + 1 names the hash of receipt n,
\* without a gap, and a hash is that of its receipt as it was saved.
Linked ==
    /\ {receipts[id].seq : id \in DOMAIN receipts}
         = 1..Cardinality(DOMAIN receipts)
    /\ \A id \in DOMAIN receipts :
         /\ \E form \in Forms :
              receipts[id].hash = HashOf(id, [receipts[id] EXCEPT !.form = form])
         /\ IF receipts[id].seq = 1 THEN receipts[id].prev = Genesis
            ELSE \E y \in DOMAIN receipts :
                   /\ receipts[y].seq = receipts[id].seq - 1
                   /\ receipts[id].prev = receipts[y].hash

\* Numbers are never used twice, whatever fails; and unless WriteFile has
\* failed, kills in the middle of a Save and restarts leave a linked chain.
ChainSound ==
    /\ TypeOK
    /\ SeqUnique
    /\ ~failed => Linked

\* Verify says ok (chain_test.go: "expected receipt chain to verify"): the
\* chain is linked and every hash is that of the receipt in memory.
Verifies ==
    /\ Linked
    /\ \A id \in DOMAIN receipts : receipts[id].hash = HashOf(id, receipts[id])

============================================================================
