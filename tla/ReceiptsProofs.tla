--------------------------- MODULE ReceiptsProofs ---------------------------
(***************************************************************************)
(* What the receipt chain keeps, for any number of receipts and every kind *)
(* of fault of Faults.                                                     *)
(***************************************************************************)
EXTENDS Receipts, FiniteSetTheorems, TLAPS

----------------------------------------------------------------------------
\* The files f, all numbered up to n: numbers are not used twice, hashes are
\* those of the receipts as they were written, and there is a latest one.
FilesSound(f, n) ==
    /\ \A id \in DOMAIN f :
         /\ f[id] \in Receipt
         /\ f[id].seq \in 1..n
         /\ f[id].hash = HashOf(id, f[id])
    /\ \A x, y \in DOMAIN f : f[x].seq = f[y].seq => x = y
    /\ DOMAIN f # {} =>
         \E x \in DOMAIN f : \A y \in DOMAIN f : f[y].seq <= f[x].seq

\* They are one chain of n receipts, and its last hash is l.
FilesLinked(f, n, l) ==
    /\ IsFiniteSet(DOMAIN f) /\ Cardinality(DOMAIN f) = n
    /\ \A k \in 1..n : \E id \in DOMAIN f : f[id].seq = k
    /\ \A id \in DOMAIN f :
         IF f[id].seq = 1 THEN f[id].prev = Genesis
         ELSE \E y \in DOMAIN f :
                f[y].seq = f[id].seq - 1 /\ f[id].prev = f[y].hash
    /\ IF n = 0 THEN l = Genesis
       ELSE \E y \in DOMAIN f : f[y].seq = n /\ f[y].hash = l

\* Memory holds receipts that are on disk, those given among them.
Mirrored ==
    /\ DOMAIN receipts \subseteq DOMAIN files
    /\ \A id \in DOMAIN receipts :
         /\ receipts[id] \in Receipt
         /\ receipts[id].seq = files[id].seq
         /\ receipts[id].prev = files[id].prev
         /\ receipts[id].hash = files[id].hash
    /\ given \subseteq DOMAIN receipts

Whole ==
    ~failed => /\ DOMAIN receipts = DOMAIN files
               /\ FilesLinked(files, seq, lastHash)

Inv ==
    /\ drawn \subseteq ReceiptID /\ DOMAIN files \subseteq drawn
    /\ seq \in Nat /\ lastHash \in Hash
    /\ FilesSound(files, seq)
    /\ Mirrored
    /\ Whole

----------------------------------------------------------------------------
\* A new receipt.

LEMMA NewTypes ==
    ASSUME NEW id \in ReceiptID, NEW form \in Form, seq \in Nat,
           lastHash \in Hash
    PROVE  /\ New(id, form) \in Receipt
           /\ New(id, form).seq = seq + 1
           /\ New(id, form).prev = lastHash
           /\ New(id, form).hash = HashOf(id, New(id, form))
           /\ New(id, form).hash \in Hash
<1> DEFINE link == [id |-> id, seq |-> seq + 1, form |-> form]
<1>1. form \in Forms
  BY FormAssumption
<1>2. link \in [id : ReceiptID, seq : Nat, form : Forms]
  BY <1>1
<1>3. Append(lastHash, link) \in Hash
  BY <1>2 DEF Hash
<1>4. New(id, form) = [seq |-> seq + 1, form |-> form, prev |-> lastHash,
                       hash |-> Append(lastHash, link)]
  BY DEF New, HashOf
<1>. QED
  BY <1>1, <1>3, <1>4 DEF Receipt, HashOf

LEMMA FilesGrow ==
    ASSUME Inv, NEW id \in ReceiptID \ drawn, NEW form \in Form
    PROVE  FilesSound(With(files, id, New(id, form)), seq + 1)
<1> DEFINE new == New(id, form)
           f == With(files, id, new)
<1>1. /\ id \in ReceiptID /\ id \notin DOMAIN files /\ seq \in Nat
      /\ lastHash \in Hash
      /\ FilesSound(files, seq)
  BY Zenon DEF Inv
<1>2. /\ new \in Receipt /\ new.seq = seq + 1 /\ new.hash = HashOf(id, new)
  BY Zenon, <1>1, NewTypes
<1>3. /\ DOMAIN f = DOMAIN files \cup {id}
      /\ f[id] = new
      /\ \A x \in DOMAIN files : f[x] = files[x]
  BY <1>1 DEF With
<1>. HIDE DEF new, f
<1>4. ASSUME NEW x \in DOMAIN f
      PROVE  /\ f[x] \in Receipt
             /\ f[x].seq \in 1..(seq + 1)
             /\ f[x].hash = HashOf(x, f[x])
             /\ x # id => f[x].seq < seq + 1
  <2>1. CASE x = id
    BY <1>1, <1>2, <1>3, <2>1
  <2>2. CASE x \in DOMAIN files
    <3>1. f[x] = files[x] /\ files[x].seq \in 1..seq
      BY Zenon, <1>1, <1>3, <2>2 DEF FilesSound
    <3>2. files[x] \in Receipt /\ files[x].hash = HashOf(x, files[x])
      BY Zenon, <1>1, <2>2 DEF FilesSound
    <3>. QED
      BY <1>1, <3>1, <3>2
  <2>. QED
    BY Zenon, <1>3, <2>1, <2>2
<1>5. ASSUME NEW x \in DOMAIN f, NEW y \in DOMAIN f, f[x].seq = f[y].seq
      PROVE  x = y
  <2>1. CASE x # id /\ y # id
    BY Zenon, <1>1, <1>3, <1>5, <2>1 DEF FilesSound
  <2>2. CASE x = id \/ y = id
    BY <1>1, <1>2, <1>3, <1>4, <1>5, <2>2
  <2>. QED
    BY Zenon, <2>1, <2>2
<1>6. \A y \in DOMAIN f : f[y].seq <= f[id].seq
  BY <1>1, <1>2, <1>3, <1>4
<1>7. id \in DOMAIN f
  BY Zenon, <1>3
<1>. QED
  BY Zenon, <1>4, <1>5, <1>6, <1>7 DEF FilesSound, f, new

LEMMA ChainGrows ==
    ASSUME Inv, FilesLinked(files, seq, lastHash),
           NEW id \in ReceiptID \ drawn, NEW form \in Form
    PROVE  FilesLinked(With(files, id, New(id, form)), seq + 1,
                       New(id, form).hash)
<1> DEFINE new == New(id, form)
           f == With(files, id, new)
<1>1. /\ id \in ReceiptID /\ id \notin DOMAIN files /\ seq \in Nat
      /\ lastHash \in Hash
      /\ FilesSound(files, seq)
  BY Zenon DEF Inv
<1>2. /\ new.seq = seq + 1 /\ new.prev = lastHash
  BY Zenon, <1>1, NewTypes
<1>3. /\ DOMAIN f = DOMAIN files \cup {id}
      /\ f[id] = new
      /\ \A x \in DOMAIN files : f[x] = files[x]
  BY <1>1 DEF With
<1>. HIDE DEF new, f
<1>4. IsFiniteSet(DOMAIN f) /\ Cardinality(DOMAIN f) = seq + 1
  <2>1. IsFiniteSet(DOMAIN files) /\ Cardinality(DOMAIN files) = seq
    BY Zenon DEF FilesLinked
  <2>2. /\ IsFiniteSet(DOMAIN files \cup {id})
        /\ Cardinality(DOMAIN files \cup {id}) = seq + 1
    BY Zenon, <1>1, <2>1, FS_AddElement
  <2>. QED
    BY Zenon, <1>3, <2>2
<1>5. ASSUME NEW k \in 1..(seq + 1)
      PROVE  \E x \in DOMAIN f : f[x].seq = k
  <2>1. k \in 1..seq \/ k = seq + 1
    BY <1>1
  <2>. QED
    BY Zenon, <1>2, <1>3, <2>1 DEF FilesLinked
<1>6. IF f[id].seq = 1 THEN f[id].prev = Genesis
      ELSE \E y \in DOMAIN f :
             f[y].seq = f[id].seq - 1 /\ f[id].prev = f[y].hash
  <2>1. CASE seq = 0
    <3>1. f[id].seq = 1
      BY <1>2, <1>3, <2>1
    <3>2. f[id].prev = Genesis
      BY Zenon, <1>2, <1>3, <2>1 DEF FilesLinked
    <3>. QED
      BY Zenon, <3>1, <3>2
  <2>2. CASE seq # 0
    <3>1. PICK y \in DOMAIN files : files[y].seq = seq /\ files[y].hash = lastHash
      BY Zenon, <2>2 DEF FilesLinked
    <3>2. f[id].seq - 1 = seq /\ f[id].seq # 1
      BY <1>1, <1>2, <1>3, <2>2
    <3>3. y \in DOMAIN f /\ f[y].seq = f[id].seq - 1 /\ f[id].prev = f[y].hash
      BY Zenon, <1>2, <1>3, <3>1, <3>2
    <3>. QED
      BY Zenon, <3>2, <3>3
  <2>. QED
    BY Zenon, <2>1, <2>2
<1>7. ASSUME NEW x \in DOMAIN files
      PROVE  IF f[x].seq = 1 THEN f[x].prev = Genesis
             ELSE \E y \in DOMAIN f :
                    f[y].seq = f[x].seq - 1 /\ f[x].prev = f[y].hash
  <2>1. f[x] = files[x]
    BY Zenon, <1>3
  <2>2. CASE files[x].seq = 1
    BY Zenon, <2>1, <2>2 DEF FilesLinked
  <2>3. CASE files[x].seq # 1
    <3>1. PICK y \in DOMAIN files :
            files[y].seq = files[x].seq - 1 /\ files[x].prev = files[y].hash
      BY Zenon, <2>3 DEF FilesLinked
    <3>2. y \in DOMAIN f /\ f[y] = files[y]
      BY Zenon, <1>3
    <3>. QED
      BY Zenon, <2>1, <2>3, <3>1, <3>2
  <2>. QED
    BY Zenon, <2>2, <2>3
<1>8. id \in DOMAIN f /\ f[id].seq = seq + 1 /\ f[id].hash = new.hash
  BY Zenon, <1>2, <1>3
<1>9. seq + 1 # 0
  BY <1>1
<1>10. ASSUME NEW x \in DOMAIN f
       PROVE  IF f[x].seq = 1 THEN f[x].prev = Genesis
              ELSE \E y \in DOMAIN f :
                     f[y].seq = f[x].seq - 1 /\ f[x].prev = f[y].hash
  <2>1. x = id \/ x \in DOMAIN files
    BY Zenon, <1>3
  <2>. QED
    BY Zenon, <1>6, <1>7, <2>1
<1>11. FilesLinked(f, seq + 1, new.hash)
  BY Zenon, <1>4, <1>5, <1>8, <1>9, <1>10 DEF FilesLinked
<1>. QED
  BY Zenon, <1>11 DEF f, new

----------------------------------------------------------------------------
\* Loading.

\* What rebuildChainState finds.
LEMMA LatestFound ==
    ASSUME NEW f, NEW n \in Nat, FilesSound(f, n)
    PROVE  /\ Latest(f).seq \in Nat
           /\ Latest(f).hash \in Hash
           /\ FilesSound(f, Latest(f).seq)
           /\ \A l : FilesLinked(f, n, l) =>
                Latest(f).seq = n /\ Latest(f).hash = l
<1>1. CASE DOMAIN f = {}
  <2>1. Latest(f).seq = 0 /\ Latest(f).hash = Genesis
    BY <1>1 DEF Latest
  <2>2. Genesis \in Hash
    BY DEF Genesis, Hash
  <2>3. FilesSound(f, 0)
    BY Zenon, <1>1 DEF FilesSound
  <2>4. ASSUME NEW l, FilesLinked(f, n, l) PROVE n = 0 /\ l = Genesis
    <3>1. n = 0
      BY Zenon, <1>1, <2>4, FS_EmptySet DEF FilesLinked
    <3>. QED
      BY Zenon, <2>4, <3>1 DEF FilesLinked
  <2>5. Latest(f).seq \in Nat
    BY <2>1
  <2>. QED
    BY Zenon, <2>1, <2>2, <2>3, <2>4, <2>5
<1>2. CASE DOMAIN f # {}
  <2> DEFINE top == CHOOSE x \in DOMAIN f :
                      \A y \in DOMAIN f : f[y].seq <= f[x].seq
  <2>1. top \in DOMAIN f /\ \A y \in DOMAIN f : f[y].seq <= f[top].seq
    BY Zenon, <1>2 DEF FilesSound
  <2>2. Latest(f) = [seq |-> f[top].seq, hash |-> f[top].hash]
    BY Zenon, <1>2 DEF Latest
  <2>. HIDE DEF top
  <2>3. Latest(f).seq = f[top].seq /\ Latest(f).hash = f[top].hash
    BY <2>2
  <2>4. /\ f[top] \in Receipt /\ f[top].seq \in 1..n
        /\ \A y \in DOMAIN f : f[y].seq \in 1..n
    BY Zenon, <2>1 DEF FilesSound
  <2>5. f[top].seq \in Nat /\ f[top].hash \in Hash
    BY <2>4 DEF Receipt
  <2>6. \A y \in DOMAIN f : f[y].seq \in 1..f[top].seq
    BY <2>1, <2>4
  <2>7. FilesSound(f, f[top].seq)
    BY Zenon, <2>6 DEF FilesSound
  <2>8. ASSUME NEW l, FilesLinked(f, n, l)
        PROVE  f[top].seq = n /\ f[top].hash = l
    <3>1. n # 0
      BY <2>4
    <3>2. PICK y \in DOMAIN f : f[y].seq = n /\ f[y].hash = l
      BY Zenon, <2>8, <3>1 DEF FilesLinked
    <3>3. f[top].seq = n
      BY <2>1, <2>4, <3>2
    <3>4. y = top
      BY Zenon, <2>1, <3>2, <3>3 DEF FilesSound
    <3>. QED
      BY Zenon, <3>2, <3>3, <3>4
  <2>. QED
    BY Zenon, <2>3, <2>5, <2>7, <2>8
<1>. QED
  BY Zenon, <1>1, <1>2

\* Memory after a start: what the files hold, and the head of it.
LEMMA LoadSound ==
    ASSUME NEW n \in Nat, FilesSound(files', n), Load(files'),
           given' \subseteq DOMAIN files',
           NEW l, failed' \/ FilesLinked(files', n, l)
    PROVE  /\ seq' \in Nat /\ lastHash' \in Hash
           /\ FilesSound(files', seq')
           /\ Mirrored'
           /\ Whole'
<1>1. /\ receipts' = [id \in DOMAIN files' |-> ReadBack(files'[id])]
      /\ seq' = Latest(files').seq
      /\ lastHash' = Latest(files').hash
  BY Zenon DEF Load
<1>2. /\ Latest(files').seq \in Nat
      /\ Latest(files').hash \in Hash
      /\ FilesSound(files', Latest(files').seq)
      /\ FilesLinked(files', n, l) =>
           Latest(files').seq = n /\ Latest(files').hash = l
  BY Zenon, LatestFound
<1>3. DOMAIN receipts' = DOMAIN files'
  BY Zenon, <1>1
<1>4. ASSUME NEW id \in DOMAIN receipts'
      PROVE  /\ receipts'[id] \in Receipt
             /\ receipts'[id].seq = files'[id].seq
             /\ receipts'[id].prev = files'[id].prev
             /\ receipts'[id].hash = files'[id].hash
  <2>1. files'[id] \in Receipt
    BY Zenon, <1>3 DEF FilesSound
  <2>2. receipts'[id] = [files'[id] EXCEPT !.form = "map"]
    BY Zenon, <1>1, <1>3 DEF ReadBack
  <2>. QED
    BY <2>1, <2>2 DEF Receipt, Forms
<1>5. Mirrored'
  BY Zenon, <1>3, <1>4 DEF Mirrored
<1>6. Whole'
  BY Zenon, <1>1, <1>2, <1>3 DEF Whole
<1>. QED
  BY Zenon, <1>1, <1>2, <1>5, <1>6

----------------------------------------------------------------------------
\* The steps.

\* What is left of a write: the files as they were, or one more.
LEMMA LeftSound ==
    ASSUME Inv, NEW id \in ReceiptID \ drawn, NEW form \in Form
    PROVE  \A f \in LeftBehind(id, form) :
             /\ DOMAIN files \subseteq DOMAIN f
             /\ DOMAIN f \subseteq DOMAIN files \cup {id}
             /\ \A x \in DOMAIN files : f[x] = files[x]
             /\ FilesSound(f, seq + 1)
             /\ FilesLinked(files, seq, lastHash) =>
                  \E n \in {seq, seq + 1} : \E l :
                    FilesSound(f, n) /\ FilesLinked(f, n, l)
<1>. TAKE f \in LeftBehind(id, form)
<1>1. /\ id \notin DOMAIN files /\ seq \in Nat
      /\ FilesSound(files, seq)
  BY Zenon DEF Inv
<1>2. CASE f = files
  <2>1. ASSUME NEW x \in DOMAIN files PROVE files[x].seq \in 1..(seq + 1)
    <3>1. files[x].seq \in 1..seq
      BY Zenon, <1>1 DEF FilesSound
    <3>. QED
      BY <1>1, <3>1
  <2>2. FilesSound(files, seq + 1)
    BY Zenon, <1>1, <2>1 DEF FilesSound
  <2>. QED
    BY Zenon, <1>1, <1>2, <2>2
<1>3. CASE f = With(files, id, New(id, form))
  <2>1. /\ DOMAIN f = DOMAIN files \cup {id}
        /\ \A x \in DOMAIN files : f[x] = files[x]
    BY <1>1, <1>3 DEF With
  <2>2. /\ FilesSound(f, seq + 1)
        /\ FilesLinked(files, seq, lastHash) =>
             FilesLinked(f, seq + 1, New(id, form).hash)
    BY Zenon, <1>3, FilesGrow, ChainGrows
  <2>. QED
    BY Zenon, <2>1, <2>2
<1>. QED
  BY Zenon, <1>2, <1>3 DEF LeftBehind

LEMMA SaveKeeps ==
    ASSUME Inv, NEW id \in ReceiptID \ drawn, NEW form \in Form,
           drawn' = drawn \cup {id}, SaveReceipt(id, form)
    PROVE  Inv'
<1> DEFINE new == New(id, form)
<1>1. /\ files' = With(files, id, new)
      /\ receipts' = With(receipts, id, new)
      /\ seq' = seq + 1
      /\ lastHash' = new.hash
      /\ given' = given \cup {id}
      /\ failed' = failed
  BY Zenon DEF SaveReceipt
<1>2. /\ id \in ReceiptID /\ id \notin DOMAIN files /\ seq \in Nat
      /\ drawn \subseteq ReceiptID /\ DOMAIN files \subseteq drawn
      /\ lastHash \in Hash
      /\ DOMAIN receipts \subseteq DOMAIN files
  BY Zenon DEF Inv, Mirrored
<1>3. new \in Receipt /\ new.hash \in Hash
  BY Zenon, <1>2, NewTypes
<1>4. FilesSound(files', seq') /\ seq' \in Nat
  BY <1>1, <1>2, FilesGrow
<1>5. /\ DOMAIN files' = DOMAIN files \cup {id}
      /\ files'[id] = new
      /\ \A x \in DOMAIN files : files'[x] = files[x]
  BY <1>1, <1>2 DEF With
<1>6. /\ DOMAIN receipts' = DOMAIN receipts \cup {id}
      /\ receipts'[id] = new
      /\ \A x \in DOMAIN receipts : receipts'[x] = receipts[x]
  BY <1>1, <1>2 DEF With
<1>. HIDE DEF new
<1>7. Mirrored'
  <2>1. DOMAIN receipts' \subseteq DOMAIN files' /\ given' \subseteq DOMAIN receipts'
    BY Zenon, <1>1, <1>2, <1>5, <1>6 DEF Inv, Mirrored
  <2>2. ASSUME NEW x \in DOMAIN receipts'
        PROVE  /\ receipts'[x] \in Receipt
               /\ receipts'[x].seq = files'[x].seq
               /\ receipts'[x].prev = files'[x].prev
               /\ receipts'[x].hash = files'[x].hash
    <3>1. CASE x = id
      BY Zenon, <1>3, <1>5, <1>6, <3>1
    <3>2. CASE x \in DOMAIN receipts
      <4>1. receipts'[x] = receipts[x] /\ files'[x] = files[x]
        BY Zenon, <1>2, <1>5, <1>6, <3>2
      <4>2. /\ receipts[x] \in Receipt
            /\ receipts[x].seq = files[x].seq
            /\ receipts[x].prev = files[x].prev
            /\ receipts[x].hash = files[x].hash
        BY Zenon, <3>2 DEF Inv, Mirrored
      <4>. QED
        BY Zenon, <4>1, <4>2
    <3>. QED
      BY Zenon, <1>6, <3>1, <3>2
  <2>. QED
    BY Zenon, <2>1, <2>2 DEF Mirrored
<1>8. Whole'
  <2>1. SUFFICES ASSUME ~failed'
                 PROVE  /\ DOMAIN receipts' = DOMAIN files'
                        /\ FilesLinked(files', seq', lastHash')
    BY Zenon DEF Whole
  <2>2. DOMAIN receipts = DOMAIN files /\ FilesLinked(files, seq, lastHash)
    BY Zenon, <1>1, <2>1 DEF Inv, Whole
  <2>3. FilesLinked(With(files, id, new), seq + 1, new.hash)
    BY Zenon, <2>2, ChainGrows DEF new
  <2>. QED
    BY Zenon, <1>1, <1>5, <1>6, <2>2, <2>3
<1>. QED
  BY Zenon, <1>1, <1>2, <1>3, <1>4, <1>5, <1>7, <1>8 DEF Inv

LEMMA FailKeeps ==
    ASSUME Inv, NEW id \in ReceiptID \ drawn, NEW form \in Form,
           drawn' = drawn \cup {id}, SaveFails(id, form)
    PROVE  Inv'
<1>0. \A f \in LeftBehind(id, form) :
        /\ DOMAIN files \subseteq DOMAIN f
        /\ DOMAIN f \subseteq DOMAIN files \cup {id}
        /\ \A x \in DOMAIN files : f[x] = files[x]
        /\ FilesSound(f, seq + 1)
        /\ FilesLinked(files, seq, lastHash) =>
             \E n \in {seq, seq + 1} : \E l :
               FilesSound(f, n) /\ FilesLinked(f, n, l)
  BY Zenon, LeftSound
<1>1. /\ files' \in LeftBehind(id, form)
      /\ seq' = seq + 1
      /\ failed'
      /\ UNCHANGED <<receipts, lastHash, given>>
  BY Zenon DEF SaveFails
<1>2. /\ DOMAIN files \subseteq DOMAIN files'
      /\ DOMAIN files' \subseteq DOMAIN files \cup {id}
      /\ \A x \in DOMAIN files : files'[x] = files[x]
      /\ FilesSound(files', seq + 1)
  BY Zenon, <1>0, <1>1
<1>3. seq' \in Nat
  BY <1>1 DEF Inv
<1>4. Mirrored'
  <2>1. DOMAIN receipts \subseteq DOMAIN files /\ given \subseteq DOMAIN receipts
    BY Zenon DEF Inv, Mirrored
  <2>2. ASSUME NEW x \in DOMAIN receipts
        PROVE  /\ receipts[x] \in Receipt
               /\ receipts[x].seq = files'[x].seq
               /\ receipts[x].prev = files'[x].prev
               /\ receipts[x].hash = files'[x].hash
    <3>1. files'[x] = files[x]
      BY Zenon, <1>2, <2>1
    <3>. QED
      BY Zenon, <3>1 DEF Inv, Mirrored
  <2>. QED
    BY Zenon, <1>1, <1>2, <2>1, <2>2 DEF Mirrored
<1>5. Whole'
  BY Zenon, <1>1 DEF Whole
<1>. QED
  BY Zenon, <1>1, <1>2, <1>3, <1>4, <1>5 DEF Inv

LEMMA KillKeeps ==
    ASSUME Inv, NEW id \in ReceiptID \ drawn, NEW form \in Form,
           drawn' = drawn \cup {id}, KillInSave(id, form)
    PROVE  Inv'
<1>0. \A f \in LeftBehind(id, form) :
        /\ DOMAIN files \subseteq DOMAIN f
        /\ DOMAIN f \subseteq DOMAIN files \cup {id}
        /\ \A x \in DOMAIN files : f[x] = files[x]
        /\ FilesSound(f, seq + 1)
        /\ FilesLinked(files, seq, lastHash) =>
             \E n \in {seq, seq + 1} : \E l :
               FilesSound(f, n) /\ FilesLinked(f, n, l)
  BY Zenon, LeftSound
<1>1. /\ files' \in LeftBehind(id, form)
      /\ Load(files')
      /\ UNCHANGED <<given, failed>>
  BY Zenon DEF KillInSave
<1>2. /\ DOMAIN files \subseteq DOMAIN files'
      /\ DOMAIN files' \subseteq DOMAIN files \cup {id}
      /\ FilesSound(files', seq + 1)
      /\ FilesLinked(files, seq, lastHash) =>
           \E n \in {seq, seq + 1} : \E l :
             FilesSound(files', n) /\ FilesLinked(files', n, l)
  BY Zenon, <1>0, <1>1
<1>3. given' \subseteq DOMAIN files'
  BY Zenon, <1>1, <1>2 DEF Inv, Mirrored
<1>4. seq \in Nat /\ seq + 1 \in Nat
  BY DEF Inv
<1>5. failed' \/ FilesLinked(files, seq, lastHash)
  BY Zenon, <1>1 DEF Inv, Whole
<1>6. \E n \in Nat : \E l :
        FilesSound(files', n) /\ (failed' \/ FilesLinked(files', n, l))
  BY Zenon, <1>2, <1>4, <1>5
<1>7. /\ seq' \in Nat /\ lastHash' \in Hash
      /\ FilesSound(files', seq')
      /\ Mirrored'
      /\ Whole'
  BY Zenon, <1>1, <1>3, <1>6, LoadSound
<1>. QED
  BY Zenon, <1>2, <1>7 DEF Inv

LEMMA RestartKeeps ==
    ASSUME Inv, Restart
    PROVE  Inv'
<1>1. /\ Load(files')
      /\ UNCHANGED <<files, drawn, given, failed>>
  BY Zenon DEF Restart, Load
<1>2. /\ seq \in Nat /\ FilesSound(files', seq)
      /\ given' \subseteq DOMAIN files'
      /\ failed' \/ FilesLinked(files', seq, lastHash)
  BY Zenon, <1>1 DEF Inv, Mirrored, Whole
<1>3. /\ seq' \in Nat /\ lastHash' \in Hash
      /\ FilesSound(files', seq')
      /\ Mirrored'
      /\ Whole'
  BY Zenon, <1>1, <1>2, LoadSound
<1>. QED
  BY Zenon, <1>1, <1>3 DEF Inv

LEMMA InvStep == Inv /\ [Next]_vars => Inv'
<1>. SUFFICES ASSUME Inv, [Next]_vars PROVE Inv'
  OBVIOUS
<1>1. CASE UNCHANGED vars
  BY Zenon, <1>1 DEF vars, serviceVars, Inv, Mirrored, Whole
<1>. QED
  BY Zenon, <1>1, SaveKeeps, FailKeeps, KillKeeps, RestartKeeps DEF Next

LEMMA InvInit == Init => Inv
<1>. SUFFICES ASSUME Init PROVE Inv
  OBVIOUS
<1>1. /\ DOMAIN files = {} /\ DOMAIN receipts = {} /\ seq = 0 /\ seq \in Nat
      /\ lastHash = Genesis /\ lastHash \in Hash
      /\ drawn = {} /\ given = {} /\ 1..seq = {}
  BY DEF Init, Genesis, Hash
<1>2. FilesSound(files, seq) /\ FilesLinked(files, seq, lastHash)
  BY Zenon, <1>1, FS_EmptySet DEF FilesSound, FilesLinked
<1>3. Mirrored /\ Whole
  BY Zenon, <1>1, <1>2 DEF Mirrored, Whole
<1>. QED
  BY Zenon, <1>1, <1>2, <1>3 DEF Inv

LEMMA InvAlways == Spec => []Inv
<1>. QED
  BY InvInit, InvStep, PTL DEF Spec

----------------------------------------------------------------------------
\* The theorems.

\* The flag the faults set is a flag.
Flagged == failed \in BOOLEAN

LEMMA FlagStep == Flagged /\ [Next]_vars => Flagged'
BY Zenon DEF Flagged, Next, SaveReceipt, SaveFails, KillInSave, Restart, vars

LEMMA InvTypes ==
    ASSUME Inv, failed \in BOOLEAN
    PROVE  TypeOK
<1>1. \A id \in DOMAIN files : files[id] \in Receipt
  BY Zenon DEF Inv, FilesSound
<1>. QED
  BY Zenon, <1>1 DEF Inv, Mirrored, TypeOK

\* Receipts keep their types.
THEOREM ReceiptTypes == Spec => []TypeOK
<1>1. Init => Flagged
  BY Zenon DEF Init, Flagged
<1>2. Inv /\ Flagged => TypeOK
  BY Zenon, InvTypes DEF Flagged
<1>. QED
  BY <1>1, <1>2, FlagStep, InvAlways, PTL DEF Spec

LEMMA InvLinked ==
    ASSUME Inv, ~failed
    PROVE  Linked
<1>1. /\ DOMAIN receipts = DOMAIN files
      /\ FilesLinked(files, seq, lastHash)
      /\ FilesSound(files, seq)
      /\ seq \in Nat
      /\ \A id \in DOMAIN receipts :
           /\ receipts[id] \in Receipt
           /\ receipts[id].seq = files[id].seq
           /\ receipts[id].prev = files[id].prev
           /\ receipts[id].hash = files[id].hash
  BY Zenon DEF Inv, Whole, Mirrored
<1>2. {receipts[id].seq : id \in DOMAIN receipts} = 1..Cardinality(DOMAIN receipts)
  <2>1. Cardinality(DOMAIN receipts) = seq
    BY Zenon, <1>1 DEF FilesLinked
  <2>2. \A id \in DOMAIN receipts : receipts[id].seq \in 1..seq
    BY Zenon, <1>1 DEF FilesSound
  <2>3. ASSUME NEW k \in 1..seq
        PROVE  \E id \in DOMAIN receipts : receipts[id].seq = k
    <3>1. PICK id \in DOMAIN files : files[id].seq = k
      BY Zenon, <1>1 DEF FilesLinked
    <3>. QED
      BY Zenon, <1>1, <3>1
  <2>. QED
    BY Zenon, <2>1, <2>2, <2>3
<1>3. ASSUME NEW id \in DOMAIN receipts
      PROVE  \E form \in Forms :
               receipts[id].hash
                 = HashOf(id, [receipts[id] EXCEPT !.form = form])
  <2>1. /\ files[id] \in Receipt /\ receipts[id] \in Receipt
        /\ files[id].hash = HashOf(id, files[id])
    BY Zenon, <1>1 DEF FilesSound
  <2>2. files[id].form \in Forms
    BY <2>1 DEF Receipt
  <2> DEFINE r == [receipts[id] EXCEPT !.form = files[id].form]
  <2>3. /\ r.prev = files[id].prev
        /\ r.seq = files[id].seq
        /\ r.form = files[id].form
    BY <1>1, <2>1 DEF Receipt
  <2>4. HashOf(id, r) = HashOf(id, files[id])
    BY Zenon, <2>3 DEF HashOf
  <2>. QED
    BY Zenon, <1>1, <2>1, <2>2, <2>4
<1>4. ASSUME NEW id \in DOMAIN receipts
      PROVE  IF receipts[id].seq = 1 THEN receipts[id].prev = Genesis
             ELSE \E y \in DOMAIN receipts :
                    /\ receipts[y].seq = receipts[id].seq - 1
                    /\ receipts[id].prev = receipts[y].hash
  <2>1. CASE files[id].seq = 1
    BY Zenon, <1>1, <2>1 DEF FilesLinked
  <2>2. CASE files[id].seq # 1
    <3>1. PICK y \in DOMAIN files :
            files[y].seq = files[id].seq - 1 /\ files[id].prev = files[y].hash
      BY Zenon, <1>1, <2>2 DEF FilesLinked
    <3>. QED
      BY Zenon, <1>1, <2>2, <3>1
  <2>. QED
    BY Zenon, <2>1, <2>2
<1>. QED
  BY Zenon, <1>2, <1>3, <1>4 DEF Linked

\* Whatever fails, no number is used twice; and unless a write has returned an
\* error, the receipts in memory are one chain back to genesis, through kills
\* in the middle of a Save and restarts.
THEOREM ChainStaysSound == Spec => []ChainSound
<1>1. Inv => SeqUnique
  BY Zenon DEF Inv, FilesSound, Mirrored, SeqUnique
<1>2. Inv /\ TypeOK => ChainSound
  BY Zenon, <1>1, InvLinked DEF ChainSound
<1>. QED
  BY <1>2, InvAlways, ReceiptTypes, PTL

\* A receipt a caller was given is in memory and on disk with one hash, under
\* every fault.
THEOREM GivenStays == Spec => []GivenKept
<1>1. Inv => GivenKept
  BY Zenon DEF Inv, Mirrored, GivenKept
<1>. QED
  BY <1>1, InvAlways, PTL
============================================================================
