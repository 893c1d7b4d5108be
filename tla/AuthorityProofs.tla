--------------------------- MODULE AuthorityProofs --------------------------
(***************************************************************************)
(* What the ledger alone promises, and what the authority, the event log   *)
(* and the ledger promise together, for every value of the constants and   *)
(* every kind of fault of Faults.                                          *)
(***************************************************************************)
EXTENDS Authority, TLAPS

(***************************************************************************)
(* The ledger by itself: theorems about SidecarSpec.                       *)
(***************************************************************************)

----------------------------------------------------------------------------
\* Prefixes, place by place.

\* IsPrefix is agreement on the places of the shorter sequence.
LEMMA PrefixPlaces ==
    ASSUME NEW S, NEW s \in Seq(S), NEW t \in Seq(S)
    PROVE  IsPrefix(s, t) <=> /\ Len(s) <= Len(t)
                              /\ \A i \in 1..Len(s) : s[i] = t[i]
<1>1. ASSUME Len(s) <= Len(t)
      PROVE  /\ SubSeq(s, 1, Len(s)) \in Seq(S)
             /\ SubSeq(t, 1, Len(s)) \in Seq(S)
             /\ Len(SubSeq(s, 1, Len(s))) = Len(s)
             /\ Len(SubSeq(t, 1, Len(s))) = Len(s)
             /\ \A i \in 1..Len(s) : /\ SubSeq(s, 1, Len(s))[i] = s[i]
                                     /\ SubSeq(t, 1, Len(s))[i] = t[i]
  BY <1>1
<1>2. ASSUME Len(s) <= Len(t)
      PROVE  SubSeq(s, 1, Len(s)) = SubSeq(t, 1, Len(s))
             <=> \A i \in 1..Len(s) : s[i] = t[i]
  BY <1>1, <1>2
<1>. QED
  BY <1>2 DEF IsPrefix

\* A sequence is a prefix of itself and of what is appended to it, and the
\* first places of a sequence are a prefix of it.
LEMMA PrefixCases ==
    ASSUME NEW S, NEW s \in Seq(S), NEW x \in S, NEW k \in 0..Len(s)
    PROVE  /\ IsPrefix(s, s)
           /\ IsPrefix(s, Append(s, x))
           /\ IsPrefix(SubSeq(s, 1, k), s)
           /\ SubSeq(s, 1, k) \in Seq(S)
<1>1. IsPrefix(s, s)
  BY PrefixPlaces
<1>2. /\ Append(s, x) \in Seq(S)
      /\ Len(s) <= Len(Append(s, x))
      /\ \A i \in 1..Len(s) : s[i] = Append(s, x)[i]
  OBVIOUS
<1>3. IsPrefix(s, Append(s, x))
  BY <1>2, PrefixPlaces
<1>4. /\ SubSeq(s, 1, k) \in Seq(S)
      /\ Len(SubSeq(s, 1, k)) <= Len(s)
      /\ \A i \in 1..Len(SubSeq(s, 1, k)) : SubSeq(s, 1, k)[i] = s[i]
  OBVIOUS
<1>5. IsPrefix(SubSeq(s, 1, k), s)
  BY <1>4, PrefixPlaces
<1>. QED
  BY <1>1, <1>3, <1>4, <1>5

\* What an append gives.
LEMMA AppendFacts ==
    ASSUME NEW S, NEW s \in Seq(S), NEW x \in S
    PROVE  /\ Append(s, x) \in Seq(S)
           /\ Len(Append(s, x)) = Len(s) + 1
           /\ Append(s, x) # <<>>
           /\ IsPrefix(<<>>, Append(s, x))
           /\ IsPrefix(s, Append(s, x))
           /\ IsPrefix(Append(s, x), Append(s, x))
<1>1. /\ Append(s, x) \in Seq(S)
      /\ Len(Append(s, x)) = Len(s) + 1
      /\ 0 \in 0..Len(s)
      /\ 0 \in 0..Len(Append(s, x))
  OBVIOUS
<1>2. Len(Append(s, x)) # 0 /\ Len(<<>>) = 0
  OBVIOUS
<1>3. Append(s, x) # <<>>
  BY ONLY <1>2
<1>4. IsPrefix(<<>>, Append(s, x))
  BY <1>1 DEF IsPrefix
<1>. QED
  BY Zenon, <1>1, <1>3, <1>4, PrefixCases

LEMMA PrefixTransitive ==
    ASSUME NEW S, NEW r \in Seq(S), NEW s \in Seq(S), NEW t \in Seq(S),
           IsPrefix(r, s), IsPrefix(s, t)
    PROVE  IsPrefix(r, t)
BY PrefixPlaces

----------------------------------------------------------------------------
\* Types.


\* The type invariant in two parts, since the provers that know sequences
\* and the one that knows Boolean variables are not the same.
Flags == torn \in BOOLEAN /\ broken \in BOOLEAN /\ up \in BOOLEAN

Values ==
    /\ disk \in Seq(Evidence)
    /\ synced \in 0..Len(disk)
    /\ entry \in {"absent", "unsynced", "synced"}
    /\ checkpoints \subseteq Seq(Evidence)
    /\ rustAccepted \in Seq(Evidence)
    /\ acked \subseteq Seq(Evidence)

LEMMA TypeParts == SidecarTypeOK <=> Flags /\ Values
BY Zenon DEF SidecarTypeOK, Flags, Values

LEMMA TypePartsPrimed == SidecarTypeOK' <=> Flags' /\ Values'
BY Zenon DEF SidecarTypeOK, Flags, Values

LEMMA PostsAreEvidence == Posts \subseteq Evidence
<1>1. \A n \in 1..MaxAttempts : n \in Nat
  BY BoundAssumption
<1>. QED
  BY <1>1 DEF Posts, Evidence

LEMMA SidecarInitTypes == SidecarInit => SidecarTypeOK
<1>1. SidecarInit => Flags
  BY Zenon DEF SidecarInit, Flags
<1>2. SidecarInit => Values
  BY DEF SidecarInit, Values
<1>. QED
  BY Zenon, <1>1, <1>2, TypeParts

----------------------------------------------------------------------------
\* POST /events keeps the types.

LEMMA PostFlags ==
    ASSUME Flags, NEW e \in Evidence, PostEvent(e)
    PROVE  Flags'
<1>1. CASE RefusePost(e)
  BY Zenon, <1>1 DEF RefusePost, sidecarVars, Flags
<1>2. ASSUME NEW n \in 1..Len(disk), Reacknowledge(e, n) PROVE Flags'
  BY Zenon, <1>2 DEF Reacknowledge, ledgerVars, checkpointVars, Flags
<1>3. CASE AppendEvidence(e)
  BY Zenon, <1>3 DEF AppendEvidence, WholeAppend, checkpointVars, Flags
<1>4. CASE AppendFails(e)
  BY Zenon, <1>4
  DEF AppendFails, PartialAppend, ledgerVars, checkpointVars, Flags
<1>5. CASE KillInAppend(e)
  BY Zenon, <1>5
  DEF KillInAppend, WholeAppend, PartialAppend, Stop, checkpointVars, Flags
<1>6. CASE PowerLossInAppend(e)
  BY Zenon, <1>6 DEF PowerLossInAppend, Stop, checkpointVars, Flags
<1>. QED
  BY Zenon, <1>1, <1>2, <1>3, <1>4, <1>5, <1>6 DEF PostEvent

\* Whatever append_evidence leaves of a new line, the file is well formed.
LEMMA AppendValues ==
    ASSUME Values, NEW e \in Evidence, WholeAppend(e) \/ PartialAppend(e)
    PROVE  /\ disk' \in Seq(Evidence)
           /\ synced' \in 0..Len(disk')
           /\ entry' \in {"absent", "unsynced", "synced"}
<1>1. /\ disk \in Seq(Evidence)
      /\ Append(disk, e) \in Seq(Evidence)
      /\ Len(Append(disk, e)) = Len(disk) + 1
      /\ Len(disk) \in Nat
      /\ synced \in 0..Len(disk)
      /\ entry \in {"absent", "unsynced", "synced"}
  BY DEF Values
<1>2. \/ disk' = disk /\ synced' = synced
      \/ disk' = Append(disk, e) /\ synced' \in {synced, Len(disk) + 1}
  BY Zenon DEF WholeAppend, PartialAppend
<1>3. entry' \in {entry, "unsynced", "synced"}
  BY Zenon DEF WholeAppend, PartialAppend, Opened
<1>. QED
  BY <1>1, <1>2, <1>3

LEMMA PostValues ==
    ASSUME Values, NEW e \in Evidence, PostEvent(e)
    PROVE  Values'
<1>1. CASE RefusePost(e)
  BY <1>1 DEF RefusePost, sidecarVars, Values
<1>2. ASSUME NEW n \in 1..Len(disk), Reacknowledge(e, n) PROVE Values'
  <2>1. SubSeq(disk, 1, n) \in Seq(Evidence)
    BY DEF Values
  <2>2. /\ acked' = acked \cup {SubSeq(disk, 1, n)}
        /\ UNCHANGED <<disk, synced, entry, checkpoints, rustAccepted>>
    BY Zenon, <1>2 DEF Reacknowledge, ledgerVars, checkpointVars
  <2>. QED
    BY <2>1, <2>2 DEF Values
<1>3. CASE AppendEvidence(e)
  <2>1. /\ rustAccepted' = disk'
        /\ acked' = acked \cup {disk'}
        /\ checkpoints' = checkpoints
        /\ WholeAppend(e)
    BY Zenon, <1>3 DEF AppendEvidence, checkpointVars
  <2>. QED
    BY <2>1, AppendValues DEF Values
<1>4. CASE AppendFails(e)
  <2>1. /\ UNCHANGED <<checkpoints, rustAccepted, acked>>
        /\ UNCHANGED ledgerVars \/ PartialAppend(e)
    BY Zenon, <1>4 DEF AppendFails, checkpointVars
  <2>2. CASE UNCHANGED ledgerVars
    BY <2>1, <2>2 DEF ledgerVars, Values
  <2>3. CASE PartialAppend(e)
    BY <2>1, <2>3, AppendValues DEF Values
  <2>. QED
    BY <2>1, <2>2, <2>3
<1>5. CASE KillInAppend(e)
  <2>1. /\ rustAccepted' = <<>>
        /\ UNCHANGED <<checkpoints, acked>>
        /\ WholeAppend(e) \/ PartialAppend(e)
    BY Zenon, <1>5 DEF KillInAppend, Stop, checkpointVars
  <2>. QED
    BY <2>1, AppendValues DEF Values
<1>6. CASE PowerLossInAppend(e)
  <2>1. /\ rustAccepted' = <<>>
        /\ entry' = "synced"
        /\ UNCHANGED <<checkpoints, acked>>
        /\ \/ disk' = disk /\ synced' = Len(disk)
           \/ disk' = Append(disk, e) /\ synced' = Len(disk) + 1
    BY Zenon, <1>6 DEF PowerLossInAppend, Stop, checkpointVars
  <2>2. /\ Append(disk, e) \in Seq(Evidence)
        /\ Len(Append(disk, e)) = Len(disk) + 1
        /\ Len(disk) \in Nat
    BY DEF Values
  <2>. QED
    BY <2>1, <2>2 DEF Values
<1>. QED
  BY <1>1, <1>2, <1>3, <1>4, <1>5, <1>6 DEF PostEvent

LEMMA PostTypes ==
    ASSUME SidecarTypeOK, NEW e \in Evidence, PostEvent(e)
    PROVE  SidecarTypeOK'
BY Zenon, PostFlags, PostValues, TypeParts, TypePartsPrimed

----------------------------------------------------------------------------
\* So does every other step.

LEMMA StepFlags == Flags /\ [SidecarNext]_sidecarVars => Flags'
<1>. SUFFICES ASSUME Flags, [SidecarNext]_sidecarVars PROVE Flags'
  OBVIOUS
<1>1. CASE Start
  BY Zenon, <1>1 DEF Start, ledgerVars, checkpointVars, Flags
<1>2. ASSUME NEW e \in Posts, PostEvent(e) PROVE Flags'
  BY Zenon, <1>2, PostFlags, PostsAreEvidence
<1>3. CASE CreateCheckpoint
  BY Zenon, <1>3 DEF CreateCheckpoint, ledgerVars, Flags
<1>4. CASE CheckpointFails
  BY Zenon, <1>4 DEF CheckpointFails, PartialCheckpoint, ledgerVars, Flags
<1>5. CASE KillInCheckpoint
  BY Zenon, <1>5
  DEF KillInCheckpoint, PartialCheckpoint, Stop, ledgerVars, Flags
<1>6. CASE Restart
  BY Zenon, <1>6 DEF Restart, Stop, ledgerVars, checkpointVars, Flags
<1>7. CASE PowerLoss
  <2>1. up' \in BOOLEAN /\ broken' = broken
    BY Zenon, <1>7 DEF PowerLoss, checkpointVars
  <2>2. torn' \in BOOLEAN
    BY Zenon, <1>7 DEF PowerLoss
  <2>. QED
    BY Zenon, <2>1, <2>2 DEF Flags
<1>8. CASE UNCHANGED sidecarVars
  BY Zenon, <1>8 DEF sidecarVars, Flags
<1>. QED
  BY Zenon, <1>1, <1>2, <1>3, <1>4, <1>5, <1>6, <1>7, <1>8 DEF SidecarNext

LEMMA StepValues == Values /\ [SidecarNext]_sidecarVars => Values'
<1>. SUFFICES ASSUME Values, [SidecarNext]_sidecarVars PROVE Values'
  OBVIOUS
<1>1. CASE Start
  BY <1>1 DEF Start, ledgerVars, checkpointVars, Values
<1>2. ASSUME NEW e \in Posts, PostEvent(e) PROVE Values'
  BY <1>2, PostValues, PostsAreEvidence
<1>3. CASE CreateCheckpoint
  BY <1>3 DEF CreateCheckpoint, ledgerVars, Values
<1>4. CASE CheckpointFails
  BY <1>4 DEF CheckpointFails, PartialCheckpoint, ledgerVars, Values
<1>5. CASE KillInCheckpoint
  <2>1. /\ rustAccepted' = <<>>
        /\ UNCHANGED <<disk, synced, entry, acked>>
        /\ checkpoints' \in {checkpoints, checkpoints \cup {disk}}
    BY Zenon, <1>5 DEF KillInCheckpoint, PartialCheckpoint, Stop, ledgerVars
  <2>. QED
    BY <2>1 DEF Values
<1>6. CASE Restart
  BY <1>6 DEF Restart, Stop, ledgerVars, checkpointVars, Values
<1>7. CASE PowerLoss
  <2>1. /\ rustAccepted' = <<>>
        /\ UNCHANGED <<checkpoints, acked>>
        /\ \/ disk' = <<>> /\ synced' = 0 /\ entry' = "absent"
           \/ /\ entry' = "synced"
              /\ \E k \in synced..Len(disk) :
                   disk' = SubSeq(disk, 1, k) /\ synced' = k
    BY Zenon, <1>7 DEF PowerLoss, checkpointVars
  <2>2. ASSUME NEW k \in synced..Len(disk),
               disk' = SubSeq(disk, 1, k), synced' = k, entry' = "synced"
        PROVE  Values'
    <3>1. k \in 0..Len(disk) /\ disk \in Seq(Evidence)
      BY <2>2 DEF Values
    <3>2. SubSeq(disk, 1, k) \in Seq(Evidence) /\ Len(SubSeq(disk, 1, k)) = k
      BY <3>1
    <3>. QED
      BY <2>1, <2>2, <3>1, <3>2 DEF Values
  <2>3. CASE disk' = <<>> /\ synced' = 0 /\ entry' = "absent"
    BY <2>1, <2>3 DEF Values
  <2>. QED
    BY Zenon, <2>1, <2>2, <2>3
<1>8. CASE UNCHANGED sidecarVars
  BY <1>8 DEF sidecarVars, Values
<1>. QED
  BY <1>1, <1>2, <1>3, <1>4, <1>5, <1>6, <1>7, <1>8 DEF SidecarNext

LEMMA SidecarStepTypes ==
    SidecarTypeOK /\ [SidecarNext]_sidecarVars => SidecarTypeOK'
BY Zenon, StepFlags, StepValues, TypeParts, TypePartsPrimed

\* The ledger's variables always hold values of their types.
THEOREM SidecarTypes == SidecarSpec => []SidecarTypeOK
BY SidecarInitTypes, SidecarStepTypes, PTL DEF SidecarSpec

----------------------------------------------------------------------------
\* What a step does to the file.

\* The file grows by one line whose id it does not hold.
Grows ==
    \E e \in Evidence : Matching(e) = {} /\ disk' = Append(disk, e)

\* The machine stops and the first lines of the file are left.
Shrinks ==
    "power" \in Faults /\ \E k \in 0..Len(disk) : disk' = SubSeq(disk, 1, k)

LEMMA PostGrows ==
    ASSUME NEW e \in Evidence, PostEvent(e)
    PROVE  disk' = disk \/ (Settled /\ Grows)
BY Zenon
DEF PostEvent, RefusePost, Reacknowledge, AppendEvidence, AppendFails,
    KillInAppend, PowerLossInAppend, WholeAppend, PartialAppend, Appendable,
    Grows, ledgerVars, sidecarVars

LEMMA DiskSteps ==
    ASSUME SidecarTypeOK, [SidecarNext]_sidecarVars
    PROVE  disk' = disk \/ Grows \/ Shrinks
<1>1. ASSUME NEW e \in Posts, PostEvent(e) PROVE disk' = disk \/ Grows
  BY Zenon, <1>1, PostGrows, PostsAreEvidence
<1>2. CASE PowerLoss
  <2>1. /\ "power" \in Faults
        /\ disk' = <<>> \/ \E k \in synced..Len(disk) : disk' = SubSeq(disk, 1, k)
    BY Zenon, <1>2 DEF PowerLoss
  <2>2. synced \in 0..Len(disk) /\ disk \in Seq(Evidence)
    BY Zenon DEF SidecarTypeOK
  <2>3. /\ \A k \in synced..Len(disk) : k \in 0..Len(disk)
        /\ 0 \in 0..Len(disk)
        /\ <<>> = SubSeq(disk, 1, 0)
    BY <2>2
  <2>. QED
    BY Zenon, <2>1, <2>3 DEF Shrinks
<1>3. CASE Start \/ CreateCheckpoint \/ CheckpointFails \/ KillInCheckpoint
           \/ Restart \/ UNCHANGED sidecarVars
  BY Zenon, <1>3
  DEF Start, CreateCheckpoint, CheckpointFails, KillInCheckpoint, Restart,
      ledgerVars, sidecarVars
<1>. QED
  BY Zenon, <1>1, <1>2, <1>3 DEF SidecarNext

----------------------------------------------------------------------------
\* No id is on two lines.

LEMMA GrowsKeepsUnique ==
    ASSUME disk \in Seq(Evidence), UniqueEvidence, Grows
    PROVE  UniqueEvidence'
<1>1. PICK e \in Evidence : Matching(e) = {} /\ disk' = Append(disk, e)
  BY Zenon DEF Grows
<1>2. \A n \in 1..Len(disk) : e.id # NoID => disk[n].id # e.id
  BY <1>1 DEF Matching
<1>3. /\ Len(disk') = Len(disk) + 1
      /\ disk'[Len(disk) + 1] = e
      /\ \A n \in 1..Len(disk) : disk'[n] = disk[n]
      /\ Len(disk) \in Nat
  BY <1>1
<1>. QED
  BY <1>2, <1>3 DEF UniqueEvidence

LEMMA ShrinksKeepsUnique ==
    ASSUME disk \in Seq(Evidence), UniqueEvidence, Shrinks
    PROVE  UniqueEvidence'
<1>1. PICK k \in 0..Len(disk) : disk' = SubSeq(disk, 1, k)
  BY Zenon DEF Shrinks
<1>2. /\ Len(disk') = k
      /\ \A n \in 1..k : disk'[n] = disk[n]
      /\ Len(disk) \in Nat
  BY <1>1
<1>. QED
  BY <1>2 DEF UniqueEvidence

\* Whatever is retried or fails, wherever the process or the machine stops,
\* the file never binds an evidence id twice.
THEOREM EvidenceIsUnique == SidecarSpec => []UniqueEvidence
<1>1. SidecarInit => UniqueEvidence
  BY DEF SidecarInit, UniqueEvidence
<1>2. SidecarTypeOK /\ UniqueEvidence /\ [SidecarNext]_sidecarVars
        => UniqueEvidence'
  <2>. SUFFICES ASSUME SidecarTypeOK, UniqueEvidence, [SidecarNext]_sidecarVars
                PROVE  UniqueEvidence'
    OBVIOUS
  <2>1. disk \in Seq(Evidence)
    BY Zenon DEF SidecarTypeOK
  <2>2. CASE disk' = disk
    BY Zenon, <2>2 DEF UniqueEvidence
  <2>. QED
    BY Zenon, <2>1, <2>2, DiskSteps, GrowsKeepsUnique, ShrinksKeepsUnique
<1>. QED
  BY <1>1, <1>2, SidecarTypes, PTL DEF SidecarSpec

----------------------------------------------------------------------------
\* Without a loss of power the file only grows, so nothing acknowledged or
\* checkpointed is lost.

LEMMA GrowsExtends ==
    ASSUME disk \in Seq(Evidence), disk' = disk \/ Grows
    PROVE  disk' \in Seq(Evidence) /\ IsPrefix(disk, disk')
<1>0. 0 \in 0..Len(disk)
  OBVIOUS
<1>1. CASE Grows
  <2>1. PICK e \in Evidence : disk' = Append(disk, e)
    BY Zenon, <1>1 DEF Grows
  <2>2. Append(disk, e) \in Seq(Evidence)
    OBVIOUS
  <2>. QED
    BY Zenon, <1>0, <2>1, <2>2, PrefixCases
<1>2. CASE disk' = disk
  BY <1>2 DEF IsPrefix
<1>. QED
  BY <1>1, <1>2

\* A step without a loss of power rewrites no line.
LEMMA StepExtends ==
    ASSUME "power" \notin Faults, SidecarTypeOK, [SidecarNext]_sidecarVars
    PROVE  disk' \in Seq(Evidence) /\ IsPrefix(disk, disk')
<1>1. disk \in Seq(Evidence)
  BY Zenon DEF SidecarTypeOK
<1>. QED
  BY Zenon, <1>1, DiskSteps, GrowsExtends DEF Shrinks

\* The chains a step acknowledges are prefixes of the file it leaves.
LEMMA NewAcks ==
    ASSUME SidecarTypeOK, [SidecarNext]_sidecarVars
    PROVE  \A c \in acked' :
             \/ c \in acked
             \/ c \in Seq(Evidence) /\ IsPrefix(c, disk')
<1>0. disk \in Seq(Evidence)
  BY Zenon DEF SidecarTypeOK
<1>1. ASSUME NEW e \in Posts, NEW n \in 1..Len(disk), Reacknowledge(e, n)
      PROVE  /\ acked' = acked \cup {SubSeq(disk, 1, n)}
             /\ SubSeq(disk, 1, n) \in Seq(Evidence)
             /\ IsPrefix(SubSeq(disk, 1, n), disk')
  <2>1. disk' = disk /\ acked' = acked \cup {SubSeq(disk, 1, n)}
    BY Zenon, <1>1 DEF Reacknowledge, ledgerVars
  <2>2. n \in 0..Len(disk)
    BY <1>0
  <2>3. \A x \in Evidence : /\ SubSeq(disk, 1, n) \in Seq(Evidence)
                            /\ IsPrefix(SubSeq(disk, 1, n), disk)
    BY Zenon, <1>0, <2>2, PrefixCases
  <2>4. e \in Evidence
    BY Zenon, PostsAreEvidence
  <2>. QED
    BY Zenon, <2>1, <2>3, <2>4
<1>2. ASSUME NEW e \in Posts, AppendEvidence(e)
      PROVE  /\ acked' = acked \cup {disk'}
             /\ disk' \in Seq(Evidence)
             /\ IsPrefix(disk', disk')
  <2>1. acked' = acked \cup {disk'} /\ disk' = Append(disk, e)
    BY Zenon, <1>2 DEF AppendEvidence, WholeAppend
  <2>2. e \in Evidence
    BY Zenon, PostsAreEvidence
  <2>3. Append(disk, e) \in Seq(Evidence) /\ 0 \in 0..Len(Append(disk, e))
    BY <1>0, <2>2
  <2>. QED
    BY Zenon, <2>1, <2>2, <2>3, PrefixCases
<1>3. ASSUME NEW e \in Posts, PostEvent(e)
      PROVE  \/ acked' = acked
             \/ AppendEvidence(e)
             \/ \E n \in 1..Len(disk) : Reacknowledge(e, n)
  BY Zenon, <1>3
  DEF PostEvent, RefusePost, AppendFails, KillInAppend, PowerLossInAppend,
      sidecarVars
<1>4. \/ acked' = acked
      \/ \E e \in Posts : PostEvent(e)
  BY Zenon
  DEF SidecarNext, Start, CreateCheckpoint, CheckpointFails,
      KillInCheckpoint, Restart, PowerLoss, sidecarVars
<1>. QED
  BY Zenon, <1>1, <1>2, <1>3, <1>4

\* Nothing acknowledged is ever lost or moved, whichever system calls fail
\* and wherever the process is killed, as long as the machine keeps running.
THEOREM AcksAreDurable ==
    ASSUME "power" \notin Faults
    PROVE  SidecarSpec => []AckedDurable
<1>1. SidecarInit => AckedDurable
  BY DEF SidecarInit, AckedDurable
<1>2. SidecarTypeOK /\ AckedDurable /\ [SidecarNext]_sidecarVars
        => AckedDurable'
  <2>. SUFFICES ASSUME SidecarTypeOK, AckedDurable, [SidecarNext]_sidecarVars,
                       NEW c \in acked'
                PROVE  IsPrefix(c, disk')
    BY Zenon DEF AckedDurable
  <2>1. disk' \in Seq(Evidence) /\ IsPrefix(disk, disk')
    BY Zenon, StepExtends
  <2>2. CASE c \in acked
    <3>1. /\ c \in Seq(Evidence)
          /\ disk \in Seq(Evidence)
          /\ IsPrefix(c, disk)
      BY Zenon, <2>2 DEF SidecarTypeOK, AckedDurable
    <3>. QED
      BY Zenon, <2>1, <3>1, PrefixTransitive
  <2>. QED
    BY Zenon, <2>2, NewAcks
<1>. QED
  BY <1>1, <1>2, SidecarTypes, PTL DEF SidecarSpec

\* Nor does a checkpoint ever claim history the file does not hold.
THEOREM CheckpointsAreBound ==
    ASSUME "power" \notin Faults
    PROVE  SidecarSpec => []CheckpointsBound
<1>1. SidecarInit => CheckpointsBound
  BY DEF SidecarInit, CheckpointsBound
<1>2. SidecarTypeOK /\ CheckpointsBound /\ [SidecarNext]_sidecarVars
        => CheckpointsBound'
  <2>. SUFFICES ASSUME SidecarTypeOK, CheckpointsBound,
                       [SidecarNext]_sidecarVars, NEW c \in checkpoints'
                PROVE  IsPrefix(c, disk')
    BY Zenon DEF CheckpointsBound
  <2>1. disk' \in Seq(Evidence) /\ IsPrefix(disk, disk')
    BY Zenon, StepExtends
  <2>2. CASE c \in checkpoints
    <3>1. /\ c \in Seq(Evidence)
          /\ disk \in Seq(Evidence)
          /\ IsPrefix(c, disk)
      BY Zenon, <2>2 DEF SidecarTypeOK, CheckpointsBound
    <3>. QED
      BY Zenon, <2>1, <3>1, PrefixTransitive
  <2>3. checkpoints' = checkpoints \/ checkpoints' = checkpoints \cup {disk}
    BY Zenon
    DEF SidecarNext, Start, PostEvent, RefusePost, Reacknowledge,
        AppendEvidence, AppendFails, KillInAppend, PowerLossInAppend,
        CreateCheckpoint, CheckpointFails, KillInCheckpoint,
        PartialCheckpoint, Restart, PowerLoss, checkpointVars, sidecarVars
  <2>. QED
    BY Zenon, <2>1, <2>2, <2>3
<1>. QED
  BY <1>1, <1>2, SidecarTypes, PTL DEF SidecarSpec

\* A step without a loss of power removes and rewrites no line.
THEOREM FileOnlyGrows ==
    ASSUME "power" \notin Faults
    PROVE  SidecarSpec => AppendOnly
<1>1. SidecarTypeOK /\ [SidecarNext]_sidecarVars
        => [IsPrefix(disk, disk')]_sidecarVars
  BY Zenon, StepExtends
<1>. QED
  BY <1>1, SidecarTypes, PTL DEF SidecarSpec, AppendOnly

----------------------------------------------------------------------------
\* The file and what the process has accepted.

\* What POST /events may do to the file and to the accepted state.
LEMMA PostOutcomes ==
    ASSUME NEW e \in Evidence, PostEvent(e)
    PROVE  \/ UNCHANGED <<disk, torn, rustAccepted, up>>
           \/ /\ disk = rustAccepted
              /\ disk' = Append(disk, e)
              /\ ~torn'
              /\ rustAccepted' \in {disk, disk'}
           \/ disk = rustAccepted /\ disk' = disk /\ rustAccepted' = disk
           \/ up' = FALSE
<1>1. CASE RefusePost(e)
  BY Zenon, <1>1 DEF RefusePost, sidecarVars
<1>2. ASSUME NEW n \in 1..Len(disk), Reacknowledge(e, n)
      PROVE  UNCHANGED <<disk, torn, rustAccepted, up>>
  BY Zenon, <1>2 DEF Reacknowledge, ledgerVars
<1>3. CASE AppendEvidence(e)
  BY Zenon, <1>3 DEF AppendEvidence, WholeAppend, Appendable, Settled
<1>4. CASE AppendFails(e)
  <2>1. disk = rustAccepted /\ ~torn /\ rustAccepted' = rustAccepted
    BY Zenon, <1>4 DEF AppendFails, Appendable, Settled, Verified
  <2>2. \/ disk' = disk
        \/ disk' = Append(disk, e) /\ torn' = torn
    BY Zenon, <1>4 DEF AppendFails, PartialAppend, ledgerVars
  <2>. QED
    BY Zenon, <2>1, <2>2
<1>5. CASE KillInAppend(e) \/ PowerLossInAppend(e)
  BY Zenon, <1>5 DEF KillInAppend, PowerLossInAppend, Stop
<1>. QED
  BY Zenon, <1>1, <1>2, <1>3, <1>4, <1>5 DEF PostEvent

\* While the ledger serves, one write at most is uncertain: append_evidence
\* refuses everything until the file is again what was accepted.
THEOREM WritesSettle == SidecarSpec => []OneUncertainWrite
<1>1. SidecarInit => OneUncertainWrite
  BY Zenon DEF SidecarInit, OneUncertainWrite
<1>2. SidecarTypeOK /\ OneUncertainWrite /\ [SidecarNext]_sidecarVars
        => OneUncertainWrite'
  <2>. SUFFICES ASSUME SidecarTypeOK, OneUncertainWrite,
                       [SidecarNext]_sidecarVars
                PROVE  OneUncertainWrite'
    OBVIOUS
  <2>0. disk \in Seq(Evidence) /\ rustAccepted \in Seq(Evidence)
    BY Zenon DEF SidecarTypeOK
  <2>1. CASE UNCHANGED <<disk, torn, rustAccepted, up>>
    BY Zenon, <2>1 DEF OneUncertainWrite
  <2>2. CASE up' = FALSE
    BY Zenon, <2>2 DEF OneUncertainWrite
  <2>3. ASSUME NEW e \in Evidence,
               disk = rustAccepted, disk' = Append(disk, e), ~torn',
               rustAccepted' \in {disk, disk'}
        PROVE  OneUncertainWrite'
    <3>1. /\ Append(disk, e) \in Seq(Evidence)
          /\ 0 \in 0..Len(disk)
          /\ 0 \in 0..Len(Append(disk, e))
          /\ Len(Append(disk, e)) <= Len(disk) + 1
          /\ Len(Append(disk, e)) <= Len(Append(disk, e)) + 1
      BY <2>0
    <3>2. IsPrefix(disk, Append(disk, e))
      BY Zenon, <2>0, <3>1, PrefixCases
    <3>3. IsPrefix(Append(disk, e), Append(disk, e))
      BY Zenon, <3>1, PrefixCases
    <3>. QED
      BY Zenon, <2>3, <3>1, <3>2, <3>3 DEF OneUncertainWrite
  <2>4. CASE disk' = disk /\ rustAccepted' = disk
    <3>1. Len(disk) <= Len(disk) + 1 /\ IsPrefix(disk, disk)
      BY <2>0 DEF IsPrefix
    <3>. QED
      BY Zenon, <2>4, <3>1 DEF OneUncertainWrite
  <2>5. ASSUME NEW e \in Posts, PostEvent(e) PROVE OneUncertainWrite'
    BY Zenon, <2>5, <2>1, <2>2, <2>3, <2>4, PostOutcomes, PostsAreEvidence
  <2>6. CASE Start
    BY Zenon, <2>6, <2>4 DEF Start, ledgerVars
  <2>7. CASE CreateCheckpoint \/ CheckpointFails \/ UNCHANGED sidecarVars
    BY Zenon, <2>7, <2>1
    DEF CreateCheckpoint, CheckpointFails, ledgerVars, sidecarVars
  <2>8. CASE KillInCheckpoint \/ Restart \/ PowerLoss
    BY Zenon, <2>8, <2>2 DEF KillInCheckpoint, Restart, PowerLoss, Stop
  <2>. QED
    BY Zenon, <2>5, <2>6, <2>7, <2>8 DEF SidecarNext
<1>. QED
  BY <1>1, <1>2, SidecarTypes, PTL DEF SidecarSpec

----------------------------------------------------------------------------
\* If no system call fails and the process is not killed inside a request,
\* the sync before every acknowledgement makes a loss of power harmless.

Orderly == "write" \notin Faults /\ "kill" \notin Faults

\* At rest everything in the file is on the medium.
AllSynced ==
    /\ synced = Len(disk)
    /\ entry # "unsynced"
    /\ entry = "absent" => disk = <<>>
    /\ IsPrefix(rustAccepted, disk)

LEMMA OrderlySteps ==
    ASSUME Orderly, SidecarTypeOK, AllSynced, [SidecarNext]_sidecarVars
    PROVE  AllSynced' /\ IsPrefix(disk, disk') /\ disk' \in Seq(Evidence)
<1>0. /\ disk \in Seq(Evidence)
      /\ IsPrefix(<<>>, disk)
      /\ IsPrefix(disk, disk)
      /\ disk = SubSeq(disk, 1, Len(disk))
      /\ \A k \in synced..Len(disk) : k = Len(disk)
  <2>1. disk \in Seq(Evidence) /\ synced = Len(disk)
    BY Zenon DEF SidecarTypeOK, AllSynced
  <2>. QED
    BY <2>1 DEF IsPrefix
<1>1. ASSUME NEW e \in Evidence
      PROVE  /\ Append(disk, e) \in Seq(Evidence)
             /\ Len(Append(disk, e)) = Len(disk) + 1
             /\ Append(disk, e) # <<>>
             /\ IsPrefix(disk, Append(disk, e))
             /\ IsPrefix(Append(disk, e), Append(disk, e))
             /\ IsPrefix(<<>>, Append(disk, e))
  BY Zenon, <1>0, AppendFacts
<1>2. ASSUME NEW e \in Posts, PostEvent(e)
      PROVE  AllSynced' /\ IsPrefix(disk, disk') /\ disk' \in Seq(Evidence)
  <2>0. e \in Evidence
    BY Zenon, PostsAreEvidence
  <2>1. CASE RefusePost(e)
    BY Zenon, <1>0, <2>1 DEF RefusePost, sidecarVars, AllSynced
  <2>2. ASSUME NEW n \in 1..Len(disk), Reacknowledge(e, n)
        PROVE  UNCHANGED <<disk, synced, entry, rustAccepted>>
    BY Zenon, <2>2 DEF Reacknowledge, ledgerVars
  <2>3. CASE UNCHANGED <<disk, synced, entry, rustAccepted>>
    BY Zenon, <1>0, <2>3 DEF AllSynced
  <2>4. CASE AppendEvidence(e)
    <3>1. /\ disk' = Append(disk, e)
          /\ synced' = Len(disk) + 1
          /\ entry' \in {entry, "synced"}
          /\ entry = "absent" => entry' = "synced"
          /\ rustAccepted' = disk'
      BY Zenon, <2>4 DEF AppendEvidence, WholeAppend
    <3>. QED
      BY Zenon, <1>1, <2>0, <3>1 DEF AllSynced
  <2>5. CASE PowerLossInAppend(e)
    <3>1. /\ rustAccepted' = <<>>
          /\ entry' = "synced"
          /\ \/ disk' = disk /\ synced' = Len(disk)
             \/ disk' = Append(disk, e) /\ synced' = Len(disk) + 1
      BY Zenon, <2>5 DEF PowerLossInAppend, Stop
    <3>. QED
      BY Zenon, <1>0, <1>1, <2>0, <3>1 DEF AllSynced
  <2>6. ~AppendFails(e) /\ ~KillInAppend(e)
    BY Zenon DEF Orderly, AppendFails, KillInAppend
  <2>. QED
    BY Zenon, <1>2, <2>1, <2>2, <2>3, <2>4, <2>5, <2>6 DEF PostEvent
<1>3. CASE PowerLoss
  <2>1. /\ rustAccepted' = <<>>
        /\ \/ entry # "synced" /\ disk' = <<>> /\ synced' = 0 /\ entry' = "absent"
           \/ /\ entry' = "synced"
              /\ \E k \in synced..Len(disk) :
                   disk' = SubSeq(disk, 1, k) /\ synced' = k
    BY Zenon, <1>3 DEF PowerLoss
  <2>2. CASE entry # "synced" /\ disk' = <<>> /\ synced' = 0 /\ entry' = "absent"
    <3>1. disk = <<>> /\ Len(disk) = 0
      <4>1. entry \in {"absent", "unsynced", "synced"}
        BY Zenon DEF SidecarTypeOK
      <4>2. disk = <<>>
        BY Zenon, <2>2, <4>1 DEF AllSynced
      <4>. QED
        BY <4>2
    <3>. QED
      BY Zenon, <1>0, <2>1, <2>2, <3>1 DEF AllSynced
  <2>3. CASE entry' = "synced" /\ disk' = disk /\ synced' = Len(disk)
    BY Zenon, <1>0, <2>1, <2>3 DEF AllSynced
  <2>. QED
    BY Zenon, <1>0, <2>1, <2>2, <2>3
<1>4. CASE Start
  BY Zenon, <1>0, <1>4 DEF Start, ledgerVars, AllSynced
<1>5. CASE CreateCheckpoint \/ UNCHANGED sidecarVars
  BY Zenon, <1>0, <1>5 DEF CreateCheckpoint, ledgerVars, sidecarVars, AllSynced
<1>6. CASE Restart
  BY Zenon, <1>0, <1>6 DEF Restart, Stop, ledgerVars, AllSynced
<1>7. ~CheckpointFails /\ ~KillInCheckpoint
  BY Zenon DEF Orderly, CheckpointFails, KillInCheckpoint
<1>. QED
  BY Zenon, <1>2, <1>3, <1>4, <1>5, <1>6, <1>7 DEF SidecarNext

\* An orderly ledger has on the medium all that it accepted.
THEOREM AcceptedReachesMedium ==
    ASSUME Orderly
    PROVE  SidecarSpec => []AcceptedIsSynced
<1>1. SidecarInit => AllSynced
  BY DEF SidecarInit, AllSynced, IsPrefix
<1>2. SidecarTypeOK /\ AllSynced /\ [SidecarNext]_sidecarVars => AllSynced'
  BY Zenon, OrderlySteps
<1>3. AllSynced => AcceptedIsSynced
  BY DEF AllSynced, AcceptedIsSynced, IsPrefix
<1>. QED
  BY <1>1, <1>2, <1>3, SidecarTypes, PTL DEF SidecarSpec

\* And a loss of power takes nothing away that it acknowledged.
THEOREM AcksSurvivePowerLoss ==
    ASSUME Orderly
    PROVE  SidecarSpec => []AckedDurable
<1>1. SidecarInit => AllSynced /\ AckedDurable
  BY DEF SidecarInit, AllSynced, AckedDurable, IsPrefix
<1>2. SidecarTypeOK /\ AllSynced /\ AckedDurable /\ [SidecarNext]_sidecarVars
        => AllSynced' /\ AckedDurable'
  <2>. SUFFICES ASSUME SidecarTypeOK, AllSynced, AckedDurable,
                       [SidecarNext]_sidecarVars
                PROVE  AllSynced' /\ AckedDurable'
    OBVIOUS
  <2>1. AllSynced' /\ IsPrefix(disk, disk') /\ disk' \in Seq(Evidence)
    BY Zenon, OrderlySteps
  <2>2. ASSUME NEW c \in acked' PROVE IsPrefix(c, disk')
    <3>1. CASE c \in acked
      <4>1. /\ c \in Seq(Evidence)
            /\ disk \in Seq(Evidence)
            /\ IsPrefix(c, disk)
        BY Zenon, <3>1 DEF SidecarTypeOK, AckedDurable
      <4>. QED
        BY Zenon, <2>1, <4>1, PrefixTransitive
    <3>. QED
      BY Zenon, <2>2, <3>1, NewAcks
  <2>. QED
    BY Zenon, <2>1, <2>2 DEF AckedDurable
<1>. QED
  BY <1>1, <1>2, SidecarTypes, PTL DEF SidecarSpec

(***************************************************************************)
(* The ledger with what is built on it: theorems about Spec.               *)
(***************************************************************************)

----------------------------------------------------------------------------
\* Every step of the system is a step of the ledger, the handling of a
\* request by it, or leaves it alone.

LedgerStep ==
    \/ UNCHANGED sidecarVars
    \/ Start \/ Restart
    \/ \E e \in wire : PostEvent(e)

LEMMA DeliverIsLedgerStep == Deliver => LedgerStep
<1>. SUFFICES ASSUME NEW e \in wire, HandlePost(e) \/ NoServer(e)
              PROVE  LedgerStep
  BY Zenon DEF Deliver
<1>1. CASE HandlePost(e)
  BY Zenon, <1>1 DEF HandlePost, PostEvent, LedgerStep
<1>2. CASE NoServer(e)
  BY Zenon, <1>2 DEF NoServer, LedgerStep
<1>. QED
  BY <1>1, <1>2

LEMMA StepIsLedgerStep == [Next]_vars => LedgerStep
<1>. SUFFICES ASSUME [Next]_vars PROVE LedgerStep
  OBVIOUS
<1>1. CASE \E c \in Caller : ReadPrior(c) \/ Propose(c)
  BY Zenon, <1>1
  DEF ReadPrior, Propose, ProposeDuplicate, ProposeRejected, ProposeAdmitted,
      LedgerStep
<1>2. CASE Accept \/ RejectDurable \/ VerifyReplay \/ GoCrash \/ GoStart
  BY Zenon, <1>2
  DEF Accept, RejectDurable, VerifyReplay, GoCrash, GoStart, LedgerStep
<1>3. CASE RustLifecycle
  BY Zenon, <1>3 DEF RustLifecycle, LedgerStep
<1>4. CASE UNCHANGED vars
  BY Zenon, <1>4 DEF vars, sidecarVars, LedgerStep
<1>. QED
  BY Zenon, <1>1, <1>2, <1>3, <1>4, DeliverIsLedgerStep DEF Next

\* Such a step keeps the ledger's types, and the file is kept or grows.
LEMMA LedgerStepTypes ==
    ASSUME SidecarTypeOK, wire \in SUBSET Evidence, LedgerStep
    PROVE  SidecarTypeOK' /\ (disk' = disk \/ Grows)
<1>1. CASE UNCHANGED sidecarVars \/ Start \/ Restart
  <2>1. [SidecarNext]_sidecarVars
    BY Zenon, <1>1 DEF SidecarNext
  <2>2. disk' = disk
    BY Zenon, <1>1 DEF Start, Restart, ledgerVars, sidecarVars
  <2>. QED
    BY Zenon, <2>1, <2>2, SidecarStepTypes
<1>2. ASSUME NEW e \in wire, PostEvent(e)
      PROVE  SidecarTypeOK' /\ (disk' = disk \/ Grows)
  <2>1. e \in Evidence
    BY Zenon
  <2>. QED
    BY Zenon, <1>2, <2>1, PostTypes, PostGrows
<1>. QED
  BY Zenon, <1>1, <1>2 DEF LedgerStep

\* A record stays where it is when the file grows.
LEMMA RecordsStay ==
    ASSUME disk \in Seq(Evidence), disk' = disk \/ Grows,
           NEW n, NEW t, NEW b, RecordedAt(n, t, b)
    PROVE  RecordedAt(n, t, b)'
<1>1. CASE disk' = disk
  BY Zenon, <1>1 DEF RecordedAt
<1>2. ASSUME NEW e \in Evidence, disk' = Append(disk, e)
      PROVE  RecordedAt(n, t, b)'
  <2>1. /\ n \in 1..Len(disk)
        /\ disk[n].id = t
        /\ disk[n].body = b
    BY Zenon DEF RecordedAt
  <2>2. n \in 1..Len(disk') /\ disk'[n] = disk[n]
    BY <1>2, <2>1
  <2>. QED
    BY Zenon, <2>1, <2>2 DEF RecordedAt
<1>. QED
  BY Zenon, <1>1, <1>2 DEF Grows

----------------------------------------------------------------------------
\* Types.

LEMMA RequestTypes ==
    /\ Request = Body
    /\ Initial \in Projection
    /\ \A r \in Request : Apply(r.prior, r) \in Projection
<1>1. Initial \in Projection
  BY RoomAssumption, BoundAssumption DEF Initial, Projection
<1>2. ASSUME NEW r \in Request
      PROVE  Apply(r.prior, r) \in Projection
  <2>1. /\ r.prior.version \in 0..(MaxAttempts - 1)
        /\ r.prior.nodes \in [Node -> Data \cup {NoData}]
        /\ r.node \in Node
        /\ r.data \in Data
    BY DEF Request
  <2>2. r.prior.version + 1 \in 0..MaxAttempts
    BY <2>1, BoundAssumption, RoomAssumption
  <2>3. [r.prior.nodes EXCEPT ![r.node] = r.data]
          \in [Node -> Data \cup {NoData}]
    BY <2>1
  <2>. QED
    BY <2>2, <2>3 DEF Apply, Projection
<1>. QED
  BY <1>1, <1>2, BodyAssumption

LEMMA StateAfterTypes ==
    ASSUME disk \in Seq(Evidence), NEW n \in 0..Len(disk)
    PROVE  StateAfter(disk, n) \in Projection
<1>1. CASE n = 0
  BY Zenon, <1>1, RequestTypes DEF StateAfter
<1>2. CASE n # 0
  <2>1. disk[n] \in Evidence
    BY <1>2
  <2>2. disk[n].body \in Request
    BY <2>1, RequestTypes DEF Evidence
  <2>. QED
    BY Zenon, <1>2, <2>2, RequestTypes DEF StateAfter
<1>. QED
  BY <1>1, <1>2

\* The head of the history that Rebase takes.
LEMMA HeadTypes ==
    ASSUME disk \in Seq(Evidence)
    PROVE  Len(disk) \in Nat /\ HashAt(disk, Len(disk)) \in Nat
<1>1. CASE Len(disk) = 0
  BY <1>1 DEF HashAt
<1>2. CASE Len(disk) # 0
  <2>1. disk[Len(disk)] \in Evidence
    BY <1>2
  <2>2. disk[Len(disk)].created \in Nat
    BY <2>1 DEF Evidence
  <2>. QED
    BY <1>2, <2>2 DEF HashAt
<1>. QED
  BY <1>1, <1>2

\* A restart gives each recorded transition its own record.
LEMMA AcceptedFromFacts ==
    ASSUME disk \in Seq(Evidence), UniqueEvidence,
           \A n \in 1..Len(disk) : disk[n].id \in ID
    PROVE  /\ DOMAIN AcceptedFrom(disk) = {disk[n].id : n \in 1..Len(disk)}
           /\ \A n \in 1..Len(disk) :
                /\ AcceptedFrom(disk)[disk[n].id]
                     = [body |-> disk[n].body, seq |-> n]
                /\ AcceptedFrom(disk)[disk[n].id] \in Accepted
                /\ AcceptedFrom(disk)[disk[n].id].body = disk[n].body
                /\ AcceptedFrom(disk)[disk[n].id].seq = n
<1>1. DOMAIN AcceptedFrom(disk) = {disk[n].id : n \in 1..Len(disk)}
  BY Zenon DEF AcceptedFrom
<1>2. ASSUME NEW n \in 1..Len(disk)
      PROVE  /\ AcceptedFrom(disk)[disk[n].id]
                  = [body |-> disk[n].body, seq |-> n]
             /\ [body |-> disk[n].body, seq |-> n] \in Accepted
             /\ [body |-> disk[n].body, seq |-> n].body = disk[n].body
             /\ [body |-> disk[n].body, seq |-> n].seq = n
  <2>1. \A k \in 1..Len(disk) : disk[k].id = disk[n].id => k = n
    BY Zenon, NoIDAssumption DEF UniqueEvidence
  <2>2. (CHOOSE k \in 1..Len(disk) : disk[k].id = disk[n].id) = n
    BY Zenon, <2>1
  <2>3. AcceptedFrom(disk)[disk[n].id]
          = [body |-> disk[n].body, seq |-> n]
    BY Zenon, <2>2 DEF AcceptedFrom
  <2>4. disk[n] \in Evidence /\ n \in Nat
    OBVIOUS
  <2>5. disk[n].body \in Request
    BY <2>4, RequestTypes DEF Evidence
  <2>. QED
    BY <2>3, <2>4, <2>5 DEF Accepted
<1>. QED
  BY Zenon, <1>1, <1>2

----------------------------------------------------------------------------
\* The inductive invariant.

\* The type invariant of the Go side, Boolean variables apart.
GoFlags == goUp \in BOOLEAN /\ mirrorTorn \in BOOLEAN

LogValues ==
    /\ seq \in Nat
    /\ lastHash \in Nat
    /\ attempts \in 0..MaxAttempts
    /\ mirror \in Seq(Evidence \cup {Garbage})
    /\ inflight \in Evidence \cup {NoEvent}
    /\ reply \in Ack \cup {NoReply, Refused}
    /\ wire \in SUBSET Evidence

AuthorityValues ==
    /\ state \in Projection
    /\ DOMAIN accepted \subseteq ID
    /\ \A t \in DOMAIN accepted : accepted[t] \in Accepted
    /\ prior \in [Caller -> Projection \cup {NoPrior}]
    /\ promised \subseteq Promise

LEMMA AllTypeParts ==
    TypeOK <=> SidecarTypeOK /\ GoFlags /\ LogValues /\ AuthorityValues
BY Zenon DEF TypeOK, LogTypeOK, GoFlags, LogValues, AuthorityValues

LEMMA AllTypePartsPrimed ==
    TypeOK' <=> SidecarTypeOK' /\ GoFlags' /\ LogValues' /\ AuthorityValues'
BY Zenon DEF TypeOK, LogTypeOK, GoFlags, LogValues, AuthorityValues

\* Only transitions are posted and recorded: every id is one.
Named ==
    /\ \A n \in 1..Len(disk) : disk[n].id \in ID
    /\ \A e \in wire : e.id \in ID

\* While Append forwards an event the service's number is the event's, the
\* projection is the one it was admitted on, and its id is new.
Flight ==
    inflight # NoEvent =>
        /\ goUp
        /\ inflight.id \in ID
        /\ inflight.seq = seq
        /\ seq > 0
        /\ inflight.body.prior = state
        /\ inflight.id \notin DOMAIN accepted

\* An acknowledgement Go has received tells the truth: the ledger holds the
\* event's transition at that place.
ReplyTrue ==
    /\ reply # NoReply => inflight # NoEvent
    /\ reply \in Ack =>
         /\ reply.id = inflight.id
         /\ RecordedAt(reply.seq, inflight.id, inflight.body)

\* What the theorems rest on.
Inv ==
    /\ SidecarTypeOK /\ LogValues /\ AuthorityValues
    /\ UniqueEvidence
    /\ Named
    /\ Flight
    /\ ReplyTrue
    /\ AcceptedBound
    /\ PromisedDurable
    /\ PromisedVisible

----------------------------------------------------------------------------
\* The ledger's part of it, for every step.

LEMMA DiskGrowsFromWire ==
    ASSUME LedgerStep
    PROVE  disk' = disk \/ \E e \in wire : disk' = Append(disk, e)
<1>1. ASSUME NEW e \in wire, PostEvent(e)
      PROVE  disk' = disk \/ disk' = Append(disk, e)
  BY Zenon, <1>1
  DEF PostEvent, RefusePost, Reacknowledge, AppendEvidence, AppendFails,
      KillInAppend, PowerLossInAppend, WholeAppend, PartialAppend,
      ledgerVars, sidecarVars
<1>. QED
  BY Zenon, <1>1 DEF LedgerStep, Start, Restart, ledgerVars, sidecarVars

LEMMA LedgerPart ==
    ASSUME Inv, [Next]_vars
    PROVE  /\ SidecarTypeOK'
           /\ disk \in Seq(Evidence)
           /\ disk' \in Seq(Evidence)
           /\ disk' = disk \/ Grows
           /\ UniqueEvidence'
           /\ \A n \in 1..Len(disk') : disk'[n].id \in ID
<1>0. /\ SidecarTypeOK /\ wire \in SUBSET Evidence
      /\ disk \in Seq(Evidence)
      /\ UniqueEvidence
      /\ \A n \in 1..Len(disk) : disk[n].id \in ID
      /\ \A e \in wire : e.id \in ID
      /\ LedgerStep
  BY Zenon, StepIsLedgerStep DEF Inv, LogValues, Named, SidecarTypeOK
<1>1. SidecarTypeOK' /\ (disk' = disk \/ Grows)
  BY Zenon, <1>0, LedgerStepTypes
<1>2. disk' \in Seq(Evidence)
  BY Zenon, <1>1 DEF SidecarTypeOK
<1>3. UniqueEvidence'
  <2>1. CASE disk' = disk
    BY Zenon, <1>0, <2>1 DEF UniqueEvidence
  <2>. QED
    BY Zenon, <1>0, <1>1, <2>1, GrowsKeepsUnique
<1>4. \A n \in 1..Len(disk') : disk'[n].id \in ID
  <2>1. CASE disk' = disk
    BY Zenon, <1>0, <2>1
  <2>2. ASSUME NEW e \in wire, disk' = Append(disk, e)
        PROVE  \A n \in 1..Len(disk') : disk'[n].id \in ID
    <3>1. e \in Evidence /\ e.id \in ID
      BY Zenon, <1>0
    <3>2. \A n \in 1..Len(disk') : disk'[n] = e \/ (n \in 1..Len(disk) /\ disk'[n] = disk[n])
      BY <1>0, <2>2, <3>1
    <3>. QED
      BY Zenon, <1>0, <3>1, <3>2
  <2>. QED
    BY Zenon, <1>0, <2>1, <2>2, DiskGrowsFromWire
<1>. QED
  BY Zenon, <1>0, <1>1, <1>2, <1>3, <1>4

\* The bindings a step leaves alone stay true.
LEMMA BindingsStay ==
    ASSUME Inv, [Next]_vars
    PROVE  /\ accepted' = accepted => AcceptedBound'
           /\ promised' = promised => PromisedDurable'
           /\ reply' = reply /\ inflight' = inflight => ReplyTrue'
<1>1. \A n, t, b : RecordedAt(n, t, b) => RecordedAt(n, t, b)'
  BY Zenon, LedgerPart, RecordsStay
<1>2. accepted' = accepted => AcceptedBound'
  BY Zenon, <1>1 DEF Inv, AcceptedBound
<1>3. promised' = promised => PromisedDurable'
  BY Zenon, <1>1 DEF Inv, PromisedDurable
<1>4. reply' = reply /\ inflight' = inflight => ReplyTrue'
  BY Zenon, <1>1 DEF Inv, ReplyTrue
<1>. QED
  BY Zenon, <1>2, <1>3, <1>4

----------------------------------------------------------------------------
\* The rest of it, action by action.

\* The Go side of the invariant.
GoInv ==
    /\ LogValues /\ AuthorityValues
    /\ \A e \in wire : e.id \in ID
    /\ Flight
    /\ ReplyTrue
    /\ AcceptedBound
    /\ PromisedDurable
    /\ PromisedVisible

LEMMA ReadPriorKeeps ==
    ASSUME Inv, [Next]_vars, NEW c \in Caller, ReadPrior(c)
    PROVE  GoInv'
<1>1. /\ prior' = [prior EXCEPT ![c] = state]
      /\ UNCHANGED <<logVars, authorityVars, promised>>
  BY Zenon DEF ReadPrior
<1>2. UNCHANGED <<goUp, seq, lastHash, attempts, mirror, inflight, reply, wire,
                  state, accepted, promised>>
  BY Zenon, <1>1 DEF logVars, authorityVars
<1>3. LogValues'
  BY Zenon, <1>2 DEF Inv, LogValues
<1>4. AuthorityValues'
  BY <1>1, <1>2 DEF Inv, AuthorityValues
<1>5. /\ \A e \in wire' : e.id \in ID
      /\ Flight'
      /\ PromisedVisible'
  BY Zenon, <1>2 DEF Inv, Named, Flight, PromisedVisible
<1>. QED
  BY Zenon, <1>2, <1>3, <1>4, <1>5, BindingsStay DEF GoInv

LEMMA ProposeKeeps ==
    ASSUME Inv, [Next]_vars, NEW c \in Caller, Propose(c)
    PROVE  GoInv'
<1>0. PICK t \in ID, x \in Node, d \in Data :
        \/ ProposeDuplicate(c, t, x, d)
        \/ ProposeRejected(c, t, x, d)
        \/ ProposeAdmitted(c, t, x, d)
  BY Zenon DEF Propose
<1>1. /\ prior \in [Caller -> Projection \cup {NoPrior}]
      /\ prior' = [prior EXCEPT ![c] = NoPrior]
      /\ goUp
      /\ inflight = NoEvent
  BY Zenon, <1>0
  DEF ProposeDuplicate, ProposeRejected, ProposeAdmitted, Proposing, Free,
      Inv, AuthorityValues
<1>2. prior' \in [Caller -> Projection \cup {NoPrior}]
  BY <1>1
<1>3. CASE ProposeRejected(c, t, x, d)
  <2>1. UNCHANGED <<goUp, seq, lastHash, attempts, mirror, inflight, reply,
                    wire, state, accepted, promised>>
    BY Zenon, <1>3 DEF ProposeRejected, logVars, authorityVars
  <2>2. LogValues' /\ AuthorityValues'
    BY Zenon, <1>2, <2>1 DEF Inv, LogValues, AuthorityValues
  <2>3. /\ \A e \in wire' : e.id \in ID
        /\ Flight'
        /\ PromisedVisible'
    BY Zenon, <2>1 DEF Inv, Named, Flight, PromisedVisible
  <2>. QED
    BY Zenon, <2>1, <2>2, <2>3, BindingsStay DEF GoInv
<1>4. CASE ProposeDuplicate(c, t, x, d)
  <2>1. /\ UNCHANGED <<disk, goUp, seq, lastHash, attempts, mirror, inflight,
                       reply, wire, state, accepted>>
        /\ t \in DOMAIN accepted
        /\ promised' = promised \cup
             {[id |-> t, body |-> accepted[t].body, seq |-> accepted[t].seq]}
    BY Zenon, <1>4 DEF ProposeDuplicate, logVars, authorityVars, sidecarVars
  <2>2. accepted[t] \in Accepted
    BY Zenon, <2>1 DEF Inv, AuthorityValues
  <2>3. /\ accepted[t].body \in Body
        /\ accepted[t].seq \in Nat
        /\ accepted[t] = [body |-> accepted[t].body, seq |-> accepted[t].seq]
    BY <2>2, RequestTypes DEF Accepted
  <2>4. [id |-> t, body |-> accepted[t].body, seq |-> accepted[t].seq]
          \in Promise
    BY <2>3, RequestTypes DEF Promise
  <2>5. AuthorityValues'
    BY Zenon, <1>2, <2>1, <2>4 DEF Inv, AuthorityValues
  <2>6. LogValues' /\ (\A e \in wire' : e.id \in ID) /\ Flight'
    BY Zenon, <2>1 DEF Inv, Named, LogValues, Flight
  <2>7. RecordedAt(accepted[t].seq, t, accepted[t].body)
    BY Zenon, <2>1 DEF Inv, AcceptedBound
  <2>8. \A p \in promised' :
          \/ p \in promised
          \/ /\ p.id = t
             /\ p.body = accepted[t].body
             /\ p.seq = accepted[t].seq
    BY <2>1
  <2>9. PromisedDurable'
    BY Zenon, <2>1, <2>7, <2>8 DEF Inv, PromisedDurable, RecordedAt
  <2>10. PromisedVisible'
    BY Zenon, <1>1, <2>1, <2>3, <2>8 DEF Inv, PromisedVisible
  <2>. QED
    BY Zenon, <2>1, <2>5, <2>6, <2>9, <2>10, BindingsStay DEF GoInv
<1>5. CASE ProposeAdmitted(c, t, x, d)
  <2> DEFINE body == RequestOf(c, x, d)
             event == [ id |-> t, body |-> body, seq |-> seq + 1,
                        prev |-> lastHash, created |-> attempts + 1 ]
  <2>1. /\ attempts < MaxAttempts
        /\ attempts' = attempts + 1
        /\ seq' = seq + 1
        /\ inflight' = event
        /\ reply' = NoReply
        /\ wire' = wire \cup {event}
        /\ UNCHANGED <<goUp, lastHash, mirror, mirrorTorn, state, accepted,
                       promised>>
        /\ t \notin DOMAIN accepted
        /\ prior[c] = state
        /\ state.version < MaxAttempts
    BY Zenon, <1>5
    DEF ProposeAdmitted, BeginAppend, mirrorVars, authorityVars
  <2>2. /\ seq \in Nat /\ lastHash \in Nat /\ attempts \in 0..MaxAttempts
        /\ state \in Projection
    BY Zenon DEF Inv, LogValues, AuthorityValues
  <2>3. body \in Request /\ body.prior = state
    <3>1. /\ state.version \in 0..MaxAttempts
          /\ state.nodes \in [Node -> Data \cup {NoData}]
          /\ state = [version |-> state.version, nodes |-> state.nodes]
      BY <2>2 DEF Projection
    <3>2. state.version \in 0..(MaxAttempts - 1)
      BY <2>1, <3>1, BoundAssumption
    <3>3. state \in [version : 0..(MaxAttempts - 1),
                     nodes : [Node -> Data \cup {NoData}]]
      BY <3>1, <3>2
    <3>. QED
      BY <2>1, <3>3 DEF RequestOf, Request
  <2>4. /\ event \in Evidence
        /\ event.id = t
        /\ event.seq = seq + 1
        /\ event.body = body
    BY <2>2, <2>3, RequestTypes DEF Evidence
  <2>5. attempts + 1 \in 0..MaxAttempts /\ seq + 1 \in Nat /\ seq + 1 > 0
    BY <2>1, <2>2, BoundAssumption
  <2>6. LogValues'
    BY Zenon, <2>1, <2>4, <2>5 DEF Inv, LogValues
  <2>7. AuthorityValues'
    BY Zenon, <1>2, <2>1 DEF Inv, AuthorityValues
  <2>8. \A e \in wire' : e.id \in ID
    BY Zenon, <2>1, <2>4 DEF Inv, Named
  <2>9. Flight'
    BY Zenon, <1>1, <2>1, <2>3, <2>4, <2>5 DEF Flight
  <2>10. ReplyTrue'
    BY Zenon, <2>1, ReplyAssumption DEF ReplyTrue
  <2>11. PromisedVisible'
    BY Zenon, <2>1 DEF Inv, PromisedVisible
  <2>. QED
    BY Zenon, <2>1, <2>6, <2>7, <2>8, <2>9, <2>10, <2>11, BindingsStay
    DEF GoInv
<1>. QED
  BY Zenon, <1>0, <1>3, <1>4, <1>5


LEMMA AcceptKeeps ==
    ASSUME Inv, [Next]_vars, Accept
    PROVE  GoInv'
<1>1. /\ inflight # NoEvent
      /\ reply = [id |-> inflight.id, seq |-> inflight.seq]
      /\ mirror' = Append(mirror, MirrorLine)
      /\ lastHash' = inflight.created
      /\ inflight' = NoEvent
      /\ reply' = NoReply
      /\ state' = Apply(state, inflight.body)
      /\ accepted' = [ t \in DOMAIN accepted \cup {inflight.id} |->
                         IF t = inflight.id
                         THEN [body |-> inflight.body, seq |-> inflight.seq]
                         ELSE accepted[t] ]
      /\ promised' = promised \cup
           {[id |-> inflight.id, body |-> inflight.body, seq |-> inflight.seq]}
      /\ UNCHANGED <<disk, goUp, seq, attempts, wire, prior>>
  BY Zenon DEF Accept, MirrorEvent, AckAccepted, EndExchange, sidecarVars
<1>2. /\ inflight \in Evidence
      /\ mirror \in Seq(Evidence \cup {Garbage})
      /\ seq \in Nat /\ attempts \in 0..MaxAttempts /\ wire \in SUBSET Evidence
      /\ inflight.id \in ID
      /\ inflight.body.prior = state
      /\ inflight.id \notin DOMAIN accepted
      /\ goUp
  BY Zenon, <1>1 DEF Inv, LogValues, Flight
<1>3. /\ inflight.body \in Request
      /\ inflight.body \in Body
      /\ inflight.seq \in Nat
      /\ inflight.created \in Nat
  BY <1>2, RequestTypes DEF Evidence
<1>4. RecordedAt(inflight.seq, inflight.id, inflight.body)
  <2>1. reply \in Ack /\ reply.seq = inflight.seq
    BY <1>1, <1>2, <1>3 DEF Ack
  <2>. QED
    BY Zenon, <2>1 DEF Inv, ReplyTrue
<1> DEFINE record == [body |-> inflight.body, seq |-> inflight.seq]
           promise == [id |-> inflight.id, body |-> inflight.body,
                       seq |-> inflight.seq]
<1>5. /\ record \in Accepted
      /\ record.body = inflight.body /\ record.seq = inflight.seq
      /\ promise \in Promise
      /\ promise.id = inflight.id
      /\ promise.body = inflight.body
      /\ promise.seq = inflight.seq
  BY <1>2, <1>3, RequestTypes DEF Accepted, Promise
<1>6. /\ DOMAIN accepted' = DOMAIN accepted \cup {inflight.id}
      /\ accepted'[inflight.id] = record
      /\ \A t \in DOMAIN accepted : accepted'[t] = accepted[t]
  BY Zenon, <1>1, <1>2
<1>7. LogValues'
  <2>1. MirrorLine \in Evidence \cup {Garbage}
    BY Zenon, <1>2 DEF MirrorLine
  <2>2. Append(mirror, MirrorLine) \in Seq(Evidence \cup {Garbage})
    BY <1>2, <2>1
  <2>. QED
    BY Zenon, <1>1, <1>2, <1>3, <2>2 DEF LogValues
<1>8. AuthorityValues'
  <2>1. state' \in Projection
    BY Zenon, <1>1, <1>2, <1>3, RequestTypes
  <2>. QED
    BY Zenon, <1>1, <1>2, <1>5, <1>6, <2>1 DEF Inv, AuthorityValues
<1>9. (\A e \in wire' : e.id \in ID) /\ Flight' /\ ReplyTrue'
  BY Zenon, <1>1, ReplyAssumption DEF Inv, Named, Flight, ReplyTrue
<1>10. AcceptedBound'
  BY Zenon, <1>1, <1>4, <1>5, <1>6 DEF Inv, AcceptedBound, RecordedAt
<1>11. PromisedDurable'
  BY Zenon, <1>1, <1>4, <1>5 DEF Inv, PromisedDurable, RecordedAt
<1>12. PromisedVisible'
  BY Zenon, <1>1, <1>2, <1>5, <1>6 DEF Inv, PromisedVisible
<1>. QED
  BY Zenon, <1>7, <1>8, <1>9, <1>10, <1>11, <1>12 DEF GoInv

LEMMA RejectDurableKeeps ==
    ASSUME Inv, [Next]_vars, RejectDurable
    PROVE  GoInv'
<1>1. /\ inflight # NoEvent
      /\ seq' = seq - 1
      /\ inflight' = NoEvent
      /\ reply' = NoReply
      /\ wire' \in {wire, wire \ {inflight}}
      /\ UNCHANGED <<goUp, lastHash, attempts, mirror, state, accepted, prior,
                     promised>>
  BY Zenon
  DEF RejectDurable, RejectEvent, TimeoutEvent, MirrorFails, TakeBack,
      EndExchange, mirrorVars, authorityVars
<1>2. seq \in Nat /\ seq > 0
  BY Zenon, <1>1 DEF Inv, LogValues, Flight
<1>3. seq' \in Nat
  BY <1>1, <1>2
<1>4. LogValues' /\ AuthorityValues'
  BY Zenon, <1>1, <1>3 DEF Inv, LogValues, AuthorityValues
<1>5. /\ \A e \in wire' : e.id \in ID
      /\ Flight'
      /\ ReplyTrue'
      /\ PromisedVisible'
  BY Zenon, <1>1, ReplyAssumption
  DEF Inv, Named, Flight, ReplyTrue, PromisedVisible
<1>. QED
  BY Zenon, <1>1, <1>4, <1>5, BindingsStay DEF GoInv

\* The ledger's answers are true of the file it leaves.
LEMMA AnswersAreTrue ==
    ASSUME NEW e \in Evidence, disk \in Seq(Evidence)
    PROVE  /\ \A n \in 1..Len(disk) :
                Reacknowledge(e, n) => /\ RecordedAt(n, e.id, e.body)'
                                       /\ disk[n].id = e.id
           /\ \A n : AppendEvidence(e) /\ n = Len(disk) + 1 =>
                RecordedAt(n, e.id, e.body)'
<1>1. ASSUME NEW n \in 1..Len(disk), Reacknowledge(e, n)
      PROVE  RecordedAt(n, e.id, e.body)' /\ disk[n].id = e.id
  <2>1. disk' = disk /\ disk[n].id = e.id /\ disk[n].body = e.body
    BY Zenon, <1>1 DEF Reacknowledge, SameSemantic, ledgerVars
  <2>2. n \in 1..Len(disk')
    BY Zenon, <1>1, <2>1
  <2>. QED
    BY Zenon, <2>1, <2>2 DEF RecordedAt
<1>2. ASSUME NEW n, AppendEvidence(e), n = Len(disk) + 1
      PROVE  RecordedAt(n, e.id, e.body)'
  <2>1. disk' = Append(disk, e)
    BY Zenon, <1>2 DEF AppendEvidence, WholeAppend
  <2>2. n \in 1..Len(disk') /\ disk'[n] = e
    BY <1>2, <2>1
  <2>. QED
    BY Zenon, <2>2 DEF RecordedAt
<1>. QED
  BY Zenon, <1>1, <1>2

LEMMA DeliverKeeps ==
    ASSUME Inv, [Next]_vars, Deliver
    PROVE  GoInv'
<1>1. /\ UNCHANGED <<goUp, seq, lastHash, attempts, mirror, inflight, state,
                     accepted, prior, promised>>
      /\ \E e \in wire : wire' = wire \ {e}
  BY Zenon
  DEF Deliver, HandlePost, NoServer, serviceVars, mirrorVars, authorityVars
<1>2. PICK e \in wire : HandlePost(e) \/ NoServer(e)
  BY Zenon DEF Deliver
<1>3. /\ e \in Evidence
      /\ e.id \in ID
      /\ disk \in Seq(Evidence)
      /\ reply \in Ack \cup {NoReply, Refused}
  BY Zenon, LedgerPart DEF Inv, LogValues, Named
<1> DEFINE True(r) ==
      /\ r \in Ack
      /\ r.id = e.id
      /\ RecordedAt(r.seq, e.id, e.body)'
<1>4. PICK r : Answer(e, r) /\ (r = Refused \/ True(r))
  <2>1. ASSUME NEW n \in 1..Len(disk), Reacknowledge(e, n)
        PROVE  True([id |-> disk[n].id, seq |-> n])
    <3>1. RecordedAt(n, e.id, e.body)' /\ disk[n].id = e.id
      BY Zenon, <1>3, <2>1, AnswersAreTrue
    <3>2. n \in Nat
      BY <1>3
    <3>3. /\ [id |-> e.id, seq |-> n] \in Ack
          /\ [id |-> e.id, seq |-> n].id = e.id
          /\ [id |-> e.id, seq |-> n].seq = n
      BY <1>3, <3>2 DEF Ack
    <3>. QED
      BY Zenon, <3>1, <3>3
  <2>2. ASSUME NEW n, AppendEvidence(e), n = Len(disk) + 1
        PROVE  True([id |-> e.id, seq |-> n])
    <3>1. RecordedAt(n, e.id, e.body)'
      BY Zenon, <1>3, <2>2, AnswersAreTrue
    <3>2. n \in Nat
      BY <1>3, <2>2
    <3>3. /\ [id |-> e.id, seq |-> n] \in Ack
          /\ [id |-> e.id, seq |-> n].id = e.id
          /\ [id |-> e.id, seq |-> n].seq = n
      BY <1>3, <3>2 DEF Ack
    <3>. QED
      BY Zenon, <3>1, <3>3
  <2>. HIDE DEF True
  <2>. QED
    BY Zenon, <1>2, <2>1, <2>2 DEF HandlePost, NoServer
<1>5. reply' = IF e = inflight THEN r ELSE reply
  BY Zenon, <1>4 DEF Answer
<1>6. LogValues'
  BY Zenon, <1>1, <1>3, <1>4, <1>5 DEF Inv, LogValues
<1>7. AuthorityValues'
  BY Zenon, <1>1 DEF Inv, AuthorityValues
<1>8. /\ \A x \in wire' : x.id \in ID
      /\ Flight'
      /\ PromisedVisible'
  BY Zenon, <1>1 DEF Inv, Named, Flight, PromisedVisible
<1>9. ReplyTrue'
  <2>1. CASE e = inflight
    <3>1. inflight' = e /\ inflight' # NoEvent
      BY Zenon, <1>1, <1>3, <2>1, NoEventAssumption
    <3>2. reply' = r
      BY Zenon, <1>5, <2>1
    <3>. QED
      BY Zenon, <1>4, <3>1, <3>2, ReplyAssumption DEF ReplyTrue, RecordedAt
  <2>2. CASE e # inflight
    <3>1. reply' = reply /\ inflight' = inflight
      BY Zenon, <1>1, <1>5, <2>2
    <3>. QED
      BY Zenon, <3>1, BindingsStay
  <2>. QED
    BY Zenon, <2>1, <2>2
<1>. QED
  BY Zenon, <1>1, <1>6, <1>7, <1>8, <1>9, BindingsStay DEF GoInv

LEMMA VerifyReplayKeeps ==
    ASSUME Inv, [Next]_vars, VerifyReplay
    PROVE  GoInv'
<1>1. /\ inflight = NoEvent
      /\ seq' = Len(disk)
      /\ lastHash' = HashAt(disk, Len(disk))
      /\ UNCHANGED <<goUp, attempts, mirror, inflight, reply, wire, state,
                     accepted, prior, promised>>
  BY Zenon
  DEF VerifyReplay, Free, Rebase, mirrorVars, exchangeVars, authorityVars
<1>2. seq' \in Nat /\ lastHash' \in Nat
  BY Zenon, <1>1, LedgerPart, HeadTypes
<1>3. LogValues' /\ AuthorityValues'
  BY Zenon, <1>1, <1>2 DEF Inv, LogValues, AuthorityValues
<1>4. (\A e \in wire' : e.id \in ID) /\ Flight' /\ PromisedVisible'
  BY Zenon, <1>1 DEF Inv, Named, Flight, PromisedVisible
<1>. QED
  BY Zenon, <1>1, <1>3, <1>4, BindingsStay DEF GoInv

LEMMA GoCrashKeeps ==
    ASSUME Inv, [Next]_vars, GoCrash
    PROVE  GoInv'
<1>1. /\ goUp' = FALSE
      /\ seq' = 0 /\ lastHash' = 0
      /\ inflight' = NoEvent /\ reply' = NoReply
      /\ wire' \in {wire, {}}
      /\ state' = Initial
      /\ accepted' = <<>>
      /\ prior' = [c \in Caller |-> NoPrior]
      /\ UNCHANGED <<attempts, mirror, promised>>
  BY Zenon DEF GoCrash, LogStops, EndExchange
<1>2. /\ DOMAIN accepted' = {}
      /\ prior' \in [Caller -> Projection \cup {NoPrior}]
      /\ seq' \in Nat /\ lastHash' \in Nat
  BY <1>1
<1>3. LogValues' /\ AuthorityValues'
  BY Zenon, <1>1, <1>2, RequestTypes DEF Inv, LogValues, AuthorityValues
<1>4. /\ \A e \in wire' : e.id \in ID
      /\ Flight' /\ ReplyTrue' /\ AcceptedBound'
  BY Zenon, <1>1, <1>2, ReplyAssumption
  DEF Inv, Named, Flight, ReplyTrue, AcceptedBound
<1>5. ~goUp'
  BY Zenon, <1>1
<1>6. PromisedVisible'
  BY Zenon, <1>5 DEF PromisedVisible
<1>. QED
  BY Zenon, <1>1, <1>3, <1>4, <1>6, BindingsStay DEF GoInv

LEMMA GoStartKeeps ==
    ASSUME Inv, [Next]_vars, GoStart
    PROVE  GoInv'
<1>1. /\ ~goUp
      /\ seq' = Len(disk)
      /\ lastHash' = HashAt(disk, Len(disk))
      /\ state' = StateAfter(disk, Len(disk))
      /\ accepted' = AcceptedFrom(disk)
      /\ UNCHANGED <<disk, attempts, mirror, inflight, reply, wire, prior,
                     promised>>
  BY Zenon
  DEF GoStart, Rebase, mirrorVars, exchangeVars, sidecarVars
<1>2. inflight = NoEvent
  BY Zenon, <1>1 DEF Inv, Flight
<1>3. /\ disk \in Seq(Evidence)
      /\ UniqueEvidence
      /\ \A n \in 1..Len(disk) : disk[n].id \in ID
  BY Zenon, LedgerPart DEF Inv, Named
<1>4. /\ seq' \in Nat /\ lastHash' \in Nat
      /\ state' \in Projection
  <2>1. Len(disk) \in 0..Len(disk)
    BY <1>3
  <2>. QED
    BY Zenon, <1>1, <1>3, <2>1, HeadTypes, StateAfterTypes
<1>5. /\ DOMAIN accepted' = {disk[n].id : n \in 1..Len(disk)}
      /\ \A n \in 1..Len(disk) :
           /\ accepted'[disk[n].id] = [body |-> disk[n].body, seq |-> n]
           /\ accepted'[disk[n].id] \in Accepted
           /\ accepted'[disk[n].id].body = disk[n].body
           /\ accepted'[disk[n].id].seq = n
  BY Zenon, <1>1, <1>3, AcceptedFromFacts
<1>6. ASSUME NEW t \in DOMAIN accepted'
      PROVE  \E n \in 1..Len(disk) :
               /\ t = disk[n].id
               /\ accepted'[t] \in Accepted
               /\ accepted'[t].body = disk[n].body
               /\ accepted'[t].seq = n
  <2>1. PICK n \in 1..Len(disk) : t = disk[n].id
    BY <1>5, <1>6
  <2>2. /\ accepted'[disk[n].id] \in Accepted
        /\ accepted'[disk[n].id].body = disk[n].body
        /\ accepted'[disk[n].id].seq = n
    BY Zenon, <1>5
  <2>. QED
    BY Zenon, <2>1, <2>2
<1>7. LogValues'
  <2>1. LogValues
    BY Zenon DEF Inv
  <2>. QED
    BY Zenon, <1>1, <1>4, <2>1 DEF LogValues
<1>8. AuthorityValues'
  <2>1. DOMAIN accepted' \subseteq ID
    BY Zenon, <1>3, <1>6
  <2>2. \A t \in DOMAIN accepted' : accepted'[t] \in Accepted
    BY Zenon, <1>6
  <2>. QED
    BY Zenon, <1>1, <1>4, <2>1, <2>2 DEF Inv, AuthorityValues
<1>9. (\A e \in wire' : e.id \in ID) /\ Flight'
  BY Zenon, <1>1, <1>2 DEF Inv, Named, Flight
<1>10. AcceptedBound'
  <2>1. ASSUME NEW t \in DOMAIN accepted'
        PROVE  RecordedAt(accepted[t].seq, t, accepted[t].body)'
    <3>1. PICK n \in 1..Len(disk) :
            /\ t = disk[n].id
            /\ accepted'[t].body = disk[n].body
            /\ accepted'[t].seq = n
      BY Zenon, <1>6, <2>1
    <3>. QED
      BY Zenon, <1>1, <3>1 DEF RecordedAt
  <2>. QED
    BY Zenon, <2>1 DEF AcceptedBound
<1>11. PromisedVisible'
  <2>1. ASSUME NEW p \in promised
        PROVE  /\ p.id \in DOMAIN accepted'
               /\ accepted'[p.id] = [body |-> p.body, seq |-> p.seq]
    <3>1. /\ p.seq \in 1..Len(disk)
          /\ disk[p.seq].id = p.id
          /\ disk[p.seq].body = p.body
      BY Zenon, <2>1 DEF Inv, PromisedDurable, RecordedAt
    <3>2. /\ disk[p.seq].id \in DOMAIN accepted'
          /\ accepted'[disk[p.seq].id]
               = [body |-> disk[p.seq].body, seq |-> p.seq]
      BY Zenon, <1>5, <3>1
    <3>. QED
      BY Zenon, <3>1, <3>2
  <2>. QED
    BY Zenon, <1>1, <2>1 DEF PromisedVisible
<1>. QED
  BY Zenon, <1>1, <1>7, <1>8, <1>9, <1>10, <1>11, BindingsStay DEF GoInv

\* The ledger's own steps, and steps that change nothing.
LEMMA OthersKeep ==
    ASSUME Inv, [Next]_vars, RustLifecycle \/ UNCHANGED vars
    PROVE  GoInv'
<1>1. UNCHANGED <<goUp, seq, lastHash, attempts, mirror, inflight, reply,
                  wire, state, accepted, prior, promised>>
  BY Zenon DEF RustLifecycle, logVars, authorityVars, vars
<1>2. LogValues' /\ AuthorityValues'
  BY Zenon, <1>1 DEF Inv, LogValues, AuthorityValues
<1>3. (\A e \in wire' : e.id \in ID) /\ Flight' /\ PromisedVisible'
  BY Zenon, <1>1 DEF Inv, Named, Flight, PromisedVisible
<1>. QED
  BY Zenon, <1>1, <1>2, <1>3, BindingsStay DEF GoInv

----------------------------------------------------------------------------
\* The invariant.

LEMMA InvInit == Init => Inv
<1>. SUFFICES ASSUME Init PROVE Inv
  OBVIOUS
<1>1. /\ disk = <<>> /\ seq = 0 /\ lastHash = 0 /\ attempts = 0
      /\ mirror = <<>>
      /\ inflight = NoEvent /\ reply = NoReply /\ wire = {}
      /\ state = Initial /\ accepted = <<>>
      /\ prior = [c \in Caller |-> NoPrior]
      /\ promised = {}
      /\ ~goUp
  BY Zenon DEF Init, SidecarInit, LogInit
<1>2. SidecarTypeOK
  BY Zenon, SidecarInitTypes DEF Init
<1>3. LogValues
  BY <1>1, BoundAssumption DEF LogValues
<1>4. DOMAIN accepted = {}
  BY <1>1
<1>5. prior \in [Caller -> Projection \cup {NoPrior}]
  BY <1>1
<1>6. AuthorityValues
  BY Zenon, <1>1, <1>4, <1>5, RequestTypes DEF AuthorityValues
<1>7. 1..Len(disk) = {}
  BY <1>1
<1>. QED
  BY Zenon, <1>1, <1>2, <1>3, <1>4, <1>6, <1>7, ReplyAssumption
  DEF Inv, UniqueEvidence, Named, Flight, ReplyTrue, AcceptedBound,
      PromisedDurable, PromisedVisible

LEMMA InvNext == Inv /\ [Next]_vars => Inv'
<1>. SUFFICES ASSUME Inv, [Next]_vars PROVE Inv'
  OBVIOUS
<1>1. GoInv'
  BY Zenon, ReadPriorKeeps, ProposeKeeps, AcceptKeeps, RejectDurableKeeps,
     DeliverKeeps, VerifyReplayKeeps, GoCrashKeeps, GoStartKeeps, OthersKeep
  DEF Next
<1>. QED
  BY Zenon, <1>1, LedgerPart DEF GoInv, Inv, Named

LEMMA InvAlways == Spec => []Inv
<1>. QED
  BY InvInit, InvNext, PTL DEF Spec

----------------------------------------------------------------------------
\* The theorems.

\* The Boolean variables of the Go side.
LEMMA FlagsNext == GoFlags /\ [Next]_vars => GoFlags'
<1>. SUFFICES ASSUME GoFlags, [Next]_vars PROVE GoFlags'
  OBVIOUS
<1>1. CASE \E c \in Caller : ReadPrior(c) \/ Propose(c)
  <2>1. UNCHANGED <<goUp, mirrorVars>>
    <3>1. ASSUME NEW c \in Caller, ReadPrior(c)
          PROVE  UNCHANGED <<goUp, mirrorVars>>
      BY Zenon, <3>1 DEF ReadPrior, logVars, mirrorVars
    <3>2. ASSUME NEW c \in Caller, NEW t \in ID, NEW x \in Node, NEW d \in Data,
                 \/ ProposeDuplicate(c, t, x, d)
                 \/ ProposeRejected(c, t, x, d)
          PROVE  UNCHANGED <<goUp, mirrorVars>>
      BY Zenon, <3>2 DEF ProposeDuplicate, ProposeRejected, logVars, mirrorVars
    <3>3. ASSUME NEW c \in Caller, NEW t \in ID, NEW x \in Node, NEW d \in Data,
                 ProposeAdmitted(c, t, x, d)
          PROVE  UNCHANGED <<goUp, mirrorVars>>
      BY Zenon, <3>3 DEF ProposeAdmitted, BeginAppend
    <3>. QED
      BY Zenon, <1>1, <3>1, <3>2, <3>3 DEF Propose
  <2>. QED
    BY Zenon, <2>1 DEF GoFlags, mirrorVars
<1>2. CASE Accept
  BY Zenon, <1>2 DEF GoFlags, Accept, MirrorEvent
<1>3. CASE RejectDurable
  BY Zenon, <1>3
  DEF GoFlags, RejectDurable, RejectEvent, TimeoutEvent, MirrorFails,
      mirrorVars
<1>4. CASE Deliver
  BY Zenon, <1>4 DEF GoFlags, Deliver, HandlePost, NoServer, mirrorVars
<1>5. CASE GoCrash
  BY Zenon, <1>5 DEF GoFlags, GoCrash, LogStops
<1>6. CASE VerifyReplay \/ GoStart
  BY Zenon, <1>6 DEF GoFlags, VerifyReplay, GoStart, mirrorVars
<1>7. CASE RustLifecycle \/ UNCHANGED vars
  BY Zenon, <1>7 DEF GoFlags, RustLifecycle, logVars, vars
<1>. QED
  BY Zenon, <1>1, <1>2, <1>3, <1>4, <1>5, <1>6, <1>7 DEF Next

\* Type correctness of the authority, the log and the ledger together.
THEOREM AuthorityTypes == Spec => []TypeOK
<1>1. Init => GoFlags
  BY Zenon DEF Init, LogInit, GoFlags
<1>2. Inv /\ GoFlags => TypeOK
  BY Zenon, AllTypeParts DEF Inv
<1>. QED
  BY <1>1, <1>2, InvAlways, FlagsNext, PTL DEF Spec

\* Every transition the authority holds as accepted is a record of the Rust
\* ledger at the sequence it is bound to, under every fault: an answer the
\* ledger gave to a lost, late or retried request cannot bind a transition
\* to a record that is not there.
THEOREM AcceptedStaysBound == Spec => []AcceptedBound
<1>1. Inv => AcceptedBound
  BY Zenon DEF Inv
<1>. QED
  BY <1>1, InvAlways, PTL

\* What a caller was told is accepted stays a record of the ledger.
THEOREM PromisesAreDurable == Spec => []PromisedDurable
<1>1. Inv => PromisedDurable
  BY Zenon DEF Inv
<1>. QED
  BY <1>1, InvAlways, PTL

\* A running server, restarted or not, holds every transition a caller was
\* ever told is accepted.
THEOREM PromisesAreVisible == Spec => []PromisedVisible
<1>1. Inv => PromisedVisible
  BY Zenon DEF Inv
<1>. QED
  BY <1>1, InvAlways, PTL

----------------------------------------------------------------------------
\* The system implements AcceptedHistory.

\* A step that writes to the ledger records one new transition.
LEMMA RecordsNewTransition ==
    ASSUME Inv, [Next]_vars
    PROVE  \/ disk' = disk
           \/ /\ promised' = promised
              /\ \E e \in wire :
                   /\ disk' = Append(disk, e)
                   /\ \A n \in 1..Len(disk) : disk[n].id # e.id
<1>1. CASE Deliver
  <2>1. ASSUME NEW e \in wire, HandlePost(e)
        PROVE  disk' = disk \/ (disk' = Append(disk, e) /\ Matching(e) = {})
    BY Zenon, <2>1
    DEF HandlePost, RefusePost, Reacknowledge, AppendEvidence, AppendFails,
        KillInAppend, WholeAppend, PartialAppend, Appendable, ledgerVars,
        sidecarVars
  <2>2. ASSUME NEW e \in wire, NoServer(e)
        PROVE  disk' = disk
    BY Zenon, <2>2 DEF NoServer, sidecarVars
  <2>3. ASSUME NEW e \in wire, Matching(e) = {}
        PROVE  \A n \in 1..Len(disk) : disk[n].id # e.id
    <3>1. e.id # NoID
      BY Zenon, NoIDAssumption DEF Inv, Named
    <3>. QED
      BY Zenon, <2>3, <3>1 DEF Matching
  <2>4. promised' = promised
    BY Zenon, <1>1 DEF Deliver
  <2>. QED
    BY Zenon, <1>1, <2>1, <2>2, <2>3, <2>4 DEF Deliver
<1>2. CASE RustLifecycle \/ UNCHANGED vars
  BY Zenon, <1>2 DEF RustLifecycle, Start, Restart, ledgerVars, vars
<1>3. CASE \E c \in Caller : ReadPrior(c) \/ Propose(c)
  BY SMTT(60), <1>3
  DEF ReadPrior, Propose, ProposeDuplicate, ProposeRejected, ProposeAdmitted,
      sidecarVars
<1>4. CASE Accept \/ RejectDurable \/ VerifyReplay \/ GoCrash \/ GoStart
  BY Zenon, <1>4
  DEF Accept, RejectDurable, VerifyReplay, GoCrash, GoStart, sidecarVars
<1>. QED
  BY Zenon, <1>1, <1>2, <1>3, <1>4 DEF Next

\* A step that tells a caller tells of a recorded transition.
LEMMA TellsRecorded ==
    ASSUME Inv, [Next]_vars
    PROVE  \/ promised' = promised
           \/ \E n \in 1..Len(disk) :
                promised' = promised \cup
                  {[id |-> disk[n].id, body |-> disk[n].body, seq |-> n]}
<1>1. ASSUME NEW c \in Caller, NEW t \in ID, NEW x \in Node, NEW d \in Data,
             ProposeDuplicate(c, t, x, d)
      PROVE  \E n \in 1..Len(disk) :
               promised' = promised \cup
                 {[id |-> disk[n].id, body |-> disk[n].body, seq |-> n]}
  <2>1. /\ t \in DOMAIN accepted
        /\ promised' = promised \cup
             {[id |-> t, body |-> accepted[t].body, seq |-> accepted[t].seq]}
    BY Zenon, <1>1 DEF ProposeDuplicate
  <2>2. RecordedAt(accepted[t].seq, t, accepted[t].body)
    BY Zenon, <2>1 DEF Inv, AcceptedBound
  <2>. QED
    BY Zenon, <2>1, <2>2 DEF RecordedAt
<1>2. ASSUME Accept
      PROVE  \E n \in 1..Len(disk) :
               promised' = promised \cup
                 {[id |-> disk[n].id, body |-> disk[n].body, seq |-> n]}
  <2>1. /\ inflight # NoEvent
        /\ reply = [id |-> inflight.id, seq |-> inflight.seq]
        /\ promised' = promised \cup
             {[id |-> inflight.id, body |-> inflight.body,
               seq |-> inflight.seq]}
    BY Zenon, <1>2 DEF Accept, MirrorEvent, AckAccepted
  <2>2. inflight \in Evidence
    BY Zenon, <2>1 DEF Inv, LogValues
  <2>3. reply \in Ack /\ reply.seq = inflight.seq
    BY <2>1, <2>2 DEF Evidence, Ack
  <2>4. RecordedAt(inflight.seq, inflight.id, inflight.body)
    BY Zenon, <2>3 DEF Inv, ReplyTrue
  <2>. QED
    BY Zenon, <2>1, <2>4 DEF RecordedAt
<1>3. CASE \E c \in Caller : ReadPrior(c) \/ Propose(c)
  BY Zenon, <1>1, <1>3 DEF ReadPrior, Propose, ProposeRejected, ProposeAdmitted
<1>4. CASE \/ RejectDurable \/ Deliver \/ VerifyReplay \/ GoCrash \/ GoStart
           \/ RustLifecycle \/ UNCHANGED vars
  BY Zenon, <1>4
  DEF RejectDurable, Deliver, VerifyReplay, GoCrash, GoStart, RustLifecycle,
      vars
<1>. QED
  BY Zenon, <1>2, <1>3, <1>4 DEF Next

LEMMA HistoryTypes ==
    ASSUME disk \in Seq(Evidence)
    PROVE  /\ Len(History) = Len(disk)
           /\ \A n \in 1..Len(disk) :
                /\ History[n].id = disk[n].id
                /\ History[n].body = disk[n].body
<1>1. Len(disk) \in Nat
  OBVIOUS
<1>2. DOMAIN History = 1..Len(disk)
  BY Zenon DEF History
<1>3. Len(History) = Len(disk)
  BY <1>1, <1>2
<1>. QED
  BY <1>3 DEF History

LEMMA InitRefines == Init => Abstract!Init
<1>1. SUFFICES ASSUME Init PROVE Abstract!Init
  OBVIOUS
<1>2. disk = <<>> /\ promised = {}
  BY Zenon, <1>1 DEF Init, SidecarInit
<1>3. History = <<>>
  BY <1>2 DEF History
<1>. QED
  BY Zenon, <1>2, <1>3 DEF Abstract!Init

LEMMA StepRefines == Inv /\ [Next]_vars => [Abstract!Next]_(Abstract!vars)
<1>. SUFFICES ASSUME Inv, [Next]_vars
              PROVE  [Abstract!Next]_(Abstract!vars)
  OBVIOUS
<1>1. disk \in Seq(Evidence) /\ disk' \in Seq(Evidence)
  BY Zenon, LedgerPart
<1>2. CASE disk' = disk
  <2>1. History' = History
    BY Zenon, <1>2 DEF History
  <2>2. CASE promised' = promised
    BY Zenon, <2>1, <2>2 DEF Abstract!vars
  <2>3. ASSUME NEW n \in 1..Len(disk),
               promised' = promised \cup
                 {[id |-> disk[n].id, body |-> disk[n].body, seq |-> n]}
        PROVE  Abstract!Tell
    BY Zenon, <1>1, <2>1, <2>3, HistoryTypes DEF Abstract!Tell
  <2>. QED
    BY Zenon, <2>2, <2>3, TellsRecorded DEF Abstract!Next
<1>3. ASSUME NEW e \in wire, disk' = Append(disk, e), promised' = promised,
             \A n \in 1..Len(disk) : disk[n].id # e.id
      PROVE  Abstract!Record
  <2> DEFINE new == [id |-> e.id, body |-> e.body]
  <2>1. e \in Evidence /\ e.id \in ID
    BY Zenon DEF Inv, LogValues, Named
  <2>2. new \in Abstract!Transition /\ new.id = e.id
    BY <2>1 DEF Evidence, Abstract!Transition
  <2>3. History' = Append(History, new)
    <3>1. Len(disk') = Len(disk) + 1 /\ Len(disk) \in Nat
      BY <1>1, <1>3, <2>1
    <3>2. \A n \in 1..Len(disk') :
            disk'[n] = IF n = Len(disk) + 1 THEN e ELSE disk[n]
      BY <1>1, <1>3, <2>1
    <3>3. History' = [n \in 1..(Len(disk) + 1) |->
                        [id |-> disk'[n].id, body |-> disk'[n].body]]
      BY Zenon, <3>1 DEF History
    <3>4. \A n \in 1..(Len(disk) + 1) :
            [id |-> disk'[n].id, body |-> disk'[n].body]
              = IF n = Len(disk) + 1 THEN new ELSE History[n]
      BY <3>1, <3>2 DEF History
    <3>5. Append(History, new)
            = [n \in 1..(Len(disk) + 1) |->
                 IF n = Len(disk) + 1 THEN new ELSE History[n]]
      BY <1>1, <3>1, HistoryTypes
    <3>. QED
      BY Zenon, <3>3, <3>4, <3>5
  <2>4. \A n \in 1..Len(History) : History[n].id # new.id
    BY Zenon, <1>1, <1>3, <2>2, HistoryTypes
  <2>. QED
    BY Zenon, <1>3, <2>2, <2>3, <2>4 DEF Abstract!Record
<1>. QED
  BY Zenon, <1>2, <1>3, RecordsNewTransition DEF Abstract!Next

\* The authority, the log and the ledger, with every fault, implement one
\* durable history of accepted transitions that only grows, with each id in
\* it once, of which callers are told at the place it keeps.
THEOREM AuthorityImplementsHistory == Spec => ImplementsAcceptedHistory
<1>. QED
  BY InitRefines, StepRefines, InvAlways, PTL
  DEF Spec, ImplementsAcceptedHistory, Abstract!Spec

============================================================================
