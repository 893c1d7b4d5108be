------------------------------- MODULE Scoring -------------------------------
(***************************************************************************)
(* internal/scoring/scorer.go: what a file node scores for a query.  The   *)
(* tokens are counted elsewhere; counts has the number of distinct query   *)
(* tokens in the content, in the path and in the metadata.                 *)
(*                                                                         *)
(* The code computes in float64.  Its constants are 1, 0.5, 0.25, 0.85 and *)
(* 1, so a score is a whole number of quarters, and an activation a whole  *)
(* number of eightieths: 1.0 is 80.                                        *)
(***************************************************************************)
EXTENDS Naturals

Counts == [primary : Nat, secondary : Nat, meta : Nat]

Capped(n, cap) == IF n > cap THEN cap ELSE n

\* SemanticScore, in halves: content and path, never metadata.
Semantic(c) == Capped(2 * Capped(c.primary, 4) + Capped(c.secondary, 8), 16)

\* RawScore, in quarters.
Raw(c) == Capped(2 * Semantic(c) + Capped(c.meta, 16), 48)

\* StructuralRelevance, in twentieths.
Structural(c) == IF c.secondary > 0 THEN 20 ELSE 17

\* SourceConfidence, in halves, of a node's and a packet's content hash:
\* no hash at all, something that is none, or two that differ.
Valid(hash) == hash \notin {"", "malformed"}

Confidence(node, packet) ==
    IF \/ ~ Valid(node) /\ ~ Valid(packet)
            /\ (node = "malformed" \/ (node = "" /\ packet = ""))
       \/ Valid(node) /\ Valid(packet) /\ node # packet
    THEN 1 ELSE 2

\* ActivationScore, in eightieths.  Proximity and coverage are 1.
Activation(c, confidence) == Semantic(c) * Structural(c) * confidence
============================================================================
