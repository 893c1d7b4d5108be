--------------------------- MODULE MCContextGraph ---------------------------
(***************************************************************************)
(* Instances of ContextGraph for TLC: a tree of two directories, an order  *)
(* of the sources, a page with a link, and what a query matches.           *)
(***************************************************************************)
EXTENDS ContextGraph, TLC

CONSTANTS w1, w2, f1, f2, d1, d2, b1, b2

\* f1 is in d1; f2 in d2, which is in d1.
MCParent == [x \in {f1, f2, d1, d2} |->
               CASE x = f1 -> d1 [] x = f2 -> d2 [] x = d2 -> d1 [] x = d1 -> Root]

\* f1 is a page; both of its contents have the same link.
MCLinks ==
    [s \in [ws : Workspace, file : File, bytes : Bytes] |->
       IF s.file = f1 THEN Link ELSE {}]

\* An order in which neither the files nor the contents decide.
Pairs == << <<f2, b2>>, <<f1, b1>>, <<f1, b2>>, <<f2, b1>> >>
MCRank ==
    LET ws == SetToSeq(Workspace)
        place(s) == CHOOSE i \in 1..4 : Pairs[i] = <<s.file, s.bytes>>
        number(w) == CHOOSE i \in DOMAIN ws : ws[i] = w
    IN  [s \in [ws : Workspace, file : File, bytes : Bytes] |->
           place(s) + 4 * number(s.ws)]

\* Two archives of one workspace, with the same files, and one of another.
Member(w, f, b) == [ws |-> w, file |-> f, bytes |-> b]
MCArchive == { {Member(w1, f1, b1), Member(w1, f2, b1)},
               {Member(w1, f1, b2), Member(w1, f2, b2)},
               {Member(w2, f1, b1)} }

\* The content b1 has two of the query's tokens, b2 none; f2's path has one,
\* and every file's metadata has more than anything else.
MCMatches ==
    [q \in Query |->
       [s \in [ws : Workspace, file : File, bytes : Bytes] |->
          [primary |-> IF s.bytes = b1 THEN 2 ELSE 0,
           secondary |-> IF s.file = f2 THEN 3 ELSE 0,
           meta |-> 20]]]

Symmetry == Permutations(Handler)
============================================================================
