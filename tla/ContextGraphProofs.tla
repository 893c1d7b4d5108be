------------------------- MODULE ContextGraphProofs -------------------------
(***************************************************************************)
(* Proofs about Scoring and ContextGraph: what scores are for any number   *)
(* of matches; that a graph is one for any set of packets, and holds only  *)
(* what was accepted; that requests build what replay builds; and that a   *)
(* query selects the best of what it has read.                             *)
(***************************************************************************)
EXTENDS ContextGraph, FiniteSetTheorems, FunctionTheorems, SequenceTheorems,
        WellFoundedInduction, TLAPS

\* c has at least the matches d has.
AtLeast(c, d) ==
    /\ c.primary >= d.primary /\ c.secondary >= d.secondary
    /\ c.meta >= d.meta

\* The caps on the sums never cut anything: those on the counts suffice.
LEMMA SemanticSum ==
    ASSUME NEW c \in Counts
    PROVE  /\ Semantic(c) = 2 * Capped(c.primary, 4) + Capped(c.secondary, 8)
           /\ Semantic(c) \in 0..16
BY DEF Semantic, Capped, Counts

LEMMA RawSum ==
    ASSUME NEW c \in Counts
    PROVE  /\ Raw(c) = 2 * Semantic(c) + Capped(c.meta, 16)
           /\ Raw(c) \in 0..48
<1>1. Semantic(c) \in 0..16
  BY SemanticSum
<1>2. Capped(c.meta, 16) \in 0..16
  BY DEF Capped, Counts
<1> QED
  BY <1>1, <1>2 DEF Raw, Capped

LEMMA ConfidenceRange ==
    ASSUME NEW n, NEW p
    PROVE  Confidence(n, p) \in {1, 2}
BY DEF Confidence

\* An activation is at most 8.0, whatever a file or a query contains: the
\* confidence an actor reports, activation / 12, stays below 1.
THEOREM ActivationBounded ==
    ASSUME NEW c \in Counts, NEW n, NEW p
    PROVE  Activation(c, Confidence(n, p)) \in 0..640
<1> DEFINE s == Semantic(c)
           t == Structural(c)
           f == Confidence(n, p)
<1>1. s \in 0..16
  BY SemanticSum
<1>2. t \in {17, 20}
  BY DEF Structural
<1>3. f \in {1, 2}
  BY ConfidenceRange
<1> HIDE DEF s, t, f
<1>4. s * t * f \in 0..640
  <2>1. CASE t = 17 /\ f = 1
    BY <1>1, <2>1
  <2>2. CASE t = 17 /\ f = 2
    BY <1>1, <2>2
  <2>3. CASE t = 20 /\ f = 1
    BY <1>1, <2>3
  <2>4. CASE t = 20 /\ f = 2
    BY <1>1, <2>4
  <2> QED
    BY <1>2, <1>3, <2>1, <2>2, <2>3, <2>4
<1> QED
  BY <1>4 DEF Activation, s, t, f

\* A match in the metadata alone activates nothing: the score is 0, below any
\* threshold a configuration can have by default.
THEOREM MetadataNeverActivates ==
    ASSUME NEW c \in Counts, c.primary = 0, c.secondary = 0, NEW n, NEW p
    PROVE  Activation(c, Confidence(n, p)) = 0
<1>1. Semantic(c) = 0
  BY DEF Semantic, Capped, Counts
<1>2. Structural(c) \in Nat /\ Confidence(n, p) \in Nat
  BY ConfidenceRange DEF Structural
<1> QED
  BY <1>1, <1>2 DEF Activation

\* More matches never lower a score: neither the activation nor, between equal
\* activations, the raw score that orders them.
THEOREM ScoreMonotone ==
    ASSUME NEW c \in Counts, NEW d \in Counts, AtLeast(c, d),
           NEW f \in {1, 2}
    PROVE  /\ Activation(c, f) >= Activation(d, f)
           /\ Raw(c) >= Raw(d)
<1>1. /\ Semantic(c) \in 0..16 /\ Semantic(d) \in 0..16
      /\ Semantic(c) >= Semantic(d)
  BY SemanticSum DEF Capped, AtLeast, Counts
<1>2. /\ Structural(c) \in {17, 20} /\ Structural(d) \in {17, 20}
      /\ Structural(c) >= Structural(d)
  BY DEF Structural, AtLeast, Counts
<1>3. Activation(c, f) >= Activation(d, f)
  <2> DEFINE a == Semantic(c)
             b == Semantic(d)
             s == Structural(c)
             t == Structural(d)
  <2> SUFFICES a * s * f >= b * t * f
    BY DEF Activation
  <2>1. /\ a \in 0..16 /\ b \in 0..16 /\ a >= b
        /\ s \in {17, 20} /\ t \in {17, 20} /\ s >= t
    BY <1>1, <1>2
  <2> HIDE DEF a, b, s, t
  <2>2. CASE f = 1
    BY <2>1, <2>2
  <2>3. CASE f = 2
    BY <2>1, <2>3
  <2> QED
    BY <2>2, <2>3
<1>4. Raw(c) >= Raw(d)
  <2>1. Capped(c.meta, 16) >= Capped(d.meta, 16)
        /\ Capped(c.meta, 16) \in 0..16 /\ Capped(d.meta, 16) \in 0..16
    BY DEF Capped, AtLeast, Counts
  <2> QED
    BY <1>1, <2>1, RawSum
<1> QED
  BY <1>3, <1>4

-----------------------------------------------------------------------------
\* Graphs.

LEMMA LeastNumber ==
    ASSUME NEW N, N \subseteq Nat, N # {}
    PROVE  \E i \in N : \A j \in N : i <= j
<1> DEFINE R == OpToRel(<, Nat)
<1>1. IsWellFoundedOn(R, Nat)
  BY NatLessThanWellFounded
<1> HIDE DEF R
<1>2. PICK i \in N : \A j \in N : ~ (<<j, i>> \in R)
  BY <1>1, WFMin
<1>3. \A j \in N : ~ (j < i)
  BY <1>2 DEF R, OpToRel
<1> QED
  BY <1>3

\* The first of some packets is one of them.
LEMMA FirstOfIn ==
    ASSUME NEW S, S \subseteq Source, S # {}
    PROVE  FirstOf(S) \in S
<1> DEFINE N == {Rank[s] : s \in S}
<1>1. \A s \in S : Rank[s] \in Nat
  BY RankAssumption
<1>2. N \subseteq Nat /\ N # {}
  BY <1>1
<1>3. PICK i \in N : \A j \in N : i <= j
  BY <1>2, LeastNumber
<1>4. \E s \in S : \A t \in S : Rank[s] <= Rank[t]
  BY <1>3
<1> QED
  BY <1>4 DEF FirstOf

\* The directories of a place are its parent's and so on.
LEMMA AboveClosed ==
    ASSUME NEW x \in File \cup Dir
    PROVE  /\ Above[x] \subseteq Dir
           /\ Parent[x] # Root => Parent[x] \in Above[x]
           /\ \A d \in Above[x] : Parent[d] # Root => Parent[d] \in Above[x]
<1>1. Above[x] = {d \in Dir : \A S \in SUBSET Dir :
                    (\A e \in S \cup {x} : Parent[e] \in S \cup {Root}) => d \in S}
  BY DEF Above
<1>2. \A y \in File \cup Dir : Parent[y] # Root => Parent[y] \in Dir
  BY TreeAssumption
<1>3. ASSUME Parent[x] # Root PROVE Parent[x] \in Above[x]
  BY <1>1, <1>2, <1>3
<1>4. ASSUME NEW d \in Above[x], Parent[d] # Root PROVE Parent[d] \in Above[x]
  <2>1. d \in Dir /\ Parent[d] \in Dir
    BY <1>1, <1>2, <1>4
  <2>2. ASSUME NEW S \in SUBSET Dir, \A e \in S \cup {x} : Parent[e] \in S \cup {Root}
        PROVE  Parent[d] \in S
    BY <1>1, <1>4, <2>2
  <2> QED
    BY <1>1, <2>1, <2>2
<1> QED
  BY <1>1, <1>3, <1>4

LEMMA DirsClosed ==
    ASSUME NEW S, S \subseteq Source
    PROVE  /\ DirsOf(S) \subseteq Dir
           /\ \A s \in S : Parent[s.file] # Root => Parent[s.file] \in DirsOf(S)
           /\ \A d \in DirsOf(S) : Parent[d] # Root => Parent[d] \in DirsOf(S)
           /\ \A d \in DirsOf(S) : FirstBelow(S, d) \in S
<1>1. \A s \in S : s.file \in File \cup Dir
  BY DEF Source
<1>2. \A d : d \in DirsOf(S) <=> \E s \in S : d \in Above[s.file]
  BY DEF DirsOf
<1>3. ASSUME NEW d \in DirsOf(S) PROVE FirstBelow(S, d) \in S
  <2> DEFINE T == {s \in S : d \in Above[s.file]}
  <2>1. T \subseteq Source /\ T # {} /\ T \subseteq S
    BY <1>2
  <2>2. FirstOf(T) \in S
    <3> HIDE DEF T
    <3> QED
      BY <2>1, FirstOfIn
  <2> QED
    BY <2>2 DEF FirstBelow
<1>4. \A s \in S : /\ Above[s.file] \subseteq Dir
                   /\ Parent[s.file] # Root => Parent[s.file] \in Above[s.file]
                   /\ \A d \in Above[s.file] : Parent[d] # Root => Parent[d] \in Above[s.file]
  BY <1>1, AboveClosed
<1> QED
  BY <1>2, <1>3, <1>4

\* The nodes and edges of a graph, one by one.
DirNode(S, w, d) ==
    [id |-> DirID(w, d), parent |-> InDir(w, d), provenance |-> FirstBelow(S, d)]

PacketNode(type, s, w) ==
    [id |-> NodeID(type, s), provenance |-> s,
     parent |-> IF type = "file" THEN InDir(w, s.file) ELSE None]

LEMMA NodeIff ==
    ASSUME NEW S, NEW w, NEW n
    PROVE  n \in DirNodes(S, w) \cup PacketNodes(S, w) <=>
             \/ \E d \in DirsOf(S) : n = DirNode(S, w, d)
             \/ \E type \in {"source", "file", "metadata"}, s \in S :
                  n = PacketNode(type, s, w)
<1>1. NodeTypes \ {"directory"} = {"source", "file", "metadata"}
  BY DEF NodeTypes
<1>2. n \in DirNodes(S, w) <=> \E d \in DirsOf(S) : n = DirNode(S, w, d)
  BY DEF DirNodes, DirNode
<1>3. n \in PacketNodes(S, w) <=>
        \E type \in {"source", "file", "metadata"}, s \in S : n = PacketNode(type, s, w)
  <2> DEFINE T == NodeTypes \ {"directory"}
  <2>1. PacketNodes(S, w) = {PacketNode(type, s, w) : type \in T, s \in S}
    BY DEF PacketNodes, PacketNode
  <2> HIDE DEF T
  <2>2. n \in {PacketNode(type, s, w) : type \in T, s \in S} <=>
          \E type \in T, s \in S : n = PacketNode(type, s, w)
    OBVIOUS
  <2> QED
    BY <1>1, <2>1, <2>2 DEF T
<1> QED
  BY <1>2, <1>3

LEMMA EdgeIff ==
    ASSUME NEW S, NEW w, NEW e
    PROVE  e \in DirEdges(S, w) \cup PacketEdges(S, w) <=>
             \/ \E d \in DirsOf(S) :
                  /\ Parent[d] # Root
                  /\ e = Edge(DirID(w, Parent[d]), DirID(w, d), "contains", FirstBelow(S, d))
             \/ \E s \in S :
                  \/ e = Edge(NodeID("source", s), NodeID("file", s), "derived_from", s)
                  \/ e = Edge(NodeID("file", s), NodeID("metadata", s), "reference", s)
                  \/ e = Edge(NodeID("source", s), NodeID("metadata", s), "source", s)
             \/ \E s \in S :
                  /\ Parent[s.file] # Root
                  /\ \/ e = Edge(InDir(w, s.file), NodeID("file", s), "contains", s)
                     \/ e = Edge(NodeID("file", s), InDir(w, s.file), "parent", s)
             \/ \E s \in S : \E t \in Targets(s) :
                  e = Edge(NodeID("file", s), t, "hyperlink", s)
<1> DEFINE A == UNION {{Edge(NodeID("source", s), NodeID("file", s), "derived_from", s),
                        Edge(NodeID("file", s), NodeID("metadata", s), "reference", s),
                        Edge(NodeID("source", s), NodeID("metadata", s), "source", s)} :
                         s \in S}
           B == UNION {{Edge(InDir(w, s.file), NodeID("file", s), "contains", s),
                        Edge(NodeID("file", s), InDir(w, s.file), "parent", s)} :
                         s \in {t \in S : Parent[t.file] # Root}}
           C == UNION {{Edge(NodeID("file", s), t, "hyperlink", s) : t \in Targets(s)} :
                         s \in S}
<1>1. PacketEdges(S, w) = (A \cup B) \cup C
  BY Zenon DEF PacketEdges
<1>2. e \in A <=> \E s \in S :
         \/ e = Edge(NodeID("source", s), NodeID("file", s), "derived_from", s)
         \/ e = Edge(NodeID("file", s), NodeID("metadata", s), "reference", s)
         \/ e = Edge(NodeID("source", s), NodeID("metadata", s), "source", s)
  BY Zenon
<1>3. e \in B <=> \E s \in S :
         /\ Parent[s.file] # Root
         /\ \/ e = Edge(InDir(w, s.file), NodeID("file", s), "contains", s)
            \/ e = Edge(NodeID("file", s), InDir(w, s.file), "parent", s)
  BY Zenon
<1>4. e \in DirEdges(S, w) <=> \E d \in DirsOf(S) :
         /\ Parent[d] # Root
         /\ e = Edge(DirID(w, Parent[d]), DirID(w, d), "contains", FirstBelow(S, d))
  BY Zenon DEF DirEdges
<1>5. e \in C <=> \E s \in S : \E t \in Targets(s) :
         e = Edge(NodeID("file", s), t, "hyperlink", s)
  <2>1. e \in C <=>
          \E s \in S : e \in {Edge(NodeID("file", s), t, "hyperlink", s) : t \in Targets(s)}
    BY Zenon
  <2>2. \A s : e \in {Edge(NodeID("file", s), t, "hyperlink", s) : t \in Targets(s)}
                <=> \E t \in Targets(s) : e = Edge(NodeID("file", s), t, "hyperlink", s)
    BY Zenon
  <2> HIDE DEF C
  <2> QED
    BY <2>1, <2>2, Zenon
<1> HIDE DEF A, B, C
<1> QED
  BY <1>1, <1>2, <1>3, <1>4, <1>5

\* The target of a link is no node.
LEMMA TargetsExternal ==
    ASSUME NEW s \in Source, NEW t \in Targets(s)
    PROVE  /\ t \in {ExternalID(link) : link \in Link}
           /\ t \notin ID
<1>1. PICK link \in Links[s] : t = ExternalID(link)
  BY DEF Targets
<1>2. link \in Link
  BY LinksAssumption
<1>3. t \notin ID
  BY <1>1 DEF ExternalID, ID, NodeTypes
<1> QED
  BY <1>1, <1>2, <1>3

LEMMA IDs ==
    /\ \A type \in NodeTypes, s \in Source : NodeID(type, s) \in ID
    /\ \A w \in Workspace, d \in Dir : DirID(w, d) \in ID
    /\ \A t, u \in NodeTypes, s, r \in Source :
         NodeID(t, s) = NodeID(u, r) => t = u /\ s = r
    /\ \A w, d, e : DirID(w, d) = DirID(w, e) => d = e
    /\ \A w, d, s, t : t # "directory" => NodeID(t, s) # DirID(w, d)
    /\ \A w \in Workspace, x \in File \cup Dir :
         /\ Parent[x] = Root => InDir(w, x) = None
         /\ Parent[x] # Root => /\ InDir(w, x) = DirID(w, Parent[x])
                                /\ InDir(w, x) \in ID /\ InDir(w, x) # None
<1>1. \A type \in NodeTypes, s \in Source : NodeID(type, s) \in ID
  BY DEF NodeID, ID, Source, Place
<1>2. \A w \in Workspace, d \in Dir : DirID(w, d) \in ID
  BY DEF DirID, ID, Place, NodeTypes
<1>3. ASSUME NEW t \in NodeTypes, NEW u \in NodeTypes, NEW s \in Source, NEW r \in Source,
             NodeID(t, s) = NodeID(u, r)
      PROVE  t = u /\ s = r
  BY <1>3 DEF NodeID, Source
<1>4. \A w, d, e : DirID(w, d) = DirID(w, e) => d = e
  BY DEF DirID
<1>5. \A w, d, s, t : t # "directory" => NodeID(t, s) # DirID(w, d)
  BY DEF NodeID, DirID
<1>6. ASSUME NEW w \in Workspace, NEW x \in File \cup Dir
      PROVE  /\ Parent[x] = Root => InDir(w, x) = None
             /\ Parent[x] # Root => /\ InDir(w, x) = DirID(w, Parent[x])
                                    /\ InDir(w, x) \in ID /\ InDir(w, x) # None
  <2>1. Parent[x] # Root => Parent[x] \in Dir
    BY TreeAssumption
  <2> QED
    BY <1>2, <2>1, NoneAssumption DEF InDir
<1> QED
  BY <1>1, <1>2, <1>3, <1>4, <1>5, <1>6

\* What TypeOK and GraphSound say of one graph, of the packets S.
Typed(g) ==
    /\ g.ws \in Workspace \cup {None} /\ g.nodes \subseteq Node
    /\ \A e \in g.edges :
         /\ e.from \in ID /\ e.type \in EdgeTypes
         /\ e.to \in ID \cup {ExternalID(link) : link \in Link}

OfPackets(g, S) == \A n \in g.nodes : n.provenance \in S

Sound(g, S) ==
    LET nodes == g.nodes
        contains == {e \in g.edges : e.type = "contains"}
        hyperlinks == {e \in g.edges : e.type = "hyperlink"}
    IN  /\ \A m, n \in nodes : m.id = n.id => m = n
        /\ \A e \in g.edges \ hyperlinks :
               \E m, n \in nodes : m.id = e.from /\ n.id = e.to
        /\ \A e \in hyperlinks :
               /\ \E n \in nodes : /\ n.id = e.from /\ n.id.type = "file"
                                   /\ e.to \in Targets(SourceOf(n))
               /\ \A n \in nodes : n.id # e.to
        /\ \A n \in nodes :
               {e.from : e \in {f \in contains : f.to = n.id}} = {n.parent} \ {None}
        /\ {SourceOf(n) : n \in {m \in nodes : m.id.type = "file"}} = S

\* A graph of packets has places of theirs, and one node for each.
LEMMA NodesTyped ==
    ASSUME NEW S, S \subseteq Source, NEW w \in Workspace,
           NEW n \in DirNodes(S, w) \cup PacketNodes(S, w)
    PROVE  n \in Node /\ n.provenance \in S
<1>1. ASSUME NEW d \in DirsOf(S), n = DirNode(S, w, d)
      PROVE  n \in Node /\ n.provenance \in S
  <2>1. d \in Dir /\ FirstBelow(S, d) \in S
    BY DirsClosed
  <2>2. DirID(w, d) \in ID /\ InDir(w, d) \in ID \cup {None}
    BY <2>1, IDs
  <2>3. n.provenance = FirstBelow(S, d) /\ n \in Node
    BY <1>1, <2>1, <2>2 DEF DirNode, Node
  <2> QED
    BY <2>1, <2>3
<1>2. ASSUME NEW type \in {"source", "file", "metadata"}, NEW s \in S,
             n = PacketNode(type, s, w)
      PROVE  n \in Node /\ n.provenance \in S
  <2>1. s \in Source /\ s.file \in File \cup Dir
    BY DEF Source
  <2>2. NodeID(type, s) \in ID /\ InDir(w, s.file) \in ID \cup {None}
    BY <2>1, IDs DEF NodeTypes
  <2> QED
    BY <1>2, <2>1, <2>2 DEF PacketNode, Node
<1> QED
  BY <1>1, <1>2, NodeIff

LEMMA EdgesTyped ==
    ASSUME NEW S, S \subseteq Source, NEW w \in Workspace,
           NEW e \in DirEdges(S, w) \cup PacketEdges(S, w)
    PROVE  /\ e.from \in ID /\ e.type \in EdgeTypes
           /\ e.to \in ID \cup {ExternalID(link) : link \in Link}
<1> DEFINE T == ID \cup {ExternalID(link) : link \in Link}
<1>1. ASSUME NEW d \in DirsOf(S), Parent[d] # Root
      PROVE  DirID(w, Parent[d]) \in ID /\ DirID(w, d) \in ID
  <2>1. d \in Dir /\ Parent[d] \in Dir
    BY <1>1, DirsClosed
  <2> QED
    BY <2>1, IDs
<1>2. ASSUME NEW s \in S
      PROVE  /\ NodeID("source", s) \in ID /\ NodeID("file", s) \in ID
             /\ NodeID("metadata", s) \in ID
             /\ Parent[s.file] # Root => InDir(w, s.file) \in ID
             /\ \A t \in Targets(s) : t \in T
  <2>1. s \in Source /\ s.file \in File \cup Dir
    BY DEF Source
  <2>2. \A t \in Targets(s) : t \in T
    BY <2>1, TargetsExternal
  <2> HIDE DEF T
  <2> QED
    BY <2>1, <2>2, IDs DEF NodeTypes
<1>3. ID \subseteq T
  OBVIOUS
<1> HIDE DEF T
<1>4. e.from \in ID /\ e.to \in T /\ e.type \in EdgeTypes
  BY <1>1, <1>2, <1>3, EdgeIff DEF Edge, EdgeTypes
<1> QED
  BY <1>4 DEF T

LEMMA NodesUnique ==
    ASSUME NEW S, S \subseteq Source, NEW w,
           NEW m \in DirNodes(S, w) \cup PacketNodes(S, w),
           NEW n \in DirNodes(S, w) \cup PacketNodes(S, w), m.id = n.id
    PROVE  m = n
<1>1. \/ \E d \in DirsOf(S) : m = DirNode(S, w, d) /\ m.id = DirID(w, d)
      \/ \E type \in {"source", "file", "metadata"}, s \in S :
           m = PacketNode(type, s, w) /\ m.id = NodeID(type, s)
  BY NodeIff DEF DirNode, PacketNode
<1>2. \/ \E d \in DirsOf(S) : n = DirNode(S, w, d) /\ n.id = DirID(w, d)
      \/ \E type \in {"source", "file", "metadata"}, s \in S :
           n = PacketNode(type, s, w) /\ n.id = NodeID(type, s)
  BY NodeIff DEF DirNode, PacketNode
<1>3. \A t, u \in {"source", "file", "metadata"}, s, r \in S :
        NodeID(t, s) = NodeID(u, r) => t = u /\ s = r
  BY IDs DEF NodeTypes
<1>4. \A d, e : DirID(w, d) = DirID(w, e) => d = e
  BY IDs
<1>5. \A t \in {"source", "file", "metadata"} : \A s, d : NodeID(t, s) # DirID(w, d)
  BY IDs
<1> QED
  BY <1>1, <1>2, <1>3, <1>4, <1>5

\* Every id an edge names is a node's, if it is no hyperlink.
LEMMA EdgesJoin ==
    ASSUME NEW S, S \subseteq Source, NEW w \in Workspace,
           NEW e \in DirEdges(S, w) \cup PacketEdges(S, w), e.type # "hyperlink"
    PROVE  \E m, n \in DirNodes(S, w) \cup PacketNodes(S, w) :
             m.id = e.from /\ n.id = e.to
<1> DEFINE nodes == DirNodes(S, w) \cup PacketNodes(S, w)
<1>1. ASSUME NEW d \in DirsOf(S) PROVE \E n \in nodes : n.id = DirID(w, d)
  <2>1. DirNode(S, w, d) \in nodes
    BY NodeIff
  <2> QED
    BY <2>1 DEF DirNode
<1>2. ASSUME NEW s \in S, NEW type \in {"source", "file", "metadata"}
      PROVE  \E n \in nodes : n.id = NodeID(type, s)
  <2>1. PacketNode(type, s, w) \in nodes
    BY NodeIff
  <2> QED
    BY <2>1 DEF PacketNode
<1>3. ASSUME NEW d \in DirsOf(S), Parent[d] # Root PROVE Parent[d] \in DirsOf(S)
  BY <1>3, DirsClosed
<1>4. ASSUME NEW s \in S, Parent[s.file] # Root
      PROVE  Parent[s.file] \in DirsOf(S) /\ InDir(w, s.file) = DirID(w, Parent[s.file])
  <2>1. s.file \in File \cup Dir
    BY DEF Source
  <2> QED
    BY <1>4, <2>1, DirsClosed, IDs
<1> HIDE DEF nodes
<1>5. \/ \E d \in DirsOf(S) :
           Parent[d] # Root /\ e.from = DirID(w, Parent[d]) /\ e.to = DirID(w, d)
      \/ \E s \in S, t, u \in {"source", "file", "metadata"} :
           e.from = NodeID(t, s) /\ e.to = NodeID(u, s)
      \/ \E s \in S :
           /\ Parent[s.file] # Root
           /\ \/ e.from = InDir(w, s.file) /\ e.to = NodeID("file", s)
              \/ e.from = NodeID("file", s) /\ e.to = InDir(w, s.file)
  BY EdgeIff DEF Edge
<1>6. \E m, n \in nodes : m.id = e.from /\ n.id = e.to
  BY <1>1, <1>2, <1>3, <1>4, <1>5
<1> QED
  BY <1>6 DEF nodes

\* A hyperlink leaves a file that has the link and ends in no node.
LEMMA HyperlinksLeave ==
    ASSUME NEW S, S \subseteq Source, NEW w \in Workspace,
           NEW e \in DirEdges(S, w) \cup PacketEdges(S, w), e.type = "hyperlink"
    PROVE  LET nodes == DirNodes(S, w) \cup PacketNodes(S, w)
           IN  /\ \E n \in nodes : /\ n.id = e.from /\ n.id.type = "file"
                                   /\ e.to \in Targets(SourceOf(n))
               /\ \A n \in nodes : n.id # e.to
<1> DEFINE nodes == DirNodes(S, w) \cup PacketNodes(S, w)
<1>1. PICK s \in S : \E t \in Targets(s) :
        e = Edge(NodeID("file", s), t, "hyperlink", s)
  BY EdgeIff DEF Edge
<1>2. e.from = NodeID("file", s) /\ e.to \in Targets(s)
  BY <1>1 DEF Edge
<1>3. \E n \in nodes : /\ n.id = e.from /\ n.id.type = "file"
                      /\ e.to \in Targets(SourceOf(n))
  <2> DEFINE n == PacketNode("file", s, w)
  <2>1. n \in nodes
    BY NodeIff
  <2>2. n.id = NodeID("file", s)
    BY DEF PacketNode
  <2>3. n.id.type = "file" /\ SourceOf(n) = s
    BY <2>2 DEF NodeID, SourceOf, Source
  <2> HIDE DEF n, nodes
  <2> QED
    BY <1>2, <2>1, <2>2, <2>3
<1>4. \A n \in nodes : n.id # e.to
  <2>1. e.to \notin ID
    BY <1>2, TargetsExternal
  <2>2. \A n \in nodes : n.id \in ID
    BY NodesTyped DEF Node
  <2> QED
    BY <2>1, <2>2
<1> QED
  BY <1>3, <1>4

\* A node is contained in its parent and in nothing else.
LEMMA ContainedInParent ==
    ASSUME NEW S, S \subseteq Source, NEW w \in Workspace,
           NEW n \in DirNodes(S, w) \cup PacketNodes(S, w), NEW y
    PROVE  (\E e \in DirEdges(S, w) \cup PacketEdges(S, w) :
               e.type = "contains" /\ e.to = n.id /\ e.from = y)
             <=> y = n.parent /\ y # None
<1> DEFINE edges == DirEdges(S, w) \cup PacketEdges(S, w)
           X == \E e \in edges : e.type = "contains" /\ e.to = n.id /\ e.from = y
<1>1. \A e \in edges : e.type = "contains" =>
        \/ \E d \in DirsOf(S) :
             Parent[d] # Root /\ e.from = DirID(w, Parent[d]) /\ e.to = DirID(w, d)
        \/ \E s \in S : /\ Parent[s.file] # Root
                        /\ e.from = InDir(w, s.file) /\ e.to = NodeID("file", s)
  BY EdgeIff DEF Edge
<1>2. ASSUME NEW d \in DirsOf(S), Parent[d] # Root
      PROVE  \E e \in edges : e.type = "contains" /\ e.to = DirID(w, d)
                                /\ e.from = DirID(w, Parent[d])
  <2> DEFINE e == Edge(DirID(w, Parent[d]), DirID(w, d), "contains", FirstBelow(S, d))
  <2>1. e \in edges
    BY <1>2, EdgeIff
  <2> QED
    BY <2>1 DEF Edge
<1>3. ASSUME NEW s \in S, Parent[s.file] # Root
      PROVE  \E e \in edges : e.type = "contains" /\ e.to = NodeID("file", s)
                                /\ e.from = InDir(w, s.file)
  <2> DEFINE e == Edge(InDir(w, s.file), NodeID("file", s), "contains", s)
  <2>1. e \in edges
    BY <1>3, EdgeIff
  <2> QED
    BY <2>1 DEF Edge
<1> HIDE DEF edges
<1>4. ASSUME NEW d \in DirsOf(S), n = DirNode(S, w, d)
      PROVE  X <=> y = n.parent /\ y # None
  <2>1. n.id = DirID(w, d) /\ n.parent = InDir(w, d) /\ d \in File \cup Dir
    BY <1>4, DirsClosed DEF DirNode
  <2>2. X <=> Parent[d] # Root /\ y = DirID(w, Parent[d])
    <3>1. \A e : DirID(w, d) = DirID(w, e) => d = e
      BY IDs
    <3>2. \A s : NodeID("file", s) # DirID(w, d)
      BY IDs
    <3> QED
      BY <1>1, <1>2, <2>1, <3>1, <3>2
  <2>3. /\ Parent[d] = Root => InDir(w, d) = None
        /\ Parent[d] # Root => InDir(w, d) = DirID(w, Parent[d]) /\ InDir(w, d) # None
    BY <2>1, IDs
  <2> QED
    BY <2>1, <2>2, <2>3
<1>5. ASSUME NEW s \in S, n = PacketNode("file", s, w)
      PROVE  X <=> y = n.parent /\ y # None
  <2>1. n.id = NodeID("file", s) /\ n.parent = InDir(w, s.file)
        /\ s.file \in File \cup Dir
    BY <1>5 DEF PacketNode, Source
  <2>2. X <=> Parent[s.file] # Root /\ y = InDir(w, s.file)
    <3>1. \A r \in S : NodeID("file", s) = NodeID("file", r) => s = r
      BY IDs DEF NodeTypes
    <3>2. \A d : NodeID("file", s) # DirID(w, d)
      BY IDs
    <3> QED
      BY <1>1, <1>3, <2>1, <3>1, <3>2
  <2>3. /\ Parent[s.file] = Root => InDir(w, s.file) = None
        /\ Parent[s.file] # Root => InDir(w, s.file) # None
    BY <2>1, IDs
  <2> QED
    BY <2>1, <2>2, <2>3
<1>6. ASSUME NEW s \in S, NEW type \in {"source", "metadata"}, n = PacketNode(type, s, w)
      PROVE  X <=> y = n.parent /\ y # None
  <2>1. n.id = NodeID(type, s) /\ n.parent = None
    BY <1>6 DEF PacketNode
  <2>2. ~ X
    <3>1. \A r \in S : NodeID(type, s) # NodeID("file", r)
      BY IDs DEF NodeTypes
    <3>2. \A d : NodeID(type, s) # DirID(w, d)
      BY IDs
    <3> QED
      BY <1>1, <2>1, <3>1, <3>2
  <2> QED
    BY <2>1, <2>2
<1>7. X <=> y = n.parent /\ y # None
  BY <1>4, <1>5, <1>6, NodeIff
<1> QED
  BY <1>7 DEF edges

\* The files of a graph are the packets it was built of.
LEMMA FilesAre ==
    ASSUME NEW S, S \subseteq Source, NEW w
    PROVE  {SourceOf(n) : n \in {m \in DirNodes(S, w) \cup PacketNodes(S, w) :
                                   m.id.type = "file"}} = S
<1> DEFINE nodes == DirNodes(S, w) \cup PacketNodes(S, w)
           F == {SourceOf(n) : n \in {m \in nodes : m.id.type = "file"}}
<1>1. ASSUME NEW s \in S
      PROVE  /\ PacketNode("file", s, w) \in nodes
             /\ PacketNode("file", s, w).id.type = "file"
             /\ SourceOf(PacketNode("file", s, w)) = s
  <2>1. PacketNode("file", s, w) \in nodes
    BY NodeIff
  <2> QED
    BY <2>1 DEF PacketNode, NodeID, SourceOf, Source
<1>2. ASSUME NEW n \in nodes, n.id.type = "file"
      PROVE  \E s \in S : n = PacketNode("file", s, w)
  <2>1. \A d : DirNode(S, w, d).id.type = "directory"
    BY DEF DirNode, DirID
  <2>2. \A type, s : PacketNode(type, s, w).id.type = type
    BY DEF PacketNode, NodeID
  <2> QED
    BY <1>2, <2>1, <2>2, NodeIff
<1> HIDE DEF nodes
<1>3. F = S
  BY <1>1, <1>2
<1> QED
  BY <1>3 DEF nodes

\* A set of packets makes a typed and sound graph of them, and a graph of a
\* workspace without packets is one (Builder.Build, Store).
LEMMA BuildSound ==
    ASSUME NEW S, S \subseteq Source, S # {}
    PROVE  Typed(Build(S)) /\ OfPackets(Build(S), S) /\ Sound(Build(S), S)
<1> DEFINE w == FirstOf(S).ws
           nodes == DirNodes(S, w) \cup PacketNodes(S, w)
           edges == DirEdges(S, w) \cup PacketEdges(S, w)
           g == Build(S)
<1>1. w \in Workspace
  BY FirstOfIn DEF Source
<1>2. g = [ws |-> w, nodes |-> nodes, edges |-> edges]
  BY Zenon DEF Build
<1>3. g.ws = w /\ g.nodes = nodes /\ g.edges = edges
  <2> HIDE DEF g, nodes, edges, w
  <2> QED
    BY <1>2
<1> HIDE DEF g, w
<1>4. Typed(g) /\ OfPackets(g, S)
  BY <1>1, <1>3, NodesTyped, EdgesTyped DEF Typed, OfPackets
<1>5. \A m, n \in nodes : m.id = n.id => m = n
  BY NodesUnique
<1>6. \A e \in edges \ {f \in edges : f.type = "hyperlink"} :
        \E m, n \in nodes : m.id = e.from /\ n.id = e.to
  BY <1>1, EdgesJoin
<1>7. \A e \in {f \in edges : f.type = "hyperlink"} :
         /\ \E n \in nodes : /\ n.id = e.from /\ n.id.type = "file"
                             /\ e.to \in Targets(SourceOf(n))
         /\ \A n \in nodes : n.id # e.to
  BY <1>1, HyperlinksLeave
<1>8. ASSUME NEW n \in nodes
      PROVE  {e.from : e \in {f \in {e \in edges : e.type = "contains"} : f.to = n.id}}
               = {n.parent} \ {None}
  <2> DEFINE L == {e.from : e \in {f \in {e \in edges : e.type = "contains"} : f.to = n.id}}
  <2>1. \A y : y \in L <=> \E e \in edges : e.type = "contains" /\ e.to = n.id /\ e.from = y
    <3> HIDE DEF edges, nodes
    <3> QED
      OBVIOUS
  <2>2. ASSUME NEW y PROVE y \in L <=> y = n.parent /\ y # None
    <3>1. (\E e \in edges : e.type = "contains" /\ e.to = n.id /\ e.from = y)
            <=> y = n.parent /\ y # None
      BY <1>1, ContainedInParent
    <3> HIDE DEF L, edges
    <3> QED
      BY <2>1, <3>1
  <2> HIDE DEF L
  <2>3. L = {n.parent} \ {None}
    BY <2>2
  <2> QED
    BY <2>3 DEF L
<1>9. {SourceOf(n) : n \in {m \in nodes : m.id.type = "file"}} = S
  BY FilesAre
<1> HIDE DEF nodes, edges
<1>10. Sound(g, S)
  BY <1>3, <1>5, <1>6, <1>7, <1>8, <1>9 DEF Sound
<1> QED
  BY <1>4, <1>10 DEF g

LEMMA EmptySound ==
    ASSUME NEW w \in Workspace
    PROVE  Typed(EmptyGraph(w)) /\ OfPackets(EmptyGraph(w), {}) /\ Sound(EmptyGraph(w), {})
  BY DEF Typed, OfPackets, Sound, EmptyGraph

-----------------------------------------------------------------------------
\* The invariant.  Accepted(L) are the packets of a history L.

Accepted(L) == AcceptedPackets(L)

RequestType == [id : Source \cup Mutation, made : Instant \cup {0}, prior : Nat]

HistoryInv ==
    /\ history \in Seq(RequestType)
    /\ \A n \in DOMAIN history :
         /\ history[n].prior \in 0..(n - 1)
         /\ history[n].id \in Source => history[n].made \in Instant
    /\ \A m, n \in DOMAIN history : history[m].id = history[n].id => m = n

\* A workspace's packets, and the graph that is theirs.
StoreFits(w, P, g, L) ==
    /\ P \subseteq {p \in Accepted(L) : p.source.ws = w}
    /\ P = {} => g = EmptyGraph(w)
    /\ P # {} => g = Build(SourcesOf(P))

StoresInv ==
    /\ packets = [w \in Workspace |-> packets[w]]
    /\ graph = [w \in Workspace |-> graph[w]]
    /\ tracked = [w \in Workspace |-> tracked[w]]
    /\ \A w \in Workspace :
         StoreFits(w, packets[w], graph[w], history) /\ tracked[w] \subseteq Packet

Copy(x) ==
    [step |-> x.step, ws |-> x.ws, todo |-> x.todo, made |-> x.made, prior |-> x.prior,
     nodes |-> x.nodes, query |-> x.query, scored |-> x.scored,
     selected |-> x.selected, refused |-> x.refused]

Ingesting == {"parsed", "prior", "accepted", "applied"}

PacketOf(x) == [source |-> FirstOf(x.todo), made |-> x.made]

\* What a handler at x has, with the packets P of its workspace.
HandlerFits(x, L, P) ==
    /\ x = Copy(x)
    /\ x.step \in Ingesting \cup {"idle", "mutating", "read", "done"}
    /\ x.todo \subseteq Source /\ x.prior \in 0..Len(L) /\ x.nodes \subseteq Node
    /\ x.step \in Ingesting =>
         /\ x.ws \in Workspace /\ x.todo # {} /\ x.made \in Instant
         /\ \A s \in x.todo : s.ws = x.ws
    /\ x.step \in {"accepted", "applied"} => PacketOf(x) \in Accepted(L)
    /\ x.step = "applied" => FirstOf(x.todo) \in SourcesOf(P)
    /\ x.step = "mutating" => x.query \in Mutation
    /\ x.step = "read" =>
         /\ x.ws \in Workspace
         /\ \A n \in x.nodes : SourceOf(n) \in SourcesOf(P)
    /\ \A y \in x.scored : y.whole

PacketsIn(P, w) == IF w \in Workspace THEN P[w] ELSE {}

HandlersInv ==
    /\ handler = [h \in Handler |-> handler[h]]
    /\ \A h \in Handler :
         HandlerFits(handler[h], history, PacketsIn(packets, handler[h].ws))

\* Until a restart, an accepted packet is in its store or on its way there.
Pending(p) == \E h \in Handler : handler[h].step = "accepted" /\ PacketOf(handler[h]) = p

NothingLost ==
    ~ restarted =>
        \A p \in Accepted(history) : p \in packets[p.source.ws] \/ Pending(p)

Inv == /\ HistoryInv /\ StoresInv /\ HandlersInv /\ NothingLost
       /\ restarted \in BOOLEAN

LEMMA AcceptedIff ==
    ASSUME NEW L, NEW p
    PROVE  p \in Accepted(L) <=>
             \E n \in DOMAIN L : /\ L[n].id \in Source
                                 /\ p = [source |-> L[n].id, made |-> L[n].made]
  BY DEF Accepted, AcceptedPackets

LEMMA AcceptedTyped ==
    ASSUME HistoryInv
    PROVE  \A p \in Accepted(history) : p \in Packet
  BY AcceptedIff DEF HistoryInv, Packet

\* A source has been accepted in one packet only.
LEMMA AcceptedOnce ==
    ASSUME HistoryInv, NEW p \in Accepted(history), NEW q \in Accepted(history),
           p.source = q.source
    PROVE  p = q
<1>1. PICK m \in DOMAIN history : p = [source |-> history[m].id, made |-> history[m].made]
  BY AcceptedIff
<1>2. PICK n \in DOMAIN history : q = [source |-> history[n].id, made |-> history[n].made]
  BY AcceptedIff
<1>3. m = n
  BY <1>1, <1>2 DEF HistoryInv
<1> QED
  BY <1>1, <1>2, <1>3

\* M is L with the request r at k; and what that adds to the accepted packets.
More(L, M, k, r) ==
    /\ DOMAIN M = DOMAIN L \cup {k} /\ M[k] = r
    /\ \A n \in DOMAIN L : M[n] = L[n]

Gains(L, M, r) ==
    /\ \A p \in Accepted(L) : p \in Accepted(M)
    /\ \A p \in Accepted(M) :
         p \in Accepted(L)
           \/ (r.id \in Source /\ p = [source |-> r.id, made |-> r.made])
    /\ r.id \in Source => [source |-> r.id, made |-> r.made] \in Accepted(M)

LEMMA AcceptedMore ==
    \A L, M, k, r : More(L, M, k, r) => Gains(L, M, r)
<1> SUFFICES ASSUME NEW L, NEW M, NEW k, NEW r, DOMAIN M = DOMAIN L \cup {k},
                    M[k] = r, \A n \in DOMAIN L : M[n] = L[n]
             PROVE  Gains(L, M, r)
  BY DEF More
<1>1. ASSUME NEW p \in Accepted(L) PROVE p \in Accepted(M)
  <2>1. PICK n \in DOMAIN L :
          L[n].id \in Source /\ p = [source |-> L[n].id, made |-> L[n].made]
    BY <1>1, AcceptedIff
  <2>2. n \in DOMAIN M /\ M[n] = L[n]
    OBVIOUS
  <2> QED
    BY <2>1, <2>2, AcceptedIff
<1>2. ASSUME NEW p \in Accepted(M)
      PROVE  p \in Accepted(L)
               \/ (r.id \in Source /\ p = [source |-> r.id, made |-> r.made])
  <2>1. PICK n \in DOMAIN M :
          M[n].id \in Source /\ p = [source |-> M[n].id, made |-> M[n].made]
    BY <1>2, AcceptedIff
  <2>2. CASE n = k
    BY <2>1, <2>2
  <2>3. CASE n \in DOMAIN L
    <3>1. M[n] = L[n]
      BY <2>3
    <3> QED
      BY <2>1, <2>3, <3>1, AcceptedIff
  <2> QED
    BY <2>2, <2>3
<1>3. ASSUME r.id \in Source PROVE [source |-> r.id, made |-> r.made] \in Accepted(M)
  <2>1. k \in DOMAIN M /\ M[k].id \in Source /\ M[k].made = r.made /\ M[k].id = r.id
    BY <1>3
  <2> QED
    BY <2>1, AcceptedIff
<1> QED
  BY <1>1, <1>2, <1>3 DEF Gains

\* The history takes in a request (Propose).
LEMMA Appended ==
    ASSUME HistoryInv, NEW r \in RequestType, r.prior = Len(history), ~ Known(r.id),
           r.id \in Source => r.made \in Instant,
           history' = Append(history, r)
    PROVE  /\ HistoryInv' /\ Len(history) \in Nat /\ Len(history') = Len(history) + 1
           /\ Accepted(history) \subseteq Accepted(history')
           /\ \A p \in Accepted(history') :
                p \in Accepted(history)
                  \/ (r.id \in Source /\ p = [source |-> r.id, made |-> r.made])
           /\ r.id \in Source => [source |-> r.id, made |-> r.made] \in Accepted(history')
<1>1. /\ history' \in Seq(RequestType) /\ Len(history) \in Nat
      /\ Len(history') = Len(history) + 1
      /\ DOMAIN history' = DOMAIN history \cup {Len(history) + 1}
      /\ history'[Len(history) + 1] = r
      /\ \A n \in DOMAIN history : history'[n] = history[n] /\ n # Len(history) + 1
  BY DEF HistoryInv
<1>2. \A n \in DOMAIN history : history[n].id # r.id
  BY DEF Known
<1>3. HistoryInv'
  <2>1. \A n \in DOMAIN history' :
          /\ history'[n].prior \in 0..(n - 1)
          /\ history'[n].id \in Source => history'[n].made \in Instant
    BY <1>1 DEF HistoryInv
  <2>2. \A m, n \in DOMAIN history' : history'[m].id = history'[n].id => m = n
    BY <1>1, <1>2 DEF HistoryInv
  <2> QED
    BY <1>1, <2>1, <2>2 DEF HistoryInv
<1>4. More(history, history', Len(history) + 1, r)
  BY <1>1 DEF More
<1>5. Gains(history, history', r)
  BY <1>4, AcceptedMore
<1> QED
  BY <1>1, <1>3, <1>5 DEF Gains

USE DEF At, Goto

LEMMA HandlerAt ==
    ASSUME Inv, NEW h \in Handler
    PROVE  /\ handler = [g \in Handler |-> handler[g]]
           /\ HandlerFits(handler[h], history, PacketsIn(packets, handler[h].ws))
  BY DEF Inv, HandlersInv

\* A handler that ingests has a packet of its workspace.
LEMMA CurrentOf ==
    ASSUME Inv, NEW h \in Handler, handler[h].step \in Ingesting
    PROVE  /\ Current(h) \in handler[h].todo /\ Current(h) \in Source
           /\ Current(h).ws = handler[h].ws /\ handler[h].ws \in Workspace
           /\ handler[h].made \in Instant
           /\ handler[h].prior \in 0..Len(history)
           /\ ThePacket(h) = PacketOf(handler[h])
           /\ PacketOf(handler[h]) = [source |-> Current(h), made |-> handler[h].made]
           /\ PacketOf(handler[h]).source = Current(h)
<1>1. /\ handler[h].todo \subseteq Source /\ handler[h].todo # {}
      /\ handler[h].ws \in Workspace /\ handler[h].made \in Instant
      /\ handler[h].prior \in 0..Len(history)
      /\ \A s \in handler[h].todo : s.ws = handler[h].ws
  BY HandlerAt DEF HandlerFits
<1>2. Current(h) \in handler[h].todo
  BY <1>1, FirstOfIn DEF Current
<1> QED
  BY <1>1, <1>2 DEF PacketOf, ThePacket, Current

\* What the history accepts, and when.
LEMMA IngestAppends ==
    ASSUME Inv, NEW h \in Handler, IngestAccepted(h)
    PROVE  /\ HistoryInv' /\ Len(history) \in Nat /\ Len(history) <= Len(history')
           /\ Accepted(history) \subseteq Accepted(history')
           /\ \A p \in Accepted(history') : p \in Accepted(history) \/ p = PacketOf(handler[h])
           /\ PacketOf(handler[h]) \in Accepted(history')
<1> DEFINE r == TheRequest(h)
<1>1. /\ handler[h].step \in Ingesting /\ ~ Known(Current(h))
      /\ handler[h].prior = Len(history) /\ history' = Append(history, r)
  BY DEF IngestAccepted, Ingesting
<1>2. /\ r.id = Current(h) /\ r.made = handler[h].made /\ r.prior = handler[h].prior
      /\ r = [id |-> Current(h), made |-> handler[h].made, prior |-> handler[h].prior]
  BY DEF TheRequest, Request
<1>3. Len(history) \in Nat
  BY DEF Inv, HistoryInv
<1>4. /\ r \in RequestType /\ r.prior = Len(history) /\ ~ Known(r.id)
      /\ r.id \in Source /\ r.made \in Instant
  BY <1>1, <1>2, <1>3, CurrentOf DEF RequestType
<1>5. PacketOf(handler[h]) = [source |-> r.id, made |-> r.made]
  BY <1>1, <1>2, CurrentOf
<1> HIDE DEF r
<1> QED
  BY <1>1, <1>4, <1>5, Appended DEF Inv

LEMMA MutationAppends ==
    ASSUME Inv, NEW h \in Handler, ProposeMutation(h), history' # history
    PROVE  /\ HistoryInv' /\ Len(history) \in Nat /\ Len(history) <= Len(history')
           /\ Accepted(history) \subseteq Accepted(history')
           /\ Accepted(history') \subseteq Accepted(history)
<1> DEFINE r == Request(handler[h].query, 0, handler[h].prior)
<1>1. /\ ~ Known(r.id) /\ r.prior = Len(history) /\ history' = Append(history, r)
      /\ handler[h].step = "mutating"
  BY DEF ProposeMutation
<1>2. handler[h].query \in Mutation /\ handler[h].query \notin Source
  BY <1>1, HandlerAt, ContextBoundsAssumption DEF HandlerFits
<1>3. /\ r.id = handler[h].query /\ r.prior = handler[h].prior /\ r.made = 0
      /\ r = [id |-> handler[h].query, made |-> 0, prior |-> handler[h].prior]
  BY DEF Request
<1>4. Len(history) \in Nat
  BY DEF Inv, HistoryInv
<1>5. r \in RequestType /\ r.id \notin Source
  BY <1>1, <1>2, <1>3, <1>4 DEF RequestType
<1> HIDE DEF r
<1>6. /\ HistoryInv' /\ Len(history') = Len(history) + 1
      /\ Accepted(history) \subseteq Accepted(history')
      /\ \A p \in Accepted(history') : p \in Accepted(history)
  BY <1>1, <1>5, Appended DEF Inv
<1> QED
  BY <1>4, <1>6


-----------------------------------------------------------------------------
\* What a step does to the history.

HistoryStays == history' = history
Grows ==
    /\ HistoryInv' /\ Len(history) \in Nat /\ Len(history') \in Nat
    /\ Len(history) <= Len(history')
    /\ Accepted(history) \subseteq Accepted(history')

LEMMA StaysGrows ==
    ASSUME Inv, HistoryStays
    PROVE  Grows
<1>1. Len(history) \in Nat
  BY DEF Inv, HistoryInv
<1>2. HistoryInv'
  BY DEF Inv, HistoryInv, HistoryStays
<1>3. Len(history') = Len(history) /\ Accepted(history') = Accepted(history)
  BY DEF HistoryStays
<1> QED
  BY <1>1, <1>2, <1>3 DEF Grows

LEMMA HistoryStep ==
    ASSUME Inv, Next
    PROVE  Grows
<1>1. CASE HistoryStays
  BY <1>1, StaysGrows
<1>2. ASSUME NEW h \in Handler, IngestAccepted(h) PROVE Grows
  <2>1. HistoryInv' /\ Len(history) \in Nat /\ Len(history) <= Len(history')
        /\ Accepted(history) \subseteq Accepted(history')
    BY <1>2, IngestAppends
  <2>2. Len(history') \in Nat
    BY <2>1 DEF HistoryInv
  <2> QED
    BY <2>1, <2>2 DEF Grows
<1>3. ASSUME NEW h \in Handler, ProposeMutation(h), history' # history PROVE Grows
  <2>1. HistoryInv' /\ Len(history) \in Nat /\ Len(history) <= Len(history')
        /\ Accepted(history) \subseteq Accepted(history')
    BY <1>3, MutationAppends
  <2>2. Len(history') \in Nat
    BY <2>1 DEF HistoryInv
  <2> QED
    BY <2>1, <2>2 DEF Grows
<1>4. \/ HistoryStays \/ \E h \in Handler : IngestAccepted(h)
      \/ \E h \in Handler : ProposeMutation(h) /\ history' # history
  BY DEF Next, HistoryStays, Parse, ReadPrior, IngestDuplicate, IngestConflict,
         IngestRejected, Apply, Track, Mutate, ReadGraph, Select, Return, Restart
<1> QED
  BY <1>1, <1>2, <1>3, <1>4

\* What a step does to the stores.
LEMMA StoresMove ==
    ASSUME Next
    PROVE  \/ UNCHANGED orchestratorVars
           \/ \E h \in Handler : Apply(h)
           \/ \E h \in Handler : Track(h)
           \/ Restart
  BY DEF Next, Parse, ReadPrior, IngestAccepted, IngestDuplicate, IngestConflict,
         IngestRejected, Mutate, ProposeMutation, ReadGraph, Select, Return

LEMMA FitsMore ==
    \A w, P, g, L, M :
        StoreFits(w, P, g, L) /\ Accepted(L) \subseteq Accepted(M) => StoreFits(w, P, g, M)
<1> SUFFICES ASSUME NEW w, NEW P, NEW g, NEW L, NEW M, StoreFits(w, P, g, L),
                    Accepted(L) \subseteq Accepted(M)
             PROVE  StoreFits(w, P, g, M)
  OBVIOUS
<1> QED
  BY DEF StoreFits

\* A store that takes in an accepted packet.
LEMMA FitsPacket ==
    \A w, P, g, L, p :
        StoreFits(w, P, g, L) /\ p \in Accepted(L) /\ p.source.ws = w
          => StoreFits(w, P \cup {p}, Build(SourcesOf(P) \cup {p.source}), L)
<1> SUFFICES ASSUME NEW w, NEW P, NEW g, NEW L, NEW p, StoreFits(w, P, g, L),
                    p \in Accepted(L), p.source.ws = w
             PROVE  StoreFits(w, P \cup {p}, Build(SourcesOf(P) \cup {p.source}), L)
  OBVIOUS
<1>1. SourcesOf(P \cup {p}) = SourcesOf(P) \cup {p.source}
  BY DEF SourcesOf
<1>2. P \cup {p} # {} /\ P \cup {p} \subseteq {q \in Accepted(L) : q.source.ws = w}
  BY DEF StoreFits
<1> QED
  BY <1>1, <1>2 DEF StoreFits

LEMMA FitsNothing ==
    \A w, L : StoreFits(w, {}, EmptyGraph(w), L)
  BY DEF StoreFits

\* Apply adds the packet to its store; what is there already is left.
LEMMA ApplyAdds ==
    ASSUME Inv, NEW h \in Handler, Apply(h)
    PROVE  /\ history' = history /\ tracked' = tracked /\ restarted' = restarted
           /\ packets' = [w \in Workspace |-> packets'[w]]
           /\ graph' = [w \in Workspace |-> graph'[w]]
           /\ handler[h].step = "accepted"
           /\ handler[h].ws \in Workspace /\ Current(h).ws = handler[h].ws
           /\ PacketOf(handler[h]) \in Accepted(history)
           /\ PacketOf(handler[h]).source = Current(h)
           /\ \A w \in Workspace :
                w # handler[h].ws => packets'[w] = packets[w] /\ graph'[w] = graph[w]
           /\ LET w == handler[h].ws
              IN  \/ /\ Current(h) \in SourcesOf(packets[w])
                     /\ packets'[w] = packets[w] /\ graph'[w] = graph[w]
                  \/ /\ packets'[w] = packets[w] \cup {PacketOf(handler[h])}
                     /\ graph'[w] = Build(SourcesOf(packets[w]) \cup {Current(h)})
<1> DEFINE w == handler[h].ws
<1>1. handler[h].step = "accepted" /\ handler[h].step \in Ingesting
  BY DEF Apply, Ingesting
<1>2. /\ w \in Workspace /\ Current(h).ws = w
      /\ ThePacket(h) = PacketOf(handler[h]) /\ PacketOf(handler[h]).source = Current(h)
  BY <1>1, CurrentOf
<1>3. PacketOf(handler[h]) \in Accepted(history)
  BY <1>1, HandlerAt DEF HandlerFits
<1>4. packets = [v \in Workspace |-> packets[v]] /\ graph = [v \in Workspace |-> graph[v]]
  BY DEF Inv, StoresInv
<1>5. history' = history /\ tracked' = tracked /\ restarted' = restarted
  BY DEF Apply
<1>6. \/ Current(h) \in SourcesOf(packets[w]) /\ packets' = packets /\ graph' = graph
      \/ /\ packets' = [packets EXCEPT ![w] = @ \cup {PacketOf(handler[h])}]
         /\ graph' = [graph EXCEPT ![w] = Build(SourcesOf(packets[w]) \cup {Current(h)})]
  BY <1>2 DEF Apply
<1> HIDE DEF w
<1>7. /\ packets' = [v \in Workspace |-> packets'[v]]
      /\ graph' = [v \in Workspace |-> graph'[v]]
      /\ \A v \in Workspace : v # w => packets'[v] = packets[v] /\ graph'[v] = graph[v]
      /\ \/ /\ Current(h) \in SourcesOf(packets[w])
            /\ packets'[w] = packets[w] /\ graph'[w] = graph[w]
         \/ /\ packets'[w] = packets[w] \cup {PacketOf(handler[h])}
            /\ graph'[w] = Build(SourcesOf(packets[w]) \cup {Current(h)})
  BY <1>2, <1>4, <1>6
<1> QED
  BY <1>1, <1>2, <1>3, <1>5, <1>7 DEF w

LEMMA StoresStep ==
    ASSUME Inv, Next
    PROVE  StoresInv'
<1> USE DEF HistoryStays
<1>1. Grows
  BY HistoryStep
<1>2. /\ packets = [w \in Workspace |-> packets[w]]
      /\ graph = [w \in Workspace |-> graph[w]]
      /\ tracked = [w \in Workspace |-> tracked[w]]
      /\ \A w \in Workspace : StoreFits(w, packets[w], graph[w], history)
      /\ \A w \in Workspace : tracked[w] \subseteq Packet
  BY DEF Inv, StoresInv
<1>3. \A w \in Workspace : StoreFits(w, packets[w], graph[w], history')
  BY <1>1, <1>2, FitsMore DEF Grows
<1>4. CASE UNCHANGED orchestratorVars
  <2>1. packets' = packets /\ graph' = graph /\ tracked' = tracked
    BY <1>4 DEF orchestratorVars
  <2> QED
    BY <1>2, <1>3, <2>1 DEF StoresInv
<1>5. ASSUME NEW h \in Handler, Apply(h) PROVE StoresInv'
  <2> DEFINE w == handler[h].ws
             p == PacketOf(handler[h])
  <2>1. /\ history' = history /\ tracked' = tracked
        /\ packets' = [v \in Workspace |-> packets'[v]]
        /\ graph' = [v \in Workspace |-> graph'[v]]
        /\ w \in Workspace /\ p.source.ws = w /\ p \in Accepted(history')
        /\ p.source = Current(h)
        /\ \A v \in Workspace : v # w => packets'[v] = packets[v] /\ graph'[v] = graph[v]
        /\ \/ packets'[w] = packets[w] /\ graph'[w] = graph[w]
           \/ /\ packets'[w] = packets[w] \cup {p}
              /\ graph'[w] = Build(SourcesOf(packets[w]) \cup {p.source})
    BY <1>5, ApplyAdds
  <2> HIDE DEF w, p
  <2>2. StoreFits(w, packets[w] \cup {p}, Build(SourcesOf(packets[w]) \cup {p.source}),
                  history')
    BY <1>3, <2>1, FitsPacket
  <2>3. StoreFits(w, packets'[w], graph'[w], history')
    BY <1>3, <2>1, <2>2
  <2>4. \A v \in Workspace : StoreFits(v, packets'[v], graph'[v], history')
    BY <1>3, <2>1, <2>3
  <2>5. \A v \in Workspace : tracked'[v] \subseteq Packet
    BY <1>2, <2>1
  <2>6. tracked' = [v \in Workspace |-> tracked'[v]]
    BY <1>2, <2>1
  <2> QED
    BY <2>1, <2>4, <2>5, <2>6 DEF StoresInv
<1>6. ASSUME NEW h \in Handler, Track(h) PROVE StoresInv'
  <2>1. handler[h].step \in Ingesting
    BY <1>6 DEF Track, Ingesting
  <2>2. ThePacket(h) \in Packet
    BY <2>1, CurrentOf DEF ThePacket, Packet
  <2>3. /\ packets' = packets /\ graph' = graph
        /\ tracked' = [tracked EXCEPT ![handler[h].ws] =
             {p \in @ : p.source # Current(h)} \cup {ThePacket(h)}]
    BY <1>6 DEF Track
  <2>4. /\ tracked' = [v \in Workspace |-> tracked'[v]]
        /\ \A v \in Workspace : tracked'[v] \subseteq Packet
    BY <1>2, <2>2, <2>3
  <2> QED
    BY <1>2, <1>3, <2>3, <2>4 DEF StoresInv
<1>7. CASE Restart
  <2>1. /\ packets' = [w \in Workspace |-> {}]
        /\ graph' = [w \in Workspace |-> EmptyGraph(w)]
        /\ tracked' = [w \in Workspace |-> {}]
    BY <1>7 DEF Restart
  <2>2. \A w \in Workspace : StoreFits(w, packets'[w], graph'[w], history')
    BY <2>1, FitsNothing
  <2>3. /\ packets' = [w \in Workspace |-> packets'[w]]
        /\ graph' = [w \in Workspace |-> graph'[w]]
        /\ tracked' = [w \in Workspace |-> tracked'[w]]
        /\ \A w \in Workspace : tracked'[w] \subseteq Packet
    BY <2>1
  <2> QED
    BY <2>2, <2>3 DEF StoresInv
<1> QED
  BY <1>4, <1>5, <1>6, <1>7, StoresMove

\* Only a restart takes packets out of a store.
StoresGrow == \A w : PacketsIn(packets, w) \subseteq PacketsIn(packets', w)

LEMMA OnlyRestartEmpties ==
    ASSUME Inv, Next
    PROVE  Restart \/ StoresGrow
<1>1. ASSUME packets' = packets PROVE StoresGrow
  BY <1>1 DEF StoresGrow
<1>2. ASSUME NEW h \in Handler, Apply(h) PROVE StoresGrow
  <2>1. \A w \in Workspace : packets[w] \subseteq packets'[w]
    BY <1>2, ApplyAdds
  <2> QED
    BY <2>1 DEF StoresGrow, PacketsIn
<1> QED
  BY <1>1, <1>2, StoresMove DEF orchestratorVars, Track

\* What a graph's files are, and that it is one.
LEMMA GraphOfStore ==
    ASSUME Inv, NEW w \in Workspace
    PROVE  /\ packets[w] \subseteq Packet /\ SourcesOf(packets[w]) \subseteq Source
           /\ packets[w] \subseteq {p \in Accepted(history) : p.source.ws = w}
           /\ Typed(graph[w]) /\ OfPackets(graph[w], SourcesOf(packets[w]))
           /\ Sound(graph[w], SourcesOf(packets[w]))
<1>1. /\ packets[w] \subseteq {p \in Accepted(history) : p.source.ws = w}
      /\ packets[w] = {} => graph[w] = EmptyGraph(w)
      /\ packets[w] # {} => graph[w] = Build(SourcesOf(packets[w]))
  BY DEF Inv, StoresInv, StoreFits
<1>2. packets[w] \subseteq Packet
  BY <1>1, AcceptedTyped DEF Inv
<1>3. SourcesOf(packets[w]) \subseteq Source
  BY <1>2 DEF SourcesOf, Packet
<1>4. /\ packets[w] = {} => SourcesOf(packets[w]) = {}
      /\ packets[w] # {} => SourcesOf(packets[w]) # {}
  BY DEF SourcesOf
<1>5. /\ Typed(graph[w]) /\ OfPackets(graph[w], SourcesOf(packets[w]))
      /\ Sound(graph[w], SourcesOf(packets[w]))
  <2>1. CASE packets[w] = {}
    BY <1>1, <1>4, <2>1, EmptySound
  <2>2. CASE packets[w] # {}
    <3>1. \A S \in SUBSET Source : S # {} =>
            Typed(Build(S)) /\ OfPackets(Build(S), S) /\ Sound(Build(S), S)
      BY BuildSound
    <3> QED
      BY <1>1, <1>3, <1>4, <2>2, <3>1
  <2> QED
    BY <2>1, <2>2
<1> QED
  BY <1>1, <1>2, <1>3, <1>5

-----------------------------------------------------------------------------
\* The handlers.

LEMMA KeptFits ==
    \A x, L, M, P, Q :
        /\ HandlerFits(x, L, P) /\ Len(L) \in Nat /\ Len(M) \in Nat /\ Len(L) <= Len(M)
        /\ Accepted(L) \subseteq Accepted(M) /\ P \subseteq Q
      => HandlerFits(x, M, Q)
<1> SUFFICES ASSUME NEW x, NEW L, NEW M, NEW P, NEW Q, HandlerFits(x, L, P),
                    Len(L) \in Nat, Len(M) \in Nat, Len(L) <= Len(M),
                    Accepted(L) \subseteq Accepted(M), P \subseteq Q
             PROVE  HandlerFits(x, M, Q)
  OBVIOUS
<1>1. SourcesOf(P) \subseteq SourcesOf(Q)
  BY DEF SourcesOf
<1>2. x.prior \in 0..Len(M)
  BY DEF HandlerFits
<1> QED
  BY <1>1, <1>2 DEF HandlerFits

\* A handler moves on, the stores and the history growing.
LEMMA HandlerPut ==
    ASSUME Inv, Grows, StoresGrow, NEW h \in Handler, NEW x,
           handler' = [handler EXCEPT ![h] = x],
           HandlerFits(x, history', PacketsIn(packets', x.ws))
    PROVE  HandlersInv'
<1>1. handler = [g \in Handler |-> handler[g]]
  BY DEF Inv, HandlersInv
<1>2. ASSUME NEW g \in Handler
      PROVE  HandlerFits(handler[g], history', PacketsIn(packets', handler[g].ws))
  <2>1. HandlerFits(handler[g], history, PacketsIn(packets, handler[g].ws))
    BY DEF Inv, HandlersInv
  <2>2. PacketsIn(packets, handler[g].ws) \subseteq PacketsIn(packets', handler[g].ws)
    BY DEF StoresGrow
  <2> QED
    BY <2>1, <2>2, KeptFits DEF Grows
<1>3. /\ handler' = [g \in Handler |-> handler'[g]]
      /\ handler'[h] = x /\ \A g \in Handler : g # h => handler'[g] = handler[g]
  BY <1>1
<1>4. \A g \in Handler :
        HandlerFits(handler'[g], history', PacketsIn(packets', handler'[g].ws))
  BY <1>2, <1>3
<1> QED
  BY <1>3, <1>4 DEF HandlersInv

LEMMA IdleFits ==
    \A L, P : Len(L) \in Nat => HandlerFits(Idle, L, P)
  BY DEF HandlerFits, Idle, Copy, Ingesting

\* A handler that has left a packet goes to the next, or is done.
LEMMA SkipFits ==
    ASSUME NEW x, NEW y, NEW L, NEW P, NEW r, HandlerFits(x, L, P), x.step \in Ingesting,
           y = [x EXCEPT !.todo = x.todo \ {FirstOf(x.todo)}, !.refused = r, !.prior = 0,
                         !.step = IF x.todo \ {FirstOf(x.todo)} = {} THEN "done" ELSE "parsed"],
           Len(L) \in Nat
    PROVE  HandlerFits(y, L, P)
<1>1. /\ x = Copy(x) /\ x.todo \subseteq Source /\ x.nodes \subseteq Node
      /\ x.ws \in Workspace /\ x.made \in Instant /\ \A s \in x.todo : s.ws = x.ws
      /\ \A z \in x.scored : z.whole
  BY DEF HandlerFits
<1>2. /\ y.ws = x.ws /\ y.made = x.made /\ y.todo = x.todo \ {FirstOf(x.todo)}
      /\ y.prior = 0 /\ y.nodes = x.nodes /\ y.scored = x.scored
      /\ y.step = IF y.todo = {} THEN "done" ELSE "parsed"
      /\ y = Copy(y)
  BY <1>1 DEF Copy
<1> QED
  BY <1>1, <1>2 DEF HandlerFits, Ingesting

LEMMA Skipping ==
    ASSUME Inv, Grows, StoresGrow, NEW h \in Handler, NEW r, Skip(h, r),
           handler[h].step \in Ingesting
    PROVE  HandlersInv'
<1> DEFINE x == handler[h]
           rest == x.todo \ {FirstOf(x.todo)}
           y == [x EXCEPT !.todo = rest, !.refused = x.refused \cup r, !.prior = 0,
                          !.step = IF rest = {} THEN "done" ELSE "parsed"]
<1>1. /\ handler = [g \in Handler |-> handler[g]]
      /\ HandlerFits(x, history, PacketsIn(packets, x.ws))
  BY HandlerAt
<1>2. handler' = [handler EXCEPT ![h] = y]
  BY <1>1 DEF Skip, Current
<1>3. x = Copy(x)
  BY <1>1 DEF HandlerFits
<1>4. y.ws = x.ws
  BY <1>3 DEF Copy
<1>5. HandlerFits(x, history', PacketsIn(packets', x.ws))
  <2>1. PacketsIn(packets, x.ws) \subseteq PacketsIn(packets', x.ws)
    BY DEF StoresGrow
  <2> HIDE DEF x
  <2> QED
    BY <1>1, <2>1, KeptFits DEF Grows
<1>6. \A z, L, P : HandlerFits(z, L, P) /\ z.step \in Ingesting /\ Len(L) \in Nat =>
        \A q : HandlerFits([z EXCEPT !.todo = z.todo \ {FirstOf(z.todo)}, !.refused = q,
                              !.prior = 0,
                              !.step = IF z.todo \ {FirstOf(z.todo)} = {}
                                       THEN "done" ELSE "parsed"], L, P)
  BY SkipFits
<1>7. x.step \in Ingesting /\ Len(history') \in Nat
  BY DEF Grows
<1> HIDE DEF x
<1>8. HandlerFits(y, history', PacketsIn(packets', x.ws))
  BY <1>5, <1>6, <1>7
<1>9. HandlerFits(y, history', PacketsIn(packets', y.ws))
  BY <1>4, <1>8
<1> HIDE DEF y
<1> QED
  BY <1>2, <1>9, HandlerPut

\* A handler whose step alone changes, or its step and its predecessor.
StepTo(x, s, n) ==
    [step |-> s, ws |-> x.ws, todo |-> x.todo, made |-> x.made, prior |-> n,
     nodes |-> x.nodes, query |-> x.query, scored |-> x.scored,
     selected |-> x.selected, refused |-> x.refused]

LEMMA StepFits ==
    \A x, s, n, L, P :
        /\ HandlerFits(x, L, P)
        /\ s \in {"prior", "accepted", "applied", "done"} /\ n \in 0..Len(L)
        /\ s # "done" => x.step \in Ingesting
        /\ s \in {"accepted", "applied"} => PacketOf(x) \in Accepted(L)
        /\ s = "applied" => FirstOf(x.todo) \in SourcesOf(P)
      => HandlerFits(StepTo(x, s, n), L, P) /\ StepTo(x, s, n).ws = x.ws
<1> SUFFICES ASSUME NEW x, NEW s, NEW n, NEW L, NEW P, HandlerFits(x, L, P),
                    s \in {"prior", "accepted", "applied", "done"}, n \in 0..Len(L),
                    s # "done" => x.step \in Ingesting,
                    s \in {"accepted", "applied"} => PacketOf(x) \in Accepted(L),
                    s = "applied" => FirstOf(x.todo) \in SourcesOf(P)
             PROVE  HandlerFits(StepTo(x, s, n), L, P) /\ StepTo(x, s, n).ws = x.ws
  OBVIOUS
<1> DEFINE y == StepTo(x, s, n)
<1>1. /\ y.step = s /\ y.prior = n /\ y.ws = x.ws /\ y.todo = x.todo /\ y.made = x.made
      /\ y.nodes = x.nodes /\ y.query = x.query /\ y.scored = x.scored /\ y = Copy(y)
  BY DEF StepTo, Copy
<1>2. PacketOf(y) = PacketOf(x)
  BY <1>1 DEF PacketOf
<1> HIDE DEF y
<1>3. HandlerFits(y, L, P)
  BY <1>1, <1>2 DEF HandlerFits, Ingesting
<1> QED
  BY <1>1, <1>3 DEF y

LEMMA Stepping ==
    ASSUME Inv, Grows, StoresGrow, NEW h \in Handler, NEW s, NEW n,
           handler' = [handler EXCEPT ![h] = StepTo(handler[h], s, n)],
           s \in {"prior", "accepted", "applied", "done"}, n \in 0..Len(history'),
           s # "done" => handler[h].step \in Ingesting,
           s \in {"accepted", "applied"} => PacketOf(handler[h]) \in Accepted(history'),
           s = "applied" =>
             FirstOf(handler[h].todo) \in SourcesOf(PacketsIn(packets', handler[h].ws))
    PROVE  HandlersInv'
<1> DEFINE x == handler[h]
<1>1. HandlerFits(x, history, PacketsIn(packets, x.ws))
  BY HandlerAt
<1>2. PacketsIn(packets, x.ws) \subseteq PacketsIn(packets', x.ws)
  BY DEF StoresGrow
<1> HIDE DEF x
<1>3. HandlerFits(x, history', PacketsIn(packets', x.ws))
  BY <1>1, <1>2, KeptFits DEF Grows
<1>4. /\ HandlerFits(StepTo(x, s, n), history', PacketsIn(packets', x.ws))
      /\ StepTo(x, s, n).ws = x.ws
  BY <1>3, StepFits DEF x
<1>5. HandlerFits(StepTo(x, s, n), history', PacketsIn(packets', StepTo(x, s, n).ws))
  BY <1>4
<1> QED
  BY <1>5, HandlerPut DEF x

\* Goto is such a step.
LEMMA GotoIs ==
    ASSUME Inv, NEW h \in Handler, NEW s, handler' = [handler EXCEPT ![h].step = s]
    PROVE  /\ handler' = [handler EXCEPT ![h] = StepTo(handler[h], s, handler[h].prior)]
           /\ handler[h].prior \in 0..Len(history)
<1>1. /\ handler = [g \in Handler |-> handler[g]] /\ handler[h] = Copy(handler[h])
      /\ handler[h].prior \in 0..Len(history)
  BY HandlerAt DEF HandlerFits
<1>2. [Copy(handler[h]) EXCEPT !.step = s] = StepTo(handler[h], s, handler[h].prior)
  BY <1>1 DEF StepTo, Copy
<1>3. handler' = [handler EXCEPT ![h] = [handler[h] EXCEPT !.step = s]]
  BY <1>1
<1> QED
  BY <1>1, <1>2, <1>3

LEMMA ScoredWhole ==
    \A nodes, P, q :
        (\A n \in nodes : SourceOf(n) \in SourcesOf(P)) => \A y \in Scored(nodes, P, q) : y.whole
<1> SUFFICES ASSUME NEW nodes, NEW P, NEW q, \A n \in nodes : SourceOf(n) \in SourcesOf(P),
                    NEW y \in Scored(nodes, P, q)
             PROVE  y.whole
  OBVIOUS
<1>1. PICK n \in nodes :
        y = [node |-> n, whole |-> SourceOf(n) \in SourcesOf(P),
             counts |-> IF SourceOf(n) \in SourcesOf(P) THEN Matches[q][SourceOf(n)]
                        ELSE [Matches[q][SourceOf(n)] EXCEPT !.primary = 0, !.meta = 0]]
  BY Zenon DEF Scored
<1>2. y.whole = (SourceOf(n) \in SourcesOf(P))
  BY <1>1
<1> QED
  BY <1>2

LEMMA IdleIs ==
    /\ Idle = Copy(Idle) /\ Idle.todo = {} /\ Idle.prior = 0 /\ Idle.nodes = {}
    /\ Idle.scored = {}
  BY DEF Idle, Copy

LEMMA HandlersStep ==
    ASSUME Inv, Next
    PROVE  HandlersInv'
<1>1. Grows
  BY HistoryStep
<1>2. CASE Restart
  <2>1. handler' = [h \in Handler |-> Idle]
    BY <1>2 DEF Restart
  <2>2. \A h \in Handler :
          HandlerFits(Idle, history', PacketsIn(packets', Idle.ws))
    BY <1>1, IdleFits DEF Grows
  <2> QED
    BY <2>1, <2>2 DEF HandlersInv
<1> SUFFICES ASSUME ~ Restart
             PROVE  HandlersInv'
  BY <1>2
<1>3. StoresGrow
  BY OnlyRestartEmpties
<1>4. Len(history') \in Nat /\ Len(history) \in Nat /\ 0..Len(history) \subseteq 0..Len(history')
  BY <1>1 DEF Grows
<1>5. PICK h \in Handler :
        \/ Parse(h) \/ ReadPrior(h) \/ IngestAccepted(h) \/ IngestDuplicate(h)
        \/ IngestConflict(h) \/ IngestRejected(h) \/ Apply(h) \/ Track(h)
        \/ Mutate(h) \/ ProposeMutation(h) \/ ReadGraph(h) \/ Select(h) \/ Return(h)
  BY DEF Next
<1>6. HandlerFits(handler[h], history, PacketsIn(packets, handler[h].ws))
  BY HandlerAt
<1>7. CASE Parse(h)
  <2>1. PICK w \in Workspace, archive \in Archive, made \in Instant :
          handler' = [handler EXCEPT ![h] =
            [Idle EXCEPT !.step = IF {s \in archive : s.ws = w} = {} THEN "done" ELSE "parsed",
                         !.ws = w, !.todo = {s \in archive : s.ws = w}, !.made = made]]
    BY <1>7 DEF Parse
  <2> DEFINE own == {s \in archive : s.ws = w}
  <2>2. own \subseteq Source /\ \A s \in own : s.ws = w
    BY ArchiveAssumption
  <2> HIDE DEF own
  <2>0. PICK x : x = [Idle EXCEPT !.step = IF own = {} THEN "done" ELSE "parsed",
                                  !.ws = w, !.todo = own, !.made = made]
    OBVIOUS
  <2>3. /\ x.step = (IF own = {} THEN "done" ELSE "parsed") /\ x.ws = w /\ x.todo = own
        /\ x.made = made /\ x.prior = 0 /\ x.nodes = {} /\ x.scored = {} /\ x = Copy(x)
    BY <2>0, IdleIs DEF Copy
  <2>4. handler' = [handler EXCEPT ![h] = x]
    BY <2>0, <2>1 DEF own
  <2>5. HandlerFits(x, history', PacketsIn(packets', x.ws))
    BY <1>4, <2>2, <2>3 DEF HandlerFits, Ingesting
  <2> QED
    BY <1>1, <1>3, <2>4, <2>5, HandlerPut
<1>8. CASE ReadPrior(h)
  <2>1. /\ handler[h].step = "parsed" /\ handler[h].step \in Ingesting
        /\ handler' = [handler EXCEPT ![h].step = "prior", ![h].prior = Len(history)]
    BY <1>8 DEF ReadPrior, Ingesting
  <2>2. handler[h] = Copy(handler[h]) /\ handler = [g \in Handler |-> handler[g]]
    BY <1>6, HandlerAt DEF HandlerFits
  <2>0. PICK x : x = [handler[h] EXCEPT !.step = "prior", !.prior = Len(history)]
    OBVIOUS
  <2>3. x = StepTo(handler[h], "prior", Len(history))
    BY <2>0, <2>2 DEF StepTo, Copy
  <2>4. handler' = [handler EXCEPT ![h] = x]
    BY <2>0, <2>1, <2>2
  <2>5. handler' = [handler EXCEPT ![h] = StepTo(handler[h], "prior", Len(history))]
    BY <2>3, <2>4
  <2>6. Len(history) \in 0..Len(history')
    BY <1>4
  <2> QED
    BY <1>1, <1>3, <2>1, <2>5, <2>6, Stepping
<1>9. CASE IngestAccepted(h) \/ IngestDuplicate(h)
  <2>1. /\ handler[h].step = "prior" /\ handler[h].step \in Ingesting
        /\ handler' = [handler EXCEPT ![h].step = "accepted"]
    BY <1>9 DEF IngestAccepted, IngestDuplicate, Ingesting
  <2>2. PacketOf(handler[h]) \in Accepted(history')
    <3>1. CASE IngestAccepted(h)
      BY <3>1, IngestAppends
    <3>2. CASE IngestDuplicate(h)
      <4>1. PICK n \in DOMAIN history : history[n] = TheRequest(h)
        BY <3>2 DEF IngestDuplicate
      <4>2. /\ history[n].id = Current(h) /\ history[n].made = handler[h].made
            /\ Current(h) \in Source
            /\ PacketOf(handler[h]) = [source |-> Current(h), made |-> handler[h].made]
        BY <2>1, <4>1, CurrentOf DEF TheRequest, Request
      <4>3. PacketOf(handler[h]) \in Accepted(history)
        BY <4>2, AcceptedIff
      <4> QED
        BY <1>1, <4>3 DEF Grows
    <3> QED
      BY <1>9, <3>1, <3>2
  <2>3. /\ handler' = [handler EXCEPT ![h] = StepTo(handler[h], "accepted", handler[h].prior)]
        /\ handler[h].prior \in 0..Len(history')
    BY <1>4, <2>1, GotoIs
  <2> QED
    BY <1>1, <1>3, <2>1, <2>2, <2>3, Stepping
<1>10. CASE IngestConflict(h)
  <2>1. handler[h].step \in Ingesting /\ \E r : Skip(h, r)
    BY <1>10 DEF IngestConflict, Ingesting
  <2> QED
    BY <1>1, <1>3, <2>1, Skipping
<1>11. CASE IngestRejected(h)
  <2>1. handler[h].step \in Ingesting /\ Skip(h, {})
    BY <1>11 DEF IngestRejected, Ingesting
  <2> QED
    BY <1>1, <1>3, <2>1, Skipping
<1>12. CASE Track(h)
  <2>1. handler[h].step \in Ingesting /\ Skip(h, {})
    BY <1>12 DEF Track, Ingesting
  <2> QED
    BY <1>1, <1>3, <2>1, Skipping
<1>13. CASE Apply(h)
  <2>1. /\ handler[h].step = "accepted" /\ handler[h].step \in Ingesting
        /\ handler' = [handler EXCEPT ![h].step = "applied"]
    BY <1>13 DEF Apply, Ingesting
  <2>2. PacketOf(handler[h]) \in Accepted(history')
    BY <1>1, <1>13, ApplyAdds DEF Grows
  <2>3. FirstOf(handler[h].todo) \in SourcesOf(PacketsIn(packets', handler[h].ws))
    <3>1. /\ handler[h].ws \in Workspace /\ PacketOf(handler[h]).source = Current(h)
          /\ \/ /\ Current(h) \in SourcesOf(packets[handler[h].ws])
                /\ packets'[handler[h].ws] = packets[handler[h].ws]
             \/ packets'[handler[h].ws]
                  = packets[handler[h].ws] \cup {PacketOf(handler[h])}
      BY <1>13, ApplyAdds
    <3>2. Current(h) \in SourcesOf(packets'[handler[h].ws])
      BY <3>1 DEF SourcesOf
    <3> QED
      BY <3>1, <3>2 DEF PacketsIn, Current
  <2>4. /\ handler' = [handler EXCEPT ![h] = StepTo(handler[h], "applied", handler[h].prior)]
        /\ handler[h].prior \in 0..Len(history')
    BY <1>4, <2>1, GotoIs
  <2> QED
    BY <1>1, <1>3, <2>1, <2>2, <2>3, <2>4, Stepping
<1>14. CASE Mutate(h)
  <2>1. PICK id \in Mutation :
          handler' = [handler EXCEPT ![h] =
            [Idle EXCEPT !.step = "mutating", !.query = id, !.prior = Len(history)]]
    BY <1>14 DEF Mutate
  <2>0. PICK x : x = [Idle EXCEPT !.step = "mutating", !.query = id, !.prior = Len(history)]
    OBVIOUS
  <2>2. /\ x.step = "mutating" /\ x.todo = {} /\ x.prior = Len(history) /\ x.nodes = {}
        /\ x.query = id /\ x.scored = {} /\ x = Copy(x)
    BY <2>0, IdleIs DEF Copy
  <2>3. handler' = [handler EXCEPT ![h] = x]
    BY <2>0, <2>1
  <2>4. x.prior \in 0..Len(history')
    BY <1>1, <2>2 DEF Grows
  <2>5. HandlerFits(x, history', PacketsIn(packets', x.ws))
    BY <2>2, <2>4 DEF HandlerFits, Ingesting
  <2> QED
    BY <1>1, <1>3, <2>3, <2>5, HandlerPut
<1>15. CASE ProposeMutation(h)
  <2>1. CASE handler' = [handler EXCEPT ![h].step = "done"]
    <3>1. /\ handler' = [handler EXCEPT ![h] = StepTo(handler[h], "done", handler[h].prior)]
          /\ handler[h].prior \in 0..Len(history')
      BY <1>4, <2>1, GotoIs
    <3> QED
      BY <1>1, <1>3, <3>1, Stepping
  <2>2. ASSUME NEW r, handler' = [handler EXCEPT ![h].step = "done", ![h].refused = r]
        PROVE  HandlersInv'
    <3>0. PICK x : x = [handler[h] EXCEPT !.step = "done", !.refused = r]
      OBVIOUS
    <3>1. handler[h] = Copy(handler[h]) /\ handler = [g \in Handler |-> handler[g]]
      BY <1>6, HandlerAt DEF HandlerFits
    <3>2. handler' = [handler EXCEPT ![h] = x]
      BY <2>2, <3>0, <3>1
    <3>3. /\ x.step = "done" /\ x.todo = handler[h].todo /\ x.prior = handler[h].prior
          /\ x.nodes = handler[h].nodes /\ x.scored = handler[h].scored /\ x = Copy(x)
      BY <3>0, <3>1 DEF Copy
    <3>4. HandlerFits(x, history', PacketsIn(packets', x.ws))
      BY <1>4, <1>6, <3>3 DEF HandlerFits, Ingesting
    <3> QED
      BY <1>1, <1>3, <3>2, <3>4, HandlerPut
  <2> QED
    BY <1>15, <2>1, <2>2 DEF ProposeMutation
<1>16. CASE ReadGraph(h)
  <2>1. PICK w \in Workspace, q \in Query :
          handler' = [handler EXCEPT ![h] =
            [Idle EXCEPT !.step = "read", !.ws = w, !.query = q,
                         !.nodes = {n \in graph[w].nodes : n.id.type = "file"}]]
    BY <1>16 DEF ReadGraph
  <2> DEFINE F == {n \in graph[w].nodes : n.id.type = "file"}
  <2>2. F \subseteq Node /\ \A n \in F : SourceOf(n) \in SourcesOf(packets[w])
    <3>1. Typed(graph[w]) /\ Sound(graph[w], SourcesOf(packets[w]))
      BY GraphOfStore
    <3>2. {SourceOf(n) : n \in F} = SourcesOf(packets[w]) /\ F \subseteq Node
      BY <3>1 DEF Sound, Typed
    <3> HIDE DEF F
    <3> QED
      BY <3>2
  <2> HIDE DEF F
  <2>0. PICK x : x = [Idle EXCEPT !.step = "read", !.ws = w, !.query = q, !.nodes = F]
    OBVIOUS
  <2>3. /\ x.step = "read" /\ x.ws = w /\ x.todo = {} /\ x.prior = 0 /\ x.nodes = F
        /\ x.scored = {} /\ x = Copy(x)
    BY <2>0, IdleIs DEF Copy
  <2>4. handler' = [handler EXCEPT ![h] = x]
    BY <2>0, <2>1 DEF F
  <2>5. SourcesOf(packets[w]) \subseteq SourcesOf(PacketsIn(packets', x.ws))
    BY <1>3, <2>3 DEF StoresGrow, PacketsIn, SourcesOf
  <2>6. HandlerFits(x, history', PacketsIn(packets', x.ws))
    BY <1>4, <2>2, <2>3, <2>5 DEF HandlerFits, Ingesting
  <2> QED
    BY <1>1, <1>3, <2>4, <2>6, HandlerPut
<1>17. CASE Select(h)
  <2> DEFINE scored == Scored(handler[h].nodes, PacketsFor(handler[h].ws), handler[h].query)
             selected == SelectCandidates(scored)
  <2>1. /\ handler[h].step = "read"
        /\ handler' = [handler EXCEPT ![h].step = "done", ![h].nodes = {},
                         ![h].scored = scored, ![h].selected = selected]
    BY <1>17 DEF Select
  <2>2. handler[h] = Copy(handler[h]) /\ handler = [g \in Handler |-> handler[g]]
    BY <1>6, HandlerAt DEF HandlerFits
  <2>3. \A y \in scored : y.whole
    <3>1. \A n \in handler[h].nodes : SourceOf(n) \in SourcesOf(PacketsFor(handler[h].ws))
      BY <1>6, <2>1 DEF HandlerFits, PacketsIn, PacketsFor
    <3> QED
      BY <3>1, ScoredWhole
  <2> HIDE DEF scored, selected
  <2>0. PICK x : x = [handler[h] EXCEPT !.step = "done", !.nodes = {}, !.scored = scored,
                                        !.selected = selected]
    OBVIOUS
  <2>4. handler' = [handler EXCEPT ![h] = x]
    BY <2>0, <2>1, <2>2
  <2>5. /\ x.step = "done" /\ x.todo = handler[h].todo /\ x.prior = handler[h].prior
        /\ x.nodes = {} /\ x.scored = scored /\ x = Copy(x)
    BY <2>0, <2>2 DEF Copy
  <2>6. HandlerFits(x, history', PacketsIn(packets', x.ws))
    BY <1>4, <1>6, <2>3, <2>5 DEF HandlerFits, Ingesting
  <2> QED
    BY <1>1, <1>3, <2>4, <2>6, HandlerPut
<1>18. CASE Return(h)
  <2>1. handler' = [handler EXCEPT ![h] = Idle]
    BY <1>18 DEF Return
  <2>2. HandlerFits(Idle, history', PacketsIn(packets', Idle.ws))
    BY <1>4, IdleFits
  <2> QED
    BY <1>1, <1>3, <2>1, <2>2, HandlerPut
<1> QED
  BY <1>5, <1>7, <1>8, <1>9, <1>10, <1>11, <1>12, <1>13, <1>14, <1>15, <1>16, <1>17, <1>18

-----------------------------------------------------------------------------
\* What has been accepted is not lost.

\* A step is a restart or one handler's; and one that has a packet accepted
\* applies it next.
LEMMA OneMoves ==
    ASSUME Inv, Next, ~ Restart
    PROVE  \E h \in Handler :
             /\ \A g \in Handler : g # h => handler'[g] = handler[g]
             /\ handler[h].step = "accepted" => Apply(h)
             /\ restarted' = restarted
             /\ \A p \in Accepted(history') :
                  \/ p \in Accepted(history)
                  \/ /\ p = PacketOf(handler[h])
                     /\ handler'[h].step = "accepted"
                     /\ PacketOf(handler'[h]) = PacketOf(handler[h])
<1>1. PICK h \in Handler :
        \/ Parse(h) \/ ReadPrior(h) \/ IngestAccepted(h) \/ IngestDuplicate(h)
        \/ IngestConflict(h) \/ IngestRejected(h) \/ Apply(h) \/ Track(h)
        \/ Mutate(h) \/ ProposeMutation(h) \/ ReadGraph(h) \/ Select(h) \/ Return(h)
  BY DEF Next
<1>2. handler = [g \in Handler |-> handler[g]]
  BY HandlerAt
<1>3. \E x : handler' = [handler EXCEPT ![h] = x]
  BY ZenonT(60), <1>1, <1>2
  DEF Parse, ReadPrior, IngestAccepted, IngestDuplicate, IngestConflict, IngestRejected,
      Apply, Track, Mutate, ProposeMutation, ReadGraph, Select, Return, Skip
<1>4. \A g \in Handler : g # h => handler'[g] = handler[g]
  BY <1>2, <1>3
<1>5. handler[h].step = "accepted" => Apply(h)
  BY <1>1
  DEF Parse, ReadPrior, IngestAccepted, IngestDuplicate, IngestConflict, IngestRejected,
      Track, Mutate, ProposeMutation, ReadGraph, Select, Return
<1>6. restarted' = restarted
  BY <1>1
  DEF Parse, ReadPrior, IngestAccepted, IngestDuplicate, IngestConflict, IngestRejected,
      Apply, Track, Mutate, ProposeMutation, ReadGraph, Select, Return
<1>7. ASSUME NEW p \in Accepted(history'), p \notin Accepted(history)
      PROVE  /\ p = PacketOf(handler[h])
             /\ handler'[h].step = "accepted"
             /\ PacketOf(handler'[h]) = PacketOf(handler[h])
  <2>1. history' # history
    BY <1>7
  <2>2. CASE IngestAccepted(h)
    <3>1. p = PacketOf(handler[h])
      BY <1>7, <2>2, IngestAppends
    <3>2. handler' = [handler EXCEPT ![h].step = "accepted"]
      BY <2>2 DEF IngestAccepted
    <3>3. handler[h] = Copy(handler[h])
      BY HandlerAt DEF HandlerFits
    <3>4. handler'[h] = [handler[h] EXCEPT !.step = "accepted"]
      BY <1>2, <3>2
    <3>5. /\ handler'[h].step = "accepted" /\ handler'[h].todo = handler[h].todo
          /\ handler'[h].made = handler[h].made
      BY <3>3, <3>4 DEF Copy
    <3> QED
      BY <3>1, <3>5 DEF PacketOf
  <2>3. CASE ProposeMutation(h)
    BY <1>7, <2>1, <2>3, MutationAppends
  <2>4. IngestAccepted(h) \/ ProposeMutation(h)
    BY <1>1, <2>1
    DEF Parse, ReadPrior, IngestDuplicate, IngestConflict, IngestRejected, Apply, Track,
        Mutate, ReadGraph, Select, Return
  <2> QED
    BY <2>2, <2>3, <2>4
<1> QED
  BY <1>4, <1>5, <1>6, <1>7

LEMMA NothingLostStep ==
    ASSUME Inv, Next
    PROVE  NothingLost'
<1>1. CASE Restart
  BY <1>1 DEF Restart, NothingLost
<1> SUFFICES ASSUME ~ Restart, ~ restarted', NEW p \in Accepted(history')
             PROVE  p \in packets'[p.source.ws] \/ Pending(p)'
  BY <1>1 DEF NothingLost
<1>2. PICK h \in Handler :
        /\ \A g \in Handler : g # h => handler'[g] = handler[g]
        /\ handler[h].step = "accepted" => Apply(h)
        /\ restarted' = restarted
        /\ \A q \in Accepted(history') :
             \/ q \in Accepted(history)
             \/ /\ q = PacketOf(handler[h])
                /\ handler'[h].step = "accepted"
                /\ PacketOf(handler'[h]) = PacketOf(handler[h])
  BY OneMoves
<1>3. CASE p \notin Accepted(history)
  BY <1>2, <1>3 DEF Pending
<1>4. CASE p \in Accepted(history)
  <2>1. p.source.ws \in Workspace
    BY <1>4, AcceptedTyped DEF Inv, Packet, Source
  <2>2. packets[p.source.ws] \subseteq packets'[p.source.ws]
    BY <2>1, OnlyRestartEmpties DEF StoresGrow, PacketsIn
  <2>3. CASE p \in packets[p.source.ws]
    BY <2>2, <2>3
  <2>4. ASSUME NEW g \in Handler, handler[g].step = "accepted", PacketOf(handler[g]) = p
        PROVE  p \in packets'[p.source.ws] \/ Pending(p)'
    <3>1. CASE g # h
      <4>1. handler'[g].step = "accepted" /\ PacketOf(handler'[g]) = p
        BY <1>2, <2>4, <3>1
      <4> QED
        BY <4>1 DEF Pending
    <3>2. CASE g = h
      <4> DEFINE w == handler[h].ws
      <4>1. /\ w \in Workspace /\ p.source = Current(h) /\ p.source.ws = w
            /\ \/ /\ Current(h) \in SourcesOf(packets[w])
                  /\ packets'[w] = packets[w]
               \/ packets'[w] = packets[w] \cup {p}
        BY <1>2, <2>4, <3>2, ApplyAdds
      <4>2. CASE Current(h) \in SourcesOf(packets[w]) /\ packets'[w] = packets[w]
        <5>1. PICK q \in packets[w] : q.source = p.source
          BY <4>1, <4>2 DEF SourcesOf
        <5>2. q \in Accepted(history)
          BY <4>1, GraphOfStore
        <5>3. p = q
          BY <1>4, <5>1, <5>2, AcceptedOnce DEF Inv
        <5> QED
          BY <4>1, <4>2, <5>3
      <4>3. CASE packets'[w] = packets[w] \cup {p}
        BY <4>1, <4>3
      <4> QED
        BY <4>1, <4>2, <4>3
    <3> QED
      BY <3>1, <3>2
  <2>5. p \in packets[p.source.ws] \/ Pending(p)
    BY <1>2, <1>4 DEF Inv, NothingLost
  <2> QED
    BY <2>3, <2>4, <2>5 DEF Pending
<1> QED
  BY <1>3, <1>4

-----------------------------------------------------------------------------
\* The invariant holds.

LEMMA InitInv == Init => Inv
<1> SUFFICES ASSUME Init PROVE Inv
  OBVIOUS
<1> USE DEF Init
<1>1. HistoryInv /\ Len(history) \in Nat
  BY DEF HistoryInv
<1>2. StoresInv
  <2>1. \A w \in Workspace : StoreFits(w, packets[w], graph[w], history)
    BY FitsNothing
  <2> QED
    BY <2>1 DEF StoresInv
<1>3. HandlersInv
  <2>1. \A h \in Handler : HandlerFits(Idle, history, PacketsIn(packets, Idle.ws))
    BY <1>1, IdleFits
  <2> QED
    BY <2>1 DEF HandlersInv
<1>4. NothingLost
  <2>1. Accepted(history) = {}
    BY DEF Accepted, AcceptedPackets
  <2> QED
    BY <2>1 DEF NothingLost
<1> QED
  BY <1>1, <1>2, <1>3, <1>4 DEF Inv

LEMMA InvStep == Inv /\ [Next]_vars => Inv'
<1> SUFFICES ASSUME Inv, [Next]_vars PROVE Inv'
  OBVIOUS
<1>1. CASE Next
  <2>1. restarted' \in BOOLEAN
    <3>1. CASE Restart
      BY <3>1 DEF Restart
    <3>2. CASE ~ Restart
      BY <1>1, <3>2, OneMoves DEF Inv
    <3> QED
      BY <3>1, <3>2
  <2>2. HistoryInv'
    BY <1>1, HistoryStep DEF Grows
  <2> QED
    BY <1>1, <2>1, <2>2, StoresStep, HandlersStep, NothingLostStep DEF Inv
<1>2. CASE UNCHANGED vars
  BY <1>2 DEF vars, orchestratorVars, Inv, HistoryInv, StoresInv, HandlersInv, NothingLost,
              Pending, StoreFits
<1> QED
  BY <1>1, <1>2

\* In every reachable state the history is one of new requests, each store and
\* its graph are what accepted packets make of them, a handler has what its step
\* needs, and until a restart no accepted packet is lost on its way to its store.
THEOREM GraphInvariant == Spec => []Inv
<1> QED
  BY InitInv, InvStep, PTL DEF Spec

\* Types, packets and graphs, of a state that satisfies the invariant.
LEMMA InvTypes ==
    ASSUME Inv
    PROVE  PacketsAccepted
<1>1. ASSUME NEW n \in DOMAIN history
      PROVE  history[n] \in [id : Source \cup Mutation, made : Instant \cup {0},
                             prior : 0..(n - 1)]
  <2>1. history[n] \in RequestType /\ history[n].prior \in 0..(n - 1)
    BY DEF Inv, HistoryInv
  <2> QED
    BY <2>1 DEF RequestType
<1>2. ASSUME NEW w \in Workspace
      PROVE  /\ packets[w] \subseteq Packet /\ tracked[w] \subseteq Packet
             /\ graph[w].ws \in Workspace \cup {None}
             /\ graph[w].nodes \subseteq Node
             /\ \A e \in graph[w].edges :
                  /\ e.from \in ID /\ e.type \in EdgeTypes
                  /\ e.to \in ID \cup {ExternalID(link) : link \in Link}
  BY GraphOfStore DEF Typed, Inv, StoresInv
<1>3. ASSUME NEW h \in Handler
      PROVE  /\ handler[h].step \in {"idle", "parsed", "prior", "accepted", "applied",
                                     "mutating", "read", "done"}
             /\ handler[h].todo \subseteq Source /\ handler[h].prior \in 0..Len(history)
             /\ handler[h].nodes \subseteq Node
  BY HandlerAt DEF HandlerFits, Ingesting
<1>4. TypeOK
  BY <1>1, <1>2, <1>3 DEF TypeOK, Inv
<1>5. \A w \in Workspace :
        /\ packets[w] \subseteq {p \in AcceptedPackets(history) : p.source.ws = w}
        /\ \A n \in graph[w].nodes : n.provenance \in SourcesOf(packets[w])
  BY GraphOfStore DEF Accepted, OfPackets
<1> QED
  BY <1>4, <1>5 DEF PacketsAccepted

LEMMA InvReplayed ==
    ASSUME Inv
    PROVE  GraphReplayed
<1>1. GraphSound
  BY GraphOfStore DEF GraphSound, Sound
<1>2. ASSUME Quiet, ~ restarted, NEW w \in Workspace,
             {p.source.ws : p \in AcceptedPackets(history)} = {w}
      PROVE  packets[w] = Rebuilt.packets /\ graph[w] = Rebuilt.graph
  <2> DEFINE A == AcceptedPackets(history)
  <2>1. A # {} /\ \A p \in A : p.source.ws = w
    BY <1>2
  <2>2. \A p \in A : p \in packets[w]
    <3>1. \A p : ~ Pending(p)
      BY <1>2 DEF Quiet, Pending
    <3> QED
      BY <1>2, <2>1, <3>1 DEF Inv, NothingLost, Accepted
  <2>3. packets[w] \subseteq A
    BY GraphOfStore DEF Accepted
  <2>4. packets[w] = A
    BY <2>2, <2>3
  <2>5. packets[w] # {} => graph[w] = Build(SourcesOf(packets[w]))
    BY DEF Inv, StoresInv, StoreFits
  <2>6. Rebuilt.packets = A /\ Rebuilt.graph = Build(SourcesOf(A))
    BY DEF Rebuilt
  <2> HIDE DEF A
  <2> QED
    BY <2>1, <2>4, <2>5, <2>6
<1> QED
  BY <1>1, <1>2 DEF GraphReplayed

\* The stores and their graphs hold only accepted packets, of their workspace
\* (Orchestrator.ProposeIngest and Store.Apply), whatever is stale, refused,
\* duplicated or restarted, and for every tree, archive and number of handlers.
THEOREM AcceptedOnly == Spec => []PacketsAccepted
<1>1. Inv => PacketsAccepted
  BY InvTypes
<1> QED
  BY <1>1, GraphInvariant, PTL

\* A graph is one: unique ids, each node contained in its parent alone, edges
\* that join its nodes, and hyperlinks that leave a file with the link and end in
\* no node; and requests have built what RebuildFromAccepted builds, where the
\* history is one workspace's and no restart has emptied the store.
THEOREM RequestsBuildReplay == Spec => []GraphReplayed
<1>1. Inv => GraphReplayed
  BY InvReplayed
<1> QED
  BY <1>1, GraphInvariant, PTL

-----------------------------------------------------------------------------
\* Sorting.

\* f relates each member of the finite set E to those before it.
Before(E, f) ==
    /\ \A x \in E : f[x] \subseteq E
    /\ \A x, y \in E : x \in f[y] <=> x # y /\ y \notin f[x]
    /\ \A x, y, z \in E : x \in f[y] /\ y \in f[z] => x \in f[z]

\* How many are before a member is less for one before another.
LEMMA RankLess ==
    ASSUME NEW E, IsFiniteSet(E), NEW f, Before(E, f)
    PROVE  /\ \A x \in E : Cardinality(f[x]) \in Nat
           /\ \A x \in E : Cardinality(f[x]) < Cardinality(E)
           /\ \A x, y \in E : x \in f[y] => Cardinality(f[x]) < Cardinality(f[y])
<1>1. ASSUME NEW x \in E
      PROVE  IsFiniteSet(f[x]) /\ Cardinality(f[x]) \in Nat
  <2>1. f[x] \subseteq E
    BY DEF Before
  <2> QED
    BY <2>1, FS_Subset, FS_CardinalityType
<1>2. ASSUME NEW x \in E PROVE Cardinality(f[x]) < Cardinality(E)
  <2>1. f[x] \subseteq E /\ x \notin f[x]
    BY DEF Before
  <2>2. Cardinality(f[x]) <= Cardinality(E) /\ Cardinality(f[x]) # Cardinality(E)
    BY <2>1, FS_Subset
  <2>3. Cardinality(E) \in Nat
    BY FS_CardinalityType
  <2> QED
    BY <1>1, <2>2, <2>3
<1>3. ASSUME NEW x \in E, NEW y \in E, x \in f[y]
      PROVE  Cardinality(f[x]) < Cardinality(f[y])
  <2>1. f[x] \subseteq f[y]
    <3>1. ASSUME NEW z \in f[x] PROVE z \in f[y]
      <4>1. z \in E
        BY DEF Before
      <4> QED
        BY <1>3, <3>1, <4>1 DEF Before
    <3> QED
      BY <3>1
  <2>2. f[x] # f[y]
    <3>1. x \notin f[x]
      BY DEF Before
    <3> QED
      BY <1>3, <3>1
  <2>3. Cardinality(f[x]) <= Cardinality(f[y]) /\ Cardinality(f[x]) # Cardinality(f[y])
    BY <1>1, <2>1, <2>2, FS_Subset
  <2> QED
    BY <1>1, <2>3
<1> QED
  BY <1>1, <1>2, <1>3

\* A sequence of E's members, each after those it comes after.
InOrder(E, f, s) ==
    /\ s \in [1..Cardinality(E) -> E]
    /\ \A i, j \in 1..Cardinality(E) : i < j => s[i] \in f[s[j]]

\* A finite set can be sorted ...
LEMMA OrderExists ==
    ASSUME NEW E, IsFiniteSet(E), NEW f, Before(E, f)
    PROVE  \E s : InOrder(E, f, s)
<1> DEFINE M == Cardinality(E)
           g == [x \in E |-> Cardinality(f[x]) + 1]
<1>1. M \in Nat /\ IsFiniteSet(1..M) /\ Cardinality(1..M) = M
  <2>1. M \in Nat
    BY FS_CardinalityType
  <2> QED
    BY <2>1, FS_Interval
<1>2. g \in [E -> 1..M]
  <2>1. \A x \in E : Cardinality(f[x]) + 1 \in 1..M
    BY <1>1, RankLess
  <2> QED
    BY <2>1
<1>3. \A x, y \in E : x # y => x \in f[y] \/ y \in f[x]
  BY DEF Before
<1>4. \A x, y \in E : g[x] = g[y] => x = y
  BY <1>3, RankLess
<1>5. g \in Injection(E, 1..M)
  BY <1>2, <1>4 DEF Injection, IsInjective
<1>6. g \in Surjection(E, 1..M)
  <2> HIDE DEF g
  <2> QED
    BY <1>1, <1>5, FS_Injection
<1>7. \A k \in 1..M : \E x \in E : g[x] = k
  BY <1>6 DEF Surjection
<1> DEFINE s == [k \in 1..M |-> CHOOSE x \in E : g[x] = k]
<1>8. \A k \in 1..M : s[k] \in E /\ g[s[k]] = k
  BY <1>7
<1>9. ASSUME NEW i \in 1..M, NEW j \in 1..M, i < j PROVE s[i] \in f[s[j]]
  <2>1. /\ s[i] \in E /\ s[j] \in E
        /\ Cardinality(f[s[i]]) + 1 = i /\ Cardinality(f[s[j]]) + 1 = j
    BY <1>8
  <2> HIDE DEF s, g
  <2>2. s[i] # s[j] /\ s[j] \notin f[s[i]]
    BY <1>9, <2>1, RankLess
  <2> QED
    BY <1>3, <2>1, <2>2
<1>10. s \in [1..M -> E]
  BY <1>8
<1> HIDE DEF s
<1> QED
  BY <1>9, <1>10 DEF InOrder

\* ... and a sorted sequence has before each member those that come before it.
LEMMA OrderIs ==
    ASSUME NEW E, IsFiniteSet(E), NEW f, Before(E, f), NEW s, InOrder(E, f, s)
    PROVE  \A i \in 1..Cardinality(E) : f[s[i]] = {s[j] : j \in 1..(i - 1)}
<1> DEFINE M == Cardinality(E)
<1>1. M \in Nat /\ IsFiniteSet(1..M) /\ Cardinality(1..M) = M
  <2>1. M \in Nat
    BY FS_CardinalityType
  <2> QED
    BY <2>1, FS_Interval
<1>2. /\ s \in [1..M -> E]
      /\ \A i, j \in 1..M : i < j => s[i] \in f[s[j]]
  BY DEF InOrder
<1>3. \A i, j \in 1..M : i < j => s[i] # s[j] /\ s[j] \notin f[s[i]]
  BY <1>2 DEF Before
<1>4. \A i, j \in 1..M : s[i] = s[j] => i = j
  BY <1>1, <1>3
<1>5. s \in Injection(1..M, E)
  BY <1>2, <1>4 DEF Injection, IsInjective
<1>6. s \in Surjection(1..M, E)
  BY <1>1, <1>5, FS_Injection
<1>7. \A x \in E : \E k \in 1..M : s[k] = x
  BY <1>6 DEF Surjection
<1>8. ASSUME NEW i \in 1..M PROVE f[s[i]] = {s[j] : j \in 1..(i - 1)}
  <2>1. ASSUME NEW x \in f[s[i]] PROVE x \in {s[j] : j \in 1..(i - 1)}
    <3>1. x \in E
      BY <1>2, <2>1 DEF Before
    <3>2. PICK k \in 1..M : s[k] = x
      BY <1>7, <3>1
    <3>3. x # s[i]
      BY <1>2, <2>1, <3>1 DEF Before
    <3>4. k < i
      BY <1>1, <1>3, <2>1, <3>2, <3>3
    <3> QED
      BY <1>1, <3>2, <3>4
  <2>2. ASSUME NEW j \in 1..(i - 1) PROVE s[j] \in f[s[i]]
    <3>1. j \in 1..M /\ j < i
      BY <1>1
    <3> QED
      BY <1>2, <3>1
  <2> QED
    BY <2>1, <2>2
<1> QED
  BY <1>8

-----------------------------------------------------------------------------
\* Selecting.

\* Scored nodes of different sources.
Apart(E) ==
    /\ \A x \in E : x.counts \in Counts /\ SourceOf(x.node) \in Source
    /\ \A x, y \in E : SourceOf(x.node) = SourceOf(y.node) => x = y

BetterThan(E) == [x \in E |-> {y \in E : Better(y, x)}]

LEMMA BetterIs ==
    ASSUME NEW E, Apart(E)
    PROVE  Before(E, BetterThan(E))
<1> DEFINE a == [x \in E |-> ActivationOf(x)]
           r == [x \in E |-> Raw(x.counts)]
           k == [x \in E |-> Rank[SourceOf(x.node)]]
<1>1. \A x \in E : a[x] \in Nat /\ r[x] \in Nat /\ k[x] \in Nat
  <2>1. ASSUME NEW x \in E PROVE a[x] \in Nat /\ r[x] \in Nat /\ k[x] \in Nat
    <3>1. x.counts \in Counts /\ SourceOf(x.node) \in Source
      BY DEF Apart
    <3>2. ActivationOf(x) \in Nat
      <4>1. \A n, p : Activation(x.counts, Confidence(n, p)) \in 0..640
        BY <3>1, ActivationBounded
      <4>2. ActivationOf(x) \in 0..640
        BY ZenonT(60), <4>1 DEF ActivationOf
      <4> QED
        BY <4>2
    <3>3. Raw(x.counts) \in Nat
      BY <3>1, RawSum
    <3>4. Rank[SourceOf(x.node)] \in Nat
      BY <3>1, RankAssumption
    <3> QED
      BY <3>2, <3>3, <3>4
  <2> QED
    BY <2>1
<1>2. \A x, y \in E : k[x] = k[y] => x = y
  <2>1. ASSUME NEW x \in E, NEW y \in E, k[x] = k[y] PROVE x = y
    <3>1. SourceOf(x.node) \in Source /\ SourceOf(y.node) \in Source
      BY DEF Apart
    <3>2. SourceOf(x.node) = SourceOf(y.node)
      BY <2>1, <3>1, RankAssumption
    <3> QED
      BY <3>2 DEF Apart
  <2> QED
    BY <2>1
<1>3. \A x, y \in E : Better(x, y) <=>
        \/ a[x] > a[y]
        \/ a[x] = a[y] /\ r[x] > r[y]
        \/ a[x] = a[y] /\ r[x] = r[y] /\ k[x] < k[y]
  <2>1. ASSUME NEW x \in E, NEW y \in E
        PROVE  Better(x, y) <=>
                 IF a[x] # a[y] THEN a[x] > a[y]
                 ELSE IF r[x] # r[y] THEN r[x] > r[y] ELSE k[x] < k[y]
    BY DEF Better
  <2> HIDE DEF a, r, k
  <2> QED
    BY <1>1, <2>1
<1> HIDE DEF a, r, k
<1>4. \A x, y \in E : Better(x, y) <=> x # y /\ ~ Better(y, x)
  BY <1>1, <1>2, <1>3
<1>5. \A x, y, z \in E : Better(x, y) /\ Better(y, z) => Better(x, z)
  BY <1>1, <1>3
<1>6. \A x, y \in E : x \in BetterThan(E)[y] <=> Better(x, y)
  BY DEF BetterThan
<1>7. \A x \in E : BetterThan(E)[x] \subseteq E
  BY DEF BetterThan
<1> HIDE DEF BetterThan
<1> QED
  BY <1>4, <1>5, <1>6, <1>7 DEF Before

\* t has the first l members of the sequence s.
Starts(t, l, s, S) == t \in [1..l -> S] /\ \A i \in 1..l : t[i] = s[i]

\* A cut keeps the first ones.
LEMMA CutIs ==
    ASSUME NEW S, NEW n \in Nat, NEW s, Starts(s, n, s, S), NEW c \in Nat,
           NEW l, l = (IF n < c THEN n ELSE c)
    PROVE  Starts(CutTo(s, c), l, s, S)
<1>0. s \in [1..n -> S]
  BY DEF Starts
<1>1. Len(s) = n
  BY <1>0
<1>2. l \in Nat /\ l <= n /\ CutTo(s, c) = SubSeq(s, 1, l)
  BY <1>1 DEF CutTo
<1>3. \A i \in 1..l : s[i] \in S
  BY <1>0, <1>2
<1>4. /\ SubSeq(s, 1, l) \in Seq(S)
      /\ Len(SubSeq(s, 1, l)) = IF 1 <= l THEN l - 1 + 1 ELSE 0
      /\ \A i \in 1..(l - 1 + 1) : SubSeq(s, 1, l)[i] = s[1 + i - 1]
  BY <1>2, <1>3, SubSeqProperties
<1>5. Len(SubSeq(s, 1, l)) = l /\ \A i \in 1..l : SubSeq(s, 1, l)[i] = s[i]
  BY <1>2, <1>4
<1>6. \A q : q \in Seq(S) => q \in [1..Len(q) -> S]
  OBVIOUS
<1>7. SubSeq(s, 1, l) \in [1..l -> S] /\ \A i \in 1..l : SubSeq(s, 1, l)[i] = s[i]
  BY <1>4, <1>5, <1>6
<1> QED
  BY <1>2, <1>7 DEF Starts

\* The first so many of the best, with evidence.
Right(E, chosen) ==
    /\ Len(chosen) = IF Cardinality(Worth(E)) < Limit THEN Cardinality(Worth(E)) ELSE Limit
    /\ \A i \in DOMAIN chosen :
         /\ chosen[i] \in Worth(E)
         /\ {x \in Worth(E) : Better(x, chosen[i])} = {chosen[j] : j \in 1..(i - 1)}
         /\ chosen[i].counts.primary > 0 \/ chosen[i].counts.secondary > 0

\* What is worth an actor matches in its content or in its path.
LEMMA WorthEvidence ==
    ASSUME NEW E, Apart(E), NEW x \in Worth(E)
    PROVE  x.counts.primary > 0 \/ x.counts.secondary > 0
<1>1. /\ x.counts \in Counts /\ ActivationOf(x) >= Threshold /\ Threshold > 0
  BY ConfigAssumption DEF Apart, Worth
<1>2. x.counts.primary \in Nat /\ x.counts.secondary \in Nat
  BY <1>1 DEF Counts
<1>3. ASSUME x.counts.primary = 0, x.counts.secondary = 0 PROVE FALSE
  <2>1. ActivationOf(x) = 0
    BY <1>1, <1>3, MetadataNeverActivates DEF ActivationOf
  <2>2. Threshold \in Nat
    BY ConfigAssumption
  <2> QED
    BY <1>1, <2>1, <2>2
<1> QED
  BY <1>2, <1>3

LEMMA SelectRight ==
    ASSUME NEW E, IsFiniteSet(E), Apart(E)
    PROVE  Right(E, SelectCandidates(E))
<1> DEFINE W == Worth(E)
           M == Cardinality(W)
           f == BetterThan(W)
           s == Sorted(W)
           m == IF M < MaxCandidates THEN M ELSE MaxCandidates
           l == IF m < MaxActorsPerRequest THEN m ELSE MaxActorsPerRequest
           t == CutTo(s, MaxCandidates)
           u == CutTo(t, MaxActorsPerRequest)
<1>1. W \subseteq E /\ IsFiniteSet(W) /\ M \in Nat
  <2>1. W \subseteq E
    BY DEF Worth
  <2> QED
    BY <2>1, FS_Subset, FS_CardinalityType
<1>2. Apart(W)
  BY <1>1 DEF Apart
<1>3. \A x \in W : x.counts.primary > 0 \/ x.counts.secondary > 0
  BY WorthEvidence
<1> HIDE DEF W
<1>4. Before(W, f)
  BY <1>2, BetterIs
<1>5. \A x, y \in W : x \in f[y] <=> Better(x, y)
  BY DEF BetterThan
<1>6. \A r : InOrder(W, f, r) <=>
        /\ r \in [1..M -> W]
        /\ \A i, j \in 1..M : i < j => Better(r[i], r[j])
  BY <1>5 DEF InOrder
<1>7. InOrder(W, f, s)
  <2>1. \E r : InOrder(W, f, r)
    BY <1>1, <1>4, OrderExists
  <2>2. \E r \in [1..M -> W] : \A i, j \in 1..M : i < j => Better(r[i], r[j])
    BY <1>6, <2>1
  <2>3. /\ s \in [1..M -> W]
        /\ \A i, j \in 1..M : i < j => Better(s[i], s[j])
    BY <2>2 DEF Sorted
  <2> QED
    BY <1>6, <2>3
<1>8. \A i \in 1..M : f[s[i]] = {s[j] : j \in 1..(i - 1)}
  BY <1>1, <1>4, <1>7, OrderIs
<1>9. s \in [1..M -> W]
  BY <1>6, <1>7
<1>10. MaxCandidates \in Nat /\ MaxActorsPerRequest \in Nat
  BY ConfigAssumption
<1>11. m \in Nat /\ l \in Nat /\ m <= M /\ l <= m /\ l <= M
  BY <1>1, <1>10
<1>12. l = IF M < Limit THEN M ELSE Limit
  BY <1>1, <1>10 DEF Limit
<1> HIDE DEF M, s, f
<1>21. m = (IF M < MaxCandidates THEN M ELSE MaxCandidates)
       /\ l = (IF m < MaxActorsPerRequest THEN m ELSE MaxActorsPerRequest)
  OBVIOUS
<1> HIDE DEF m, l
<1>13. Starts(t, m, s, W)
  <2>1. Starts(s, M, s, W)
    BY <1>9 DEF Starts
  <2> QED
    BY <1>1, <1>10, <1>21, <2>1, CutIs
<1> HIDE DEF t
<1>14. Starts(u, l, t, W)
  <2>1. Starts(t, m, t, W)
    BY <1>13 DEF Starts
  <2> QED
    BY <1>10, <1>11, <1>21, <2>1, CutIs
<1> HIDE DEF u
<1>15. \A i \in 1..l : u[i] = s[i] /\ u[i] \in W /\ i \in 1..M
  BY <1>1, <1>11, <1>13, <1>14 DEF Starts
<1>16. ASSUME NEW i \in 1..l
       PROVE  {x \in W : Better(x, u[i])} = {u[j] : j \in 1..(i - 1)}
  <2>1. \A j \in 1..(i - 1) : u[j] = s[j]
    BY <1>11, <1>15
  <2>2. {x \in W : Better(x, u[i])} = f[u[i]]
    BY <1>5, <1>15 DEF f, BetterThan
  <2> QED
    BY <1>8, <1>15, <2>1, <2>2
<1>17. Len(u) = l /\ DOMAIN u = 1..l
  BY <1>11, <1>14 DEF Starts
<1>18. SelectCandidates(E) = u
  BY DEF SelectCandidates, u, t, s, W
<1>19. /\ Len(u) = IF M < Limit THEN M ELSE Limit
       /\ \A i \in DOMAIN u :
            /\ u[i] \in W
            /\ {x \in W : Better(x, u[i])} = {u[j] : j \in 1..(i - 1)}
            /\ u[i].counts.primary > 0 \/ u[i].counts.secondary > 0
  BY <1>3, <1>12, <1>15, <1>16, <1>17
<1> QED
  BY <1>18, <1>19 DEF Right, M, W

\* The packets a history can have are finitely many.
LEMMA AcceptedFinite ==
    ASSUME HistoryInv
    PROVE  IsFiniteSet(Accepted(history))
<1> DEFINE D == {m \in DOMAIN history : history[m].id \in Source}
           g == [n \in D |-> [source |-> history[n].id, made |-> history[n].made]]
<1>1. IsFiniteSet(D)
  <2>1. Len(history) \in Nat /\ DOMAIN history = 1..Len(history)
    BY DEF HistoryInv
  <2>2. IsFiniteSet(1..Len(history))
    BY <2>1, FS_Interval
  <2>3. D \subseteq 1..Len(history)
    BY <2>1
  <2> QED
    BY <2>2, <2>3, FS_Subset
<1>2. g \in Surjection(D, Accepted(history))
  BY DEF Surjection, Accepted, AcceptedPackets
<1> QED
  BY <1>1, <1>2, FS_Surjection

\* Nodes of different sources, each with its packet, are scored apart.
LEMMA ScoredApart ==
    ASSUME NEW nodes, NEW P, NEW q \in Query, IsFiniteSet(P), SourcesOf(P) \subseteq Source,
           \A n \in nodes : SourceOf(n) \in SourcesOf(P),
           \A m, n \in nodes : SourceOf(m) = SourceOf(n) => m = n
    PROVE  IsFiniteSet(Scored(nodes, P, q)) /\ Apart(Scored(nodes, P, q))
<1> DEFINE E == Scored(nodes, P, q)
           S == SourcesOf(P)
           g == [p \in P |-> p.source]
           k == [x \in E |-> SourceOf(x.node)]
<1>1. IsFiniteSet(S)
  <2>1. g \in Surjection(P, S)
    BY DEF Surjection, SourcesOf
  <2> QED
    BY <2>1, FS_Surjection
<1>2. ASSUME NEW x \in E
      PROVE  /\ x.node \in nodes /\ x.counts \in Counts
             /\ x = [node |-> x.node, whole |-> TRUE, counts |-> Matches[q][SourceOf(x.node)]]
  <2>1. PICK n \in nodes :
          x = [node |-> n, whole |-> SourceOf(n) \in SourcesOf(P),
               counts |-> IF SourceOf(n) \in SourcesOf(P) THEN Matches[q][SourceOf(n)]
                          ELSE [Matches[q][SourceOf(n)] EXCEPT !.primary = 0, !.meta = 0]]
    BY <1>2, Zenon DEF Scored
  <2>2. SourceOf(n) \in SourcesOf(P) /\ SourceOf(n) \in Source
    BY <2>1
  <2>3. x = [node |-> n, whole |-> TRUE, counts |-> Matches[q][SourceOf(n)]]
    BY <2>1, <2>2
  <2>4. Matches[q][SourceOf(n)] \in Counts
    <3>1. Matches[q][SourceOf(n)] \in [primary : 0..9, secondary : 0..9, meta : 0..20]
      BY <2>2, MatchesAssumption
    <3> QED
      BY <3>1 DEF Counts
  <2> QED
    BY <2>3, <2>4
<1>3. \A x \in E : SourceOf(x.node) \in S
  BY <1>2
<1>4. \A x, y \in E : SourceOf(x.node) = SourceOf(y.node) => x = y
  <2>1. ASSUME NEW x \in E, NEW y \in E, SourceOf(x.node) = SourceOf(y.node)
        PROVE  x = y
    <3>1. x.node = y.node
      BY <1>2, <2>1
    <3> QED
      BY <1>2, <3>1
  <2> QED
    BY <2>1
<1>5. Apart(E)
  BY <1>2, <1>3, <1>4 DEF Apart
<1>6. k \in Injection(E, S)
  <2> HIDE DEF E, S
  <2> QED
    BY <1>3, <1>4 DEF Injection, IsInjective
<1>7. IsFiniteSet(E)
  BY <1>1, <1>6, FS_Injection
<1> QED
  BY <1>5, <1>7

\* What a handler has read, and what it has selected.
QueryFits(x) ==
    /\ x.step = "read" =>
         x.query \in Query /\ \A m, n \in x.nodes : SourceOf(m) = SourceOf(n) => m = n
    /\ Right(x.scored, x.selected)

QueriesInv == \A h \in Handler : QueryFits(handler[h])

LEMMA NothingRight == Right({}, <<>>)
<1>1. Worth({}) = {} /\ Cardinality({}) = 0
  BY FS_EmptySet DEF Worth
<1>2. Limit \in Nat /\ Limit > 0
  BY ConfigAssumption DEF Limit
<1> QED
  BY <1>1, <1>2 DEF Right

\* A handler that is not to read keeps what it has selected.
LEMMA KeptQuery ==
    \A x, y : QueryFits(x) /\ y.step # "read" /\ y.scored = x.scored /\ y.selected = x.selected
                => QueryFits(y)
  BY DEF QueryFits

LEMMA QueryPut ==
    ASSUME Inv, QueriesInv, NEW h \in Handler, NEW x,
           handler' = [handler EXCEPT ![h] = x], QueryFits(x)
    PROVE  QueriesInv'
<1>1. handler = [g \in Handler |-> handler[g]]
  BY DEF Inv, HandlersInv
<1>2. handler'[h] = x /\ \A g \in Handler : g # h => handler'[g] = handler[g]
  BY <1>1
<1> QED
  BY <1>2 DEF QueriesInv

LEMMA GotoKeeps ==
    ASSUME Inv, QueriesInv, NEW h \in Handler, NEW s, NEW n, s # "read",
           handler' = [handler EXCEPT ![h] = StepTo(handler[h], s, n)]
    PROVE  QueriesInv'
<1> DEFINE y == StepTo(handler[h], s, n)
<1>1. y.step # "read" /\ y.scored = handler[h].scored /\ y.selected = handler[h].selected
  BY DEF StepTo
<1>2. QueryFits(handler[h])
  BY DEF QueriesInv
<1> HIDE DEF y
<1>3. QueryFits(y)
  BY <1>1, <1>2, KeptQuery
<1> QED
  BY <1>3, QueryPut DEF y

LEMMA SkipKeeps ==
    ASSUME Inv, QueriesInv, NEW h \in Handler, NEW r, Skip(h, r)
    PROVE  QueriesInv'
<1> DEFINE x == handler[h]
           rest == x.todo \ {FirstOf(x.todo)}
<1>1. /\ handler = [g \in Handler |-> handler[g]] /\ x = Copy(x) /\ QueryFits(x)
  BY HandlerAt DEF HandlerFits, QueriesInv
<1>2. PICK y : y = [x EXCEPT !.todo = rest, !.refused = x.refused \cup r, !.prior = 0,
                             !.step = IF rest = {} THEN "done" ELSE "parsed"]
  OBVIOUS
<1>3. handler' = [handler EXCEPT ![h] = y]
  BY <1>1, <1>2 DEF Skip, Current
<1>4. y.step # "read" /\ y.scored = x.scored /\ y.selected = x.selected
  BY <1>1, <1>2 DEF Copy
<1> HIDE DEF x
<1>5. QueryFits(y)
  BY <1>1, <1>4, KeptQuery
<1> QED
  BY <1>3, <1>5, QueryPut

\* A handler that begins with what Idle has selected.
LEMMA BeginFits ==
    \A x : /\ x.scored = Idle.scored /\ x.selected = Idle.selected
           /\ x.step = "read" =>
                x.query \in Query /\ \A m, n \in x.nodes : SourceOf(m) = SourceOf(n) => m = n
         => QueryFits(x)
  BY NothingRight DEF QueryFits, Idle

LEMMA QueriesStep ==
    ASSUME Inv, QueriesInv, Next
    PROVE  QueriesInv'
<1>1. CASE Restart
  <2>1. handler' = [h \in Handler |-> Idle]
    BY <1>1 DEF Restart
  <2>2. QueryFits(Idle)
    BY BeginFits DEF Idle
  <2> QED
    BY <2>1, <2>2 DEF QueriesInv
<1> SUFFICES ASSUME ~ Restart
             PROVE  QueriesInv'
  BY <1>1
<1>2. PICK h \in Handler :
        \/ Parse(h) \/ ReadPrior(h) \/ IngestAccepted(h) \/ IngestDuplicate(h)
        \/ IngestConflict(h) \/ IngestRejected(h) \/ Apply(h) \/ Track(h)
        \/ Mutate(h) \/ ProposeMutation(h) \/ ReadGraph(h) \/ Select(h) \/ Return(h)
  BY DEF Next
<1>3. /\ handler = [g \in Handler |-> handler[g]] /\ handler[h] = Copy(handler[h])
      /\ HandlerFits(handler[h], history, PacketsIn(packets, handler[h].ws))
      /\ QueryFits(handler[h])
  BY HandlerAt DEF HandlerFits, QueriesInv
<1>4. CASE Parse(h)
  <2>1. PICK w \in Workspace, archive \in Archive, made \in Instant :
          handler' = [handler EXCEPT ![h] =
            [Idle EXCEPT !.step = IF {s \in archive : s.ws = w} = {} THEN "done" ELSE "parsed",
                         !.ws = w, !.todo = {s \in archive : s.ws = w}, !.made = made]]
    BY <1>4 DEF Parse
  <2> DEFINE own == {s \in archive : s.ws = w}
  <2> HIDE DEF own
  <2>2. PICK x : x = [Idle EXCEPT !.step = IF own = {} THEN "done" ELSE "parsed",
                                  !.ws = w, !.todo = own, !.made = made]
    OBVIOUS
  <2>3. x.step # "read" /\ x.scored = Idle.scored /\ x.selected = Idle.selected
    BY <2>2 DEF Idle
  <2>4. handler' = [handler EXCEPT ![h] = x]
    BY <2>1, <2>2 DEF own
  <2>5. QueryFits(x)
    BY <2>3, BeginFits
  <2> QED
    BY <2>4, <2>5, QueryPut
<1>5. CASE ReadPrior(h)
  <2>1. handler' = [handler EXCEPT ![h].step = "prior", ![h].prior = Len(history)]
    BY <1>5 DEF ReadPrior
  <2>2. PICK x : x = [handler[h] EXCEPT !.step = "prior", !.prior = Len(history)]
    OBVIOUS
  <2>3. x = StepTo(handler[h], "prior", Len(history))
    BY <1>3, <2>2 DEF StepTo, Copy
  <2>4. handler' = [handler EXCEPT ![h] = x]
    BY <1>3, <2>1, <2>2
  <2> QED
    BY <2>3, <2>4, GotoKeeps
<1>6. CASE IngestAccepted(h) \/ IngestDuplicate(h) \/ Apply(h)
  <2>1. PICK s \in {"accepted", "applied"} : handler' = [handler EXCEPT ![h].step = s]
    BY <1>6 DEF IngestAccepted, IngestDuplicate, Apply, Goto
  <2>2. handler' = [handler EXCEPT ![h] = StepTo(handler[h], s, handler[h].prior)]
    BY <2>1, GotoIs
  <2>3. s # "read"
    BY <2>1
  <2> QED
    BY <2>2, <2>3, GotoKeeps
<1>7. CASE IngestConflict(h) \/ IngestRejected(h) \/ Track(h)
  <2>1. \E r : Skip(h, r)
    BY <1>7 DEF IngestConflict, IngestRejected, Track
  <2> QED
    BY <2>1, SkipKeeps
<1>8. CASE Mutate(h)
  <2>1. PICK id \in Mutation :
          handler' = [handler EXCEPT ![h] =
            [Idle EXCEPT !.step = "mutating", !.query = id, !.prior = Len(history)]]
    BY <1>8 DEF Mutate
  <2>2. PICK x : x = [Idle EXCEPT !.step = "mutating", !.query = id, !.prior = Len(history)]
    OBVIOUS
  <2>3. x.step # "read" /\ x.scored = Idle.scored /\ x.selected = Idle.selected
    BY <2>2 DEF Idle
  <2>4. handler' = [handler EXCEPT ![h] = x]
    BY <2>1, <2>2
  <2>5. QueryFits(x)
    BY <2>3, BeginFits
  <2> QED
    BY <2>4, <2>5, QueryPut
<1>9. CASE ProposeMutation(h)
  <2>1. CASE handler' = [handler EXCEPT ![h].step = "done"]
    <3>1. handler' = [handler EXCEPT ![h] = StepTo(handler[h], "done", handler[h].prior)]
      BY <2>1, GotoIs
    <3> QED
      BY <3>1, GotoKeeps
  <2>2. ASSUME NEW r, handler' = [handler EXCEPT ![h].step = "done", ![h].refused = r]
        PROVE  QueriesInv'
    <3>1. PICK x : x = [handler[h] EXCEPT !.step = "done", !.refused = r]
      OBVIOUS
    <3>2. /\ x.step # "read" /\ x.scored = handler[h].scored
          /\ x.selected = handler[h].selected
      BY <1>3, <3>1 DEF Copy
    <3>3. handler' = [handler EXCEPT ![h] = x]
      BY <1>3, <2>2, <3>1
    <3>4. QueryFits(x)
      BY <1>3, <3>2, KeptQuery
    <3> QED
      BY <3>3, <3>4, QueryPut
  <2> QED
    BY <1>9, <2>1, <2>2 DEF ProposeMutation, Goto
<1>10. CASE ReadGraph(h)
  <2>1. PICK w \in Workspace, q \in Query :
          handler' = [handler EXCEPT ![h] =
            [Idle EXCEPT !.step = "read", !.ws = w, !.query = q,
                         !.nodes = {n \in graph[w].nodes : n.id.type = "file"}]]
    BY <1>10 DEF ReadGraph
  <2> DEFINE F == {n \in graph[w].nodes : n.id.type = "file"}
  <2>2. ASSUME NEW m \in F, NEW n \in F, SourceOf(m) = SourceOf(n) PROVE m = n
    <3>1. Typed(graph[w]) /\ Sound(graph[w], SourcesOf(packets[w]))
      BY GraphOfStore
    <3>2. m.id \in ID /\ n.id \in ID /\ m.id.type = n.id.type
      BY <3>1 DEF Typed, Node
    <3>3. m.id.ws = n.id.ws /\ m.id.place = n.id.place /\ m.id.bytes = n.id.bytes
      BY <2>2 DEF SourceOf
    <3>4. m.id = n.id
      BY <3>2, <3>3 DEF ID
    <3> QED
      BY <3>1, <3>4 DEF Sound
  <2> HIDE DEF F
  <2>3. PICK x : x = [Idle EXCEPT !.step = "read", !.ws = w, !.query = q, !.nodes = F]
    OBVIOUS
  <2>4. /\ x.query = q /\ x.nodes = F /\ x.scored = Idle.scored
        /\ x.selected = Idle.selected
    BY <2>3 DEF Idle
  <2>5. handler' = [handler EXCEPT ![h] = x]
    BY <2>1, <2>3 DEF F
  <2>6. QueryFits(x)
    BY <2>2, <2>4, BeginFits
  <2> QED
    BY <2>5, <2>6, QueryPut
<1>11. CASE Select(h)
  <2> DEFINE x == handler[h]
             P == PacketsFor(x.ws)
             scored == Scored(x.nodes, P, x.query)
             selected == SelectCandidates(scored)
  <2>1. /\ x.step = "read"
        /\ handler' = [handler EXCEPT ![h].step = "done", ![h].nodes = {},
                         ![h].scored = scored, ![h].selected = selected]
    BY <1>11 DEF Select, At
  <2>2. /\ x.query \in Query /\ x.ws \in Workspace
        /\ \A m, n \in x.nodes : SourceOf(m) = SourceOf(n) => m = n
        /\ \A n \in x.nodes : SourceOf(n) \in SourcesOf(P)
    BY <1>3, <2>1 DEF HandlerFits, PacketsIn, PacketsFor, QueryFits
  <2>3. SourcesOf(P) \subseteq Source /\ IsFiniteSet(P)
    <3>1. /\ SourcesOf(packets[x.ws]) \subseteq Source
          /\ packets[x.ws] \subseteq Accepted(history)
      BY <2>2, GraphOfStore
    <3>2. IsFiniteSet(Accepted(history))
      BY AcceptedFinite DEF Inv
    <3> QED
      BY <3>1, <3>2, FS_Subset DEF PacketsFor
  <2>4. IsFiniteSet(scored) /\ Apart(scored)
    BY <2>2, <2>3, ScoredApart
  <2> HIDE DEF scored
  <2>5. Right(scored, selected)
    BY <2>4, SelectRight
  <2> HIDE DEF selected
  <2>6. PICK y : y = [x EXCEPT !.step = "done", !.nodes = {}, !.scored = scored,
                               !.selected = selected]
    OBVIOUS
  <2>7. handler' = [handler EXCEPT ![h] = y]
    BY <1>3, <2>1, <2>6
  <2>8. y.step = "done" /\ y.scored = scored /\ y.selected = selected
    BY <1>3, <2>6 DEF Copy
  <2>9. QueryFits(y)
    BY <2>5, <2>8 DEF QueryFits
  <2> QED
    BY <2>7, <2>9, QueryPut
<1>12. CASE Return(h)
  <2>1. handler' = [handler EXCEPT ![h] = Idle] /\ QueryFits(Idle)
    BY <1>12, BeginFits DEF Return, Idle
  <2> QED
    BY <2>1, QueryPut
<1> QED
  BY <1>2, <1>4, <1>5, <1>6, <1>7, <1>8, <1>9, <1>10, <1>11, <1>12

LEMMA QueryInvariant == Spec => [](Inv /\ QueriesInv)
<1>1. Init => Inv /\ QueriesInv
  <2>1. QueryFits(Idle)
    BY BeginFits DEF Idle
  <2>2. Init => QueriesInv
    BY <2>1 DEF Init, QueriesInv
  <2> QED
    BY <2>2, InitInv
<1>2. (Inv /\ QueriesInv) /\ [Next]_vars => (Inv /\ QueriesInv)'
  <2>1. QueriesInv /\ UNCHANGED vars => QueriesInv'
    BY DEF QueriesInv, vars
  <2> QED
    BY <2>1, InvStep, QueriesStep
<1> QED
  BY <1>1, <1>2, PTL DEF Spec

\* A query is right, whatever is ingested, refused or restarted meanwhile: it
\* scores no node without its packet, it selects the best of what it has read,
\* in order and no more than it may (SelectCandidates), and nothing that only
\* its metadata speaks for.
THEOREM QueriesRight == Spec => []QueryRight
<1>1. Inv /\ QueriesInv => QueryRight
  <2> SUFFICES ASSUME Inv, QueriesInv PROVE QueryRight
    OBVIOUS
  <2>1. QueryWhole
    BY DEF Inv, HandlersInv, HandlerFits, QueryWhole
  <2>2. \A h \in Handler : Right(handler[h].scored, handler[h].selected)
    BY DEF QueriesInv, QueryFits
  <2>3. QuerySelectsBest /\ SelectedHaveEvidence
    BY <2>2 DEF Right, QuerySelectsBest, SelectedHaveEvidence
  <2> QED
    BY <2>1, <2>3 DEF QueryRight
<1> QED
  BY <1>1, QueryInvariant, PTL
==============================================================================
