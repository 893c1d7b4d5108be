---------------------------- MODULE ContextGraph ----------------------------
(***************************************************************************)
(* Ingest and query: internal/orchestrator with internal/ingest,           *)
(* internal/graph and internal/scoring.  A packet is proposed to the       *)
(* transition authority; once it is accepted the workspace's graph store   *)
(* takes it in and builds its graph anew from all the packets it has.  A   *)
(* query scores the graph's file nodes and selects those worth an actor.   *)
(*                                                                         *)
(* The authority is one step of Propose, as its mutex makes it.  Its       *)
(* history survives a restart of the server; the graph stores do not.      *)
(***************************************************************************)
EXTENDS Naturals, Sequences, FiniteSets, SequencesExt, Scoring

CONSTANTS
    Handler,      \* goroutines that serve requests
    Op,           \* what they serve: subset of Ops
    Workspace,    \* workspaces
    File, Dir,    \* files and directories of a workspace
    Root,         \* its root, "." of path.Dir
    Parent,       \* path.Dir: File \cup Dir -> Dir \cup {Root}
    Bytes,        \* contents of files
    Link,         \* targets of hyperlinks
    Links,        \* source -> what its text links to, {} if it is not HTML
    None,         \* no contents, no place
    Rank,         \* the order of hashes: Source -> Nat
    Query,        \* texts of queries
    Matches,      \* query, source -> counts of its distinct tokens
    MaxCandidates, MaxActorsPerRequest,  \* scoring.Config
    Threshold,    \* its threshold, in eightieths
    Mutation,     \* ids of ProposeMutation's transitions
    Archive,      \* bound: archives clients send, as sets of sources
    Instant,      \* times at which requests are parsed
    Faults,       \* subset of {"restart"}
    MaxHistory    \* bound: accepted transitions

Ops == {"ingest", "query", "mutate"}

\* SourceID is a hash of workspace, path and bytes.
Source == [ws : Workspace, file : File, bytes : Bytes]

\* CreatedAt is the only part of a packet that its source does not determine.
Packet == [source : Source, made : Instant]

ASSUME TreeAssumption ==
    /\ File \cap Dir = {} /\ Root \notin File \cup Dir
    /\ Parent \in [File \cup Dir -> Dir \cup {Root}]
ASSUME ArchiveAssumption ==
    \A archive \in Archive :
        /\ archive \in (SUBSET Source) \ {{}}
        /\ \A s, t \in archive : s.ws = t.ws /\ (s.file = t.file => s = t)
ASSUME RankAssumption ==
    /\ Rank \in [Source -> Nat]
    /\ \A s, t \in Source : Rank[s] = Rank[t] => s = t
ASSUME LinksAssumption == Links \in [Source -> SUBSET Link]
ASSUME MatchesAssumption ==
    \A q \in Query, s \in Source : Matches[q][s] \in
        [primary : 0..9, secondary : 0..9, meta : 0..20]
ASSUME ConfigAssumption ==
    /\ MaxCandidates \in 1..100 /\ MaxActorsPerRequest \in 1..16
    /\ Threshold \in Nat \ {0}
ASSUME ContextBoundsAssumption ==
    /\ Op \subseteq Ops /\ Faults \subseteq {"restart"} /\ MaxHistory \in Nat
    /\ Mutation \cap Source = {}

VARIABLES
    history,  \* the accepted transitions, in order
    packets,  \* Store.packets of each workspace
    graph,    \* Store.graph of each workspace
    tracked,  \* Orchestrator.packets of each workspace
    handler,  \* what each handler is at
    restarted \* history: the server has been restarted

orchestratorVars == <<packets, graph, tracked>>
vars == <<history, orchestratorVars, handler, restarted>>

----------------------------------------------------------------------------
\* Build: the graph of a set of sources.

NodeTypes == {"directory", "source", "file", "metadata"}

\* What a node's hash is made of.  A directory's has no source, the others'
\* have all of it.
NodeID(type, s) == [type |-> type, ws |-> s.ws, place |-> s.file, bytes |-> s.bytes]
DirID(w, d) == [type |-> "directory", ws |-> w, place |-> d, bytes |-> None]

\* A link's target is the same whoever links to it, and no node has its id.
ExternalID(link) == [type |-> "external", ws |-> None, place |-> link, bytes |-> None]

Targets(s) == {ExternalID(link) : link \in Links[s]}

FirstOf(S) == CHOOSE s \in S : \A t \in S : Rank[s] <= Rank[t]

\* The directories a place lies in: those in every set of directories that has
\* its parent and the parents of its own, but for the root.
Above ==
    [x \in File \cup Dir |->
        {d \in Dir : \A S \in SUBSET Dir :
            (\A e \in S \cup {x} : Parent[e] \in S \cup {Root}) => d \in S}]

DirsOf(S) == UNION {Above[s.file] : s \in S}

\* A directory's provenance is that of the first packet below it.
FirstBelow(S, d) == FirstOf({s \in S : d \in Above[s.file]})

InDir(w, x) == IF Parent[x] = Root THEN None ELSE DirID(w, Parent[x])

DirNodes(S, w) ==
    {[id |-> DirID(w, d), parent |-> InDir(w, d),
      provenance |-> FirstBelow(S, d)] : d \in DirsOf(S)}

\* Only the file's node has a parent.
PacketNodes(S, w) ==
    {[id |-> NodeID(type, s), provenance |-> s,
      parent |-> IF type = "file" THEN InDir(w, s.file) ELSE None] :
        type \in NodeTypes \ {"directory"}, s \in S}

Edge(from, to, type, s) ==
    [from |-> from, to |-> to, type |-> type, provenance |-> s]

DirEdges(S, w) ==
    {Edge(DirID(w, Parent[d]), DirID(w, d), "contains", FirstBelow(S, d)) :
        d \in {e \in DirsOf(S) : Parent[e] # Root}}

PacketEdges(S, w) ==
    (UNION {{Edge(NodeID("source", s), NodeID("file", s), "derived_from", s),
             Edge(NodeID("file", s), NodeID("metadata", s), "reference", s),
             Edge(NodeID("source", s), NodeID("metadata", s), "source", s)} :
              s \in S})
      \cup (UNION {{Edge(InDir(w, s.file), NodeID("file", s), "contains", s),
                    Edge(NodeID("file", s), InDir(w, s.file), "parent", s)} :
                     s \in {t \in S : Parent[t.file] # Root}})
      \cup (UNION {{Edge(NodeID("file", s), target, "hyperlink", s) :
                     target \in Targets(s)} : s \in S})

\* The whole graph takes its workspace from the first packet.
Build(S) ==
    LET w == IF S = {} THEN None ELSE FirstOf(S).ws
    IN  [ws |-> w, nodes |-> DirNodes(S, w) \cup PacketNodes(S, w),
         edges |-> DirEdges(S, w) \cup PacketEdges(S, w)]

EmptyGraph(w) == [ws |-> w, nodes |-> {}, edges |-> {}]

SourcesOf(P) == {p.source : p \in P}

----------------------------------------------------------------------------
\* The authority, as its callers see it.

\* A transition's id is its source or its mutation; the rest of the request is
\* the time in the packet and the predecessor.
Request(id, made, prior) == [id |-> id, made |-> made, prior |-> prior]

Known(id) == \E n \in DOMAIN history : history[n].id = id

\* PacketsFromHistory: what is no packet is skipped.
AcceptedPackets(h) ==
    {[source |-> h[n].id, made |-> h[n].made] :
        n \in {m \in DOMAIN h : h[m].id \in Source}}

\* What RebuildFromAccepted makes of a store.  Nothing in the server calls it.
Rebuilt ==
    [packets |-> AcceptedPackets(history),
     graph |-> Build(SourcesOf(AcceptedPackets(history)))]

Idle == [step |-> "idle", ws |-> None, todo |-> {}, made |-> 0, prior |-> 0,
         nodes |-> {}, query |-> None, scored |-> {}, selected |-> <<>>, refused |-> {}]

Init ==
    /\ history = <<>>
    /\ packets = [w \in Workspace |-> {}]
    /\ graph = [w \in Workspace |-> EmptyGraph(w)]
    /\ tracked = [w \in Workspace |-> {}]
    /\ handler = [h \in Handler |-> Idle]
    /\ restarted = FALSE

At(h, step) == handler[h].step = step
Goto(h, step) == handler' = [handler EXCEPT ![h].step = step]

\* Packets are ingested in the order of their ids.
Current(h) == FirstOf(handler[h].todo)
ThePacket(h) == [source |-> Current(h), made |-> handler[h].made]

\* The rest of the request's packets; refused are those that conflicted.
Skip(h, refused) ==
    LET rest == handler[h].todo \ {Current(h)}
    IN  handler' = [handler EXCEPT
          ![h].todo = rest,
          ![h].refused = @ \cup refused,
          ![h].prior = 0,
          ![h].step = IF rest = {} THEN "done" ELSE "parsed"]

\* The answer has been written.
Return(h) ==
    /\ At(h, "done")
    /\ handler' = [handler EXCEPT ![h] = Idle]
    /\ UNCHANGED <<history, orchestratorVars, restarted>>

----------------------------------------------------------------------------
\* handleIngest: an archive of one workspace is parsed into packets, and those
\* of another workspace than the request's are skipped.
Parse(h) ==
    /\ "ingest" \in Op /\ At(h, "idle")
    /\ \E w \in Workspace, archive \in Archive, made \in Instant :
         LET own == {s \in archive : s.ws = w}
         IN  handler' = [handler EXCEPT ![h] =
               [Idle EXCEPT !.step = IF own = {} THEN "done" ELSE "parsed",
                            !.ws = w, !.todo = own, !.made = made]]
    /\ UNCHANGED <<history, orchestratorVars, restarted>>

\* ProposeIngest reads the predecessor: Projection().Ref().
ReadPrior(h) ==
    /\ At(h, "parsed")
    /\ handler' = [handler EXCEPT ![h].step = "prior", ![h].prior = Len(history)]
    /\ UNCHANGED <<history, orchestratorVars, restarted>>

TheRequest(h) == Request(Current(h), handler[h].made, handler[h].prior)

\* Propose: the id is new and the predecessor current.
IngestAccepted(h) ==
    /\ At(h, "prior") /\ Len(history) < MaxHistory
    /\ ~ Known(Current(h)) /\ handler[h].prior = Len(history)
    /\ history' = Append(history, TheRequest(h))
    /\ Goto(h, "accepted")
    /\ UNCHANGED <<orchestratorVars, restarted>>

\* The very same request has been accepted: a success.
IngestDuplicate(h) ==
    /\ At(h, "prior")
    /\ \E n \in DOMAIN history : history[n] = TheRequest(h)
    /\ Goto(h, "accepted")
    /\ UNCHANGED <<history, orchestratorVars, restarted>>

\* The id has been accepted for another request: Conflict, a warning.
IngestConflict(h) ==
    /\ At(h, "prior") /\ Known(Current(h))
    /\ \A n \in DOMAIN history : history[n] # TheRequest(h)
    /\ Skip(h, {Current(h)})
    /\ UNCHANGED <<history, orchestratorVars, restarted>>

\* Mutant of IngestRejected: the packet is stored all the same.
IngestRejectedKept(h) ==
    /\ At(h, "prior") /\ ~ Known(Current(h))
    /\ Goto(h, "accepted")
    /\ UNCHANGED <<history, orchestratorVars, restarted>>

\* Stale, or the ledger did not acknowledge: a warning, too.
IngestRejected(h) ==
    /\ At(h, "prior") /\ ~ Known(Current(h))
    /\ Skip(h, {})
    /\ UNCHANGED <<history, orchestratorVars, restarted>>

\* Mutant of Apply: the new packet's part is added to the graph there is.
ApplyInPlace(h) ==
    /\ At(h, "accepted")
    /\ LET w == handler[h].ws
           part == Build({Current(h)})
       IN  /\ packets' = [packets EXCEPT ![w] = @ \cup {ThePacket(h)}]
           /\ graph' = [graph EXCEPT
                ![w].nodes = @ \cup {n \in part.nodes :
                                       \A m \in graph[w].nodes : m.id # n.id},
                ![w].edges = @ \cup {e \in part.edges :
                    \A f \in graph[w].edges : <<e.from, e.to>> # <<f.from, f.to>>}]
    /\ Goto(h, "applied")
    /\ UNCHANGED <<history, tracked, restarted>>

\* Store.Apply: a source that is there is left; otherwise everything is built.
Apply(h) ==
    /\ At(h, "accepted")
    /\ LET w == handler[h].ws
       IN  IF Current(h) \in SourcesOf(packets[w])
           THEN UNCHANGED <<packets, graph>>
           ELSE /\ packets' = [packets EXCEPT ![w] = @ \cup {ThePacket(h)}]
                /\ graph' = [graph EXCEPT
                               ![w] = Build(SourcesOf(packets[w]) \cup {Current(h)})]
    /\ Goto(h, "applied")
    /\ UNCHANGED <<history, tracked, restarted>>

\* o.packets: one packet per source, the last one ingested.
Track(h) ==
    /\ At(h, "applied")
    /\ tracked' = [tracked EXCEPT ![handler[h].ws] =
         {p \in @ : p.source # Current(h)} \cup {ThePacket(h)}]
    /\ Skip(h, {})
    /\ UNCHANGED <<history, packets, graph, restarted>>

----------------------------------------------------------------------------
\* ProposeMutation: its result carries no packet, and no graph changes.
Mutate(h) ==
    /\ "mutate" \in Op /\ At(h, "idle")
    /\ \E id \in Mutation :
         handler' = [handler EXCEPT ![h] =
           [Idle EXCEPT !.step = "mutating", !.query = id, !.prior = Len(history)]]
    /\ UNCHANGED <<history, orchestratorVars, restarted>>

ProposeMutation(h) ==
    /\ At(h, "mutating")
    /\ LET request == Request(handler[h].query, 0, handler[h].prior)
       IN  \/ /\ ~ Known(request.id) /\ request.prior = Len(history)
              /\ Len(history) < MaxHistory
              /\ history' = Append(history, request)
              /\ Goto(h, "done")
           \/ /\ Known(request.id)
              /\ handler' = [handler EXCEPT
                   ![h].step = "done",
                   ![h].refused = IF request \in ToSet(history) THEN {}
                                  ELSE {request.id}]
              /\ UNCHANGED history
           \/ /\ ~ Known(request.id)
              /\ Goto(h, "done") /\ UNCHANGED history
    /\ UNCHANGED <<orchestratorVars, restarted>>

----------------------------------------------------------------------------
\* Query: the graph is copied, then the packets.
ReadGraph(h) ==
    /\ "query" \in Op /\ At(h, "idle")
    /\ \E w \in Workspace, q \in Query :
         handler' = [handler EXCEPT ![h] =
           [Idle EXCEPT !.step = "read", !.ws = w, !.query = q,
                        !.nodes = {n \in graph[w].nodes : n.id.type = "file"}]]
    /\ UNCHANGED <<history, orchestratorVars, restarted>>

SourceOf(node) ==
    [ws |-> node.id.ws, file |-> node.id.place, bytes |-> node.id.bytes]

\* ScoreGraph: a node without its packet is scored by its path alone.
Scored(nodes, P, q) ==
    {LET c == Matches[q][SourceOf(n)]
         whole == SourceOf(n) \in SourcesOf(P)
     IN  [node |-> n, whole |-> whole,
          counts |-> IF whole THEN c ELSE [c EXCEPT !.primary = 0, !.meta = 0]] :
       n \in nodes}

ActivationOf(x) == Activation(x.counts, Confidence("hash", IF x.whole THEN "hash" ELSE ""))

Better(x, y) ==
    IF ActivationOf(x) # ActivationOf(y) THEN ActivationOf(x) > ActivationOf(y)
    ELSE IF Raw(x.counts) # Raw(y.counts) THEN Raw(x.counts) > Raw(y.counts)
    ELSE Rank[SourceOf(x.node)] < Rank[SourceOf(y.node)]

Limit == IF MaxCandidates < MaxActorsPerRequest THEN MaxCandidates
         ELSE MaxActorsPerRequest

CutTo(seq, n) == SubSeq(seq, 1, IF Len(seq) < n THEN Len(seq) ELSE n)

\* sort.Slice by Better: the members of a set, one after the other.
Sorted(S) ==
    CHOOSE seq \in [1..Cardinality(S) -> S] :
        \A i, j \in 1..Cardinality(S) : i < j => Better(seq[i], seq[j])

\* What passes the threshold.
Worth(scored) == {x \in scored : ActivationOf(x) >= Threshold}

\* Mutant of SelectCandidates: cut, in the order of ids, before sorting.
SelectCut(scored) ==
    LET below(x) == {y \in Worth(scored) :
                       Rank[SourceOf(y.node)] < Rank[SourceOf(x.node)]}
    IN  Sorted({x \in Worth(scored) : Cardinality(below(x)) < Limit})

\* Filter, sort, cut to the candidates, cut to the actors.
SelectCandidates(scored) ==
    CutTo(CutTo(Sorted(Worth(scored)), MaxCandidates), MaxActorsPerRequest)

PacketsFor(w) == packets[w]

Select(h) ==
    /\ At(h, "read")
    /\ LET scored == Scored(handler[h].nodes, PacketsFor(handler[h].ws),
                           handler[h].query)
       IN  handler' = [handler EXCEPT ![h].step = "done", ![h].nodes = {},
                                      ![h].scored = scored,
                                      ![h].selected = SelectCandidates(scored)]
    /\ UNCHANGED <<history, orchestratorVars, restarted>>

----------------------------------------------------------------------------
\* The server is restarted.  The authority is rebuilt from the ledger; the
\* orchestrators and their stores are made anew, empty.
Restart ==
    /\ "restart" \in Faults
    /\ packets' = [w \in Workspace |-> {}]
    /\ graph' = [w \in Workspace |-> EmptyGraph(w)]
    /\ tracked' = [w \in Workspace |-> {}]
    /\ handler' = [h \in Handler |-> Idle]
    /\ restarted' = TRUE
    /\ UNCHANGED history

Next ==
    \/ \E h \in Handler :
         \/ Parse(h) \/ ReadPrior(h) \/ IngestAccepted(h) \/ IngestDuplicate(h)
         \/ IngestConflict(h) \/ IngestRejected(h) \/ Apply(h) \/ Track(h)
         \/ Mutate(h) \/ ProposeMutation(h) \/ ReadGraph(h) \/ Select(h)
         \/ Return(h)
    \/ Restart

Spec == Init /\ [][Next]_vars

----------------------------------------------------------------------------
Place == File \cup Dir \cup {None}
ID == [type : NodeTypes, ws : Workspace, place : Place, bytes : Bytes \cup {None}]
ASSUME NoneAssumption == None \notin ID
Node == [id : ID, parent : ID \cup {None}, provenance : Source]
EdgeTypes == {"contains", "parent", "derived_from", "reference", "source", "hyperlink"}

TypeOK ==
    /\ \A n \in DOMAIN history :
         history[n] \in [id : Source \cup Mutation, made : Instant \cup {0},
                         prior : 0..(n - 1)]
    /\ \A w \in Workspace :
         /\ packets[w] \subseteq Packet /\ tracked[w] \subseteq Packet
         /\ graph[w].ws \in Workspace \cup {None}
         /\ graph[w].nodes \subseteq Node
         /\ \A e \in graph[w].edges :
              /\ e.from \in ID /\ e.type \in EdgeTypes
              /\ e.to \in ID \cup {ExternalID(link) : link \in Link}
    /\ restarted \in BOOLEAN
    /\ \A h \in Handler :
         /\ handler[h].step \in {"idle", "parsed", "prior", "accepted", "applied",
                                "mutating", "read", "done"}
         /\ handler[h].todo \subseteq Source /\ handler[h].prior \in 0..Len(history)
         /\ handler[h].nodes \subseteq Node

\* A store and its graph hold only packets the authority has accepted for that
\* workspace, byte for byte, whatever is stale, duplicate, refused or restarted
\* meanwhile ("derived only from Rust-acknowledged accepted ingest events").
PacketsAccepted ==
    /\ TypeOK
    /\ \A w \in Workspace :
         /\ packets[w] \subseteq
              {p \in AcceptedPackets(history) : p.source.ws = w}
         /\ \A n \in graph[w].nodes : n.provenance \in SourcesOf(packets[w])

Quiet == \A h \in Handler : At(h, "idle")

\* Replaying the history into a new store gives the packets and the graph that
\* the requests have built ("discard -> replay history -> same hash").
GraphRebuildable ==
    (Quiet /\ AcceptedPackets(history) # {}) =>
        \A w \in Workspace :
            packets[w] = Rebuilt.packets /\ graph[w] = Rebuilt.graph

\* A graph is one: ids are unique; edges join nodes of it, but for hyperlinks,
\* which leave a file whose text has them and end in no node ("We add edge only,
\* not node"); a node is contained in its parent and in nothing else; and its
\* files are the store's packets (docs/CHUNK-05: "structural parent/child edge").
GraphSound ==
    \A w \in Workspace :
        LET nodes == graph[w].nodes
            contains == {e \in graph[w].edges : e.type = "contains"}
            hyperlinks == {e \in graph[w].edges : e.type = "hyperlink"}
        IN  /\ \A m, n \in nodes : m.id = n.id => m = n
            /\ \A e \in graph[w].edges \ hyperlinks : \E m, n \in nodes :
                   m.id = e.from /\ n.id = e.to
            /\ \A e \in hyperlinks :
                   /\ \E n \in nodes : /\ n.id = e.from /\ n.id.type = "file"
                                       /\ e.to \in Targets(SourceOf(n))
                   /\ \A n \in nodes : n.id # e.to
            /\ \A n \in nodes :
                   {e.from : e \in {f \in contains : f.to = n.id}} = {n.parent} \ {None}
            /\ {SourceOf(n) : n \in {m \in nodes : m.id.type = "file"}}
                 = SourcesOf(packets[w])

\* Where the history has packets of one workspace alone, and no restart has
\* emptied its store, the requests have built what replay builds, in whatever
\* order they came; and the graph of every workspace is sound.
GraphReplayed ==
    /\ GraphSound
    /\ (Quiet /\ ~ restarted) =>
         \A w \in Workspace :
             {p.source.ws : p \in AcceptedPackets(history)} = {w}
                 => packets[w] = Rebuilt.packets /\ graph[w] = Rebuilt.graph

\* A node that is scored has its packet, although the graph and the packets
\* are read one after the other.
QueryWhole ==
    \A h \in Handler :
        \A x \in handler[h].scored : x.whole

\* A query selects the best of what it read: no more than it may, in order,
\* and nothing better is left out ("ties deterministic").
QuerySelectsBest ==
    \A h \in Handler :
        (At(h, "done") /\ handler[h].scored # {}) =>
            LET chosen == handler[h].selected
                worth == Worth(handler[h].scored)
            IN  /\ Len(chosen) = IF Cardinality(worth) < Limit
                                 THEN Cardinality(worth) ELSE Limit
                /\ \A i \in DOMAIN chosen :
                     /\ chosen[i] \in worth
                     /\ {x \in worth : Better(x, chosen[i])}
                          = {chosen[j] : j \in 1..(i - 1)}

\* Metadata alone wakes no actor: what is selected matches in its content or in
\* its path ("metadata-only tokens do not dominate").
SelectedHaveEvidence ==
    \A h \in Handler :
        \A i \in DOMAIN handler[h].selected :
            LET c == handler[h].selected[i].counts
            IN  c.primary > 0 \/ c.secondary > 0

\* A query is right whatever arrives while it runs.
QueryRight == QueryWhole /\ QuerySelectsBest /\ SelectedHaveEvidence

\* What has been accepted may be sent again ("Duplicate TransitionID is
\* idempotent", "retry idempotent").
RetryIdempotent == \A h \in Handler : handler[h].refused = {}
============================================================================
