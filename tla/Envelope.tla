------------------------------ MODULE Envelope ------------------------------
(***************************************************************************)
(* The flatten-workspace/v1 envelope, internal/workspace: ToEnvelope and   *)
(* FromEnvelope.  A file is an entry {path, declared, data, size, sha} of  *)
(* the tree, in the order the parser walks it; size and sha are those of   *)
(* the datum they name.  The content's encoding is undone by the parser    *)
(* and left out, and so are directories without files.                     *)
(***************************************************************************)
EXTENDS Naturals, Sequences, FiniteSets, SequencesExt

CONSTANTS
    Below,      \* pairs <<p, q>> of paths: q is a directory in the path p
    NoPath,     \* an entry that declares no path
    Unsafe,     \* a declared path that IsSafePath refuses
    NoData      \* an entry that declares no size or hash

Entry(p, data) ==
    [path |-> p, declared |-> p, data |-> data, size |-> data, sha |-> data]

Listing(p, data) == [path |-> p, size |-> data, sha |-> data]

\* ToEnvelope; count is source.file_count.
ToEnvelope(files, count) ==
    LET paths == SetToSeq(DOMAIN files)
    IN  [ tree     |-> [i \in DOMAIN paths |-> Entry(paths[i], files[paths[i]])],
          manifest |-> [i \in DOMAIN paths |-> Listing(paths[i], files[paths[i]])],
          count    |-> count ]

----------------------------------------------------------------------------
\* The nodes of the walk, which does not go below a file's.
Walked(env) ==
    {i \in DOMAIN env.tree :
        \A j \in DOMAIN env.tree : <<env.tree[i].path, env.tree[j].path>> \notin Below}

\* The path a file gets: the declared one, if it is safe.
Place(e) == IF e.declared \in {NoPath, Unsafe} THEN e.path ELSE e.declared

\* Of several entries with one place the first is kept.
Kept(env, p) ==
    LET found == {i \in Walked(env) : Place(env.tree[i]) = p}
    IN  env.tree[CHOOSE i \in found : \A j \in found : i <= j]

Places(env) == {Place(env.tree[i]) : i \in Walked(env)}

\* What is wrong with an entry, and what the manifest says otherwise.
EntryIssues(e) ==
    {k \in {"rejected path", "other path", "size", "sha"} :
        CASE k = "rejected path" -> e.declared = Unsafe
          [] k = "other path"    -> e.declared \notin {NoPath, Unsafe, e.path}
          [] k = "size"          -> e.size # e.data
          [] k = "sha"           -> e.sha \notin {NoData, e.data}}

ListingIssues(env, m) ==
    {k \in {"not in tree", "manifest size", "manifest sha"} :
        IF m.path \notin Places(env) THEN k = "not in tree"
        ELSE CASE k = "not in tree"   -> FALSE
               [] k = "manifest size" ->
                    m.size \notin {NoData, Kept(env, m.path).data}
               [] k = "manifest sha"  ->
                    m.sha \notin {NoData, Kept(env, m.path).data}}

\* Mutant of Issues: the manifest is not compared.
IssuesOfTree(env) == UNION {EntryIssues(env.tree[i]) : i \in Walked(env)}

\* Workspace.Issues, without the paths they name.
Issues(env) ==
    LET walked == Walked(env)
        listed == {m.path : m \in ToSet(env.manifest)}
    IN  (UNION {EntryIssues(env.tree[i]) : i \in walked})
        \cup (UNION {ListingIssues(env, m) : m \in ToSet(env.manifest)})
        \cup {k \in {"duplicate", "not in manifest", "file count"} :
                CASE k = "duplicate" -> Cardinality(Places(env)) < Cardinality(walked)
                  [] k = "not in manifest" ->
                       env.manifest # <<>> /\ ~ Places(env) \subseteq listed
                  [] k = "file count" -> env.count \notin {0, Cardinality(walked)}}

\* File.Verified.
Verified(env, p) ==
    /\ EntryIssues(Kept(env, p)) \subseteq {"other path"}
    /\ \A m \in ToSet(env.manifest) : m.path = p => ListingIssues(env, m) = {}

\* FromEnvelope.
FromEnvelope(env) ==
    [ files    |-> [p \in Places(env) |-> Kept(env, p).data],
      verified |-> {p \in Places(env) : Verified(env, p)},
      issues   |-> Issues(env) ]

----------------------------------------------------------------------------
\* What becomes of an envelope in a client's hands: the datum of one of the
\* entries is edited, the entry is removed, or it is given a path that is
\* another file's or unsafe.
Edits(env, data, entries) ==
    LET nodes == {i \in DOMAIN env.tree : env.tree[i].path \in entries}
    IN  { [env EXCEPT !.tree[i].data = d] : i \in nodes, d \in data }
          \cup { [env EXCEPT !.tree = RemoveAt(@, i)] : i \in nodes }
          \cup { [env EXCEPT !.tree[i].declared = p] :
                   i \in nodes, p \in entries \cup {Unsafe} }

============================================================================
