----------------------------- MODULE GraphCache -----------------------------
(***************************************************************************)
(* The graph of a tree of files in memory, and its cache on disk: one shard *)
(* per file and a manifest, written last, that says which shards count and  *)
(* what each file looked like.  A session opens the tree cold or from the   *)
(* cache, splices what changes, saves in the background, and may die at any *)
(* of those steps, while other programs change the files.                   *)
(*                                                                          *)
(* A stamp (mtime and size) is kept as how it compares with the file now,   *)
(* and the length of a shard, which the manifest records, as the shard: two *)
(* shards of one length are told apart by nothing.                          *)
(*                                                                          *)
(* Left out: the decoding of shards over several ticks, the index-only      *)
(* cache, the self-type map, versions and profiles of the manifest, and     *)
(* staged work, which freezes every refresh.                                *)
(***************************************************************************)
EXTENDS Splice

CONSTANTS Versions,   \* bound: [Files -> what each file may hold]
          MaxEdits,   \* bound: how often files change
          MaxDiff,    \* the changed files beyond which a warm open is not worth it
          Batch,      \* bound: the files of one refresh
          Torn,       \* the files inside whose shard a session may die
          Unwritable  \* the files whose shard may fail to open

ASSUME CacheAssumption ==
    /\ Versions \in [Files -> SUBSET Contents]
    /\ MaxEdits \in Nat
    /\ MaxDiff \in Nat
    /\ Batch \in Nat
    /\ Torn \cup Unwritable \subseteq Files

VARIABLES tree,      \* the project: [Files -> Contents]
          edits,     \* how often it changed
          shard,     \* the shard files
          manifest,  \* the manifest file
          open,      \* there is a session
          graph,     \* the graph of the session
          saving,    \* the save it is in the middle of
          sweeping,  \* the sweep the last save has put off
          missed     \* history variable: names a splice lost track of

vars == <<tree, edits, shard, manifest, open, graph, saving, sweeping, missed>>

Stamps == [Files -> {"none", "old", "now"}]
Unstamped == [f \in Files |-> "none"]
Stamped(s) == {f \in Files : s[f] # "none"}

NoPart == [nodes |-> {}, edges |-> {}, names |-> {}]
NoShard == [is |-> "absent", part |-> NoPart]
TornShard == [is |-> "torn", part |-> NoPart]
Shards == [Files -> [is : {"absent", "torn", "whole"},
                     part : [nodes : SUBSET Node, edges : SUBSET Edge, names : SUBSET Names]]]

(* build_shards: what a file contributes to the graph. *)
Shard(g, f) ==
    [is |-> "whole",
     part |-> [nodes |-> {d \in g.nodes : d.file = f},
               edges |-> {e \in g.edges : e.from.file = f},
               names |-> g.names[f]]]

NoSizes == [f \in Files |-> NoShard]
NoGraph == [nodes |-> {}, edges |-> {}, names |-> [f \in Files |-> {}], stamps |-> Unstamped]
NotSaving == [by |-> "none", left |-> {}, stamps |-> Unstamped, shards |-> NoSizes]

TypeOK ==
    /\ tree \in [Files -> Contents]
    /\ edits \in 0..MaxEdits
    /\ shard \in Shards
    /\ manifest \in [there : BOOLEAN, stamps : Stamps, sizes : Shards]
    /\ open \in BOOLEAN
    /\ graph \in [nodes : SUBSET Node, edges : SUBSET Edge,
                  names : [Files -> SUBSET Names], stamps : Stamps]
    /\ saving \in [by : {"none", "timer", "open"}, left : SUBSET Files,
                   stamps : Stamps, shards : Shards]
    /\ sweeping \in BOOLEAN
    /\ missed \in SUBSET Names
-----------------------------------------------------------------------------
Init ==
    /\ tree \in [Files -> Contents]
    /\ \A f \in Files : tree[f] \in Versions[f]
    /\ edits = 0
    /\ shard = [f \in Files |-> NoShard]
    /\ manifest = [there |-> FALSE, stamps |-> Unstamped, sizes |-> NoSizes]
    /\ open = FALSE
    /\ graph = NoGraph
    /\ saving = NotSaving
    /\ sweeping = FALSE
    /\ missed = {}

(* The provider's diff of the tree against the manifest. *)
Changed == {f \in Files : tree[f] # Gone /\ manifest.stamps[f] # "now"}
Deleted == {f \in Stamped(manifest.stamps) : tree[f] = Gone}

(* warm_decision: a warm open, when there is a manifest and the diff is small. *)
Worthwhile == manifest.there /\ Cardinality(Changed) <= MaxDiff

(* A save of the shards in `want` begins; the sizes of the others are those   *)
(* of the manifest before.  A new save supersedes the one in flight.          *)
StartSave(by, g, want) ==
    saving' = [by |-> by, left |-> want \cap Stamped(g.stamps), stamps |-> g.stamps,
               shards |-> [f \in Files |->
                             IF f \notin Stamped(g.stamps) THEN NoShard
                             ELSE IF f \in want THEN Shard(g, f) ELSE manifest.sizes[f]]]

OpenCold ==
    /\ ~open /\ ~Worthwhile
    /\ open' = TRUE
    /\ graph' = Extract(tree)
    /\ StartSave("timer", Extract(tree), Files)
    /\ UNCHANGED <<tree, edits, shard, manifest, sweeping, missed>>

(* read_shard and M.load: a shard that is not there, not as long as the        *)
(* manifest says or not decodable is skipped, and its file counts as changed. *)
Intact(f) == shard[f].is = "whole" /\ shard[f] = manifest.sizes[f]
Loadable == {f \in Stamped(manifest.stamps) : Intact(f)}
Bad == Stamped(manifest.stamps) \ Loadable

Loaded ==
    [nodes |-> UNION {shard[f].part.nodes : f \in Loadable},
     edges |-> UNION {shard[f].part.edges : f \in Loadable},
     names |-> [f \in Files |-> IF f \in Loadable THEN shard[f].part.names ELSE {}],
     stamps |-> [f \in Files |-> IF f \in Loadable THEN manifest.stamps[f] ELSE "none"]]

(* The names whose only definition a splice takes from one file to another:   *)
(* there is one before and one after.                                         *)
Moved(g, rels, del) ==
    {n \in Names : \E is \in {"function", "var"} :
        \E d \in Called(g.nodes, is, n), e \in Called(After(g, rels, del, tree), is, n) :
           /\ Called(g.nodes, is, n) = {d}
           /\ Called(After(g, rels, del, tree), is, n) = {e}
           /\ d.file # e.file}

(* The names defined in a shard that is not readable, of a file that is not   *)
(* what it was: no splice counts those definitions as removed.                *)
Uncounted ==
    {d.name : d \in UNION {manifest.sizes[f].part.nodes : f \in Bad \cap (Changed \cup Deleted)}}

(* cache.open: load, splice the diff and the unreadable, save what that        *)
(* changed before anything else runs.                                         *)
OpenWarm ==
    LET rels == Changed \cup Bad
        now == Splice(Loaded, rels, Deleted, tree)
        same == rels = {} /\ Deleted = {}
    IN  /\ ~open /\ Worthwhile
        /\ open' = TRUE
        /\ graph' = IF same THEN Loaded ELSE now
        /\ IF same THEN UNCHANGED saving
           ELSE StartSave("open", now, Dirty(Loaded, rels, Deleted, tree))
        /\ missed' = missed \cup Moved(Loaded, rels, Deleted) \cup Uncounted
        /\ UNCHANGED <<tree, edits, shard, manifest, sweeping>>

SaveShard(f) ==
    /\ f \in saving.left
    /\ shard' = [shard EXCEPT ![f] = saving.shards[f]]
    /\ saving' = [saving EXCEPT !.left = @ \ {f}]
    /\ UNCHANGED <<tree, edits, manifest, open, graph, sweeping, missed>>

(* A shard's file cannot be opened: the timer goes on without it, a save of    *)
(* an open gives up, without a manifest.                                      *)
ShardFails(f) ==
    /\ f \in saving.left \cap Unwritable
    /\ saving' = IF saving.by = "timer" THEN [saving EXCEPT !.left = @ \ {f}] ELSE NotSaving
    /\ UNCHANGED <<tree, edits, shard, manifest, open, graph, sweeping, missed>>

(* The manifest, last, and a sweep in two seconds. *)
WriteManifest ==
    /\ saving.by # "none" /\ saving.left = {}
    /\ manifest' = [there |-> TRUE, stamps |-> saving.stamps, sizes |-> saving.shards]
    /\ saving' = NotSaving
    /\ sweeping' = TRUE
    /\ UNCHANGED <<tree, edits, shard, open, graph, missed>>

Free == open /\ saving.by # "open"

(* M.gc: the shards of files the manifest on disk does not name. *)
Sweep ==
    /\ Free /\ sweeping
    /\ shard' = [f \in Files |-> IF f \in Stamped(manifest.stamps) THEN shard[f] ELSE NoShard]
    /\ sweeping' = FALSE
    /\ UNCHANGED <<tree, edits, manifest, open, graph, saving, missed>>

(* refresh.files: after a save in an editor, or an applied transaction. *)
Refresh(rels) ==
    /\ Free
    /\ rels # {}
    /\ \A f \in rels : tree[f] # Gone
    /\ graph' = Splice(graph, rels, {}, tree)
    /\ missed' = missed \cup Moved(graph, rels, {})
    /\ UNCHANGED <<tree, edits, shard, manifest, open, saving, sweeping>>

RefreshAll ==
    /\ Free
    /\ graph' = Extract(tree)
    /\ StartSave("timer", Extract(tree), Files)
    /\ UNCHANGED <<tree, edits, shard, manifest, open, sweeping, missed>>

(* The session ends: its memory and its timers are gone. *)
Quit ==
    /\ open
    /\ open' = FALSE
    /\ graph' = NoGraph
    /\ saving' = NotSaving
    /\ sweeping' = FALSE
    /\ UNCHANGED <<tree, edits, shard, manifest, missed>>

(* It dies with a shard cut to nothing and not yet written. *)
DieWriting(f) ==
    /\ f \in saving.left \cap Torn
    /\ shard' = [shard EXCEPT ![f] = TornShard]
    /\ open' = FALSE
    /\ graph' = NoGraph
    /\ saving' = NotSaving
    /\ sweeping' = FALSE
    /\ UNCHANGED <<tree, edits, manifest, missed>>

(* Every stamp of the file as it was until now is an old one. *)
Aged(stamps, f) == [stamps EXCEPT ![f] = IF @ = "now" THEN "old" ELSE @]

(* A file is written, made or removed. *)
Edit(f, t) ==
    /\ tree[f] # t
    /\ edits < MaxEdits
    /\ edits' = edits + 1
    /\ tree' = [tree EXCEPT ![f] = t]
    /\ graph' = [graph EXCEPT !.stamps = Aged(@, f)]
    /\ manifest' = [manifest EXCEPT !.stamps = Aged(@, f)]
    /\ saving' = [saving EXCEPT !.stamps = Aged(@, f)]
    /\ UNCHANGED <<shard, open, sweeping, missed>>

Next ==
    \/ OpenCold \/ OpenWarm \/ WriteManifest \/ Sweep \/ RefreshAll \/ Quit
    \/ \E f \in Files : SaveShard(f) \/ ShardFails(f) \/ DieWriting(f)
    \/ \E rels \in SUBSET Files : /\ Cardinality(rels) <= Batch
                                  /\ \A f \in rels : graph.stamps[f] # "now"
                                  /\ Refresh(rels)
    \/ \E f \in Files : \E t \in Versions[f] : Edit(f, t)

Spec == Init /\ [][Next]_vars
-----------------------------------------------------------------------------
Trees == {t \in [Files -> Contents] : \A f \in Files : t[f] \in Versions[f]}
Extracted == [t \in Trees |-> Extract(t)]
Fresh == Extracted[tree]

(* The graph has read every file as it is now. *)
UpToDate == open /\ graph.stamps = Fresh.stamps

(* "Extraction is a pure function of file content, so the repair is exact"    *)
(* (M.load in cache.lua): whatever was loaded, repaired, spliced or read anew, *)
(* the definitions and the mentions on record are those of the files.         *)
IndexFresh == UpToDate => graph.nodes = Fresh.nodes /\ graph.names = Fresh.names

(* "A name made ambiguous must lose the inferred links only its former         *)
(* uniqueness justified" (the reconciliation of M.splice in refresh.lua): no   *)
(* edge survives that an extraction of the files would not make.              *)
NothingStale == UpToDate => graph.edges \subseteq Fresh.edges

(* The other half, "a new global's inbound uses must APPEAR in unchanged       *)
(* files", with all that the code leaves out of it: the graph has every edge   *)
(* an extraction would make, but for those to a name a splice lost track of    *)
(* and those of the module of a file without functions.                       *)
FromVarFile(e) == e.from.is = "module" /\ Functions(graph.nodes, e.from.file) = {}

Converges ==
    UpToDate => \A e \in Fresh.edges \ graph.edges : e.to.name \in missed \/ FromVarFile(e)

(* "The cache trusts this account for O(diff) saves" (M.splice, on dirty): when *)
(* an open saves the shards the splice reports and keeps the others, each      *)
(* shard the manifest will name is what its file contributes to the graph.     *)
HonestAccount ==
    saving.by = "open" =>
        \A f \in Stamped(graph.stamps) : saving.shards[f] = Shard(graph, f)
=============================================================================
