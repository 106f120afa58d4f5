------------------------------- MODULE Splice -------------------------------
(***************************************************************************)
(* The incremental core of the graph: what extraction makes of a tree of    *)
(* files, and what refresh.splice makes of a graph when some of them         *)
(* changed (refresh.lua over the id pass of the tree-sitter provider).       *)
(*                                                                          *)
(* A text is the set of its identifiers: a definition of a function or of a *)
(* top-level variable, or a mention, each with its line.  A function is one *)
(* line long.                                                               *)
(*                                                                          *)
(* Left out: calls and the edges relink makes of them, imports, unparsed    *)
(* bundles, sql entities, file-local and lexically bound names, names of     *)
(* one or two letters, witnesses, and more than one language.               *)
(***************************************************************************)
EXTENDS Naturals, FiniteSets

CONSTANTS Files, Names,
          Lines,    \* bound: the lines of a file
          Texts,    \* bound: what a file can hold
          Gone      \* what a file that is not there holds

Token == [is : {"function", "var", "mention"}, name : Names, line : Lines]

(* Of one kind, a name has one definition in a file; a line has at most one  *)
(* definition.                                                              *)
ASSUME SpliceTextAssumption ==
    /\ Texts \subseteq SUBSET Token
    /\ Gone \notin Texts
    /\ \A t \in Texts : \A d, e \in t :
          /\ d.is = e.is /\ d.is # "mention" /\ d.name = e.name => d = e
          /\ d.is # "mention" /\ e.is # "mention" /\ d.line = e.line => d = e

(* A project has finitely many files, and a file finitely many identifiers.  *)
ASSUME SpliceFiniteAssumption ==
    /\ IsFiniteSet(Files)
    /\ \A t \in Texts : IsFiniteSet(t)

Contents == Texts \cup {Gone}

(* A node's id spells its file, its name and its line; a module's id is the   *)
(* path of its file.                                                         *)
Node == [file : Files, is : {"function", "var"}, name : Names, line : Lines]
Module(f) == [file |-> f, is |-> "module"]
Edge == [from : Node \cup {Module(f) : f \in Files}, to : Node, kind : {"ref", "reg", "use"}]

Nodes(f, t) ==
    IF t = Gone THEN {}
    ELSE {[file |-> f, is |-> d.is, name |-> d.name, line |-> d.line] :
            d \in {x \in t : x.is # "mention"}}

Called(nodes, is, n) == {d \in nodes : d.is = is /\ d.name = n}
Functions(nodes, f) == {d \in nodes : d.file = f /\ d.is = "function"}
Vars(nodes, f) == {d \in nodes : d.file = f /\ d.is = "var"}
-----------------------------------------------------------------------------
(* The id pass (reduce_mentions) over a file that holds t, against the nodes  *)
(* of the whole graph.                                                       *)

(* The function whose extent an occurrence is in, else the module. *)
Owner(f, x, nodes) ==
    LET here == {d \in Functions(nodes, f) : d.line = x.line}
    IN  IF here = {} THEN Module(f) ELSE CHOOSE d \in here : TRUE

(* A function is named by a name no other function has, outside of its own    *)
(* definition.                                                               *)
FunctionNamed(f, x, nodes) ==
    {d \in Called(nodes, "function", x.name) :
        /\ Called(nodes, "function", x.name) = {d}
        /\ ~(d.file = f /\ d.line = x.line)}

(* A variable is named by the mentions in its own file and, when no other      *)
(* variable has its name, by those in every other.                            *)
VarNamed(f, x, nodes) ==
    LET all == Called(nodes, "var", x.name)
        own == {d \in all : d.file = f}
    IN  {d \in all : /\ IF own = {} THEN all = {d} ELSE d \in own
                     /\ \A v \in own : v.line # x.line}

(* The gate of the id pass: only a file with functions or variables has       *)
(* mentions, and only one with functions names functions.                     *)
Mentioning(f, t, nodes) ==
    t # Gone /\ (Functions(nodes, f) # {} \/ Vars(nodes, f) # {})

IdEdges(f, t, nodes) ==
    IF ~Mentioning(f, t, nodes) THEN {}
    ELSE UNION {
        LET o == Owner(f, x, nodes)
        IN  {[from |-> o, to |-> d, kind |-> "use"] : d \in VarNamed(f, x, nodes)}
            \cup {[from |-> o, to |-> d, kind |-> IF o = Module(f) THEN "reg" ELSE "ref"] :
                    d \in {e \in FunctionNamed(f, x, nodes) : Functions(nodes, f) # {}}}
        : x \in t}

Identifiers(f, t, nodes) ==
    IF Mentioning(f, t, nodes) THEN {x.name : x \in t} ELSE {}

(* ts.extract of the whole tree. *)
Extract(tree) ==
    LET nodes == UNION {Nodes(f, tree[f]) : f \in Files}
    IN  [nodes |-> nodes,
         edges |-> UNION {IdEdges(f, tree[f], nodes) : f \in Files},
         names |-> [f \in Files |-> Identifiers(f, tree[f], nodes)],
         stamps |-> [f \in Files |-> IF tree[f] = Gone THEN "none" ELSE "now"]]
-----------------------------------------------------------------------------
(* refresh.splice: the files rels are read again, the files del are gone.     *)

Removed(g, rels, del) == {d \in g.nodes : d.file \in rels \cup del}
Mini(rels, tree) == UNION {Nodes(f, tree[f]) : f \in rels}

(* Mutant: the nodes of deleted files stay. *)
AfterKeepingDeleted(g, rels, del, tree) ==
    {d \in g.nodes : d.file \notin rels} \cup Mini(rels, tree)

After(g, rels, del, tree) == (g.nodes \ Removed(g, rels, del)) \cup Mini(rels, tree)

(* refs.resolve: what a removed node is now, by file, kind and name. *)
Remap(d, g, rels, tree) ==
    {e \in Mini(rels, tree) : /\ d \in g.nodes
                              /\ e.file = d.file /\ e.is = d.is /\ e.name = d.name}

(* The edges of the other files into the removed ones: ids tell their file,   *)
(* even when the node never made it into the graph.                           *)
Inbound(g, rels, del) ==
    {e \in g.edges : e.from.file \notin rels \cup del /\ e.to.file \in rels \cup del}

(* They are remapped or dropped; the outgoing ones are dropped. *)
Surviving(g, rels, del, tree) ==
    {e \in g.edges : e.from.file \notin rels \cup del /\ e.to.file \notin rels \cup del}
    \cup UNION {{[e EXCEPT !.to = d] : d \in Remap(e.to, g, rels, tree)} :
                  e \in Inbound(g, rels, del)}

(* Mutant: only the names there are more or fewer definitions of among the     *)
(* files read, not those that go with a deleted one.                          *)
WorthyOfRead(g, rels, del, tree) ==
    {n \in Names : \E is \in {"function", "var"} :
        LET after == Cardinality(Called(After(g, rels, del, tree), is, n))
            before == (after + Cardinality(Called(Removed(g, rels, {}), is, n)))
                            - Cardinality(Called(Mini(rels, tree), is, n))
        IN  (before = 1) # (after = 1)}

(* Mutant: a name that becomes ambiguous is not worth another look. *)
WorthyIfUnique(g, rels, del, tree) ==
    {n \in Names : \E is \in {"function", "var"} :
        /\ Cardinality(Called(After(g, rels, del, tree), is, n)) = 1
        /\ Cardinality(Called(g.nodes, is, n)) # 1}

(* The names whose uniqueness the splice changed, by its own count. *)
Worthy(g, rels, del, tree) ==
    {n \in Names : \E is \in {"function", "var"} :
        LET after == Cardinality(Called(After(g, rels, del, tree), is, n))
            before == (after + Cardinality(Called(Removed(g, rels, del), is, n)))
                            - Cardinality(Called(Mini(rels, tree), is, n))
        IN  (before = 1) # (after = 1)}

Candidates(g, rels, del, tree) ==
    {f \in Files \ (rels \cup del) : g.names[f] \cap Worthy(g, rels, del, tree) # {}}

(* The files whose edges are made anew: a candidate only if it has functions, *)
(* although the edges of every candidate go.                                  *)
Derived(g, rels, del, tree) ==
    rels \cup {f \in Candidates(g, rels, del, tree) :
                 Functions(After(g, rels, del, tree), f) # {}}

Splice(g, rels, del, tree) ==
    LET nodes == After(g, rels, del, tree)
        again == Derived(g, rels, del, tree)
    IN  [nodes |-> nodes,
         edges |-> {e \in Surviving(g, rels, del, tree) :
                      e.from.file \notin Candidates(g, rels, del, tree)}
                   \cup UNION {IdEdges(f, tree[f], nodes) : f \in again},
         names |-> [f \in Files |->
                      IF f \in again /\ Identifiers(f, tree[f], nodes) # {}
                        THEN Identifiers(f, tree[f], nodes)
                      ELSE IF f \in rels \cup del THEN {} ELSE g.names[f]],
         stamps |-> [f \in Files |-> IF f \in del THEN "none"
                                     ELSE IF f \in rels THEN "now" ELSE g.stamps[f]]]

(* Mutant: the files whose edges were remapped or dropped are forgotten. *)
DirtyByName(g, rels, del, tree) == (rels \cup Candidates(g, rels, del, tree)) \ del

(* The account it gives of the files whose part of the graph it changed. *)
Dirty(g, rels, del, tree) ==
    (rels \cup {e.from.file : e \in Inbound(g, rels, del)}
          \cup Candidates(g, rels, del, tree)) \ del
=============================================================================
