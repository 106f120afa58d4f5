-------------------------- MODULE GraphCache_proofs --------------------------
(***************************************************************************)
(* What the graph and its cache keep, for every tree, every version of its   *)
(* files and every failure.                                                 *)
(*                                                                          *)
(* First, what needs no knowledge of the texts: the variables keep their    *)
(* types, and the account refresh.splice gives of the files it changed is   *)
(* honest.  It rests on three facts: a shard only ever holds its own file's *)
(* part of the graph, loading and sharding are inverse, and a splice leaves *)
(* the part of every file out of its account as it was.                     *)
(*                                                                          *)
(* Then, that the graph is that of the files.  This cannot be an invariant  *)
(* of the graph alone: a warm open makes it of what is on disk.  So the     *)
(* invariant (Agrees) is that three graphs agree with the files as far as   *)
(* they were read: the one in memory, the one that loading all the shards   *)
(* of the manifest would make, and the one the save in flight is about to   *)
(* put there.                                                               *)
(***************************************************************************)
EXTENDS GraphCache, TLAPS, FiniteSetTheorems

-----------------------------------------------------------------------------
(***************************************************************************)
(* What refresh.splice makes of a graph, for any files, texts and choice of *)
(* files to read again: a graph that agrees with the files it was read from *)
(* is turned into one that agrees with them as they are now.  Agreement is   *)
(* stated file by file, so that a graph may be older than some of its files: *)
(* the definitions and mentions of a file read as it is now are those of its *)
(* text (Indexed), its edges are ones the id pass would make (Sound), go to  *)
(* nodes that are there (Closed), and are all that it would make but for the *)
(* ones the code is known to leave out (Whole).                             *)
(*                                                                          *)
(* The argument turns on the count in M.splice: a name that is not worthy    *)
(* has one definition after the splice exactly if it had one before          *)
(* (Unworthy), and a file that is not a candidate mentions no other names,   *)
(* so its edges only have to follow the definitions that were read again.   *)
(***************************************************************************)

Graphs == [nodes : SUBSET Node, edges : SUBSET Edge,
           names : [Files -> SUBSET Names], stamps : [Files -> {"none", "old", "now"}]]

(* What nodes has of the file f. *)
PartOf(nodes, f) == {d \in nodes : d.file = f}

(* The files g has read as they are hold, in g, what they hold; those it has   *)
(* not read hold nothing.                                                     *)
Indexed(g, t) ==
    \A f \in Files :
        /\ g.stamps[f] = "now" => /\ PartOf(g.nodes, f) = Nodes(f, t[f])
                                  /\ g.names[f] = Identifiers(f, t[f], g.nodes)
        /\ g.stamps[f] = "none" => /\ PartOf(g.nodes, f) = {}
                                   /\ \A e \in g.edges : e.from.file # f
                                   /\ g.names[f] = {}

(* An edge of such a file, unless it dangles, is one the id pass makes. *)
Sound(g, t) ==
    \A e \in g.edges :
        g.stamps[e.from.file] = "now" /\ e.to \in g.nodes
            => e \in IdEdges(e.from.file, t[e.from.file], g.nodes)

(* An edge only dangles into the files of gap. *)
Closed(g, gap) == \A e \in g.edges : e.to \in g.nodes \/ e.to.file \in gap

(* The edges the code is known to miss: to the names of miss, and of the       *)
(* module of a file without functions.                                       *)
Excused(g, e, miss) ==
    e.to.name \in miss \/ (e.from.is = "module" /\ Functions(g.nodes, e.from.file) = {})

(* What e names, and only names while no other definition has that name, is    *)
(* also defined in another of the files read again.                           *)
Rivalled(e, rivals) ==
    /\ e.to.is = "function" \/ e.to.file # e.from.file
    /\ \E r \in rivals : r.is = e.to.is /\ r.name = e.to.name /\ r.file # e.to.file

Whole(g, t, miss, rivals) ==
    \A f \in Files : g.stamps[f] = "now" =>
        \A e \in IdEdges(f, t[f], g.nodes) :
            e \in g.edges \/ Excused(g, e, miss) \/ Rivalled(e, rivals)

(* g agrees with the tree t as far as it has read it. *)
Consistent(g, t, miss) ==
    /\ g \in Graphs
    /\ IsFiniteSet(g.nodes)
    /\ Indexed(g, t)
    /\ Sound(g, t)
    /\ Closed(g, {})
    /\ Whole(g, t, miss, {})
-----------------------------------------------------------------------------
(* Extraction *)

LEMMA NodesType ==
    ASSUME NEW f \in Files, NEW t \in Contents
    PROVE  /\ Nodes(f, t) \subseteq Node
           /\ \A d \in Nodes(f, t) : d.file = f
<1>1. CASE t = Gone
  BY <1>1 DEF Nodes
<1>2. CASE t # Gone
  <2>1. t \subseteq Token
    BY <1>2, SpliceTextAssumption DEF Contents
  <2>2. \A d \in {x \in t : x.is # "mention"} :
          [file |-> f, is |-> d.is, name |-> d.name, line |-> d.line] \in Node
    BY <2>1 DEF Token, Node
  <2>. QED
    BY <1>2, <2>2 DEF Nodes
<1>. QED
  BY <1>1, <1>2

(* Whatever mentions a name is a node or the module of the file it is in. *)
LEMMA OwnerType ==
    ASSUME NEW f \in Files, NEW x, NEW nodes \in SUBSET Node
    PROVE  /\ Owner(f, x, nodes) \in Node \cup {Module(m) : m \in Files}
           /\ Owner(f, x, nodes).file = f
<1> DEFINE here == {d \in Functions(nodes, f) : d.line = x.line}
<1>1. CASE here = {}
  <2>1. Owner(f, x, nodes) = Module(f)
    BY <1>1 DEF Owner
  <2>. QED
    BY <2>1 DEF Module
<1>2. CASE here # {}
  <2>1. Owner(f, x, nodes) \in here
    BY <1>2 DEF Owner
  <2>. QED
    BY <2>1 DEF Functions
<1>. QED
  BY <1>1, <1>2

(* The id pass over a file makes edges that start in that file. *)
LEMMA IdEdgesType ==
    ASSUME NEW f \in Files, NEW t, NEW nodes \in SUBSET Node
    PROVE  /\ IdEdges(f, t, nodes) \subseteq Edge
           /\ \A e \in IdEdges(f, t, nodes) : e.from.file = f
<1>1. ASSUME NEW e \in IdEdges(f, t, nodes)
      PROVE  e \in Edge /\ e.from.file = f
  <2>1. PICK x \in t : \/ \E d \in VarNamed(f, x, nodes) :
                            e = [from |-> Owner(f, x, nodes), to |-> d, kind |-> "use"]
                       \/ \E d \in FunctionNamed(f, x, nodes) :
                            e = [from |-> Owner(f, x, nodes), to |-> d,
                                 kind |-> IF Owner(f, x, nodes) = Module(f) THEN "reg" ELSE "ref"]
    BY <1>1 DEF IdEdges
  <2>2. VarNamed(f, x, nodes) \subseteq Node /\ FunctionNamed(f, x, nodes) \subseteq Node
    BY DEF VarNamed, FunctionNamed, Called
  <2>. QED
    BY <2>1, <2>2, OwnerType DEF Edge
<1>. QED
  BY <1>1

(* The mention index of a file is a set of names. *)
LEMMA IdentifiersType ==
    ASSUME NEW f \in Files, NEW t \in Contents, NEW nodes
    PROVE  Identifiers(f, t, nodes) \subseteq Names
BY SpliceTextAssumption DEF Identifiers, Mentioning, Contents, Token

(* A cold extraction is a graph. *)
LEMMA ExtractType ==
    ASSUME NEW t \in [Files -> Contents]
    PROVE  Extract(t) \in Graphs
<1> DEFINE nodes == UNION {Nodes(f, t[f]) : f \in Files}
<1>1. nodes \in SUBSET Node
  BY NodesType
<1> HIDE DEF nodes
<1>2. UNION {IdEdges(f, t[f], nodes) : f \in Files} \subseteq Edge
  BY <1>1, IdEdgesType
<1>3. [f \in Files |-> Identifiers(f, t[f], nodes)] \in [Files -> SUBSET Names]
  BY IdentifiersType
<1>4. [f \in Files |-> IF t[f] = Gone THEN "none" ELSE "now"] \in [Files -> {"none", "old", "now"}]
  OBVIOUS
<1>5. Extract(t) = [nodes |-> nodes, edges |-> UNION {IdEdges(f, t[f], nodes) : f \in Files},
                    names |-> [f \in Files |-> Identifiers(f, t[f], nodes)],
                    stamps |-> [f \in Files |-> IF t[f] = Gone THEN "none" ELSE "now"]]
  BY DEF Extract, nodes
<1>. QED
  BY <1>1, <1>2, <1>3, <1>4, <1>5 DEF Graphs
-----------------------------------------------------------------------------
(* The splice *)

LEMMA AfterType ==
    ASSUME NEW g \in Graphs, NEW rels \in SUBSET Files, NEW del \in SUBSET Files,
           NEW t \in [Files -> Contents]
    PROVE  /\ Mini(rels, t) \subseteq Node
           /\ \A d \in Mini(rels, t) : d.file \in rels
           /\ After(g, rels, del, t) \subseteq Node
<1>1. \A f \in rels : t[f] \in Contents
  OBVIOUS
<1>2. \A f \in rels : Nodes(f, t[f]) \subseteq Node /\ \A d \in Nodes(f, t[f]) : d.file = f
  BY <1>1, NodesType
<1>3. Mini(rels, t) \subseteq Node /\ \A d \in Mini(rels, t) : d.file \in rels
  BY <1>2 DEF Mini
<1>. QED
  BY <1>3 DEF After, Graphs

(* What survives is typed, and no edge changes the end it starts from. *)
LEMMA SurvivingType ==
    ASSUME NEW g \in Graphs, NEW rels \in SUBSET Files, NEW del \in SUBSET Files,
           NEW t \in [Files -> Contents]
    PROVE  /\ Surviving(g, rels, del, t) \subseteq Edge
           /\ \A e \in Surviving(g, rels, del, t) :
                 e \in g.edges \/ \E i \in Inbound(g, rels, del) : e.from = i.from
<1>1. ASSUME NEW i \in Inbound(g, rels, del), NEW d \in Remap(i.to, g, rels, t)
      PROVE  [i EXCEPT !.to = d] \in Edge /\ [i EXCEPT !.to = d].from = i.from
  <2>1. i \in Edge
    BY DEF Inbound, Graphs
  <2>2. d \in Node
    BY AfterType DEF Remap
  <2>. QED
    BY <2>1, <2>2 DEF Edge
<1>2. ASSUME NEW e \in Surviving(g, rels, del, t)
      PROVE  e \in Edge /\ (e \in g.edges \/ \E i \in Inbound(g, rels, del) : e.from = i.from)
  <2>1. CASE e \in g.edges
    BY <2>1 DEF Graphs
  <2>2. CASE e \notin g.edges
    <3>1. PICK i \in Inbound(g, rels, del) :
            \E d \in Remap(i.to, g, rels, t) : e = [i EXCEPT !.to = d]
      BY <2>2 DEF Surviving
    <3>. QED
      BY <3>1, <1>1
  <2>. QED
    BY <2>1, <2>2
<1>. QED
  BY <1>2

(* A splice of a graph is a graph. *)
LEMMA SpliceType ==
    ASSUME NEW g \in Graphs, NEW rels \in SUBSET Files, NEW del \in SUBSET Files,
           NEW t \in [Files -> Contents]
    PROVE  Splice(g, rels, del, t) \in Graphs
<1> DEFINE nodes == After(g, rels, del, t)
           again == Derived(g, rels, del, t)
           kept == {e \in Surviving(g, rels, del, t) :
                      e.from.file \notin Candidates(g, rels, del, t)}
           edges == kept \cup UNION {IdEdges(f, t[f], nodes) : f \in again}
           names == [f \in Files |->
                       IF f \in again /\ Identifiers(f, t[f], nodes) # {}
                         THEN Identifiers(f, t[f], nodes)
                       ELSE IF f \in rels \cup del THEN {} ELSE g.names[f]]
           stamps == [f \in Files |-> IF f \in del THEN "none"
                                      ELSE IF f \in rels THEN "now" ELSE g.stamps[f]]
<1>1. nodes \in SUBSET Node
  BY AfterType
<1>2. again \subseteq Files
  BY DEF Derived, Candidates
<1>3. kept \subseteq Edge
  BY SurvivingType
<1>4. Splice(g, rels, del, t) = [nodes |-> nodes, edges |-> edges, names |-> names, stamps |-> stamps]
  BY DEF Splice
<1>5. stamps \in [Files -> {"none", "old", "now"}]
  BY DEF Graphs
<1> HIDE DEF nodes, again, kept, stamps
<1>6. edges \subseteq Edge
  BY <1>1, <1>2, <1>3, IdEdgesType
<1>7. names \in [Files -> SUBSET Names]
  <2>1. \A f \in Files : Identifiers(f, t[f], nodes) \subseteq Names /\ g.names[f] \subseteq Names
    BY IdentifiersType DEF Graphs
  <2>. QED
    BY <2>1
<1> HIDE DEF edges, names
<1>. QED
  BY <1>1, <1>4, <1>5, <1>6, <1>7 DEF Graphs
-----------------------------------------------------------------------------
(* What the id pass makes of a file *)

(* Its outcome depends on the nodes of other files only through which names    *)
(* are unique.                                                               *)
LEMMA SamePart ==
    ASSUME NEW f \in Files, NEW t, NEW A, NEW B, PartOf(A, f) = PartOf(B, f)
    PROVE  /\ Functions(A, f) = Functions(B, f)
           /\ Vars(A, f) = Vars(B, f)
           /\ \A x : Owner(f, x, A) = Owner(f, x, B)
           /\ Mentioning(f, t, A) <=> Mentioning(f, t, B)
           /\ Identifiers(f, t, A) = Identifiers(f, t, B)
<1>1. Functions(A, f) = Functions(B, f) /\ Vars(A, f) = Vars(B, f)
  <2>1. \A d : (d \in A /\ d.file = f) <=> (d \in B /\ d.file = f)
    BY DEF PartOf
  <2>. QED
    BY <2>1 DEF Functions, Vars
<1>2. Mentioning(f, t, A) <=> Mentioning(f, t, B)
  BY <1>1 DEF Mentioning
<1>. QED
  BY <1>1, <1>2 DEF Owner, Identifiers

(* The kind of the edge the id pass over f makes of a mention of a function. *)
RefKind(f, x, nodes) == IF Owner(f, x, nodes) = Module(f) THEN "reg" ELSE "ref"

(* The edges of a file, mention by mention. *)
LEMMA IdEdgesAre ==
    ASSUME NEW f, NEW t, NEW nodes, NEW e
    PROVE  e \in IdEdges(f, t, nodes) <=>
             /\ Mentioning(f, t, nodes)
             /\ \E x \in t :
                  \/ \E d \in VarNamed(f, x, nodes) :
                       e = [from |-> Owner(f, x, nodes), to |-> d, kind |-> "use"]
                  \/ /\ Functions(nodes, f) # {}
                     /\ \E d \in FunctionNamed(f, x, nodes) :
                          e = [from |-> Owner(f, x, nodes), to |-> d,
                               kind |-> RefKind(f, x, nodes)]
BY DEF IdEdges, RefKind

(* It starts at a mention of the name it goes to, in f, and where it does not  *)
(* go to a variable of f itself that name has no other definition.            *)
LEMMA IdEdgeNames ==
    ASSUME NEW f \in Files, NEW t, NEW nodes \in SUBSET Node, NEW e \in IdEdges(f, t, nodes)
    PROVE  /\ Mentioning(f, t, nodes)
           /\ e.from.file = f
           /\ e.to \in nodes
           /\ e.to.name \in Identifiers(f, t, nodes)
           /\ e.to.is = "function" \/ e.to.file # f =>
                Called(nodes, e.to.is, e.to.name) = {e.to}
           /\ Functions(nodes, f) = {} => e.from.is = "module"
<1>1. Mentioning(f, t, nodes)
  BY IdEdgesAre
<1>2. PICK x \in t :
        \/ \E d \in VarNamed(f, x, nodes) :
             e = [from |-> Owner(f, x, nodes), to |-> d, kind |-> "use"]
        \/ /\ Functions(nodes, f) # {}
           /\ \E d \in FunctionNamed(f, x, nodes) :
                e = [from |-> Owner(f, x, nodes), to |-> d, kind |-> RefKind(f, x, nodes)]
  BY IdEdgesAre
<1>3. e.from = Owner(f, x, nodes)
  BY <1>2
<1>4. e.from.file = f
  BY <1>3, OwnerType
<1>5. Functions(nodes, f) = {} => e.from.is = "module"
  BY <1>3 DEF Owner, Module
<1>6. /\ e.to \in nodes /\ e.to.name = x.name
      /\ e.to.is = "function" \/ e.to.file # f => Called(nodes, e.to.is, e.to.name) = {e.to}
  <2>1. CASE e.to \in VarNamed(f, x, nodes)
    BY <2>1 DEF VarNamed, Called
  <2>2. CASE e.to \in FunctionNamed(f, x, nodes)
    BY <2>2 DEF FunctionNamed, Called
  <2>. QED
    BY <1>2, <2>1, <2>2
<1>7. e.to.name \in Identifiers(f, t, nodes)
  BY <1>1, <1>6 DEF Identifiers
<1>. QED
  BY <1>1, <1>4, <1>5, <1>6, <1>7

(* The edge e, going to d instead. *)
Retargeted(e, d) == [from |-> e.from, to |-> d, kind |-> e.kind]

(* The same mention makes the corresponding edge among other nodes: to the     *)
(* same definition if that is in f, and to the only one of its name otherwise. *)
LEMMA SameMention ==
    ASSUME NEW f \in Files, NEW t, NEW A \in SUBSET Node, NEW B \in SUBSET Node,
           PartOf(A, f) = PartOf(B, f),
           NEW e \in IdEdges(f, t, A), NEW d \in B,
           d.is = e.to.is, d.name = e.to.name,
           e.to.file = f \/ d.file = f => d = e.to,
           e.to.is = "function" \/ e.to.file # f => Called(B, d.is, d.name) = {d}
    PROVE  Retargeted(e, d) \in IdEdges(f, t, B)
<1> DEFINE new == Retargeted(e, d)
<1>1. /\ Functions(A, f) = Functions(B, f)
      /\ \A x : Owner(f, x, A) = Owner(f, x, B)
      /\ Mentioning(f, t, A) <=> Mentioning(f, t, B)
  BY SamePart
<1>2. Mentioning(f, t, B)
  BY <1>1, IdEdgesAre
<1>3. PICK x \in t :
        \/ \E v \in VarNamed(f, x, A) :
             e = [from |-> Owner(f, x, A), to |-> v, kind |-> "use"]
        \/ /\ Functions(A, f) # {}
           /\ \E v \in FunctionNamed(f, x, A) :
                e = [from |-> Owner(f, x, A), to |-> v, kind |-> RefKind(f, x, A)]
  BY IdEdgesAre
<1>4. CASE \E v \in VarNamed(f, x, A) : e = [from |-> Owner(f, x, A), to |-> v, kind |-> "use"]
  <2>1. e.to \in VarNamed(f, x, A) /\ new = [from |-> Owner(f, x, A), to |-> d, kind |-> "use"]
    BY <1>4 DEF Retargeted
  <2>2. e.to \in A /\ e.to.is = "var" /\ e.to.name = x.name
    BY <2>1 DEF VarNamed, Called
  <2>3. d \in VarNamed(f, x, B)
    <3> DEFINE ownA == {v \in Called(A, "var", x.name) : v.file = f}
               ownB == {v \in Called(B, "var", x.name) : v.file = f}
    <3>1. ownA = ownB
      BY DEF Called, PartOf
    <3>2. d \in Called(B, "var", x.name)
      BY <2>2 DEF Called
    <3>3. \A v \in ownA : v.line # x.line
      BY <2>1 DEF VarNamed
    <3>4. CASE e.to.file = f
      BY <2>2, <3>1, <3>2, <3>3, <3>4 DEF VarNamed
    <3>5. CASE e.to.file # f
      <4>1. Called(B, "var", x.name) = {d} /\ d.file # f
        BY <2>2, <3>5
      <4>. QED
        BY <4>1, <3>2 DEF VarNamed
    <3>. QED
      BY <3>4, <3>5
  <2>. QED
    BY <1>1, <1>2, <2>1, <2>3, IdEdgesAre
<1>5. CASE /\ Functions(A, f) # {}
           /\ \E v \in FunctionNamed(f, x, A) :
                e = [from |-> Owner(f, x, A), to |-> v, kind |-> RefKind(f, x, A)]
  <2>1. /\ e.to \in FunctionNamed(f, x, A)
        /\ new = [from |-> Owner(f, x, A), to |-> d, kind |-> RefKind(f, x, A)]
    BY <1>5 DEF Retargeted
  <2>2. /\ e.to \in A /\ e.to.is = "function" /\ e.to.name = x.name
        /\ ~(e.to.file = f /\ e.to.line = x.line)
    BY <2>1 DEF FunctionNamed, Called
  <2>3. Called(B, "function", x.name) = {d}
    BY <2>2
  <2>4. d \in FunctionNamed(f, x, B)
    BY <2>2, <2>3 DEF FunctionNamed
  <2>5. RefKind(f, x, A) = RefKind(f, x, B)
    BY <1>1 DEF RefKind
  <2>. QED
    BY <1>1, <1>2, <1>5, <2>1, <2>4, <2>5, IdEdgesAre
<1>. QED
  BY <1>3, <1>4, <1>5
-----------------------------------------------------------------------------
(* The count of M.splice *)

(* A file's text has finitely many definitions. *)
LEMMA NodesFinite ==
    ASSUME NEW f \in Files, NEW t \in Contents
    PROVE  IsFiniteSet(Nodes(f, t))
<1>1. CASE t = Gone
  BY <1>1, FS_EmptySet DEF Nodes
<1>2. CASE t # Gone
  <2> DEFINE defs == {x \in t : x.is # "mention"}
             node(d) == [file |-> f, is |-> d.is, name |-> d.name, line |-> d.line]
             image == [d \in defs |-> node(d)]
  <2>1. IsFiniteSet(t)
    BY <1>2, SpliceFiniteAssumption DEF Contents
  <2>2. IsFiniteSet(defs)
    BY <2>1, FS_Subset
  <2>3. Nodes(f, t) = {node(d) : d \in defs}
    BY <1>2 DEF Nodes
  <2> HIDE DEF defs, node
  <2>4. image \in Surjection(defs, Nodes(f, t))
    BY <2>3 DEF Surjection
  <2>. QED
    BY <2>2, <2>4, FS_Surjection
<1>. QED
  BY <1>1, <1>2

(* So have finitely many files. *)
LEMMA MiniFinite ==
    ASSUME NEW rels \in SUBSET Files, NEW t \in [Files -> Contents]
    PROVE  IsFiniteSet(Mini(rels, t))
<1> DEFINE parts == {Nodes(f, t[f]) : f \in rels}
           part == [f \in rels |-> Nodes(f, t[f])]
<1>1. IsFiniteSet(rels)
  BY SpliceFiniteAssumption, FS_Subset
<1>2. part \in Surjection(rels, parts)
  BY DEF Surjection
<1>3. \A p \in parts : IsFiniteSet(p)
  <2>1. \A f \in rels : f \in Files /\ t[f] \in Contents
    OBVIOUS
  <2>. QED
    BY <2>1, NodesFinite
<1> HIDE DEF parts, part
<1>4. IsFiniteSet(parts)
  BY <1>1, <1>2, FS_Surjection
<1>5. IsFiniteSet(UNION parts)
  BY <1>3, <1>4, FS_UNION
<1>. QED
  BY <1>5 DEF Mini, parts

(* Taking some elements out of a set and putting others in. *)
LEMMA CountExchange ==
    ASSUME NEW G, IsFiniteSet(G), NEW R \in SUBSET G, NEW M, IsFiniteSet(M),
           (G \ R) \cap M = {}
    PROVE  /\ IsFiniteSet((G \ R) \cup M)
           /\ Cardinality(G) \in Nat
           /\ (Cardinality((G \ R) \cup M) + Cardinality(R)) - Cardinality(M) = Cardinality(G)
<1>1. /\ IsFiniteSet(R) /\ IsFiniteSet(G \ R)
      /\ Cardinality(G \ R) = Cardinality(G) - Cardinality(G \cap R)
  BY FS_Subset, FS_Difference
<1>2. Cardinality(G \ R) = Cardinality(G) - Cardinality(R)
  <2>1. G \cap R = R
    OBVIOUS
  <2>. QED
    BY <1>1, <2>1
<1>3. /\ IsFiniteSet((G \ R) \cup M)
      /\ Cardinality((G \ R) \cup M) = Cardinality(G \ R) + Cardinality(M) - Cardinality({})
  BY <1>1, FS_Union
<1>4. Cardinality({}) = 0
  BY FS_EmptySet
<1>5. /\ Cardinality(G) \in Nat /\ Cardinality(R) \in Nat /\ Cardinality(M) \in Nat
      /\ Cardinality(G \ R) \in Nat
  BY <1>1, FS_CardinalityType
<1>. QED
  BY <1>2, <1>3, <1>4, <1>5

(* A splice leaves a graph finite. *)
LEMMA AfterFinite ==
    ASSUME NEW g, IsFiniteSet(g.nodes), NEW rels \in SUBSET Files, NEW del,
           NEW t \in [Files -> Contents]
    PROVE  IsFiniteSet(After(g, rels, del, t))
<1>1. IsFiniteSet(g.nodes \ Removed(g, rels, del))
  BY FS_Difference
<1>. QED
  BY <1>1, MiniFinite, FS_Union DEF After

(* The name n has one definition of the kind is. *)
Unique(nodes, is, n) == \E d : Called(nodes, is, n) = {d}

(* A name that is not worthy is unique after the splice exactly if it was. *)
LEMMA Unworthy ==
    ASSUME NEW g \in Graphs, IsFiniteSet(g.nodes),
           NEW rels \in SUBSET Files, NEW del \in SUBSET Files,
           NEW t \in [Files -> Contents],
           NEW n \in Names, n \notin Worthy(g, rels, del, t), NEW is \in {"function", "var"}
    PROVE  Unique(g.nodes, is, n) <=> Unique(After(g, rels, del, t), is, n)
<1> DEFINE G == Called(g.nodes, is, n)
           R == Called(Removed(g, rels, del), is, n)
           M == Called(Mini(rels, t), is, n)
           A == Called(After(g, rels, del, t), is, n)
<1>1. IsFiniteSet(G) /\ R \in SUBSET G
  BY FS_Subset DEF Called, Removed
<1>2. IsFiniteSet(M)
  BY MiniFinite, FS_Subset DEF Called
<1>3. (G \ R) \cap M = {}
  BY AfterType DEF Called, Removed
<1>4. A = (G \ R) \cup M
  BY DEF Called, After
<1>5. ((Cardinality(A) + Cardinality(R)) - Cardinality(M) = 1) <=> (Cardinality(A) = 1)
  BY DEF Worthy
<1> HIDE DEF G, R, M, A
<1>6. IsFiniteSet(A) /\ (Cardinality(A) + Cardinality(R)) - Cardinality(M) = Cardinality(G)
  BY <1>1, <1>2, <1>3, <1>4, CountExchange
<1>7. (Cardinality(G) = 1) <=> (Cardinality(A) = 1)
  BY <1>5, <1>6
<1>8. /\ (Cardinality(G) = 1) <=> (\E d : G = {d})
      /\ (Cardinality(A) = 1) <=> (\E d : A = {d})
  BY <1>1, <1>6, FS_Singleton
<1>. QED
  BY <1>7, <1>8 DEF G, A, Unique
-----------------------------------------------------------------------------
(* The splice of a graph that may lack the nodes of some files read again *)

Spliceable(g, t, miss, rels, del) ==
    /\ g \in Graphs /\ IsFiniteSet(g.nodes)
    /\ rels \in SUBSET Files /\ del \in SUBSET Files /\ t \in [Files -> Contents]
    /\ \A f \in del : t[f] = Gone
    /\ Indexed(g, t)
    /\ Sound(g, t)
    /\ Closed(g, rels \cup del)
    /\ Whole(g, t, miss, Mini(rels, t))

(* The parts of the files that are neither read again nor gone are as they     *)
(* were, and that of a file read again is what it holds.                      *)
LEMMA PartSpared ==
    ASSUME NEW g \in Graphs, NEW rels \in SUBSET Files, NEW del \in SUBSET Files,
           NEW t \in [Files -> Contents], NEW f \in Files
    PROVE  /\ f \notin rels \cup del => PartOf(After(g, rels, del, t), f) = PartOf(g.nodes, f)
           /\ f \in rels => PartOf(After(g, rels, del, t), f) = Nodes(f, t[f])
           /\ f \in del \ rels => PartOf(After(g, rels, del, t), f) = {}
<1>1. \A d \in Mini(rels, t) : d.file \in rels
  BY AfterType
<1>2. CASE f \notin rels \cup del
  BY <1>1, <1>2 DEF PartOf, After, Removed
<1>3. CASE f \in rels
  <2>1. \A m \in rels : \A d \in Nodes(m, t[m]) : d.file = m
    BY NodesType
  <2>2. {d \in Mini(rels, t) : d.file = f} = Nodes(f, t[f])
    BY <1>3, <2>1 DEF Mini
  <2>3. {d \in g.nodes \ Removed(g, rels, del) : d.file = f} = {}
    BY <1>3 DEF Removed
  <2>. QED
    BY <1>3, <2>2, <2>3 DEF PartOf, After
<1>4. CASE f \in del \ rels
  BY <1>1, <1>4 DEF PartOf, After, Removed
<1>. QED
  BY <1>2, <1>3, <1>4

(* The fields of the result. *)
LEMMA SpliceIs ==
    ASSUME NEW g, NEW rels, NEW del, NEW t
    PROVE  /\ Splice(g, rels, del, t).nodes = After(g, rels, del, t)
           /\ Splice(g, rels, del, t).edges =
                {e \in Surviving(g, rels, del, t) : e.from.file \notin Candidates(g, rels, del, t)}
                \cup UNION {IdEdges(f, t[f], After(g, rels, del, t)) : f \in Derived(g, rels, del, t)}
<1>1. Splice(g, rels, del, t).nodes = After(g, rels, del, t)
  BY DEF Splice
<1>2. Splice(g, rels, del, t).edges =
        {e \in Surviving(g, rels, del, t) : e.from.file \notin Candidates(g, rels, del, t)}
        \cup UNION {IdEdges(f, t[f], After(g, rels, del, t)) : f \in Derived(g, rels, del, t)}
  BY DEF Splice
<1>. QED
  BY <1>1, <1>2

(* An edge of a spliced graph was made anew, was there and still has its       *)
(* target, or follows a target that was read again.                           *)
LEMMA SplicedEdge ==
    ASSUME NEW g \in Graphs, NEW rels \in SUBSET Files, NEW del \in SUBSET Files,
           NEW t \in [Files -> Contents], NEW e \in Splice(g, rels, del, t).edges
    PROVE  \/ /\ e.from.file \in Derived(g, rels, del, t)
              /\ e \in IdEdges(e.from.file, t[e.from.file], After(g, rels, del, t))
           \/ /\ e.from.file \notin rels \cup del \cup Candidates(g, rels, del, t)
              /\ e \in g.edges /\ e.to.file \notin rels \cup del
           \/ /\ e.from.file \notin rels \cup del \cup Candidates(g, rels, del, t)
              /\ \E i \in g.edges :
                    /\ i.from = e.from
                    /\ i.to.file \in rels \cup del
                    /\ e.to \in Remap(i.to, g, rels, t)
                    /\ e = Retargeted(i, e.to)
<1>1. CASE e \in UNION {IdEdges(f, t[f], After(g, rels, del, t)) : f \in Derived(g, rels, del, t)}
  <2>1. PICK f \in Derived(g, rels, del, t) : e \in IdEdges(f, t[f], After(g, rels, del, t))
    BY <1>1
  <2>2. f \in Files
    BY DEF Derived, Candidates
  <2>3. e.from.file = f
    BY <2>1, <2>2, AfterType, IdEdgesType
  <2>. QED
    BY <2>1, <2>3
<1>2. CASE /\ e \in Surviving(g, rels, del, t)
           /\ e.from.file \notin Candidates(g, rels, del, t)
  <2>1. CASE e \in g.edges /\ e.from.file \notin rels \cup del /\ e.to.file \notin rels \cup del
    BY <1>2, <2>1
  <2>2. CASE ~(e \in g.edges /\ e.from.file \notin rels \cup del /\ e.to.file \notin rels \cup del)
    <3>0. PICK i \in Inbound(g, rels, del) :
            \E d \in Remap(i.to, g, rels, t) : e = [i EXCEPT !.to = d]
      BY <1>2, <2>2 DEF Surviving, Inbound
    <3>1. PICK d \in Remap(i.to, g, rels, t) : e = [i EXCEPT !.to = d]
      BY <3>0
    <3>2. i \in g.edges /\ i.from.file \notin rels \cup del /\ i.to.file \in rels \cup del
      BY DEF Inbound
    <3>3. i \in Edge
      BY <3>2 DEF Graphs
    <3>4. e.from = i.from /\ e.to = d /\ e = Retargeted(i, d)
      BY <3>1, <3>3 DEF Edge, Retargeted
    <3>. QED
      BY <1>2, <3>1, <3>2, <3>4
  <2>. QED
    BY <2>1, <2>2
<1>. QED
  BY <1>1, <1>2, SpliceIs

(* What a file that is neither read again nor a candidate mentions is not      *)
(* worthy, so it is unique after the splice if it was before, and conversely. *)
LEMMA MentionUnworthy ==
    ASSUME NEW g, NEW t, NEW miss, NEW rels, NEW del, Spliceable(g, t, miss, rels, del),
           NEW f \in Files \ (rels \cup del), f \notin Candidates(g, rels, del, t),
           g.stamps[f] = "now",
           NEW n \in Identifiers(f, t[f], g.nodes), NEW is \in {"function", "var"}
    PROVE  Unique(g.nodes, is, n) <=> Unique(After(g, rels, del, t), is, n)
<1>1. n \in g.names[f]
  BY DEF Spliceable, Indexed
<1>2. n \in Names
  BY <1>1 DEF Spliceable, Graphs
<1>3. n \notin Worthy(g, rels, del, t)
  BY <1>1 DEF Candidates
<1>4. /\ g \in Graphs /\ IsFiniteSet(g.nodes)
      /\ rels \in SUBSET Files /\ del \in SUBSET Files /\ t \in [Files -> Contents]
  BY DEF Spliceable
<1>. QED
  BY <1>2, <1>3, <1>4, Unworthy

(* The definitions and mentions of the result are those of the files. *)
LEMMA SpliceIndexed ==
    ASSUME NEW g, NEW t, NEW miss, NEW rels, NEW del, Spliceable(g, t, miss, rels, del)
    PROVE  Indexed(Splice(g, rels, del, t), t)
<1> DEFINE now == Splice(g, rels, del, t)
           nodes == After(g, rels, del, t)
<1>1. /\ g \in Graphs /\ rels \in SUBSET Files /\ del \in SUBSET Files
      /\ t \in [Files -> Contents]
  BY DEF Spliceable
<1>a. Indexed(g, t) /\ \A f \in del : t[f] = Gone
  BY DEF Spliceable
<1>2. now.nodes = nodes
  BY SpliceIs
<1> SUFFICES ASSUME NEW f \in Files
             PROVE  /\ now.stamps[f] = "now" => /\ PartOf(nodes, f) = Nodes(f, t[f])
                                                /\ now.names[f] = Identifiers(f, t[f], nodes)
                    /\ now.stamps[f] = "none" => /\ PartOf(nodes, f) = {}
                                                 /\ \A e \in now.edges : e.from.file # f
                                                 /\ now.names[f] = {}
  BY <1>2 DEF Indexed
<1>3. /\ now.names[f] = IF f \in Derived(g, rels, del, t) /\ Identifiers(f, t[f], nodes) # {}
                          THEN Identifiers(f, t[f], nodes)
                        ELSE IF f \in rels \cup del THEN {} ELSE g.names[f]
      /\ now.stamps[f] = IF f \in del THEN "none" ELSE IF f \in rels THEN "now" ELSE g.stamps[f]
  BY DEF Splice
<1> HIDE DEF now, nodes
<1>4. CASE f \in del
  <2>1. t[f] = Gone
    BY <1>a, <1>4
  <2>2. Nodes(f, t[f]) = {} /\ Identifiers(f, t[f], nodes) = {}
    BY <2>1 DEF Nodes, Identifiers, Mentioning
  <2>3. PartOf(nodes, f) = {}
    BY <1>1, <1>4, <2>2, PartSpared DEF nodes
  <2>4. ASSUME NEW e \in now.edges PROVE e.from.file # f
    <3>1. IdEdges(f, t[f], nodes) = {}
      BY <2>1 DEF IdEdges, Mentioning
    <3>. QED
      BY <1>1, <1>4, <3>1, SplicedEdge DEF now, nodes
  <2>. QED
    BY <1>3, <1>4, <2>2, <2>3, <2>4
<1>5. CASE f \in rels \ del
  <2>1. PartOf(nodes, f) = Nodes(f, t[f])
    BY <1>1, <1>5, PartSpared DEF nodes
  <2>2. f \in Derived(g, rels, del, t)
    BY <1>5 DEF Derived
  <2>. QED
    BY <1>3, <1>5, <2>1, <2>2
<1>6. CASE f \notin rels \cup del
  <2>1. PartOf(nodes, f) = PartOf(g.nodes, f)
    BY <1>1, <1>6, PartSpared DEF nodes
  <2>2. Identifiers(f, t[f], nodes) = Identifiers(f, t[f], g.nodes)
    BY <2>1, SamePart
  <2>3. CASE g.stamps[f] = "now"
    BY <1>a, <1>3, <1>6, <2>1, <2>2, <2>3 DEF Indexed
  <2>4. CASE g.stamps[f] = "none"
    <3>1. PartOf(g.nodes, f) = {} /\ g.names[f] = {} /\ \A e \in g.edges : e.from.file # f
      BY <1>a, <2>4 DEF Indexed
    <3>2. f \notin Derived(g, rels, del, t)
      BY <1>6, <3>1 DEF Derived, Candidates
    <3>3. ASSUME NEW e \in now.edges PROVE e.from.file # f
      BY <1>1, <3>1, <3>2, SplicedEdge DEF now
    <3>. QED
      BY <1>3, <1>6, <2>1, <2>4, <3>1, <3>2, <3>3
  <2>. QED
    BY <1>3, <1>6, <2>3, <2>4
<1>. QED
  BY <1>4, <1>5, <1>6

(* None of its edges dangles. *)
LEMMA SpliceClosed ==
    ASSUME NEW g, NEW t, NEW miss, NEW rels, NEW del, Spliceable(g, t, miss, rels, del)
    PROVE  Closed(Splice(g, rels, del, t), {})
<1> DEFINE now == Splice(g, rels, del, t)
           nodes == After(g, rels, del, t)
<1>1. /\ g \in Graphs /\ rels \in SUBSET Files /\ del \in SUBSET Files
      /\ t \in [Files -> Contents]
  BY DEF Spliceable
<1>a. Closed(g, rels \cup del)
  BY DEF Spliceable
<1>2. now.nodes = nodes
  BY SpliceIs
<1> SUFFICES ASSUME NEW e \in now.edges PROVE e.to \in nodes
  BY <1>2 DEF Closed
<1>3. ASSUME e \in IdEdges(e.from.file, t[e.from.file], nodes),
             e.from.file \in Derived(g, rels, del, t)
      PROVE  e.to \in nodes
  <2>1. e.from.file \in Files
    BY <1>1, <1>3 DEF Derived, Candidates
  <2>2. nodes \in SUBSET Node
    BY <1>1, AfterType
  <2>. QED
    BY <1>3, <2>1, <2>2, IdEdgeNames
<1>4. ASSUME e \in g.edges, e.to.file \notin rels \cup del PROVE e.to \in nodes
  BY <1>a, <1>4 DEF Closed, After, Removed
<1>5. ASSUME NEW i, e.to \in Remap(i.to, g, rels, t) PROVE e.to \in nodes
  BY <1>5 DEF Remap, After
<1>. QED
  BY <1>1, <1>3, <1>4, <1>5, SplicedEdge

(* Both ends of an edge are somewhere. *)
LEMMA EdgeEnds ==
    ASSUME NEW e \in Edge
    PROVE  /\ e.from.file \in Files
           /\ e.to \in Node /\ e.to.file \in Files
           /\ e.to.is \in {"function", "var"} /\ e.to.name \in Names
           /\ Retargeted(e, e.to) = e
BY DEF Edge, Node, Module, Retargeted

(* What is neither read again nor gone keeps its part. *)
LEMMA SparedPart ==
    ASSUME NEW g, NEW t, NEW miss, NEW rels, NEW del, Spliceable(g, t, miss, rels, del),
           NEW f \in Files \ (rels \cup del)
    PROVE  PartOf(After(g, rels, del, t), f) = PartOf(g.nodes, f)
<1>1. /\ g \in Graphs /\ rels \in SUBSET Files /\ del \in SUBSET Files
      /\ t \in [Files -> Contents]
  BY DEF Spliceable
<1>. QED
  BY <1>1, PartSpared

(* A mention in a file that is neither read again nor a candidate makes, after *)
(* the splice, the edge to whatever has the name of what it named before.     *)
LEMMA SparedMention ==
    ASSUME NEW g, NEW t, NEW miss, NEW rels, NEW del, Spliceable(g, t, miss, rels, del),
           NEW f \in Files \ (rels \cup del), f \notin Candidates(g, rels, del, t),
           g.stamps[f] = "now",
           NEW e \in IdEdges(f, t[f], g.nodes), NEW d \in After(g, rels, del, t),
           d.is = e.to.is, d.name = e.to.name,
           e.to.file = f \/ d.file = f => d = e.to
    PROVE  Retargeted(e, d) \in IdEdges(f, t[f], After(g, rels, del, t))
<1> DEFINE nodes == After(g, rels, del, t)
<1>1. /\ g \in Graphs /\ rels \in SUBSET Files /\ del \in SUBSET Files
      /\ t \in [Files -> Contents]
  BY DEF Spliceable
<1>2. g.nodes \in SUBSET Node /\ nodes \in SUBSET Node
  BY <1>1, AfterType DEF Graphs
<1>3. PartOf(g.nodes, f) = PartOf(nodes, f)
  BY SparedPart
<1>4. e \in Edge
  BY <1>2, IdEdgesType
<1>5. /\ e.to.name \in Identifiers(f, t[f], g.nodes)
      /\ e.to.is = "function" \/ e.to.file # f => Called(g.nodes, e.to.is, e.to.name) = {e.to}
  BY <1>2, IdEdgeNames
<1>6. Unique(g.nodes, e.to.is, e.to.name) => Unique(nodes, e.to.is, e.to.name)
  BY <1>4, <1>5, EdgeEnds, MentionUnworthy
<1>7. d \in Called(nodes, e.to.is, e.to.name)
  BY DEF Called
<1>8. e.to.is = "function" \/ e.to.file # f => Called(nodes, d.is, d.name) = {d}
  BY <1>5, <1>6, <1>7 DEF Unique
<1> HIDE DEF nodes
<1>9. d \in nodes
  BY DEF nodes
<1>10. Retargeted(e, d) \in IdEdges(f, t[f], nodes)
  BY <1>2, <1>3, <1>8, <1>9, SameMention
<1>. QED
  BY <1>10 DEF nodes

(* And it made, before the splice, the edge to whatever had the name of what   *)
(* it names now.                                                             *)
LEMMA SparedMentionBefore ==
    ASSUME NEW g, NEW t, NEW miss, NEW rels, NEW del, Spliceable(g, t, miss, rels, del),
           NEW f \in Files \ (rels \cup del), f \notin Candidates(g, rels, del, t),
           g.stamps[f] = "now",
           NEW e \in IdEdges(f, t[f], After(g, rels, del, t)), NEW d \in g.nodes,
           d.is = e.to.is, d.name = e.to.name,
           e.to.file = f \/ d.file = f => d = e.to
    PROVE  Retargeted(e, d) \in IdEdges(f, t[f], g.nodes)
<1> DEFINE nodes == After(g, rels, del, t)
<1>1. /\ g \in Graphs /\ rels \in SUBSET Files /\ del \in SUBSET Files
      /\ t \in [Files -> Contents]
  BY DEF Spliceable
<1>2. g.nodes \in SUBSET Node /\ nodes \in SUBSET Node
  BY <1>1, AfterType DEF Graphs
<1>3. PartOf(nodes, f) = PartOf(g.nodes, f)
  BY SparedPart
<1>4. e \in Edge
  BY <1>2, IdEdgesType
<1>5. /\ e.to.name \in Identifiers(f, t[f], nodes)
      /\ e.to.is = "function" \/ e.to.file # f => Called(nodes, e.to.is, e.to.name) = {e.to}
  BY <1>2, IdEdgeNames
<1>6. e.to.name \in Identifiers(f, t[f], g.nodes)
  BY <1>3, <1>5, SamePart
<1>7. Unique(nodes, e.to.is, e.to.name) => Unique(g.nodes, e.to.is, e.to.name)
  BY <1>4, <1>6, EdgeEnds, MentionUnworthy
<1>8. d \in Called(g.nodes, e.to.is, e.to.name)
  BY DEF Called
<1>9. e.to.is = "function" \/ e.to.file # f => Called(g.nodes, d.is, d.name) = {d}
  BY <1>5, <1>7, <1>8 DEF Unique
<1> HIDE DEF nodes
<1>10. e \in IdEdges(f, t[f], nodes)
  BY DEF nodes
<1>. QED
  BY <1>2, <1>3, <1>9, <1>10, SameMention

(* The edges of the result are ones the id pass would make. *)
LEMMA SpliceSound ==
    ASSUME NEW g, NEW t, NEW miss, NEW rels, NEW del, Spliceable(g, t, miss, rels, del)
    PROVE  Sound(Splice(g, rels, del, t), t)
<1> DEFINE now == Splice(g, rels, del, t)
           nodes == After(g, rels, del, t)
<1>1. /\ g \in Graphs /\ rels \in SUBSET Files /\ del \in SUBSET Files
      /\ t \in [Files -> Contents]
  BY DEF Spliceable
<1>2. Sound(g, t) /\ Closed(g, rels \cup del)
  BY DEF Spliceable
<1>3. now.nodes = nodes
  BY SpliceIs
<1>4. now \in Graphs
  BY <1>1, SpliceType
<1> SUFFICES ASSUME NEW e \in now.edges, now.stamps[e.from.file] = "now", e.to \in nodes
             PROVE  e \in IdEdges(e.from.file, t[e.from.file], nodes)
  BY <1>3 DEF Sound
<1> DEFINE f == e.from.file
<1>5. e \in Edge /\ f \in Files
  BY <1>4, EdgeEnds DEF Graphs
<1>6. now.stamps[f] = IF f \in del THEN "none" ELSE IF f \in rels THEN "now" ELSE g.stamps[f]
  BY <1>5 DEF Splice
<1>7. ASSUME f \notin rels \cup del \cup Candidates(g, rels, del, t),
             NEW i \in g.edges, i.from = e.from, i.to \in g.nodes,
             e = Retargeted(i, e.to), e.to.is = i.to.is, e.to.name = i.to.name,
             i.to.file = f \/ e.to.file = f => e.to = i.to
      PROVE  e \in IdEdges(f, t[f], nodes)
  <2>1. g.stamps[f] = "now"
    BY <1>6, <1>7
  <2>2. i \in IdEdges(f, t[f], g.nodes)
    BY <1>2, <1>7, <2>1 DEF Sound
  <2>. QED
    BY <1>5, <1>7, <2>1, <2>2, SparedMention
<1>8. CASE /\ f \notin rels \cup del \cup Candidates(g, rels, del, t)
           /\ e \in g.edges /\ e.to.file \notin rels \cup del
  <2>1. e.to \in g.nodes
    BY <1>2, <1>8 DEF Closed
  <2>2. e = Retargeted(e, e.to)
    BY <1>5, EdgeEnds
  <2>. QED
    BY <1>7, <1>8, <2>1, <2>2
<1>9. CASE /\ f \notin rels \cup del \cup Candidates(g, rels, del, t)
           /\ \E i \in g.edges :
                 /\ i.from = e.from
                 /\ i.to.file \in rels \cup del
                 /\ e.to \in Remap(i.to, g, rels, t)
                 /\ e = Retargeted(i, e.to)
  <2>1. PICK i \in g.edges : /\ i.from = e.from
                             /\ i.to.file \in rels \cup del
                             /\ e.to \in Remap(i.to, g, rels, t)
                             /\ e = Retargeted(i, e.to)
    BY <1>9
  <2>2. /\ i.to \in g.nodes
        /\ e.to.file = i.to.file /\ e.to.is = i.to.is /\ e.to.name = i.to.name
    BY <2>1 DEF Remap
  <2>. QED
    BY <1>7, <1>9, <2>1, <2>2
<1>. QED
  BY <1>1, <1>8, <1>9, SplicedEdge

(* An edge of a spared file survives when its target does, and follows it when *)
(* it was read again.                                                        *)
LEMMA Survives ==
    ASSUME NEW g \in Graphs, NEW rels \in SUBSET Files, NEW del \in SUBSET Files,
           NEW t \in [Files -> Contents],
           NEW e \in g.edges, e.from.file \notin rels \cup del \cup Candidates(g, rels, del, t),
           NEW d, \/ d = e.to /\ d.file \notin rels \cup del
                  \/ d \in Remap(e.to, g, rels, t)
    PROVE  Retargeted(e, d) \in Splice(g, rels, del, t).edges
<1>1. e \in Edge
  BY DEF Graphs
<1>2. CASE d = e.to /\ d.file \notin rels \cup del
  <2>1. Retargeted(e, d) = e
    BY <1>1, <1>2, EdgeEnds
  <2>2. e \in Surviving(g, rels, del, t)
    BY <1>2 DEF Surviving
  <2>. QED
    BY <2>1, <2>2, SpliceIs
<1>3. CASE d \in Remap(e.to, g, rels, t)
  <2>1. e.to.file \in rels
    BY <1>3, AfterType DEF Remap
  <2>2. e \in Inbound(g, rels, del)
    BY <2>1 DEF Inbound
  <2>3. Retargeted(e, d) = [e EXCEPT !.to = d]
    BY <1>1 DEF Edge, Retargeted
  <2>4. Retargeted(e, d) \in Surviving(g, rels, del, t)
    BY <1>3, <2>2, <2>3 DEF Surviving
  <2>5. Retargeted(e, d).from = e.from
    BY DEF Retargeted
  <2>. QED
    BY <2>4, <2>5, SpliceIs
<1>. QED
  BY <1>2, <1>3

(* The names whose only definition the splice moves from a file to another are *)
(* in miss.                                                                  *)
Followed(g, t, miss, rels, del) ==
    \A is \in {"function", "var"}, n \in Names : \A d0, d :
        /\ Called(g.nodes, is, n) = {d0}
        /\ Called(After(g, rels, del, t), is, n) = {d}
        /\ d0.file # d.file
        => n \in miss

(* What the id pass finds in a spared file, it had found before, and the edge  *)
(* was in the graph or is one the code is known to miss.                      *)
LEMMA SparedWhole ==
    ASSUME NEW g, NEW t, NEW miss, NEW rels, NEW del, Spliceable(g, t, miss, rels, del),
           Followed(g, t, miss, rels, del),
           NEW f \in Files \ (rels \cup del), f \notin Candidates(g, rels, del, t),
           g.stamps[f] = "now",
           NEW e \in IdEdges(f, t[f], After(g, rels, del, t))
    PROVE  \/ e \in Splice(g, rels, del, t).edges
           \/ e.to.name \in miss
           \/ e.from.is = "module" /\ Functions(After(g, rels, del, t), f) = {}
<1> DEFINE nodes == After(g, rels, del, t)
           n == e.to.name
           is == e.to.is
<1>1. /\ g \in Graphs /\ rels \in SUBSET Files /\ del \in SUBSET Files
      /\ t \in [Files -> Contents]
  BY DEF Spliceable
<1>2. Whole(g, t, miss, Mini(rels, t))
  BY DEF Spliceable
<1>3. nodes \in SUBSET Node
  BY <1>1, AfterType
<1>4. /\ PartOf(nodes, f) = PartOf(g.nodes, f)
      /\ Functions(nodes, f) = Functions(g.nodes, f)
      /\ Identifiers(f, t[f], nodes) = Identifiers(f, t[f], g.nodes)
  BY SparedPart, SamePart
<1>5. /\ e.from.file = f
      /\ e.to \in nodes
      /\ n \in Identifiers(f, t[f], nodes)
      /\ is = "function" \/ e.to.file # f => Called(nodes, is, n) = {e.to}
  BY <1>3, IdEdgeNames
<1>6. e \in Edge /\ is \in {"function", "var"} /\ n \in Names
  BY <1>3, IdEdgesType, EdgeEnds
<1>7. ASSUME NEW d \in g.nodes, d.is = is, d.name = n, d.file = e.to.file,
             e.to.file = f => d = e.to
      PROVE  \/ Retargeted(e, d) \in g.edges
             \/ n \in miss
             \/ e.from.is = "module" /\ Functions(nodes, f) = {}
  <2> DEFINE old == Retargeted(e, d)
  <2>1. old \in IdEdges(f, t[f], g.nodes)
    BY <1>7, SparedMentionBefore
  <2>2. old.from = e.from /\ old.to = d
    BY DEF Retargeted
  <2> HIDE DEF old
  <2>3. old \in g.edges \/ Excused(g, old, miss) \/ Rivalled(old, Mini(rels, t))
    BY <1>2, <2>1 DEF Whole
  <2>4. CASE Rivalled(old, Mini(rels, t))
    <3>1. PICK r \in Mini(rels, t) : r.is = is /\ r.name = n /\ r.file # d.file
      BY <1>7, <2>2, <2>4 DEF Rivalled
    <3>2. r \in Called(nodes, is, n)
      BY <3>1 DEF Called, After
    <3>3. is = "function" \/ e.to.file # f
      BY <1>5, <1>7, <2>2, <2>4 DEF Rivalled
    <3>. QED
      BY <1>5, <1>7, <3>1, <3>2, <3>3
  <2>5. CASE Excused(g, old, miss)
    BY <1>4, <1>5, <1>7, <2>2, <2>5 DEF Excused
  <2>. QED
    BY <2>3, <2>4, <2>5 DEF old
<1>8. CASE e.to.file = f
  <2>1. e.to \in g.nodes
    BY <1>4, <1>5, <1>8 DEF PartOf
  <2>2. Retargeted(e, e.to) = e
    BY <1>6, EdgeEnds
  <2>3. e \in g.edges => e \in Splice(g, rels, del, t).edges
    BY <1>1, <1>5, <1>8, <2>2, Survives
  <2>. QED
    BY <1>7, <2>1, <2>2, <2>3
<1>9. CASE e.to.file # f
  <2>1. Unique(g.nodes, is, n)
    <3>1. Unique(nodes, is, n)
      BY <1>5, <1>9 DEF Unique
    <3>2. n \in Identifiers(f, t[f], g.nodes)
      BY <1>4, <1>5
    <3>. QED
      BY <1>6, <3>1, <3>2, MentionUnworthy
  <2>2. PICK d : Called(g.nodes, is, n) = {d}
    BY <2>1 DEF Unique
  <2>3. d \in g.nodes /\ d.is = is /\ d.name = n
    BY <2>2 DEF Called
  <2>4. CASE d.file # e.to.file
    BY <1>5, <1>6, <1>9, <2>2, <2>4 DEF Followed
  <2>5. CASE d.file = e.to.file
    <3> DEFINE old == Retargeted(e, d)
    <3>1. CASE old \in g.edges
      <4>1. old.from = e.from /\ old.to = d /\ Retargeted(old, e.to) = e
        BY <1>6 DEF Retargeted, Edge
      <4>2. CASE d.file \notin rels \cup del
        <5>1. d \in Called(nodes, is, n)
          BY <2>3, <4>2 DEF Called, After, Removed
        <5>2. d = e.to
          BY <1>5, <1>9, <5>1
        <5>. QED
          BY <1>1, <1>5, <3>1, <4>1, <4>2, <5>2, Survives
      <4>3. CASE d.file \in rels \cup del
        <5>1. e.to \in Mini(rels, t)
          BY <1>5, <2>5, <4>3 DEF After, Removed
        <5>2. e.to \in Remap(old.to, g, rels, t)
          BY <2>3, <2>5, <4>1, <5>1 DEF Remap
        <5>. QED
          BY <1>1, <1>5, <3>1, <4>1, <5>2, Survives
      <4>. QED
        BY <4>2, <4>3
    <3>2. CASE old \notin g.edges
      BY <1>7, <1>9, <2>3, <2>5, <3>2
    <3>. QED
      BY <3>1, <3>2
  <2>. QED
    BY <2>4, <2>5
<1>. QED
  BY <1>8, <1>9

(* All the edges the id pass would make are in the result, but for those the   *)
(* code is known to miss.                                                    *)
LEMMA SpliceWhole ==
    ASSUME NEW g, NEW t, NEW miss, NEW rels, NEW del, Spliceable(g, t, miss, rels, del),
           Followed(g, t, miss, rels, del)
    PROVE  Whole(Splice(g, rels, del, t), t, miss, {})
<1> DEFINE now == Splice(g, rels, del, t)
           nodes == After(g, rels, del, t)
<1>1. /\ g \in Graphs /\ rels \in SUBSET Files /\ del \in SUBSET Files
      /\ t \in [Files -> Contents]
  BY DEF Spliceable
<1>2. now.nodes = nodes
  BY SpliceIs
<1>3. nodes \in SUBSET Node
  BY <1>1, AfterType
<1> SUFFICES ASSUME NEW f \in Files, now.stamps[f] = "now", NEW e \in IdEdges(f, t[f], nodes)
             PROVE  e \in now.edges \/ Excused(now, e, miss)
  BY <1>2 DEF Whole
<1>4. now.stamps[f] = IF f \in del THEN "none" ELSE IF f \in rels THEN "now" ELSE g.stamps[f]
  BY DEF Splice
<1>5. e.from.file = f /\ (Functions(nodes, f) = {} => e.from.is = "module")
  BY <1>3, IdEdgeNames
<1>6. CASE f \in Derived(g, rels, del, t)
  BY <1>6, SpliceIs
<1>7. CASE f \in Candidates(g, rels, del, t) /\ f \notin Derived(g, rels, del, t)
  BY <1>2, <1>5, <1>7 DEF Excused, Derived
<1>8. CASE f \notin rels \cup del /\ f \notin Candidates(g, rels, del, t)
  <2>1. g.stamps[f] = "now"
    BY <1>4, <1>8
  <2>2. f \in Files \ (rels \cup del)
    BY <1>8
  <2>. QED
    BY <1>2, <1>5, <1>8, <2>1, <2>2, SparedWhole DEF Excused
<1>. QED
  BY <1>4, <1>6, <1>7, <1>8 DEF Derived

(* M.splice, of a graph that agrees with the files but for what it reads       *)
(* again, gives one that agrees with all of them.                            *)
THEOREM SpliceConsistent ==
    ASSUME NEW g, NEW t, NEW miss, NEW rels, NEW del, Spliceable(g, t, miss, rels, del),
           Followed(g, t, miss, rels, del)
    PROVE  Consistent(Splice(g, rels, del, t), t, miss)
<1>1. /\ g \in Graphs /\ IsFiniteSet(g.nodes)
      /\ rels \in SUBSET Files /\ del \in SUBSET Files /\ t \in [Files -> Contents]
  BY DEF Spliceable
<1>2. Splice(g, rels, del, t) \in Graphs
  BY <1>1, SpliceType
<1>3. IsFiniteSet(Splice(g, rels, del, t).nodes)
  BY <1>1, AfterFinite, SpliceIs
<1>. QED
  BY <1>2, <1>3, SpliceIndexed, SpliceSound, SpliceClosed, SpliceWhole DEF Consistent

(* A cold extraction agrees with the files it is made of.                     *)
THEOREM ExtractConsistent ==
    ASSUME NEW t \in [Files -> Contents], NEW miss
    PROVE  Consistent(Extract(t), t, miss)
<1> DEFINE g == Extract(t)
           nodes == UNION {Nodes(f, t[f]) : f \in Files}
<1>1. g \in Graphs
  BY ExtractType
<1>2. /\ g.nodes = nodes
      /\ g.edges = UNION {IdEdges(f, t[f], nodes) : f \in Files}
      /\ \A f \in Files : /\ g.names[f] = Identifiers(f, t[f], nodes)
                          /\ g.stamps[f] = IF t[f] = Gone THEN "none" ELSE "now"
  BY DEF Extract
<1>3. nodes = Mini(Files, t)
  BY DEF Mini
<1>4. IsFiniteSet(nodes)
  BY <1>3, MiniFinite
<1>5. \A f \in Files : PartOf(nodes, f) = Nodes(f, t[f])
  <2>1. \A f \in Files : \A d \in Nodes(f, t[f]) : d.file = f
    BY NodesType
  <2>. QED
    BY <2>1 DEF PartOf
<1>6. nodes \in SUBSET Node
  BY <1>1, <1>2 DEF Graphs
<1> HIDE DEF g, nodes
<1>7. ASSUME NEW e \in g.edges
      PROVE  /\ e.from.file \in Files
             /\ e \in IdEdges(e.from.file, t[e.from.file], nodes)
             /\ e.to \in nodes
  <2>1. PICK f \in Files : e \in IdEdges(f, t[f], nodes)
    BY <1>2
  <2>2. e.from.file = f /\ e.to \in nodes
    BY <1>6, <2>1, IdEdgeNames
  <2>. QED
    BY <2>1, <2>2
<1>8. Indexed(g, t)
  <2> SUFFICES ASSUME NEW f \in Files, g.stamps[f] = "none"
               PROVE  /\ PartOf(nodes, f) = {}
                      /\ \A e \in g.edges : e.from.file # f
                      /\ g.names[f] = {}
    BY <1>2, <1>5 DEF Indexed
  <2>1. t[f] = Gone
    BY <1>2
  <2>2. Nodes(f, t[f]) = {} /\ Identifiers(f, t[f], nodes) = {} /\ IdEdges(f, t[f], nodes) = {}
    BY <2>1 DEF Nodes, Identifiers, IdEdges, Mentioning
  <2>3. \A e \in g.edges : e.from.file # f
    BY <1>7, <2>2
  <2>. QED
    BY <1>2, <1>5, <2>2, <2>3
<1>9. Sound(g, t)
  BY <1>2, <1>7 DEF Sound
<1>10. Closed(g, {})
  BY <1>2, <1>7 DEF Closed
<1>11. Whole(g, t, miss, {})
  BY <1>2 DEF Whole
<1>12. IsFiniteSet(g.nodes)
  BY <1>2, <1>4
<1>. QED
  BY <1>1, <1>8, <1>9, <1>10, <1>11, <1>12 DEF Consistent, g

-----------------------------------------------------------------------------
ShardFile == [is : {"absent", "torn", "whole"},
              part : [nodes : SUBSET Node, edges : SUBSET Edge, names : SUBSET Names]]

(* A shard file holds nothing of any other file. *)
Own(s, f) ==
    /\ \A d \in s.part.nodes : d.file = f
    /\ \A e \in s.part.edges : e.from.file = f

OwnParts ==
    \A f \in Files : Own(shard[f], f) /\ Own(manifest.sizes[f], f) /\ Own(saving.shards[f], f)

Inv ==
    /\ TypeOK
    /\ OwnParts
    /\ ~open => saving = NotSaving
    /\ HonestAccount
-----------------------------------------------------------------------------
(* The splice and the account it gives *)

(* The part of a file that is not in the account is as it was. *)
LEMMA SpliceSpares ==
    ASSUME NEW g \in Graphs, NEW rels \in SUBSET Files, NEW del \in SUBSET Files,
           NEW t \in [Files -> Contents],
           NEW f \in Files, f \notin del, f \notin Dirty(g, rels, del, t)
    PROVE  /\ Shard(Splice(g, rels, del, t), f) = Shard(g, f)
           /\ Splice(g, rels, del, t).stamps[f] = g.stamps[f]
<1> DEFINE nodes == After(g, rels, del, t)
           again == Derived(g, rels, del, t)
           now == Splice(g, rels, del, t)
<1>1. /\ f \notin rels
      /\ f \notin Candidates(g, rels, del, t)
      /\ \A i \in Inbound(g, rels, del) : i.from.file # f
  BY DEF Dirty
<1>2. f \notin again /\ again \subseteq Files
  BY <1>1 DEF Derived, Candidates
<1>3. {d \in nodes : d.file = f} = {d \in g.nodes : d.file = f}
  BY <1>1, PartSpared DEF PartOf
<1>4. nodes \in SUBSET Node
  BY AfterType
<1>5. /\ now.nodes = nodes
      /\ now.edges = {e \in Surviving(g, rels, del, t) :
                        e.from.file \notin Candidates(g, rels, del, t)}
                     \cup UNION {IdEdges(m, t[m], nodes) : m \in again}
      /\ now.names[f] = g.names[f]
      /\ now.stamps[f] = g.stamps[f]
  <2>1. now.nodes = nodes
    BY DEF Splice
  <2>2. now.edges = {e \in Surviving(g, rels, del, t) :
                        e.from.file \notin Candidates(g, rels, del, t)}
                     \cup UNION {IdEdges(m, t[m], nodes) : m \in again}
    BY DEF Splice
  <2>3. now.names[f] = g.names[f]
    BY <1>1, <1>2 DEF Splice
  <2>4. now.stamps[f] = g.stamps[f]
    BY <1>1 DEF Splice
  <2>. QED
    BY <2>1, <2>2, <2>3, <2>4
<1> HIDE DEF nodes, again, now
<1>6. {e \in now.edges : e.from.file = f} = {e \in g.edges : e.from.file = f}
  <2>1. ASSUME NEW e \in now.edges, e.from.file = f
        PROVE  e \in g.edges
    <3>1. \A m \in again : \A x \in IdEdges(m, t[m], nodes) : x.from.file = m
      BY <1>2, <1>4, IdEdgesType
    <3>2. e \in Surviving(g, rels, del, t)
      BY <1>2, <1>5, <2>1, <3>1
    <3>. QED
      BY <1>1, <2>1, <3>2, SurvivingType
  <2>2. ASSUME NEW e \in g.edges, e.from.file = f
        PROVE  e \in now.edges
    <3>1. e \notin Inbound(g, rels, del)
      BY <1>1, <2>2
    <3>2. e \in Surviving(g, rels, del, t)
      BY <1>1, <2>2, <3>1 DEF Surviving, Inbound
    <3>. QED
      BY <1>1, <1>5, <2>2, <3>2
  <2>. QED
    BY <2>1, <2>2
<1>7. {d \in now.nodes : d.file = f} = {d \in g.nodes : d.file = f}
  BY <1>3, <1>5
<1>. QED
  BY <1>5, <1>6, <1>7 DEF Shard, now
-----------------------------------------------------------------------------
(* Shards *)

LEMMA ShardType ==
    ASSUME NEW g \in Graphs, NEW f \in Files
    PROVE  Shard(g, f) \in ShardFile /\ Own(Shard(g, f), f)
BY DEF Shard, ShardFile, Own, Graphs, Stamps

(* So are a shard that is not there and a torn one. *)
LEMMA NoShardType ==
    ASSUME NEW f
    PROVE  /\ NoShard \in ShardFile /\ TornShard \in ShardFile
           /\ Own(NoShard, f) /\ Own(TornShard, f)
BY DEF NoShard, TornShard, NoPart, ShardFile, Own

(* What is loaded is a graph, whichever shards are readable. *)
LEMMA LoadedType ==
    ASSUME TypeOK
    PROVE  Loaded \in Graphs
<1>1. \A f \in Loadable : /\ f \in Files
                          /\ shard[f].part.nodes \subseteq Node
                          /\ shard[f].part.edges \subseteq Edge
                          /\ shard[f].part.names \subseteq Names
  BY DEF TypeOK, Shards, Loadable, Stamped
<1>2. manifest.stamps \in Stamps
  BY DEF TypeOK
<1>. QED
  BY <1>1, <1>2 DEF Loaded, Graphs, Stamps

(* What was loaded of a file is the part in its shard. *)
LEMMA LoadInvertsShard ==
    ASSUME TypeOK, OwnParts, NEW f \in Loadable
    PROVE  Shard(Loaded, f) = manifest.sizes[f]
<1>1. /\ f \in Files
      /\ shard[f].is = "whole" /\ shard[f] = manifest.sizes[f]
      /\ shard[f] \in ShardFile
  BY DEF Loadable, Intact, Stamped, TypeOK, Shards, ShardFile
<1>2. \A m \in Loadable : /\ \A d \in shard[m].part.nodes : d.file = m
                          /\ \A e \in shard[m].part.edges : e.from.file = m
  BY DEF OwnParts, Own, Loadable, Stamped
<1>3. {d \in Loaded.nodes : d.file = f} = shard[f].part.nodes
  BY <1>2 DEF Loaded
<1>4. {e \in Loaded.edges : e.from.file = f} = shard[f].part.edges
  BY <1>2 DEF Loaded
<1>5. Loaded.names[f] = shard[f].part.names
  BY <1>1 DEF Loaded
<1>6. shard[f] = [is |-> "whole", part |-> [nodes |-> shard[f].part.nodes,
                    edges |-> shard[f].part.edges, names |-> shard[f].part.names]]
  BY <1>1 DEF ShardFile
<1>. QED
  BY <1>1, <1>3, <1>4, <1>5, <1>6 DEF Shard

(* A save that begins is typed, and holds each file's part under its name.    *)
LEMMA StartSaveType ==
    ASSUME TypeOK, OwnParts, NEW by \in {"timer", "open"}, NEW g \in Graphs, NEW want,
           StartSave(by, g, want)
    PROVE  /\ saving' \in [by : {"none", "timer", "open"}, left : SUBSET Files,
                           stamps : Stamps, shards : Shards]
           /\ \A f \in Files : Own(saving'.shards[f], f)
           /\ saving'.by = by
<1>1. \A f \in Files : manifest.sizes[f] \in ShardFile /\ Own(manifest.sizes[f], f)
  BY DEF TypeOK, OwnParts, Shards, ShardFile
<1> DEFINE s(f) == IF f \notin Stamped(g.stamps) THEN NoShard
                   ELSE IF f \in want THEN Shard(g, f) ELSE manifest.sizes[f]
<1>2. \A f \in Files : s(f) \in ShardFile /\ Own(s(f), f)
  BY <1>1, ShardType, NoShardType
<1>3. saving' = [by |-> by, left |-> want \cap Stamped(g.stamps), stamps |-> g.stamps,
                 shards |-> [f \in Files |-> s(f)]]
  BY DEF StartSave
<1> HIDE DEF s
<1>4. [f \in Files |-> s(f)] \in Shards
  BY <1>2 DEF Shards, ShardFile
<1>5. want \cap Stamped(g.stamps) \in SUBSET Files /\ g.stamps \in Stamps
  BY DEF Stamped, Graphs, Stamps
<1>. QED
  BY <1>2, <1>3, <1>4, <1>5

(* A change of a file makes stamps old and takes none away. *)
LEMMA AgedType ==
    ASSUME NEW s \in Stamps, NEW f \in Files
    PROVE  Aged(s, f) \in Stamps /\ Stamped(Aged(s, f)) = Stamped(s)
BY DEF Aged, Stamps, Stamped
-----------------------------------------------------------------------------
(* The invariant *)

LEMMA EmptyType ==
    /\ NoGraph \in Graphs
    /\ NoSizes \in Shards
    /\ Unstamped \in Stamps
    /\ \A f \in Files : Own(NoSizes[f], f)
    /\ NotSaving \in [by : {"none", "timer", "open"}, left : SUBSET Files,
                      stamps : Stamps, shards : Shards]
    /\ NotSaving.by = "none" /\ NotSaving.shards = NoSizes
<1>1. Unstamped \in Stamps
  BY DEF Unstamped, Stamps
<1>2. NoSizes \in Shards
  BY NoShardType DEF NoSizes, Shards, ShardFile
<1>. QED
  BY <1>1, <1>2, NoShardType DEF NoGraph, Graphs, Stamps, NoSizes, NotSaving

(* The invariant holds in the first state. *)
LEMMA InitInv == Init => Inv
<1> SUFFICES ASSUME Init PROVE Inv
  OBVIOUS
<1>1. TypeOK
  <2>1. 0 \in 0..MaxEdits
    BY CacheAssumption
  <2>2. shard \in Shards
    BY EmptyType DEF Init, NoSizes
  <2>. QED
    BY <2>1, <2>2, EmptyType DEF Init, TypeOK, Graphs, Stamps
<1>2. OwnParts
  BY EmptyType, NoShardType DEF Init, OwnParts, NoSizes
<1>3. (~open => saving = NotSaving) /\ HonestAccount
  BY EmptyType DEF Init, HonestAccount
<1>. QED
  BY <1>1, <1>2, <1>3 DEF Inv

(* A cold open keeps it: every shard is written. *)
LEMMA OpenColdInv ==
    ASSUME Inv, OpenCold
    PROVE  Inv'
<1>1. Extract(tree) \in Graphs
  BY ExtractType DEF Inv, TypeOK
<1>2. /\ saving' \in [by : {"none", "timer", "open"}, left : SUBSET Files,
                      stamps : Stamps, shards : Shards]
      /\ \A f \in Files : Own(saving'.shards[f], f)
      /\ saving'.by = "timer"
  BY <1>1, StartSaveType DEF Inv, OpenCold
<1>3. TypeOK'
  BY <1>1, <1>2 DEF Inv, OpenCold, TypeOK, Graphs, Stamps
<1>4. OwnParts'
  BY <1>2 DEF Inv, OpenCold, OwnParts
<1>. QED
  BY <1>2, <1>3, <1>4 DEF Inv, OpenCold, HonestAccount

(* A warm open keeps it: a file out of the account was loaded from the shard the
   manifest names, and the splice left it alone. *)
LEMMA OpenWarmInv ==
    ASSUME Inv, OpenWarm
    PROVE  Inv'
<1> DEFINE rels == Changed \cup Bad
           now == Splice(Loaded, rels, Deleted, tree)
           dirty == Dirty(Loaded, rels, Deleted, tree)
           same == rels = {} /\ Deleted = {}
<1>1. Loaded \in Graphs
  BY LoadedType DEF Inv
<1>2. rels \in SUBSET Files /\ Deleted \in SUBSET Files
  BY DEF Changed, Bad, Deleted, Stamped
<1>3. tree \in [Files -> Contents]
  BY DEF Inv, TypeOK
<1>4. now \in Graphs
  BY <1>1, <1>2, <1>3, SpliceType
<1>5. /\ open' /\ graph' = IF same THEN Loaded ELSE now
      /\ IF same THEN UNCHANGED saving ELSE StartSave("open", now, dirty)
      /\ missed' = missed \cup Moved(Loaded, rels, Deleted) \cup Uncounted
      /\ UNCHANGED <<tree, edits, shard, manifest, sweeping>>
  BY DEF OpenWarm
<1>6. ~open /\ saving = NotSaving
  BY DEF OpenWarm, Inv
<1>7. Moved(Loaded, rels, Deleted) \subseteq Names
  BY DEF Moved
<1>8. Uncounted \subseteq Names
  <2>1. \A f \in Bad \cap (Changed \cup Deleted) : manifest.sizes[f].part.nodes \subseteq Node
    BY DEF Bad, Stamped, Inv, TypeOK, Shards
  <2>. QED
    BY <2>1 DEF Uncounted, Node
<1> HIDE DEF rels, now, dirty
<1>9. /\ saving' \in [by : {"none", "timer", "open"}, left : SUBSET Files,
                      stamps : Stamps, shards : Shards]
      /\ \A f \in Files : Own(saving'.shards[f], f)
      /\ saving'.by = IF same THEN "none" ELSE "open"
  <2>1. CASE same
    BY <2>1, <1>5, <1>6, EmptyType
  <2>2. CASE ~same
    BY <2>2, <1>4, <1>5, StartSaveType DEF Inv
  <2>. QED
    BY <2>1, <2>2
<1>10. TypeOK'
  <2>1. graph' \in Graphs
    BY <1>1, <1>4, <1>5
  <2>. QED
    BY <2>1, <1>5, <1>7, <1>8, <1>9 DEF Inv, TypeOK, Graphs, Stamps
<1>11. OwnParts'
  BY <1>5, <1>9 DEF Inv, OwnParts
<1>12. HonestAccount'
  <2>1. SUFFICES ASSUME ~same, NEW f \in Stamped(now.stamps)
                 PROVE  saving'.shards[f] = Shard(now, f)
    BY <1>5, <1>9 DEF HonestAccount, Shard
  <2>2. f \in Files /\ now.stamps[f] # "none"
    BY <2>1 DEF Stamped
  <2>3. saving'.shards[f] = IF f \in dirty THEN Shard(now, f) ELSE manifest.sizes[f]
    BY <1>5, <2>1, <2>2 DEF StartSave
  <2>4. CASE f \in dirty
    BY <2>3, <2>4
  <2>5. CASE f \notin dirty
    <3>1. f \notin Deleted
      BY <2>2 DEF now, Splice
    <3>2. Shard(now, f) = Shard(Loaded, f) /\ now.stamps[f] = Loaded.stamps[f]
      BY <1>1, <1>2, <1>3, <2>2, <2>5, <3>1, SpliceSpares DEF now, dirty
    <3>3. f \in Loadable
      BY <2>2, <3>2 DEF Loaded
    <3>. QED
      BY <2>3, <2>5, <3>2, <3>3, LoadInvertsShard DEF Inv
  <2>. QED
    BY <2>4, <2>5
<1>. QED
  BY <1>5, <1>10, <1>11, <1>12 DEF Inv

(* The steps of a save, and what fails in them, keep it. *)
LEMMA SaveInv ==
    ASSUME Inv,
           WriteManifest \/ \E f \in Files : SaveShard(f) \/ ShardFails(f) \/ DieWriting(f)
    PROVE  Inv'
<1>1. ASSUME NEW f \in Files, SaveShard(f) PROVE Inv'
  <2>1. TypeOK'
    BY <1>1 DEF Inv, TypeOK, SaveShard, Shards
  <2>2. OwnParts'
    BY <1>1 DEF Inv, TypeOK, Shards, OwnParts, SaveShard
  <2>3. saving'.by = saving.by /\ saving'.shards = saving.shards
    BY <1>1 DEF Inv, TypeOK, SaveShard
  <2>4. open
    BY <1>1 DEF Inv, SaveShard, NotSaving
  <2>. QED
    BY <1>1, <2>1, <2>2, <2>3, <2>4 DEF Inv, SaveShard, HonestAccount, Shard
<1>2. ASSUME NEW f \in Files, ShardFails(f) PROVE Inv'
  <2>1. \/ saving' = NotSaving
        \/ saving' = [saving EXCEPT !.left = @ \ {f}] /\ saving.by = "timer"
    BY <1>2 DEF ShardFails
  <2>2. TypeOK'
    BY <1>2, <2>1, EmptyType DEF Inv, TypeOK, ShardFails
  <2>3. OwnParts'
    BY <1>2, <2>1, EmptyType DEF Inv, TypeOK, OwnParts, ShardFails
  <2>4. saving'.by # "open"
    BY <2>1, EmptyType DEF Inv, TypeOK
  <2>5. open
    BY <1>2 DEF Inv, ShardFails, NotSaving
  <2>. QED
    BY <1>2, <2>2, <2>3, <2>4, <2>5 DEF Inv, ShardFails, HonestAccount
<1>3. ASSUME NEW f \in Files, DieWriting(f) PROVE Inv'
  <2>1. TypeOK'
    BY <1>3, EmptyType, NoShardType DEF Inv, TypeOK, DieWriting, Graphs, Stamps, Shards, ShardFile
  <2>2. OwnParts'
    BY <1>3, EmptyType, NoShardType DEF Inv, TypeOK, Shards, OwnParts, DieWriting
  <2>. QED
    BY <1>3, <2>1, <2>2, EmptyType DEF Inv, DieWriting, HonestAccount
<1>4. CASE WriteManifest
  <2>1. TypeOK'
    BY <1>4, EmptyType DEF Inv, TypeOK, WriteManifest
  <2>2. OwnParts'
    BY <1>4, EmptyType DEF Inv, OwnParts, WriteManifest
  <2>. QED
    BY <1>4, <2>1, <2>2, EmptyType DEF Inv, WriteManifest, HonestAccount
<1>. QED
  BY <1>1, <1>2, <1>3, <1>4

(* The other steps of a session keep it. *)
LEMMA SessionInv ==
    ASSUME Inv,
           Sweep \/ RefreshAll \/ Quit \/ \E rels \in SUBSET Files : Refresh(rels)
    PROVE  Inv'
<1>1. CASE Sweep
  <2>1. TypeOK'
    BY <1>1, NoShardType DEF Inv, TypeOK, Sweep, Shards, ShardFile
  <2>2. OwnParts'
    BY <1>1, NoShardType DEF Inv, OwnParts, Sweep
  <2>. QED
    BY <1>1, <2>1, <2>2 DEF Inv, Sweep, HonestAccount
<1>2. CASE RefreshAll
  <2>1. Extract(tree) \in Graphs
    BY ExtractType DEF Inv, TypeOK
  <2>2. /\ saving' \in [by : {"none", "timer", "open"}, left : SUBSET Files,
                        stamps : Stamps, shards : Shards]
        /\ \A f \in Files : Own(saving'.shards[f], f)
        /\ saving'.by = "timer"
    BY <1>2, <2>1, StartSaveType DEF Inv, RefreshAll
  <2>3. TypeOK'
    BY <1>2, <2>1, <2>2 DEF Inv, TypeOK, RefreshAll, Graphs, Stamps
  <2>4. OwnParts'
    BY <1>2, <2>2 DEF Inv, OwnParts, RefreshAll
  <2>. QED
    BY <1>2, <2>2, <2>3, <2>4 DEF Inv, RefreshAll, Free, HonestAccount
<1>3. CASE Quit
  <2>1. TypeOK'
    BY <1>3, EmptyType DEF Inv, TypeOK, Quit, Graphs, Stamps
  <2>2. OwnParts'
    BY <1>3, EmptyType DEF Inv, OwnParts, Quit
  <2>. QED
    BY <1>3, <2>1, <2>2, EmptyType DEF Inv, Quit, HonestAccount
<1>4. ASSUME NEW rels \in SUBSET Files, Refresh(rels) PROVE Inv'
  <2>1. graph \in Graphs /\ tree \in [Files -> Contents]
    BY DEF Inv, TypeOK, Graphs, Stamps
  <2>2. Splice(graph, rels, {}, tree) \in Graphs
    BY <2>1, SpliceType
  <2>3. Moved(graph, rels, {}) \subseteq Names
    BY DEF Moved
  <2>4. TypeOK'
    BY <1>4, <2>2, <2>3 DEF Inv, TypeOK, Refresh, Graphs, Stamps
  <2>. QED
    BY <1>4, <2>4 DEF Inv, OwnParts, Refresh, Free, HonestAccount
<1>. QED
  BY <1>1, <1>2, <1>3, <1>4

(* A change of a file keeps it: no shard and no stamped file comes or goes. *)
LEMMA EditInv ==
    ASSUME Inv, NEW f \in Files, NEW t \in Versions[f], Edit(f, t)
    PROVE  Inv'
<1>1. t \in Contents
  BY CacheAssumption
<1>2. /\ graph.stamps \in Stamps /\ manifest.stamps \in Stamps /\ saving.stamps \in Stamps
  BY DEF Inv, TypeOK
<1>3. /\ Aged(graph.stamps, f) \in Stamps /\ Stamped(Aged(graph.stamps, f)) = Stamped(graph.stamps)
      /\ Aged(manifest.stamps, f) \in Stamps
      /\ Aged(saving.stamps, f) \in Stamps
  BY <1>2, AgedType
<1>4. /\ tree' = [tree EXCEPT ![f] = t]
      /\ edits < MaxEdits /\ edits' = edits + 1
      /\ graph' = [graph EXCEPT !.stamps = Aged(graph.stamps, f)]
      /\ manifest' = [manifest EXCEPT !.stamps = Aged(manifest.stamps, f)]
      /\ saving' = [saving EXCEPT !.stamps = Aged(saving.stamps, f)]
      /\ UNCHANGED <<shard, open, sweeping, missed>>
  BY DEF Edit
<1>5. TypeOK'
  <2>1. edits' \in 0..MaxEdits
    BY <1>4, CacheAssumption DEF Inv, TypeOK
  <2>. QED
    BY <1>1, <1>3, <1>4, <2>1 DEF Inv, TypeOK
<1>6. OwnParts'
  BY <1>4 DEF Inv, TypeOK, OwnParts
<1>7. HonestAccount'
  <2>1. \A m \in Files : Shard(graph, m)' = Shard(graph, m)
    BY <1>4 DEF Inv, TypeOK, Shard
  <2>2. saving'.shards = saving.shards /\ saving'.by = saving.by
    BY <1>4 DEF Inv, TypeOK
  <2>3. Stamped(graph'.stamps) = Stamped(graph.stamps)
    BY <1>3, <1>4 DEF Inv, TypeOK
  <2>. QED
    BY <2>1, <2>2, <2>3 DEF Inv, HonestAccount, Stamped
<1>8. ASSUME ~open' PROVE saving' = NotSaving
  <2>1. saving = NotSaving /\ Aged(saving.stamps, f) = saving.stamps
    BY <1>4, <1>8 DEF Inv, NotSaving, Aged, Unstamped
  <2>. QED
    BY <1>4, <2>1 DEF NotSaving
<1>. QED
  BY <1>5, <1>6, <1>7, <1>8 DEF Inv

(* The invariant holds in every state. *)
THEOREM Invariance == Spec => []Inv
<1>1. ASSUME Inv, [Next]_vars PROVE Inv'
  <2>1. CASE UNCHANGED vars
    BY <1>1, <2>1 DEF Inv, vars, TypeOK, OwnParts, HonestAccount, Shard
  <2>2. CASE Next
    BY <1>1, <2>2, OpenColdInv, OpenWarmInv, SaveInv, SessionInv, EditInv DEF Next
  <2>. QED
    BY <1>1, <2>1, <2>2
<1>. QED
  BY <1>1, InitInv, PTL DEF Spec

(* The variables keep their types, whatever is edited, refreshed, saved or    *)
(* interrupted.                                                              *)
THEOREM TypeCorrect == Spec => []TypeOK
<1>1. Inv => TypeOK
  BY DEF Inv
<1>. QED
  BY <1>1, Invariance, PTL

(* For any files, texts, edits and failures, the shards an open saves and the *)
(* ones it keeps are what each file contributes to the graph it ends with:    *)
(* the account of M.splice that M.save trusts leaves nothing out.             *)
THEOREM AccountIsHonest == Spec => []HonestAccount
<1>1. Inv => HonestAccount
  BY DEF Inv
<1>. QED
  BY <1>1, Invariance, PTL
-----------------------------------------------------------------------------
(* Agreement with the files *)

(* The graph that the parts of the files L make. *)
Gathered(L, stamps, shards) ==
    [nodes |-> UNION {shards[f].part.nodes : f \in L},
     edges |-> UNION {shards[f].part.edges : f \in L},
     names |-> [f \in Files |-> IF f \in L THEN shards[f].part.names ELSE {}],
     stamps |-> [f \in Files |-> IF f \in L THEN stamps[f] ELSE "none"]]

(* What a manifest promises: the graph a load of all its shards would make. *)
Saved(stamps, shards) == Gathered(Stamped(stamps), stamps, shards)

Promised == Saved(manifest.stamps, manifest.sizes)

(* The graph in memory, the one the manifest promises and the one the save in  *)
(* flight is about to promise agree with the files, as far as they were read. *)
Agrees ==
    /\ tree \in Trees
    /\ Consistent(graph, tree, missed)
    /\ Consistent(Promised, tree, missed)
    /\ Consistent(Saved(saving.stamps, saving.shards), tree, missed)

(* Names that are lost track of only ever excuse more. *)
LEMMA MoreMissed ==
    ASSUME NEW g, NEW t, NEW miss, NEW more, miss \subseteq more, Consistent(g, t, miss)
    PROVE  Consistent(g, t, more)
<1>1. Whole(g, t, more, {})
  BY DEF Consistent, Whole, Excused
<1>. QED
  BY <1>1 DEF Consistent

(* A graph that has read nothing agrees with every tree. *)
LEMMA EmptyConsistent ==
    ASSUME NEW t, NEW miss
    PROVE  /\ Consistent(NoGraph, t, miss)
           /\ Consistent(Saved(Unstamped, NoSizes), t, miss)
<1>1. NoGraph \in Graphs /\ NoGraph.nodes = {} /\ NoGraph.edges = {}
      /\ \A f \in Files : NoGraph.stamps[f] = "none" /\ NoGraph.names[f] = {}
  BY EmptyType DEF NoGraph, Unstamped
<1>2. Consistent(NoGraph, t, miss)
  BY <1>1, FS_EmptySet DEF Consistent, Indexed, Sound, Closed, Whole, PartOf
<1>3. Saved(Unstamped, NoSizes) = NoGraph
  <2>1. Stamped(Unstamped) = {}
    BY DEF Stamped, Unstamped
  <2>. QED
    BY <2>1 DEF Saved, Gathered, NoGraph, Unstamped
<1>. QED
  BY <1>2, <1>3

(* Sharding a graph and gathering its shards gives it back. *)
LEMMA SavedInvertsShard ==
    ASSUME NEW g \in Graphs, NEW t, Indexed(g, t), NEW shards,
           \A f \in Stamped(g.stamps) : shards[f] = Shard(g, f)
    PROVE  Saved(g.stamps, shards) = g
<1> DEFINE L == Stamped(g.stamps)
<1>1. \A f \in Files \ L : /\ PartOf(g.nodes, f) = {} /\ g.names[f] = {}
                           /\ \A e \in g.edges : e.from.file # f
  BY DEF Indexed, Stamped
<1>2. \A f \in L : /\ f \in Files
                   /\ shards[f].part.nodes = {d \in g.nodes : d.file = f}
                   /\ shards[f].part.edges = {e \in g.edges : e.from.file = f}
                   /\ shards[f].part.names = g.names[f]
  <2>1. \A f \in L : f \in Files /\ shards[f] = Shard(g, f)
    BY DEF Stamped
  <2> HIDE DEF L
  <2>2. \A f : /\ Shard(g, f).part.nodes = {d \in g.nodes : d.file = f}
               /\ Shard(g, f).part.edges = {e \in g.edges : e.from.file = f}
               /\ Shard(g, f).part.names = g.names[f]
    BY DEF Shard
  <2>. QED
    BY <2>1, <2>2
<1>3. UNION {shards[f].part.nodes : f \in L} = g.nodes
  <2>1. \A d \in g.nodes : d.file \in Files
    BY DEF Graphs, Node
  <2>2. \A d \in g.nodes : d.file \in L
    BY <1>1, <2>1 DEF PartOf
  <2> HIDE DEF L
  <2>. QED
    BY <1>2, <2>2
<1>4. UNION {shards[f].part.edges : f \in L} = g.edges
  <2>1. \A e \in g.edges : e.from.file \in Files
    BY EdgeEnds DEF Graphs
  <2>2. \A e \in g.edges : e.from.file \in L
    BY <1>1, <2>1
  <2> HIDE DEF L
  <2>. QED
    BY <1>2, <2>2
<1>5. [f \in Files |-> IF f \in L THEN shards[f].part.names ELSE {}] = g.names
  BY <1>1, <1>2 DEF Graphs
<1>6. [f \in Files |-> IF f \in L THEN g.stamps[f] ELSE "none"] = g.stamps
  BY DEF Graphs, Stamped
<1>. QED
  BY <1>3, <1>4, <1>5, <1>6 DEF Saved, Gathered, Graphs

(* A change of a file makes what was read of it old, and touches nothing else. *)
LEMMA AgedConsistent ==
    ASSUME NEW t \in [Files -> Contents], NEW miss, NEW f \in Files, NEW text \in Contents,
           NEW g, Consistent(g, t, miss), NEW h,
           h.nodes = g.nodes, h.edges = g.edges, h.names = g.names,
           h.stamps = Aged(g.stamps, f), h \in Graphs
    PROVE  Consistent(h, [t EXCEPT ![f] = text], miss)
<1> DEFINE u == [t EXCEPT ![f] = text]
<1>1. g \in Graphs /\ IsFiniteSet(g.nodes)
  BY DEF Consistent
<1>a. Indexed(g, t) /\ Sound(g, t) /\ Closed(g, {}) /\ Whole(g, t, miss, {})
  BY DEF Consistent
<1>2. /\ h.stamps[f] # "now"
      /\ h.stamps[f] = "none" => g.stamps[f] = "none"
      /\ \A m \in Files \ {f} : h.stamps[m] = g.stamps[m] /\ u[m] = t[m]
  BY <1>1 DEF Aged, Graphs
<1> HIDE DEF u
<1>3. Indexed(h, u)
  BY <1>a, <1>2 DEF Indexed
<1>4. Sound(h, u)
  <2> SUFFICES ASSUME NEW e \in g.edges, h.stamps[e.from.file] = "now", e.to \in g.nodes
               PROVE  e \in IdEdges(e.from.file, u[e.from.file], g.nodes)
    BY DEF Sound
  <2>1. e.from.file \in Files
    BY <1>1, EdgeEnds DEF Graphs
  <2>2. e.from.file # f
    BY <1>2
  <2>. QED
    BY <1>a, <1>2, <2>1, <2>2 DEF Sound
<1>5. Closed(h, {})
  BY <1>a DEF Closed
<1>6. Whole(h, u, miss, {})
  <2> SUFFICES ASSUME NEW m \in Files, h.stamps[m] = "now",
                      NEW e \in IdEdges(m, u[m], g.nodes)
               PROVE  e \in g.edges \/ Excused(h, e, miss) \/ Rivalled(e, {})
    BY DEF Whole
  <2>1. m # f
    BY <1>2
  <2>2. e \in g.edges \/ Excused(g, e, miss) \/ Rivalled(e, {})
    BY <1>a, <1>2, <2>1 DEF Whole
  <2>3. Excused(g, e, miss) => Excused(h, e, miss)
    BY DEF Excused
  <2>. QED
    BY <2>2, <2>3
<1>. QED
  BY <1>1, <1>3, <1>4, <1>5, <1>6 DEF Consistent, u

(* What is loaded of the promised graph: all of it but for the files whose     *)
(* shards are unreadable.                                                    *)
LEMMA LoadedPart ==
    ASSUME Inv
    PROVE  /\ Loadable \subseteq Files /\ Loadable \subseteq Stamped(manifest.stamps)
           /\ Loaded.nodes = {d \in Promised.nodes : d.file \in Loadable}
           /\ Loaded.edges = {e \in Promised.edges : e.from.file \in Loadable}
           /\ \A f \in Loadable : /\ Loaded.names[f] = Promised.names[f]
                                  /\ Loaded.stamps[f] = Promised.stamps[f]
                                  /\ Promised.stamps[f] = manifest.stamps[f]
           /\ \A f \in Files \ Loadable : Loaded.names[f] = {} /\ Loaded.stamps[f] = "none"
<1> DEFINE S == Stamped(manifest.stamps)
<1>1. /\ Loadable \subseteq S /\ S \subseteq Files
      /\ \A f \in Loadable : shard[f] = manifest.sizes[f]
  BY DEF Loadable, Intact, Stamped
<1>2. \A f \in S : /\ \A d \in manifest.sizes[f].part.nodes : d.file = f
                   /\ \A e \in manifest.sizes[f].part.edges : e.from.file = f
  BY <1>1 DEF Inv, OwnParts, Own
<1>3. /\ Promised.nodes = UNION {manifest.sizes[f].part.nodes : f \in S}
      /\ Promised.edges = UNION {manifest.sizes[f].part.edges : f \in S}
      /\ \A f \in Files : /\ f \in S => /\ Promised.names[f] = manifest.sizes[f].part.names
                                        /\ Promised.stamps[f] = manifest.stamps[f]
  BY DEF Promised, Saved, Gathered
<1>4. /\ Loaded.nodes = UNION {shard[f].part.nodes : f \in Loadable}
      /\ Loaded.edges = UNION {shard[f].part.edges : f \in Loadable}
      /\ \A f \in Files : /\ f \in Loadable => /\ Loaded.names[f] = shard[f].part.names
                                               /\ Loaded.stamps[f] = manifest.stamps[f]
                          /\ f \notin Loadable => Loaded.names[f] = {} /\ Loaded.stamps[f] = "none"
  BY DEF Loaded
<1> HIDE DEF S
<1>5. Loaded.nodes = {d \in Promised.nodes : d.file \in Loadable}
  BY <1>1, <1>2, <1>3, <1>4
<1>6. Loaded.edges = {e \in Promised.edges : e.from.file \in Loadable}
  BY <1>1, <1>2, <1>3, <1>4
<1>7. \A f \in Loadable : /\ Loaded.names[f] = Promised.names[f]
                          /\ Loaded.stamps[f] = Promised.stamps[f]
                          /\ Promised.stamps[f] = manifest.stamps[f]
  BY <1>1, <1>3, <1>4
<1>. QED
  BY <1>1, <1>4, <1>5, <1>6, <1>7 DEF S

(* With nothing to read again, what is loaded is the promised graph.          *)
LEMMA LoadedSame ==
    ASSUME Bad = {}
    PROVE  Loaded = Promised
<1>1. Loadable = Stamped(manifest.stamps)
  BY DEF Bad, Loadable
<1>2. \A f \in Loadable : shard[f] = manifest.sizes[f]
  BY DEF Loadable, Intact
<1>3. {shard[f].part.nodes : f \in Loadable} = {manifest.sizes[f].part.nodes : f \in Loadable}
  BY <1>2
<1>4. {shard[f].part.edges : f \in Loadable} = {manifest.sizes[f].part.edges : f \in Loadable}
  BY <1>2
<1>5. [f \in Files |-> IF f \in Loadable THEN shard[f].part.names ELSE {}]
        = [f \in Files |-> IF f \in Loadable THEN manifest.sizes[f].part.names ELSE {}]
  BY <1>2
<1>. QED
  BY <1>1, <1>3, <1>4, <1>5 DEF Loaded, Promised, Saved, Gathered

(* A definition of the promised graph that was not loaded is one of a file that *)
(* is read again as it was, or its name is one no splice counts.              *)
LEMMA Unloaded ==
    ASSUME Inv, Consistent(Promised, tree, missed),
           NEW d \in Promised.nodes, d.file \notin Loadable
    PROVE  d \in Mini(Changed \cup Bad, tree) \/ d.name \in Uncounted
<1>1. Promised.nodes = UNION {manifest.sizes[f].part.nodes : f \in Stamped(manifest.stamps)}
  BY DEF Promised, Saved, Gathered
<1>2. PICK f \in Stamped(manifest.stamps) : d \in manifest.sizes[f].part.nodes
  BY <1>1
<1>3. f \in Files /\ d.file = f
  BY <1>2 DEF Inv, OwnParts, Own, Stamped
<1>4. f \in Bad
  BY <1>3 DEF Bad
<1>5. CASE f \in Changed \cup Deleted
  BY <1>2, <1>4, <1>5 DEF Uncounted
<1>6. CASE f \notin Changed \cup Deleted
  <2>1. manifest.stamps[f] = "now"
    BY <1>2, <1>3, <1>6 DEF Changed, Deleted
  <2>2. Promised.stamps[f] = "now"
    BY <1>2, <1>3, <2>1 DEF Promised, Saved, Gathered
  <2>3. PartOf(Promised.nodes, f) = Nodes(f, tree[f])
    BY <1>3, <2>2 DEF Consistent, Indexed
  <2>4. d \in Nodes(f, tree[f])
    BY <1>3, <2>3 DEF PartOf
  <2>. QED
    BY <1>4, <2>4 DEF Mini
<1>. QED
  BY <1>5, <1>6

(* What is loaded can be spliced: it agrees with the files but for those that  *)
(* are read again.                                                           *)
LEMMA LoadedSpliceable ==
    ASSUME Inv, Consistent(Promised, tree, missed), NEW miss, missed \cup Uncounted \subseteq miss
    PROVE  Spliceable(Loaded, tree, miss, Changed \cup Bad, Deleted)
<1> DEFINE rels == Changed \cup Bad
           P == Promised
<1>1. /\ Loadable \subseteq Files /\ Loadable \subseteq Stamped(manifest.stamps)
      /\ Loaded.nodes = {d \in P.nodes : d.file \in Loadable}
      /\ Loaded.edges = {e \in P.edges : e.from.file \in Loadable}
      /\ \A f \in Loadable : Loaded.names[f] = P.names[f] /\ Loaded.stamps[f] = P.stamps[f]
      /\ \A f \in Files \ Loadable : Loaded.names[f] = {} /\ Loaded.stamps[f] = "none"
  BY LoadedPart
<1>2. /\ Loaded \in Graphs /\ tree \in [Files -> Contents]
      /\ rels \in SUBSET Files /\ Deleted \in SUBSET Files
      /\ \A f \in Deleted : tree[f] = Gone
  BY LoadedType DEF Inv, TypeOK, Changed, Bad, Deleted, Stamped
<1>3. P \in Graphs /\ IsFiniteSet(P.nodes)
  BY DEF Consistent
<1>4. Indexed(P, tree) /\ Sound(P, tree) /\ Closed(P, {}) /\ Whole(P, tree, missed, {})
  BY DEF Consistent
<1>5. IsFiniteSet(Loaded.nodes)
  BY <1>1, <1>3, FS_Subset
<1>6. P.nodes \in SUBSET Node /\ Loaded.nodes \in SUBSET Node
  BY <1>2, <1>3 DEF Graphs
<1>7. \A d \in P.nodes : d.file \notin Loadable => d \in Mini(rels, tree) \/ d.name \in Uncounted
  BY Unloaded
<1>8. \A f \in Loadable : PartOf(Loaded.nodes, f) = PartOf(P.nodes, f)
  BY <1>1 DEF PartOf
<1>9. \A e \in P.edges : e.to.file \in Loadable \cup Bad
  <2>1. \A e \in P.edges : e.to \in P.nodes /\ e.to.file \in Files
    BY <1>3, <1>4, EdgeEnds DEF Closed, Graphs
  <2>2. \A f \in Files : P.stamps[f] = "none" => PartOf(P.nodes, f) = {}
    BY <1>4 DEF Indexed
  <2>3. \A f \in Files : f \notin Stamped(manifest.stamps) => P.stamps[f] = "none"
    BY DEF Promised, Saved, Gathered
  <2>4. \A e \in P.edges : e.to.file \in Stamped(manifest.stamps)
    BY <2>1, <2>2, <2>3 DEF PartOf
  <2>. QED
    BY <2>4 DEF Bad
<1>. HIDE DEF P, rels
<1>10. Indexed(Loaded, tree)
  <2> SUFFICES ASSUME NEW f \in Files
               PROVE  /\ Loaded.stamps[f] = "now" =>
                           /\ PartOf(Loaded.nodes, f) = Nodes(f, tree[f])
                           /\ Loaded.names[f] = Identifiers(f, tree[f], Loaded.nodes)
                      /\ Loaded.stamps[f] = "none" =>
                           /\ PartOf(Loaded.nodes, f) = {}
                           /\ \A e \in Loaded.edges : e.from.file # f
                           /\ Loaded.names[f] = {}
    BY DEF Indexed
  <2>1. CASE f \in Loadable
    <3>1. Identifiers(f, tree[f], Loaded.nodes) = Identifiers(f, tree[f], P.nodes)
      BY <1>8, <2>1, SamePart
    <3>. QED
      BY <1>1, <1>4, <1>8, <2>1, <3>1 DEF Indexed
  <2>2. CASE f \notin Loadable
    BY <1>1, <2>2 DEF PartOf
  <2>. QED
    BY <2>1, <2>2
<1>11. Sound(Loaded, tree)
  <2> SUFFICES ASSUME NEW e \in Loaded.edges, Loaded.stamps[e.from.file] = "now",
                      e.to \in Loaded.nodes
               PROVE  e \in IdEdges(e.from.file, tree[e.from.file], Loaded.nodes)
    BY DEF Sound
  <2> DEFINE f == e.from.file
  <2>1. f \in Loadable /\ f \in Files /\ e \in P.edges /\ P.stamps[f] = "now" /\ e.to \in P.nodes
    BY <1>1
  <2>2. e \in IdEdges(f, tree[f], P.nodes)
    BY <1>4, <2>1 DEF Sound
  <2> HIDE DEF f
  <2>3. e.to.is = "function" \/ e.to.file # f => Called(P.nodes, e.to.is, e.to.name) = {e.to}
    BY <1>6, <2>1, <2>2, IdEdgeNames
  <2>4. e.to.is = "function" \/ e.to.file # f => Called(Loaded.nodes, e.to.is, e.to.name) = {e.to}
    BY <1>1, <2>3 DEF Called
  <2>5. Retargeted(e, e.to) = e
    BY <1>3, <2>1, EdgeEnds DEF Graphs
  <2>6. PartOf(P.nodes, f) = PartOf(Loaded.nodes, f)
    BY <1>8, <2>1
  <2>7. Retargeted(e, e.to) \in IdEdges(f, tree[f], Loaded.nodes)
    BY <1>6, <2>1, <2>2, <2>4, <2>6, SameMention
  <2>. QED
    BY <2>5, <2>7 DEF f
<1>12. Closed(Loaded, rels \cup Deleted)
  <2> SUFFICES ASSUME NEW e \in Loaded.edges, e.to \notin Loaded.nodes
               PROVE  e.to.file \in rels
    BY DEF Closed
  <2>1. e \in P.edges /\ e.to \in P.nodes
    BY <1>1, <1>4 DEF Closed
  <2>. QED
    BY <1>1, <1>9, <2>1 DEF rels
<1>13. Whole(Loaded, tree, miss, Mini(rels, tree))
  <2> SUFFICES ASSUME NEW f \in Files, Loaded.stamps[f] = "now",
                      NEW e \in IdEdges(f, tree[f], Loaded.nodes)
               PROVE  \/ e \in Loaded.edges
                      \/ Excused(Loaded, e, miss)
                      \/ Rivalled(e, Mini(rels, tree))
    BY DEF Whole
  <2>1. f \in Loadable /\ P.stamps[f] = "now"
    BY <1>1
  <2>2. /\ e.from.file = f /\ e.to \in Loaded.nodes
        /\ e.to.is = "function" \/ e.to.file # f
             => Called(Loaded.nodes, e.to.is, e.to.name) = {e.to}
    BY <1>6, IdEdgeNames
  <2>3. e.to \in P.nodes /\ e.to.file \in Loadable
    BY <1>1, <2>2
  <2>4. PartOf(Loaded.nodes, f) = PartOf(P.nodes, f)
    BY <1>8, <2>1
  <2>5. CASE e \in IdEdges(f, tree[f], P.nodes)
    <3>1. e \in P.edges \/ Excused(P, e, missed)
      BY <1>4, <2>1, <2>5 DEF Whole, Rivalled
    <3>2. e \in P.edges => e \in Loaded.edges
      BY <1>1, <2>1, <2>2
    <3>3. Functions(Loaded.nodes, f) = Functions(P.nodes, f)
      BY <2>4, SamePart
    <3>4. Excused(P, e, missed) => Excused(Loaded, e, miss)
      BY <2>2, <3>3 DEF Excused
    <3>. QED
      BY <3>1, <3>2, <3>4
  <2>6. CASE e \notin IdEdges(f, tree[f], P.nodes)
    <3>1. Retargeted(e, e.to) = e
      BY <1>6, IdEdgesType, EdgeEnds
    <3>2. ~(e.to.is = "function" \/ e.to.file # f => Called(P.nodes, e.to.is, e.to.name) = {e.to})
      <4>1. SUFFICES ASSUME e.to.is = "function" \/ e.to.file # f
                              => Called(P.nodes, e.to.is, e.to.name) = {e.to}
                     PROVE  FALSE
        OBVIOUS
      <4>2. Retargeted(e, e.to) \in IdEdges(f, tree[f], P.nodes)
        BY <1>6, <2>3, <2>4, <4>1, SameMention
      <4>. QED
        BY <2>6, <3>1, <4>2
    <3>3. PICK r \in Called(P.nodes, e.to.is, e.to.name) : r # e.to
      BY <2>3, <3>2 DEF Called
    <3>4. r \in P.nodes /\ r.is = e.to.is /\ r.name = e.to.name
      BY <3>3 DEF Called
    <3>5. r.file \notin Loadable
      BY <1>1, <2>2, <3>2, <3>3, <3>4 DEF Called
    <3>6. CASE r \in Mini(rels, tree)
      BY <2>2, <2>3, <3>2, <3>4, <3>5, <3>6 DEF Rivalled
    <3>7. CASE r.name \in Uncounted
      BY <3>4, <3>7 DEF Excused
    <3>. QED
      BY <1>7, <3>4, <3>5, <3>6, <3>7
  <2>. QED
    BY <2>5, <2>6
<1>. QED
  BY <1>2, <1>5, <1>10, <1>11, <1>12, <1>13 DEF Spliceable, rels
-----------------------------------------------------------------------------
(* The graph agrees with the files *)

(* A save that begins promises the graph it saves.                            *)
LEMMA SaveAgrees ==
    ASSUME NEW g, NEW t, NEW miss, Consistent(g, t, miss),
           saving'.stamps = g.stamps,
           \A f \in Stamped(g.stamps) : saving'.shards[f] = Shard(g, f)
    PROVE  Saved(saving'.stamps, saving'.shards) = g
BY SavedInvertsShard DEF Consistent

(* The save of a graph read anew writes every shard.                          *)
LEMMA TimerSaves ==
    ASSUME NEW g \in Graphs, StartSave("timer", g, Files)
    PROVE  /\ saving'.stamps = g.stamps
           /\ \A f \in Stamped(g.stamps) : saving'.shards[f] = Shard(g, f)
BY DEF StartSave, Stamped

LEMMA InitAgrees == Init => Agrees
<1> SUFFICES ASSUME Init PROVE Agrees
  OBVIOUS
<1>1. Consistent(graph, tree, missed)
  BY EmptyConsistent DEF Init
<1>2. manifest.stamps = Unstamped /\ manifest.sizes = NoSizes
  BY DEF Init
<1>3. saving.stamps = Unstamped /\ saving.shards = NoSizes
  BY DEF Init, NotSaving
<1>. QED
  BY <1>1, <1>2, <1>3, EmptyConsistent DEF Agrees, Promised, Init, Trees

(* A cold open and a refresh of everything read the files anew.               *)
LEMMA ColdAgrees ==
    ASSUME Inv, Agrees, OpenCold \/ RefreshAll
    PROVE  Agrees'
<1>1. tree \in [Files -> Contents]
  BY DEF Inv, TypeOK
<1>2. graph' = Extract(tree) /\ StartSave("timer", Extract(tree), Files)
      /\ UNCHANGED <<tree, manifest, missed>>
  BY DEF OpenCold, RefreshAll
<1>3. Consistent(Extract(tree), tree, missed)
  BY <1>1, ExtractConsistent
<1>4. Extract(tree) \in Graphs
  BY <1>1, ExtractType
<1>5. Saved(saving'.stamps, saving'.shards) = Extract(tree)
  BY <1>2, <1>3, <1>4, TimerSaves, SaveAgrees
<1>. QED
  BY <1>2, <1>3, <1>5 DEF Agrees, Promised

(* A warm open splices what it could load, and its save keeps the shards that  *)
(* the account leaves out.                                                   *)
LEMMA WarmAgrees ==
    ASSUME Inv, Inv', Agrees, OpenWarm
    PROVE  Agrees'
<1> DEFINE rels == Changed \cup Bad
           now == Splice(Loaded, rels, Deleted, tree)
           dirty == Dirty(Loaded, rels, Deleted, tree)
           same == rels = {} /\ Deleted = {}
<1>1. /\ open' /\ graph' = IF same THEN Loaded ELSE now
      /\ IF same THEN UNCHANGED saving ELSE StartSave("open", now, dirty)
      /\ missed' = missed \cup Moved(Loaded, rels, Deleted) \cup Uncounted
      /\ UNCHANGED <<tree, manifest>>
  BY DEF OpenWarm
<1>2. Consistent(Promised, tree, missed)
  BY DEF Agrees
<1>3. Consistent(Promised, tree, missed')
  BY <1>1, <1>2, MoreMissed
<1>4. Consistent(now, tree, missed')
  <2>1. Spliceable(Loaded, tree, missed', rels, Deleted)
    BY <1>1, <1>2, LoadedSpliceable
  <2>2. Followed(Loaded, tree, missed', rels, Deleted)
    BY <1>1 DEF Followed, Moved
  <2>. QED
    BY <2>1, <2>2, SpliceConsistent
<1>5. Consistent(graph', tree, missed')
  <2>1. CASE same
    BY <1>1, <1>3, <2>1, LoadedSame
  <2>2. CASE ~same
    BY <1>1, <1>4, <2>2
  <2>. QED
    BY <2>1, <2>2
<1> HIDE DEF rels, now, dirty
<1>6. Consistent(Saved(saving'.stamps, saving'.shards), tree, missed')
  <2>1. CASE same
    BY <1>1, <2>1, MoreMissed DEF Agrees
  <2>2. CASE ~same
    <3>1. saving'.by = "open" /\ saving'.stamps = graph'.stamps /\ graph' = now
      BY <1>1, <2>2 DEF StartSave
    <3>2. \A f \in Stamped(graph'.stamps) : saving'.shards[f] = Shard(graph', f)
      BY <3>1 DEF Inv, HonestAccount, Shard
    <3>3. Saved(saving'.stamps, saving'.shards) = graph'
      BY <1>5, <3>1, <3>2, SaveAgrees
    <3>. QED
      BY <1>5, <3>3
  <2>. QED
    BY <2>1, <2>2
<1>7. Promised' = Promised
  BY <1>1 DEF Promised
<1>. QED
  BY <1>1, <1>3, <1>5, <1>6, <1>7 DEF Agrees

(* A refresh splices a graph that agrees with the files.                      *)
LEMMA RefreshAgrees ==
    ASSUME Inv, Agrees, NEW rels \in SUBSET Files, Refresh(rels)
    PROVE  Agrees'
<1>1. /\ graph' = Splice(graph, rels, {}, tree)
      /\ missed' = missed \cup Moved(graph, rels, {})
      /\ UNCHANGED <<tree, manifest, saving>>
  BY DEF Refresh
<1>2. Consistent(graph, tree, missed')
  BY <1>1, MoreMissed DEF Agrees
<1>3. Spliceable(graph, tree, missed', rels, {})
  <2>1. Closed(graph, rels \cup {})
    BY <1>2 DEF Consistent, Closed
  <2>2. Whole(graph, tree, missed', Mini(rels, tree))
    BY <1>2 DEF Consistent, Whole, Rivalled
  <2>. QED
    BY <1>2, <2>1, <2>2 DEF Spliceable, Consistent, Inv, TypeOK
<1>4. Followed(graph, tree, missed', rels, {})
  BY <1>1 DEF Followed, Moved
<1>5. Consistent(graph', tree, missed')
  BY <1>1, <1>3, <1>4, SpliceConsistent
<1>6. /\ Consistent(Promised, tree, missed')
      /\ Consistent(Saved(saving.stamps, saving.shards), tree, missed')
  BY <1>1, MoreMissed DEF Agrees
<1>7. Promised' = Promised
  BY <1>1 DEF Promised
<1>. QED
  BY <1>1, <1>5, <1>6, <1>7 DEF Agrees

(* The steps of a save only move promises, and a session that ends or dies has *)
(* read nothing.                                                             *)
LEMMA SaveStepsAgree ==
    ASSUME Inv, Agrees,
           \/ WriteManifest \/ Sweep \/ Quit
           \/ \E f \in Files : SaveShard(f) \/ ShardFails(f) \/ DieWriting(f)
    PROVE  Agrees'
<1>0. NotSaving.stamps = Unstamped /\ NotSaving.shards = NoSizes
  BY DEF NotSaving
<1>1. /\ Consistent(NoGraph, tree, missed)
      /\ Consistent(Saved(NotSaving.stamps, NotSaving.shards), tree, missed)
  BY <1>0, EmptyConsistent
<1>2. UNCHANGED <<tree, missed>>
  BY DEF WriteManifest, Sweep, Quit, SaveShard, ShardFails, DieWriting
<1>3. graph' = graph \/ graph' = NoGraph
  BY DEF WriteManifest, Sweep, Quit, SaveShard, ShardFails, DieWriting
<1>4. \/ saving' = NotSaving
      \/ saving'.stamps = saving.stamps /\ saving'.shards = saving.shards
  BY DEF WriteManifest, Sweep, Quit, SaveShard, ShardFails, DieWriting, Inv, TypeOK
<1>5. \/ manifest' = manifest
      \/ manifest'.stamps = saving.stamps /\ manifest'.sizes = saving.shards
  BY DEF WriteManifest, Sweep, Quit, SaveShard, ShardFails, DieWriting
<1>6. Promised' = Promised \/ Promised' = Saved(saving.stamps, saving.shards)
  BY <1>5 DEF Promised
<1>7. Consistent(graph', tree, missed)
  BY <1>1, <1>3 DEF Agrees
<1>8. Consistent(Saved(saving'.stamps, saving'.shards), tree, missed)
  BY <1>1, <1>4 DEF Agrees
<1>9. Consistent(Promised', tree, missed)
  BY <1>6 DEF Agrees
<1>. QED
  BY <1>2, <1>7, <1>8, <1>9 DEF Agrees

(* A change of a file is seen in every stamp of it.                           *)
LEMMA AgedSaved ==
    ASSUME NEW s \in Stamps, NEW f \in Files, NEW shards
    PROVE  /\ Saved(Aged(s, f), shards).nodes = Saved(s, shards).nodes
           /\ Saved(Aged(s, f), shards).edges = Saved(s, shards).edges
           /\ Saved(Aged(s, f), shards).names = Saved(s, shards).names
           /\ Saved(Aged(s, f), shards).stamps = Aged(Saved(s, shards).stamps, f)
           /\ Saved(s, shards) \in Graphs => Saved(Aged(s, f), shards) \in Graphs
<1>1. Stamped(Aged(s, f)) = Stamped(s) /\ Aged(s, f) \in Stamps
  BY AgedType
<1>2. /\ Saved(Aged(s, f), shards).nodes = Saved(s, shards).nodes
      /\ Saved(Aged(s, f), shards).edges = Saved(s, shards).edges
  BY <1>1 DEF Saved, Gathered
<1>3. Saved(Aged(s, f), shards).names = Saved(s, shards).names
  BY <1>1 DEF Saved, Gathered
<1>4. /\ Saved(Aged(s, f), shards).stamps = Aged(s, f)
      /\ Saved(s, shards).stamps = s
  BY <1>1 DEF Saved, Gathered, Stamped, Stamps
<1>5. Saved(s, shards) \in Graphs => Saved(Aged(s, f), shards) \in Graphs
  BY <1>1, <1>2, <1>3, <1>4 DEF Graphs, Stamps, Saved, Gathered
<1>. QED
  BY <1>2, <1>3, <1>4, <1>5

LEMMA AgedPromise ==
    ASSUME NEW t \in [Files -> Contents], NEW miss, NEW f \in Files, NEW text \in Contents,
           NEW s \in Stamps, NEW shards, Consistent(Saved(s, shards), t, miss)
    PROVE  Consistent(Saved(Aged(s, f), shards), [t EXCEPT ![f] = text], miss)
<1> DEFINE g == Saved(s, shards)
           h == Saved(Aged(s, f), shards)
<1>1. /\ h.nodes = g.nodes /\ h.edges = g.edges /\ h.names = g.names
      /\ h.stamps = Aged(g.stamps, f)
      /\ g \in Graphs => h \in Graphs
  BY AgedSaved
<1>2. Consistent(g, t, miss) /\ g \in Graphs
  BY DEF Consistent
<1> HIDE DEF g, h
<1>3. Consistent(h, [t EXCEPT ![f] = text], miss)
  BY <1>1, <1>2, AgedConsistent
<1>. QED
  BY <1>3 DEF h

LEMMA EditAgrees ==
    ASSUME Inv, Inv', Agrees, NEW f \in Files, NEW text \in Versions[f], Edit(f, text)
    PROVE  Agrees'
<1>1. text \in Contents
  BY CacheAssumption
<1>2. /\ tree \in [Files -> Contents] /\ graph \in Graphs
      /\ manifest.stamps \in Stamps /\ saving.stamps \in Stamps
  BY DEF Inv, TypeOK, Graphs, Stamps
<1>3. /\ tree' = [tree EXCEPT ![f] = text]
      /\ graph' = [graph EXCEPT !.stamps = Aged(graph.stamps, f)]
      /\ manifest' = [manifest EXCEPT !.stamps = Aged(manifest.stamps, f)]
      /\ saving' = [saving EXCEPT !.stamps = Aged(saving.stamps, f)]
      /\ missed' = missed
  BY DEF Edit
<1>4. graph' \in Graphs
  BY DEF Inv, TypeOK, Graphs, Stamps
<1>5. Consistent(graph', tree', missed)
  <2>1. /\ graph'.nodes = graph.nodes /\ graph'.edges = graph.edges
        /\ graph'.names = graph.names /\ graph'.stamps = Aged(graph.stamps, f)
    BY <1>2, <1>3 DEF Graphs
  <2>. QED
    BY <1>1, <1>2, <1>3, <1>4, <2>1, AgedConsistent DEF Agrees
<1>6. Consistent(Promised', tree', missed)
  <2>1. Promised' = Saved(Aged(manifest.stamps, f), manifest.sizes)
    BY <1>3 DEF Inv, TypeOK, Promised
  <2>2. Consistent(Saved(manifest.stamps, manifest.sizes), tree, missed)
    BY DEF Agrees, Promised
  <2>. QED
    BY <1>1, <1>2, <1>3, <2>1, <2>2, AgedPromise
<1>7. Consistent(Saved(saving'.stamps, saving'.shards), tree', missed)
  <2>1. saving'.stamps = Aged(saving.stamps, f) /\ saving'.shards = saving.shards
    BY <1>3 DEF Inv, TypeOK
  <2>2. Consistent(Saved(saving.stamps, saving.shards), tree, missed)
    BY DEF Agrees
  <2>3. Consistent(Saved(Aged(saving.stamps, f), saving.shards), [tree EXCEPT ![f] = text], missed)
    BY <1>1, <1>2, <2>2, AgedPromise
  <2>. QED
    BY <1>3, <2>1, <2>3
<1>8. tree' \in Trees
  BY <1>1, <1>3 DEF Agrees, Trees
<1>. QED
  BY <1>3, <1>5, <1>6, <1>7, <1>8 DEF Agrees

(* In every state the three graphs agree with the files as far as they have    *)
(* been read.                                                                *)
THEOREM Agreement == Spec => []Agrees
<1>1. ASSUME Inv, Inv', Agrees, [Next]_vars PROVE Agrees'
  <2>1. CASE UNCHANGED vars
    BY <1>1, <2>1 DEF Agrees, Promised, vars
  <2>2. CASE Next
    BY <1>1, <2>2, ColdAgrees, WarmAgrees, RefreshAgrees, SaveStepsAgree, EditAgrees DEF Next
  <2>. QED
    BY <1>1, <2>1, <2>2
<1>. QED
  BY <1>1, InitAgrees, Invariance, PTL DEF Spec

(* A graph that has read every file has the nodes of a cold extraction, and of *)
(* each file what it holds.                                                   *)
LEMMA UpToDateIs ==
    ASSUME Inv, Agrees, UpToDate
    PROVE  /\ Fresh = Extract(tree)
           /\ graph.nodes = Fresh.nodes
           /\ graph.names = Fresh.names
           /\ \A f \in Files : graph.stamps[f] = IF tree[f] = Gone THEN "none" ELSE "now"
           /\ Fresh.edges = UNION {IdEdges(f, tree[f], graph.nodes) : f \in Files}
<1>1. Fresh = Extract(tree)
  BY DEF Agrees, Fresh, Extracted
<1> DEFINE nodes == UNION {Nodes(f, tree[f]) : f \in Files}
<1>2. /\ Fresh.nodes = nodes
      /\ Fresh.edges = UNION {IdEdges(f, tree[f], nodes) : f \in Files}
      /\ Fresh.names = [f \in Files |-> Identifiers(f, tree[f], nodes)]
      /\ \A f \in Files : Fresh.stamps[f] = IF tree[f] = Gone THEN "none" ELSE "now"
  BY <1>1 DEF Extract
<1>3. \A f \in Files : graph.stamps[f] = IF tree[f] = Gone THEN "none" ELSE "now"
  BY <1>2 DEF UpToDate
<1>4. graph \in Graphs /\ Indexed(graph, tree)
  BY DEF Agrees, Consistent
<1>5. \A f \in Files : PartOf(graph.nodes, f) = Nodes(f, tree[f])
  BY <1>3, <1>4 DEF Indexed, Nodes
<1>6. graph.nodes = nodes
  <2>1. \A d \in graph.nodes : d.file \in Files
    BY <1>4 DEF Graphs, Node
  <2>. QED
    BY <1>5, <2>1 DEF PartOf
<1>7. \A f \in Files : graph.names[f] = Identifiers(f, tree[f], nodes)
  BY <1>3, <1>4, <1>6 DEF Indexed, Identifiers, Mentioning
<1>8. graph.names = Fresh.names
  BY <1>2, <1>4, <1>7 DEF Graphs
<1>. QED
  BY <1>1, <1>2, <1>3, <1>6, <1>8

(* Whatever was loaded, repaired, spliced or read anew: once every file has    *)
(* been read as it is, the definitions and mentions on record are those an     *)
(* extraction of the files would make.                                        *)
THEOREM IndexIsFresh == Spec => []IndexFresh
<1>1. Inv /\ Agrees => IndexFresh
  BY UpToDateIs DEF IndexFresh
<1>. QED
  BY <1>1, Invariance, Agreement, PTL

(* And there is no edge it would not make: no link outlives the uniqueness of  *)
(* the name that justified it, however many splices came between.             *)
THEOREM NoStaleEdge == Spec => []NothingStale
<1>1. ASSUME Inv, Agrees, UpToDate, NEW e \in graph.edges PROVE e \in Fresh.edges
  <2> DEFINE f == e.from.file
  <2>1. graph \in Graphs /\ Indexed(graph, tree) /\ Sound(graph, tree) /\ Closed(graph, {})
    BY <1>1 DEF Agrees, Consistent
  <2>2. f \in Files
    BY <1>1, <2>1, EdgeEnds DEF Graphs
  <2>3. graph.stamps[f] = "now"
    BY <1>1, <2>1, <2>2, UpToDateIs DEF Indexed
  <2>4. e \in IdEdges(f, tree[f], graph.nodes)
    BY <1>1, <2>1, <2>3 DEF Sound, Closed
  <2>. QED
    BY <1>1, <2>2, <2>4, UpToDateIs
<1>2. Inv /\ Agrees => NothingStale
  BY <1>1 DEF NothingStale
<1>. QED
  BY <1>2, Invariance, Agreement, PTL

(* And it lacks none but those the code is known to miss: to a name whose only *)
(* definition a splice moved or could not count, and from the module of a file *)
(* without functions.                                                        *)
THEOREM GraphConverges == Spec => []Converges
<1>1. ASSUME Inv, Agrees, UpToDate, NEW e \in Fresh.edges, e \notin graph.edges
      PROVE  e.to.name \in missed \/ FromVarFile(e)
  <2>1. PICK f \in Files : e \in IdEdges(f, tree[f], graph.nodes)
    BY <1>1, UpToDateIs
  <2>2. graph.stamps[f] = "now"
    BY <1>1, <2>1, UpToDateIs DEF IdEdges, Mentioning
  <2>3. Whole(graph, tree, missed, {})
    BY <1>1 DEF Agrees, Consistent
  <2>4. Excused(graph, e, missed)
    BY <1>1, <2>1, <2>2, <2>3 DEF Whole, Rivalled
  <2>. QED
    BY <2>4 DEF Excused, FromVarFile
<1>2. Inv /\ Agrees => Converges
  BY <1>1 DEF Converges
<1>. QED
  BY <1>2, Invariance, Agreement, PTL
=============================================================================
