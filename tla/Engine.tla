------------------------------- MODULE Engine -------------------------------
(* The engine (src/tools/helmprov/engine/engine.go) and the set of templates  *)
(* it works on (src/tools/helmprov/tpl/template.go): every file of the chart  *)
(* and its subcharts is parsed into one set, where any template of any file   *)
(* may be called by name; then each file is executed. `include` calls a       *)
(* template by name, `tpl` parses a string into a copy of the set and         *)
(* executes it there.                                                         *)
(*                                                                            *)
(* A template is known by its tree. What a tree does when executed is left    *)
(* open: a frame may call, return or fail at any step. A failure unwinds the  *)
(* frames; one that is exploring an arm (explore, symGuard) absorbs it. The   *)
(* panics that errRecover passes on (runtime errors) are not modelled.        *)
EXTENDS Integers, FiniteSets, Sequences

CONSTANTS
    Names,          \* the names of templates; a file is a template of its name
    Root,           \* the name of the set itself, "gotpl"
    Files,          \* the files of the chart and its subcharts
    Partials,       \* those whose base name starts with "_"
    Broken,         \* those that do not parse
    Slashes, Rank,  \* of a file: the slashes in its path, its place in the alphabet
    Trees, Empty,   \* the trees of templates, those with nothing but space in them
    Defines,        \* of a file: the trees of the templates its text defines
    TplTexts,       \* what the strings given to tpl define
    RecursionMax,   \* recursionMaxNums
    MaxExecDepth,   \* maxExecDepth
    MaxFrames       \* bound of the model: how deep templates call each other

PartialFunctions == UNION {[D -> Trees] : D \in SUBSET Names}

ASSUME EngineAssumption ==
    /\ Root \in Names /\ Files \subseteq Names /\ Partials \subseteq Files /\ Broken \subseteq Files
    /\ Slashes \in [Files -> Nat] /\ Rank \in [Files -> Nat]
    /\ \A f, g \in Files : Rank[f] = Rank[g] => f = g
    /\ Empty \subseteq Trees
    /\ Defines \in [Files -> PartialFunctions] /\ \A f \in Files : f \in DOMAIN Defines[f]
    /\ TplTexts \subseteq PartialFunctions
    /\ RecursionMax \in Nat /\ MaxExecDepth \in Nat /\ MaxFrames \in Nat

Absent == "absent"
ASSUME AbsentAssumption == Absent \notin Trees

VARIABLES
    phase,      \* "parsing", "executing", then "done" or "failed"
    todo,       \* files not yet parsed, or not yet executed
    cur,        \* the file parsed last
    adding,     \* the names it defines that are not in the set yet
    sets,       \* the engine's set, and a copy for every tpl being executed
    frames,     \* the templates being executed, innermost last
    included,   \* includedNames
    failing     \* is an error on its way up the frames?

vars == <<phase, todo, cur, adding, sets, frames, included, failing>>

-----------------------------------------------------------------------------
(* The order of the files: highest in the file system last, then from the end *)
(* of the alphabet.                                                           *)
Less(f, g) == IF Slashes[f] = Slashes[g] THEN Rank[f] < Rank[g] ELSE Slashes[f] < Slashes[g]
IsFirst(f, S) == \A g \in S \ {f} : Less(g, f)

(* The set of templates.                                                     *)
AssociateAlways(set, n, tree) == [set EXCEPT ![n] = tree]
AssociateFirst(set, n, tree) == IF set[n] \in Trees \ Empty THEN set ELSE [set EXCEPT ![n] = tree]
Associate(set, n, tree) == IF set[n] \in Trees /\ tree \in Empty THEN set ELSE [set EXCEPT ![n] = tree]
ParseInto(set, defs) ==
    [n \in Names |-> IF n \in DOMAIN defs THEN Associate(set, n, defs[n])[n] ELSE set[n]]

(* A copy has every template but the one of the set's own name: that is the   *)
(* copy itself, which has no tree.                                            *)
Clone(set) == [set EXCEPT ![Root] = Absent]
Current == sets[Len(sets)]
SharedForTpl(defs) ==
    Append([sets EXCEPT ![Len(sets)] = ParseInto(Clone(@), defs)], ParseInto(Clone(Current), defs))
ForTpl(defs) == Append(sets, ParseInto(Clone(Current), defs))

Frame(kind, n, depth) == [kind |-> kind, name |-> n, depth |-> depth]
Top == frames[Len(frames)]
Kinds == {"file", "include", "template", "tpl"}

-----------------------------------------------------------------------------
Init ==
    /\ phase = "parsing" /\ todo = Files /\ cur = Root /\ adding = {}
    /\ sets = <<[n \in Names |-> Absent]>>
    /\ frames = <<>> /\ included = [n \in Names |-> 0] /\ failing = FALSE

(* Template.Parse: the trees of a text are added one by one, in any order.   *)
ParseFile ==
    /\ phase = "parsing" /\ adding = {}
    /\ \E f \in todo :
          /\ IsFirst(f, todo)
          /\ todo' = todo \ {f} /\ cur' = f
          /\ IF f \in Broken THEN phase' = "failed" /\ adding' = {}
             ELSE phase' = phase /\ adding' = DOMAIN Defines[f]
    /\ UNCHANGED <<sets, frames, included, failing>>

AddParseTree(n) ==
    /\ phase = "parsing" /\ n \in adding
    /\ adding' = adding \ {n}
    /\ sets' = [sets EXCEPT ![1] = Associate(@, n, Defines[cur][n])]
    /\ UNCHANGED <<phase, todo, cur, frames, included, failing>>

StartRender ==
    /\ phase = "parsing" /\ adding = {} /\ todo = {}
    /\ phase' = "executing" /\ todo' = Files \ Partials
    /\ UNCHANGED <<cur, adding, sets, frames, included, failing>>

(* Each file that is not a partial is executed at the top.                   *)
ExecuteFile ==
    /\ phase = "executing" /\ frames = <<>> /\ ~failing
    /\ \E f \in todo :
          /\ IsFirst(f, todo)
          /\ todo' = todo \ {f}
          /\ frames' = <<Frame("file", f, 0)>>
    /\ UNCHANGED <<phase, cur, adding, sets, included, failing>>

Done ==
    /\ phase = "executing" /\ frames = <<>> /\ ~failing /\ todo = {}
    /\ phase' = "done"
    /\ UNCHANGED <<todo, cur, adding, sets, frames, included, failing>>

Running == phase = "executing" /\ frames # <<>> /\ ~failing
CanCall == Running /\ Len(frames) < MaxFrames

Raise == failing' = TRUE /\ UNCHANGED <<phase, todo, cur, adding, sets, frames, included>>

(* include: a template that is being included too often, or is not there, is  *)
(* an error of the caller.                                                    *)
Include(n) ==
    /\ CanCall
    /\ IF included[n] > RecursionMax \/ Current[n] = Absent THEN Raise
       ELSE /\ included' = [included EXCEPT ![n] = @ + 1]
            /\ frames' = Append(frames, Frame("include", n, 0))
            /\ UNCHANGED <<phase, todo, cur, adding, sets, failing>>

(* {{template}}: by the name in the set of the caller; only these count for  *)
(* maxExecDepth, an include or a tpl starts a state of its own.              *)
TooDeep(depth) == depth = MaxExecDepth
CallTemplate(n) ==
    /\ CanCall
    /\ IF Current[n] = Absent \/ TooDeep(Top.depth) THEN Raise
       ELSE /\ frames' = Append(frames, Frame("template", n, Top.depth + 1))
            /\ UNCHANGED <<phase, todo, cur, adding, sets, included, failing>>

(* tpl: the string's own text is executed, in a copy of the caller's set to   *)
(* which what it defines is added.                                            *)
Tpl(defs) ==
    /\ CanCall
    /\ sets' = ForTpl(defs)
    /\ frames' = Append(frames, Frame("tpl", Root, 0))
    /\ UNCHANGED <<phase, todo, cur, adding, included, failing>>

(* An error in a template: it does not run on.                               *)
Fail == Running /\ Raise

UncountOnSuccess(f) ==
    IF f.kind = "include" /\ ~failing THEN [included EXCEPT ![f.name] = @ - 1] ELSE included
Uncount(f) == IF f.kind = "include" THEN [included EXCEPT ![f.name] = @ - 1] ELSE included
Pop ==
    /\ frames' = SubSeq(frames, 1, Len(frames) - 1)
    /\ included' = Uncount(Top)
    /\ sets' = IF Top.kind = "tpl" THEN SubSeq(sets, 1, Len(sets) - 1) ELSE sets
    /\ UNCHANGED <<todo, cur, adding, failing>>

Return == Running /\ Pop /\ UNCHANGED phase

(* A failure ends the frame, and with the last one the render.               *)
Unwind ==
    /\ phase = "executing" /\ failing /\ frames # <<>>
    /\ Pop
    /\ phase' = IF Len(frames) = 1 THEN "failed" ELSE phase

(* explore and symGuard: a node that is explored fails alone.                *)
Absorb ==
    /\ phase = "executing" /\ failing /\ frames # <<>>
    /\ failing' = FALSE
    /\ UNCHANGED <<phase, todo, cur, adding, sets, frames, included>>

Next ==
    \/ ParseFile \/ StartRender \/ ExecuteFile \/ Done
    \/ Fail \/ Return \/ Unwind \/ Absorb
    \/ \E n \in Names : AddParseTree(n) \/ Include(n) \/ CallTemplate(n)
    \/ \E defs \in TplTexts : Tpl(defs)

Spec == Init /\ [][Next]_vars

-----------------------------------------------------------------------------
Sets == [Names -> Trees \cup {Absent}]
FrameType == [kind : Kinds, name : Names, depth : 0..MaxExecDepth]

TypeOK ==
    /\ phase \in {"parsing", "executing", "done", "failed"}
    /\ todo \subseteq Files /\ cur \in Files \cup {Root}
    /\ adding \subseteq Names /\ (adding # {} => cur \in Files /\ adding \subseteq DOMAIN Defines[cur])
    /\ sets \in Seq(Sets) /\ frames \in Seq(FrameType)
    /\ included \in [Names -> Int] /\ failing \in BOOLEAN

(* "The order favors higher-level (in file system) templates over deeply     *)
(* nested templates": of the files that define a template, the one that is    *)
(* highest, then first in the alphabet, defines it for all - whatever the     *)
(* order in which Go's map gives the trees of one file - and a definition     *)
(* that is empty hides none.                                                  *)
Definers(n) == {f \in Files : n \in DOMAIN Defines[f] /\ Defines[f][n] \in Trees \ Empty}
HighestWins ==
    phase \in {"executing", "done"} => \A n \in Names :
        /\ Definers(n) = {} => sets[1][n] \in Empty \cup {Absent}
        /\ \A f \in Definers(n) : (\A g \in Definers(n) : g = f \/ Less(f, g)) => sets[1][n] = Defines[f][n]

(* "so that nested calls to 'tpl' see the templates defined by their          *)
(* enclosing contexts": a template with something in it stays visible, or is  *)
(* replaced by another one with something in it.                              *)
SeesEnclosing ==
    \A i \in 1..(Len(sets) - 1) : \A n \in Names \ {Root} :
        /\ sets[i][n] \in Trees => sets[i + 1][n] \in Trees
        /\ sets[i][n] \in Trees \ Empty => sets[i + 1][n] \in Trees \ Empty

(* What a string defines ends with its tpl: no template of the enclosing      *)
(* contexts is ever changed by it.                                            *)
Isolated ==
    [][phase = "executing" =>
         \A i \in 1..Len(sets) : i <= Len(sets') => sets'[i] = sets[i]]_vars

(* However a template is left, the count of its includes is that of the       *)
(* includes still running, so that only real recursion meets the limit.       *)
Includes(n) == {i \in DOMAIN frames : frames[i].kind = "include" /\ frames[i].name = n}
IncludesCounted == \A n \in Names : included[n] = Cardinality(Includes(n))
=============================================================================
