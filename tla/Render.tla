------------------------------- MODULE Render -------------------------------
(* helmprov (src/tools/helmprov): a copy of Go's template executor that       *)
(* records, while it renders a chart's file, which node wrote which bytes,    *)
(* which .Values paths were read, and - exploring - the arms of if and range  *)
(* that the values did not take. Exploring uses the same executor in the      *)
(* middle of the same render, into a buffer that is thrown away.              *)
(*                                                                            *)
(* A template is a sequence of nodes. The calls of walk under way are the     *)
(* frames of stack, a step walks one node, enters a list or leaves one; what  *)
(* the code keeps in `state` (out, counting, vars, depth), in the Recorder    *)
(* (spans, reads, arms, explored, guards), in the engine (calls, data), and   *)
(* the panic in flight are the record s. A template has one variable, $x,     *)
(* which it declares with no value when it starts; a with is an if, and reads *)
(* through dot are reads of a path.                                           *)
EXTENDS Integers, FiniteSets, Sequences

CONSTANTS
    Paths,       \* the .Values paths that templates read
    Bytes,       \* what text is made of
    Names,       \* the names of a chart's templates, "main" being the file
    Nodes,       \* the nodes that may stand anywhere
    LoopNodes,   \* and those that may stand in a range only
    Templates,   \* what is rendered: lists of nodes by name
    MaxGuards,   \* maxGuards: how deep untaken arms are explored
    MaxDepth,    \* maxExecDepth: how deep templates call templates
    MaxIncludes  \* recursionMaxNums: how often a template is included in itself

AllNodes == Nodes \cup LoopNodes
Jumps == {"break", "continue"}
Writers == {"print", "deref", "let", "assign", "set", "show"}

(* What the parser gives: a break or a continue stands in a range of the same *)
(* template (parse.go), its else not being in it. A list that is not there is *)
(* empty.                                                                     *)
WellFormed(n, around) ==
    /\ n.at \in STRING
    /\ n.kind \in Writers \cup Jumps \cup {"if", "range"} => n.path \in Paths
    /\ n.kind = "text" => n.text \in Seq(Bytes)
    /\ n.kind = "if" => n.arms \in [{"then", "else"} -> Seq(around)]
    /\ n.kind = "range" => /\ DOMAIN n.arms = {"body", "else"}
                           /\ n.arms["body"] \in Seq(AllNodes) /\ n.arms["else"] \in Seq(around)
ASSUME RenderAssumption ==
    /\ {MaxGuards, MaxDepth, MaxIncludes} \subseteq Nat
    /\ "main" \in Names
    /\ {"<no", "value>", "unknown", "1", "2", "error"} \subseteq Bytes
    /\ Templates \subseteq [Names -> Seq(Nodes)]
    /\ \A n \in AllNodes :
          n.kind \in Writers \cup Jumps \cup {"text", "if", "range", "template", "include"}
    /\ \A n \in Nodes : n.kind \notin Jumps /\ WellFormed(n, Nodes)
    /\ \A n \in LoopNodes : WellFormed(n, AllNodes)

VARIABLES
    chart,       \* the chart and the flags helmprov was called with
    phase,       \* "start", "first", "again" (once more, exploring), "second", "done", "failed"
    first,       \* the authoritative render, once it is made
    second,      \* the render that explores, once it is made
    s,           \* the execution under way
    stack        \* the lists of nodes it is in

vars == <<chart, phase, first, second, s, stack>>

Absent == 0
Unknown == -1    \* a Sym: a value the symbolic render does not know
Values == {Absent, 1, 2}
NoGuard == <<>>
NoRender == [panic |-> "not rendered"]
NoValue == <<"<no", "value>">>
Shown(v) == CASE v = Absent -> NoValue
              [] v = Unknown -> <<"unknown">>
              [] v = 1 -> <<"1">>
              [] v = 2 -> <<"2">>

Symbolic == chart.flag = "symbolic"
Branches == Symbolic \/ phase = "second"
-----------------------------------------------------------------------------
(* The recorder.                                                             *)
RecordRead(w, n) ==
    [w EXCEPT !.reads = Append(@, [path |-> n.path, at |-> n.at,
        guard |-> IF w.guards = <<>> THEN NoGuard ELSE w.guards[Len(w.guards)]])]

Arm(w, n, taken) ==
    IF ~Branches THEN w ELSE
    [w EXCEPT !.arms = Append(@, [at |-> n.at, taken |-> taken, untaken |-> w.guards # <<>>])]

(* A node writes, and a counting execution records the span.                 *)
Emit(w, n, bytes) ==
    [w EXCEPT !.out = @ \o bytes,
              !.spans = IF ~w.counting THEN @ ELSE Append(@,
                  [start |-> Len(w.out), end |-> Len(w.out) + Len(bytes), at |-> n.at])]

Fail(w) == [w EXCEPT !.panic = "error"]

(* Where the engine's removal of "<no value>" cuts, and what is left: the     *)
(* elements of a sequence at some positions, in order.                        *)
Pick(seq, I) ==
    [j \in 1..Cardinality(I) |-> seq[CHOOSE i \in I : Cardinality({k \in I : k <= i}) = j]]
Cuts(raw) == {i \in 0..(Len(raw) - 2) : raw[i + 1] = "<no" /\ raw[i + 2] = "value>"}
Kept(raw) == {i \in DOMAIN raw : \A c \in Cuts(raw) : i \notin {c + 1, c + 2}}
Strip(raw) == Pick(raw, Kept(raw))

(* An offset moves by the bytes of every cut before it.                      *)
ShiftWhole(x, c) == IF c + 2 <= x THEN 2 ELSE 0
Overlap(x, c) == IF c + 2 <= x THEN 2 ELSE IF c < x THEN x - c ELSE 0
Shift(raw, x) == x - Cardinality(UNION {{c} \X (1..Overlap(x, c)) : c \in Cuts(raw)})
Finish(raw, spans) ==
    [text |-> Strip(raw),
     spans |-> [k \in DOMAIN spans |-> [spans[k] EXCEPT !.start = Shift(raw, @),
                                                        !.end = Shift(raw, @)]]]
-----------------------------------------------------------------------------
(* The lists under way: why one is walked, where it stands, and, of a range,  *)
(* how many elements are left. caller is s as it was at the node, what a      *)
(* leaving frame restores some of.                                            *)
Frame(kind, n, list, left, caller) ==
    [kind |-> kind, node |-> n, list |-> list, i |-> 1, left |-> left, caller |-> caller]
Top == stack[Len(stack)]
Node == Top.list[Top.i]
Push(kind, n, list, left) == stack' = Append(stack, Frame(kind, n, list, left, s))
Pop == SubSeq(stack, 1, Len(stack) - 1)
Advance(st) == [st EXCEPT ![Len(st)].i = @ + 1]
Return == Advance(Pop)

Running == phase \in {"first", "second"}
AtNode(kinds) == Running /\ s.panic = "none" /\ Top.i <= Len(Top.list) /\ Node.kind \in kinds
AtEnd(kinds) == Running /\ s.panic = "none" /\ Top.i > Len(Top.list) /\ Top.kind \in kinds
Panicking(kinds) == Running /\ s.panic \in kinds

PopVars(w, mark) == [w EXCEPT !.vars = SubSeq(@, 1, mark)]
Still == UNCHANGED <<chart, phase, first, second>>
-----------------------------------------------------------------------------
(* Nodes without lists: text, break and continue, and an action {{ ... }},    *)
(* which is evaluated, and printed unless it declares or assigns.             *)
WalkText ==
    /\ AtNode({"text"})
    /\ s' = Emit(s, Node, Node.text)
    /\ stack' = Advance(stack)
    /\ Still

WalkJump ==
    /\ AtNode(Jumps)
    /\ s' = [s EXCEPT !.panic = Node.kind]
    /\ UNCHANGED stack
    /\ Still

Action(n, w) ==
    LET r == RecordRead(w, n)
        v == w.data[n.path]
    IN  CASE n.kind = "print"  -> Emit(r, n, Shown(v))
          [] n.kind = "deref"  -> IF v = Absent THEN Fail(r) ELSE Emit(r, n, Shown(v))
          [] n.kind = "let"    -> Emit([r EXCEPT !.vars = Append(@, v)], n, <<>>)
          [] n.kind = "assign" -> Emit([r EXCEPT !.vars[Len(w.vars)] = v], n, <<>>)
          [] n.kind = "set"    -> Emit([w EXCEPT !.data[n.path] = IF Symbolic THEN @ ELSE 1], n, <<>>)
          [] n.kind = "show"   -> Emit(w, n, Shown(w.vars[Len(w.vars)]))

WalkAction ==
    /\ AtNode(Writers)
    /\ s' = Action(Node, s)
    /\ stack' = IF s'.panic = "none" THEN Advance(stack) ELSE stack
    /\ Still
-----------------------------------------------------------------------------
(* An arm the values did not take: its output discarded, variables restored, *)
(* any panic recorded as a hole. pre binds what the arm expects.             *)
EnterArm(guard, pre, w) ==
    [w EXCEPT !.out = <<>>, !.counting = FALSE, !.vars = @ \o pre, !.guards = Append(@, guard)]
LeaveArmByMark(w, c) ==
    [w EXCEPT !.out = c.out, !.counting = c.counting, !.vars = SubSeq(@, 1, Len(c.vars)),
              !.guards = c.guards, !.panic = "none"]
LeaveArm(w, c) ==
    [w EXCEPT !.out = c.out, !.counting = c.counting, !.vars = c.vars,
              !.guards = c.guards, !.panic = "none"]

(* The arm is explored from w, and goes back to c.                           *)
Explores(n, which, w) ==
    /\ Branches /\ n.arms[which] # <<>>
    /\ Len(w.guards) < MaxGuards /\ \A g \in DOMAIN w.guards : w.guards[g] # <<n.at, which>>
Explore(n, which, pre, w, c) ==
    IF Explores(n, which, w)
    THEN /\ s' = EnterArm(<<n.at, which>>, pre, w)
         /\ stack' = Append(Return, Frame("arm", n, n.arms[which], 0, c))
    ELSE s' = c /\ stack' = Return

EndArm ==
    /\ \/ AtEnd({"arm"})
       \/ Panicking({"error"} \cup Jumps) /\ Top.kind = "arm"
    /\ s' = [LeaveArm(s, Top.caller) EXCEPT !.explored = Append(@,
                [guard |-> s.guards[Len(s.guards)], text |-> Strip(s.out), hole |-> s.panic = "error"])]
    /\ stack' = Pop
    /\ Still
-----------------------------------------------------------------------------
(* {{ if }}: the arm taken, then the other explored, which sees the variables *)
(* the first declared.                                                        *)
Taken(n, w) == IF w.data[n.path] # Absent THEN "then" ELSE "else"
Other(arm) == IF arm = "then" THEN "else" ELSE "then"
Report(n, w) == IF w.data[n.path] = Unknown THEN "unknown"
                ELSE IF n.arms[Taken(n, w)] = <<>> THEN "none" ELSE Taken(n, w)

WalkIf ==
    /\ AtNode({"if"})
    /\ s' = Arm(RecordRead(s, Node), Node, Report(Node, s))
    /\ Push("if", Node, Node.arms[Taken(Node, s)], 0)
    /\ Still

EndIf ==
    /\ AtEnd({"if"})
    /\ Explore(Top.node, Other(Taken(Top.node, Top.caller)), <<>>, s, PopVars(s, Len(Top.caller.vars)))
    /\ Still
-----------------------------------------------------------------------------
(* {{ range }}: one iteration per element, left being left: $x is set to it,  *)
(* a continue ends it, and it drops what it declared. Without elements, the   *)
(* else.                                                                      *)
Element(v, left) == IF v = Unknown THEN v ELSE v - left + 1

WalkRange ==
    /\ AtNode({"range"})
    /\ LET v == s.data[Node.path]
           left == IF v = Unknown THEN 1 ELSE v
       IN  /\ s' = [RecordRead(s, Node) EXCEPT !.vars = Append(@, IF v = Absent THEN v ELSE Element(v, left))]
           /\ IF v = Absent THEN Push("empty", Node, Node.arms["else"], 0)
              ELSE Push("range", Node, Node.arms["body"], left)
    /\ Still

Iterated == AtEnd({"range"}) \/ (Panicking({"continue"}) /\ Top.kind = "range")

EndIteration ==
    /\ Iterated /\ Top.left > 1
    /\ s' = [s EXCEPT !.panic = "none",
                      !.vars = Append(SubSeq(@, 1, Len(Top.caller.vars)),
                                      Element(Top.caller.data[Top.node.path], Top.left - 1))]
    /\ stack' = [stack EXCEPT ![Len(stack)].i = 1, ![Len(stack)].left = @ - 1]
    /\ Still

(* Then the arm not run is explored: the else after any iteration, the body   *)
(* over nothing with $x bound to no value.                                    *)
ExploreRangeOnce(n, w, ran) ==
    IF ran \/ n.arms["else"] # <<>> THEN Explore(n, "else", <<>>, w, w)
    ELSE Explore(n, "body", <<Absent>>, w, w)
ExploreRange(n, w, ran) ==
    IF ran THEN Explore(n, "else", <<>>, w, w) ELSE Explore(n, "body", <<Absent>>, w, w)

EndRange ==
    /\ \/ Iterated /\ Top.left = 1
       \/ AtEnd({"empty"})
       \/ Panicking({"break"}) /\ Top.kind \in {"range", "empty"}
    /\ LET w == [PopVars(s, Len(Top.caller.vars)) EXCEPT !.panic = "none"]
           ran == Top.kind = "range"
       IN  ExploreRange(Top.node, Arm(w, Top.node, IF ran THEN "body" ELSE "empty"), ran)
    /\ Still
-----------------------------------------------------------------------------
(* {{ template }}: the same execution one level deeper, its own variables.   *)
WalkTemplate ==
    /\ AtNode({"template"})
    /\ IF Node.name \notin Names \/ s.depth = MaxDepth
       THEN s' = Fail(s) /\ UNCHANGED stack
       ELSE /\ s' = [s EXCEPT !.vars = <<Absent>>, !.depth = @ + 1]
            /\ Push("template", Node, chart.templates[Node.name], 0)
    /\ Still

LeaveTemplate(w, c) == [w EXCEPT !.vars = c.vars, !.depth = c.depth]

EndTemplate ==
    /\ AtEnd({"template"})
    /\ s' = LeaveTemplate(s, Top.caller)
    /\ stack' = Return
    /\ Still

(* A template executed for its text, by the function include: an execution   *)
(* of its own, which does not count its output.                              *)
EnterIncludeCounting(n, w) ==
    [w EXCEPT !.out = <<>>, !.vars = <<Absent>>, !.depth = 0, !.calls[n.name] = @ + 1]
EnterInclude(n, w) ==
    [w EXCEPT !.out = <<>>, !.counting = FALSE, !.vars = <<Absent>>, !.depth = 0,
              !.calls[n.name] = @ + 1]

WalkInclude ==
    /\ AtNode({"include"})
    /\ IF Node.name \notin Names \/ s.calls[Node.name] > MaxIncludes
       THEN s' = Fail(s) /\ UNCHANGED stack
       ELSE /\ s' = EnterInclude(Node, s)
            /\ Push("include", Node, chart.templates[Node.name], 0)
    /\ Still

(* Whatever its execution returns, the include is counted off.               *)
LeaveIncludeUnlessError(w, f) ==
    [w EXCEPT !.out = f.caller.out, !.counting = f.caller.counting, !.vars = f.caller.vars,
              !.depth = f.caller.depth,
              !.calls[f.node.name] = IF w.panic = "error" THEN @ ELSE @ - 1]
LeaveInclude(w, f) ==
    [w EXCEPT !.out = f.caller.out, !.counting = f.caller.counting, !.vars = f.caller.vars,
              !.depth = f.caller.depth, !.calls[f.node.name] = @ - 1]

EndInclude ==
    /\ AtEnd({"include"})
    /\ s' = Emit(LeaveInclude(s, Top), Top.node, s.out)
    /\ stack' = Return
    /\ Still
-----------------------------------------------------------------------------
(* A panic leaves the list it is in by the deferred calls of who walks it.   *)
(* In a symbolic render, and outside untaken arms, an error in a node is a   *)
(* hole: recorded, a marker in the output, never the end of the render.      *)
IsHole == s.panic = "error" /\ Symbolic /\ s.guards = <<>>

Hole ==
    /\ Panicking({"error"}) /\ IsHole
    /\ s' = [s EXCEPT !.panic = "none", !.out = Append(@, "error"),
                      !.explored = Append(@, [guard |-> <<Node.at, "symbolic">>, text |-> <<>>,
                                              hole |-> TRUE])]
    /\ stack' = Advance(stack)
    /\ Still

Unwind ==
    /\ \/ Panicking({"error"}) /\ Top.kind \in {"if", "range", "empty", "template", "include"}
       \/ Panicking(Jumps) /\ Top.kind = "if"
       \/ Panicking({"continue"}) /\ Top.kind = "empty"
    /\ ~IsHole
    /\ s' = CASE Top.kind = "template" -> LeaveTemplate(s, Top.caller)
              [] Top.kind = "include" -> LeaveInclude(s, Top)
              [] OTHER -> PopVars(s, Len(Top.caller.vars))
    /\ stack' = Pop
    /\ Still
-----------------------------------------------------------------------------
(* helmprov itself: it renders once, and with -branches once more to explore. *)
(* A symbolic render explores as it goes and is the only one.                *)
Execution(templates, data) ==
    [out |-> <<>>, counting |-> TRUE, vars |-> <<Absent>>, depth |-> 0,
     calls |-> [t \in Names |-> 0], data |-> data, panic |-> "none",
     spans |-> <<>>, reads |-> <<>>, arms |-> <<>>, explored |-> <<>>, guards |-> <<>>]
File == [kind |-> "file"]

Init ==
    /\ chart \in [templates : Templates, data : [Paths -> Values],
                  flag : {"plain", "branches", "symbolic"}]
    /\ chart.flag = "symbolic" => \A p \in Paths : chart.data[p] = Absent
    /\ phase = "start"
    /\ first = NoRender
    /\ second = NoRender
    /\ s = NoRender
    /\ stack = <<>>

Start ==
    LET w == Execution(chart.templates,
                       IF Symbolic THEN [p \in Paths |-> Unknown] ELSE chart.data)
    IN  /\ s' = w
        /\ stack' = <<Frame("main", File, chart.templates["main"], 0, w)>>
        /\ UNCHANGED <<chart, first, second>>
RenderFirst == phase = "start" /\ phase' = "first" /\ Start
RenderAgain == phase = "again" /\ phase' = "second" /\ Start

EndRender ==
    /\ \/ AtEnd({"main"})
       \/ Panicking({"error"}) /\ Top.kind = "main" /\ ~IsHole
    /\ first' = IF phase = "first" THEN s ELSE first
    /\ second' = IF phase = "second" THEN s ELSE second
    /\ phase' = IF s.panic # "none" THEN "failed"
                ELSE IF phase = "first" /\ chart.flag = "branches" THEN "again" ELSE "done"
    /\ stack' = <<>>
    /\ UNCHANGED <<chart, s>>

(* The output is written, or the error; the program ends.                    *)
Exit == phase \in {"done", "failed"} /\ UNCHANGED vars

(* It is called again on the same chart, with other values or another flag.  *)
CallAgain ==
    /\ phase \in {"done", "failed"}
    /\ \E d \in [Paths -> Values], f \in {"plain", "branches", "symbolic"} :
          /\ f = "symbolic" => \A p \in Paths : d[p] = Absent
          /\ chart' = [templates |-> chart.templates, data |-> d, flag |-> f]
    /\ phase' = "start"
    /\ first' = NoRender /\ second' = NoRender
    /\ s' = NoRender /\ stack' = <<>>

Walk == WalkText \/ WalkJump \/ WalkAction \/ WalkIf \/ WalkRange \/ WalkTemplate \/ WalkInclude
Leave == EndIf \/ EndIteration \/ EndRange \/ EndTemplate \/ EndInclude \/ EndArm \/ Hole \/ Unwind
Step == RenderFirst \/ RenderAgain \/ Walk \/ Leave \/ EndRender \/ Exit
Next == Step \/ CallAgain
Spec == Init /\ [][Next]_vars
-----------------------------------------------------------------------------
(* Properties.                                                               *)
Guards == STRING \X {"then", "else", "body", "symbolic"}
Syms == Values \cup {Unknown}
State ==
    [out : Seq(Bytes), counting : BOOLEAN, vars : Seq(Syms) \ {<<>>}, depth : Nat,
     calls : [Names -> Nat], data : [Paths -> Syms], panic : {"none", "error"} \cup Jumps,
     spans : Seq([start : Nat, end : Nat, at : STRING]),
     reads : Seq([path : Paths, at : STRING, guard : Guards \cup {NoGuard}]),
     arms : Seq([at : STRING, taken : {"then", "else", "none", "unknown", "body", "empty"},
                 untaken : BOOLEAN]),
     explored : Seq([guard : Guards, text : Seq(Bytes), hole : BOOLEAN]),
     guards : Seq(Guards)]

(* A render ends as it began: nothing of an include, of a nested template or  *)
(* of an explored arm is left behind, whatever panicked inside.              *)
AsBegun(w) ==
    /\ w \in State
    /\ w.counting /\ w.guards = <<>> /\ w.depth = 0
    /\ \A t \in Names : w.calls[t] = 0

(* And no break or continue leaves the template it stands in.                *)
TypeOK ==
    /\ phase \in {"start", "first", "again", "second", "done", "failed"}
    /\ chart.data \in [Paths -> Values] /\ chart.flag \in {"plain", "branches", "symbolic"}
    /\ \A w \in {first, second} \ {NoRender} : AsBegun(w) /\ w.panic \in {"none", "error"}
    /\ Running => /\ s \in State
                  /\ \A j \in DOMAIN stack : stack[j].caller \in State /\ stack[j].i \in 1..(Len(stack[j].list) + 1)
                  /\ s.panic \in Jumps => Top.kind \in {"if", "range", "empty", "arm"}
    /\ phase = "start" \/ s \in State

(* Every byte of the file was written by exactly one node, nested templates, *)
(* includes and failures notwithstanding; only the marker of a hole is no    *)
(* node's.                                                                   *)
SpansTile ==
    first # NoRender =>
      \A i \in DOMAIN first.out :
        LET by == {k \in DOMAIN first.spans :
                     first.spans[k].start < i /\ i <= first.spans[k].end}
        IN  Cardinality(by) = 1 \/ (by = {} /\ first.out[i] = "error")

(* The removal of "<no value>" - a missing value's text, or one that two     *)
(* nodes happen to write together - leaves every other byte in the span of   *)
(* the node that wrote it.                                                   *)
FinishKeepsBytes ==
    phase = "done" =>
      LET done == Finish(first.out, first.spans) IN
        \A k \in DOMAIN first.spans :
          LET span == first.spans[k]
              now == done.spans[k]
          IN  /\ now.end <= Len(done.text)
              /\ SubSeq(done.text, now.start + 1, now.end)
                   = Pick(first.out, Kept(first.out) \cap ((span.start + 1)..span.end))
=============================================================================
