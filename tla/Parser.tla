------------------------------- MODULE Parser -------------------------------
(* The parser of templates (src/tools/helmprov/tpl/parse/parse.go, node.go):  *)
(* it takes the scanner's items with three of look-ahead, builds the tree of  *)
(* each template a text defines, and rejects what the executor could not      *)
(* run. A tree prints itself (writeTo) back to the items of an equal text.    *)
(*                                                                            *)
(* A parse function takes the state of the parse, s, and gives it back with   *)
(* what it returns in s.out (a node) or s.list (the nodes of a list, with     *)
(* s.next the node that ended it). An error unwinds the whole parse: Errorf   *)
(* leaves nothing to read, and every loop ends at "eof". Positions and the    *)
(* wording of errors are left out, "string" stands for a raw string too, and  *)
(* "number" for a character or a complex constant. Comments are not given to  *)
(* the parser (no caller sets ParseComments).                                 *)
EXTENDS Integers, FiniteSets, Sequences, SequencesExt, TLC

CONSTANTS
    Texts,          \* the texts to parse, as the items of the scanner
    Functions,      \* names in the function maps
    Malformed,      \* literals strconv cannot read
    Blank,          \* text items that are white space only
    MaxStackDepth   \* maxStackDepth

ASSUME ParserAssumption == MaxStackDepth \in Nat

VARIABLES
    text,    \* the text being parsed
    s,       \* the state of the parse: see Start
    root,    \* the nodes of the text's own template so far
    status   \* "parsing", then "parsed" or "failed"

vars == <<text, s, root, status>>

Item(typ, val) == [typ |-> typ, val |-> val]
Mark(typ) == Item(typ, "")
EOF == Mark("eof")

None == [k |-> "none"]
NoPipe == [k |-> "nopipe", decl |-> <<>>, assign |-> FALSE, cmds |-> <<>>]
Leaf(k, val) == [k |-> k, val |-> val]
Path(k, ids) == [k |-> k, ids |-> ids]

Start(items) ==
    [lex |-> items,                           \* what the scanner has yet to give
     token |-> [i \in 0..2 |-> EOF], peekCount |-> 0,
     vars |-> <<"$">>, rangeDepth |-> 0, stackDepth |-> 0,
     treeSet |-> <<>>,                        \* from names to lists of nodes
     failed |-> FALSE, out |-> None, list |-> <<>>, next |-> "end"]

-----------------------------------------------------------------------------
(* The look-ahead. Got is the item next returned, Peeked the one peek did.    *)

NextItem(p) == [p EXCEPT !.token[0] = IF p.lex = <<>> THEN EOF ELSE Head(p.lex),
                         !.lex = IF @ = <<>> THEN <<>> ELSE Tail(@)]
Next1(p) == IF p.peekCount > 0 THEN [p EXCEPT !.peekCount = @ - 1] ELSE NextItem(p)
Got(p) == p.token[p.peekCount]
Backup(p) == [p EXCEPT !.peekCount = @ + 1]
Backup2(p, t1) == [p EXCEPT !.token[1] = t1, !.peekCount = 2]
Backup3Two(p, t2, t1) == Backup2(p, t1)
Backup3(p, t2, t1) == [p EXCEPT !.token[1] = t1, !.token[2] = t2, !.peekCount = 3]
Peek(p) == IF p.peekCount > 0 THEN p ELSE Backup(NextItem(p))
Peeked(p) == p.token[p.peekCount - 1]

(* The scanner gives no two spaces in a row.                                 *)
NextNonSpace(p) == IF Got(Next1(p)).typ = "space" THEN Next1(Next1(p)) ELSE Next1(p)
PeekNonSpace(p) == Backup(NextNonSpace(p))

(* errorf panics: the parse ends, whatever was under way.                    *)
Errorf(p) == [p EXCEPT !.failed = TRUE, !.lex = <<>>, !.token = [i \in 0..2 |-> EOF], !.peekCount = 0]
Check(p, ok) == IF ok THEN p ELSE Errorf(p)
Expect(p, typs) == LET n == NextNonSpace(p) IN Check(n, Got(n).typ \in typs)

-----------------------------------------------------------------------------
(* Definitions. A tree is added under its name; only one that is empty of     *)
(* everything but space and comments can be defined again.                    *)

IsEmptyTree(list) == \A i \in DOMAIN list : list[i].k = "text" /\ list[i].val \in Blank
AddLatest(p, name, nodes) == IF p.failed THEN p ELSE [p EXCEPT !.treeSet = (name :> nodes) @@ @]
Add(p, name, nodes) ==
    IF p.failed THEN p
    ELSE IF name \notin DOMAIN p.treeSet \/ IsEmptyTree(p.treeSet[name])
    THEN [p EXCEPT !.treeSet = (name :> nodes) @@ @]
    ELSE Check(p, IsEmptyTree(nodes))

(* A definition inside a text has a parser of its own, that shares the        *)
(* scanner and the set of trees, and nothing else.                            *)
StartParse(p) == [Start(p.lex) EXCEPT !.treeSet = p.treeSet, !.failed = p.failed]
StopParse(p, inner) ==
    IF inner.failed THEN Errorf(p) ELSE [p EXCEPT !.lex = inner.lex, !.treeSet = inner.treeSet]

(* A variable can be used from its declaration on.                           *)
UseVar(p, name) == [Check(p, \E i \in DOMAIN p.vars : p.vars[i] = name) EXCEPT !.out = Path("variable", <<name>>)]
KeepVars(p, n) == p
PopVars(p, n) == [p EXCEPT !.vars = SubSeq(@, 1, n)]

-----------------------------------------------------------------------------
(* Pipelines.                                                                 *)

RECURSIVE Pipeline(_, _, _), Decls(_, _, _), Commands(_, _, _, _), Command(_, _), Fields(_, _)

Constants == {"bool", "dot", "nil", "number", "string"}
Terms == Constants \cup {"field", "identifier", "variable", "lparen"}

Declare(p, name) == [p EXCEPT !.vars = Append(@, name)]
Assignment(p, pipe, item) ==
    [NextNonSpace(Declare(p, item.val)) EXCEPT
        !.out = [pipe EXCEPT !.decl = Append(@, item.val), !.assign = Peeked(p).typ = "assign"]]

(* Two variables can be declared, at the start of a range.                   *)
Comma(p, context, pipe, name) ==
    IF /\ context = "range" /\ Len(pipe.decl) < 2
       /\ Peeked(PeekNonSpace(p)).typ \in {"variable", "right", "rparen"}
    THEN Decls(Declare(p, name), context, pipe)
    ELSE [Errorf(p) EXCEPT !.out = pipe]

(* What follows a variable tells a declaration from an argument: the next     *)
(* item or, over a space, the one after it, and all of them are read again.   *)
DeclOrUse(v, after, next, context, pipe) ==
    IF Peeked(next).typ \in {"assign", "declare"} THEN Assignment(next, pipe, v)
    ELSE IF Peeked(next) = Item("char", ",")
    THEN Comma(NextNonSpace(next), context, [pipe EXCEPT !.decl = Append(@, v.val)], v.val)
    ELSE [IF after.typ = "space" THEN Backup3(next, v, after) ELSE Backup2(next, v) EXCEPT !.out = pipe]
Decls(p, context, pipe) ==
    IF Peeked(PeekNonSpace(p)).typ # "variable" THEN [PeekNonSpace(p) EXCEPT !.out = pipe]
    ELSE LET v == NextNonSpace(p) IN DeclOrUse(Got(v), Peeked(Peek(v)), PeekNonSpace(Peek(v)), context, pipe)

(* Only the first command of a pipeline may be a constant.                   *)
CheckPipeline(p, pipe) ==
    [Check(p, pipe.cmds # <<>> /\ \A i \in 2..Len(pipe.cmds) : pipe.cmds[i][1].k \notin Constants)
     EXCEPT !.out = pipe]

AfterDecls(p, context, end) == Commands(p, context, end, p.out)
Pipeline(p, context, end) == AfterDecls(Decls(p, context, [NoPipe EXCEPT !.k = "pipe"]), context, end)

AfterCommand(p, context, end, pipe) == Commands(p, context, end, [pipe EXCEPT !.cmds = Append(@, p.out)])
CommandAt(n, context, end, pipe) ==
    IF Got(n).typ = end THEN CheckPipeline(n, pipe)
    ELSE IF Got(n).typ \in Terms THEN AfterCommand(Command(Backup(n), <<>>), context, end, pipe)
    ELSE [Errorf(n) EXCEPT !.out = pipe]
Commands(p, context, end, pipe) == CommandAt(NextNonSpace(p), context, end, pipe)

NestedStuck(p, by) == [p EXCEPT !.stackDepth = @ + (IF by > 0 THEN by ELSE 0)]
Nested(p, by) == [p EXCEPT !.stackDepth = @ + by]
TermAt(n, tok) ==
    CASE tok.typ = "identifier" -> [Check(n, tok.val \in Functions) EXCEPT !.out = Leaf("identifier", tok.val)]
      [] tok.typ = "variable" -> UseVar(n, tok.val)
      [] tok.typ = "field" -> [n EXCEPT !.out = Path("field", <<tok.val>>)]
      [] tok.typ = "lparen" -> Nested(Pipeline(Nested(Check(n, n.stackDepth < MaxStackDepth), 1),
                                               "parenthesized pipeline", "rparen"), -1)
      [] tok.typ \in Constants -> [Check(n, tok.val \notin Malformed) EXCEPT !.out = Leaf(tok.typ, tok.val)]
      [] OTHER -> [Backup(n) EXCEPT !.out = None]
Term(p) == TermAt(NextNonSpace(p), Got(NextNonSpace(p)))

(* A name and its fields are one node, after another term they make a chain; *)
(* a constant has none.                                                      *)
Fields(p, ids) ==
    IF Peeked(Peek(p)).typ = "field" THEN Fields(Next1(Peek(p)), Append(ids, Peeked(Peek(p)).val))
    ELSE [Peek(p) EXCEPT !.list = ids]
WithFields(f) ==
    IF f.list = <<>> THEN f
    ELSE CASE f.out.k \in {"field", "variable"} -> [f EXCEPT !.out.ids = @ \o f.list]
           [] f.out.k \in Constants -> Errorf(f)
           [] OTHER -> [f EXCEPT !.out = [k |-> "chain", node |-> @, ids |-> f.list]]
AfterTerm(t) == IF t.out = None THEN t ELSE WithFields(Fields(t, <<>>))
Operand(p) == AfterTerm(Term(p))

CommandEnd(n, typ, args) ==
    IF typ = "space" THEN Command(n, args)
    ELSE [Check(IF typ = "pipe" THEN n ELSE Check(Backup(n), typ \in {"right", "rparen"}), args # <<>>)
          EXCEPT !.out = args]
AfterOperand(o, args) ==
    CommandEnd(Next1(o), Got(Next1(o)).typ, IF o.out = None THEN args ELSE Append(args, o.out))
Command(p, args) == AfterOperand(Operand(PeekNonSpace(p)), args)

-----------------------------------------------------------------------------
(* Text and actions.                                                          *)

RECURSIVE ItemList(_, _), ParseControl(_, _)

EndControl(p) == [Expect(p, {"right"}) EXCEPT !.out = Leaf("end", "")]
ElseControl(p) ==
    [IF Peeked(PeekNonSpace(p)).typ \in {"if", "with"} THEN PeekNonSpace(p) ELSE Expect(p, {"right"})
     EXCEPT !.out = Leaf("else", "")]

(* break and continue leave a range: the executor unwinds to it.             *)
JumpControl(p, k) == [Check(Expect(p, {"right"}), p.rangeDepth > 0) EXCEPT !.out = Leaf(k, "")]

ParseTemplateName(p) == Check(Expect(p, {"string"}), Got(NextNonSpace(p)).val \notin Malformed)
Template(p, name) == [p EXCEPT !.out = [k |-> "template", val |-> name, pipe |-> p.out]]

AddNamed(body, name) == Add(Check(body, body.next = "end"), name, body.list)
BlockBody(p, name) ==
    Template(StopParse(p, AddNamed(ItemList(StartParse(p), <<>>), name)), name)
BlockControl(p) == BlockBody(Pipeline(ParseTemplateName(p), "block clause", "right"), Got(ParseTemplateName(p)).val)
ParseDefinition(p) ==
    AddNamed(ItemList(Expect(ParseTemplateName(p), {"right"}), <<>>), Got(ParseTemplateName(p)).val)

TemplateControl(p) ==
    LET n == NextNonSpace(ParseTemplateName(p)) IN
    Template(IF Got(n).typ = "right" THEN [n EXCEPT !.out = NoPipe] ELSE Pipeline(Backup(n), "template clause", "right"),
             Got(ParseTemplateName(p)).val)

ActionNode(p) == [p EXCEPT !.out = [k |-> "action", pipe |-> @]]
Action(n, typ) ==
    CASE typ = "block" -> BlockControl(n)
      [] typ \in {"break", "continue"} -> JumpControl(n, typ)
      [] typ = "else" -> ElseControl(n)
      [] typ = "end" -> EndControl(n)
      [] typ \in {"if", "range", "with"} -> ParseControl(n, typ)
      [] typ = "template" -> TemplateControl(n)
      [] OTHER -> ActionNode(Pipeline(Backup(n), "command", "right"))

TextOrActionAt(n) ==
    CASE Got(n).typ = "text" -> [n EXCEPT !.out = Leaf("text", Got(n).val)]
      [] Got(n).typ = "left" -> Action(NextNonSpace(n), Got(NextNonSpace(n)).typ)
      [] OTHER -> [Errorf(n) EXCEPT !.out = Leaf("end", "")]
TextOrAction(p) == TextOrActionAt(NextNonSpace(p))

AfterItem(p, list) ==
    IF p.out.k \in {"end", "else"} THEN [p EXCEPT !.list = list, !.next = p.out.k]
    ELSE ItemList(p, Append(list, p.out))
ItemList(p, list) ==
    IF Peeked(PeekNonSpace(p)).typ = "eof" THEN [Errorf(p) EXCEPT !.list = list, !.next = "end"]
    ELSE AfterItem(TextOrAction(PeekNonSpace(p)), list)

DeeperStuck(p, context, by) == IF context = "range" /\ by > 0 THEN [p EXCEPT !.rangeDepth = @ + by] ELSE p
Deeper(p, context, by) == IF context = "range" THEN [p EXCEPT !.rangeDepth = @ + by] ELSE p

Branch(p, context, pipe, list, else) ==
    [p EXCEPT !.out = [k |-> context, pipe |-> pipe, list |-> list, else |-> else]]
ElseIf(p, context, pipe, list) == Branch(p, context, pipe, list, << <<p.out>> >>)
ElseList(p, context, pipe, list) == Branch(Check(p, p.next = "end"), context, pipe, list, <<p.list>>)

(* {{else if}} is an else whose list is an if, that shares the {{end}}.      *)
AfterBody(p, context, pipe) ==
    IF p.next = "end" THEN Branch(p, context, pipe, p.list, <<>>)
    ELSE IF context \in {"if", "with"} /\ Peeked(Peek(p)).typ = context
    THEN ElseIf(ParseControl(Next1(Peek(p)), context), context, pipe, p.list)
    ELSE ElseList(ItemList(p, <<>>), context, pipe, p.list)
AfterPipeline(p, context) ==
    AfterBody(Deeper(ItemList(Deeper(p, context, 1), <<>>), context, -1), context, p.out)
ParseControl(p, context) == PopVars(AfterPipeline(Pipeline(p, context, "right"), context), Len(p.vars))

-----------------------------------------------------------------------------
(* Parse: at the top level of a text, definitions among text and actions.     *)

TopName == "main"
Init == /\ text \in Texts
        /\ s = Start(text)
        /\ root = <<>>
        /\ status = "parsing"

AtDelim == Peeked(Peek(s)).typ = "left"
Keyword == NextNonSpace(Next1(Peek(s)))
AtDefine == AtDelim /\ Got(Keyword).typ = "define"

Continue(p) == s' = p /\ status' = (IF p.failed THEN "failed" ELSE "parsing") /\ UNCHANGED text

Definition ==
    /\ status = "parsing" /\ AtDefine
    /\ Continue(StopParse(Keyword, ParseDefinition(StartParse(Keyword))))
    /\ UNCHANGED root

NodeStep ==
    /\ status = "parsing" /\ ~AtDefine /\ Peeked(Peek(s)).typ # "eof"
    /\ LET n == TextOrAction(IF AtDelim THEN Backup2(Keyword, Peeked(Peek(s))) ELSE Peek(s))
       IN /\ Continue(Check(n, n.out.k \notin {"end", "else"}))
          /\ root' = Append(root, n.out)

EndOfText ==
    /\ status = "parsing" /\ Peeked(Peek(s)).typ = "eof"
    /\ s' = Add(Peek(s), TopName, root)
    /\ status' = IF s'.failed THEN "failed" ELSE "parsed"
    /\ UNCHANGED <<text, root>>

Next == Definition \/ NodeStep \/ EndOfText
Spec == Init /\ [][Next]_vars

-----------------------------------------------------------------------------
(* Printing a tree: String and writeTo of every node.                         *)

Space == Mark("space")
Delimited(items) == <<Mark("left")>> \o items \o <<Mark("right")>>
Joined(parts, sep) == FlattenSeq([i \in DOMAIN parts |-> IF i = 1 THEN parts[i] ELSE sep \o parts[i]])
PrintFields(ids) == [i \in DOMAIN ids |-> Item("field", ids[i])]
PrintVariable(ids) == <<Item("variable", Head(ids))>> \o PrintFields(Tail(ids))

RECURSIVE PrintPipe(_), PrintCommand(_), PrintArg(_), PrintNode(_), PrintList(_)
PrintDecl(pipe) ==
    IF pipe.decl = <<>> THEN <<>>
    ELSE Joined([i \in DOMAIN pipe.decl |-> PrintVariable(<<pipe.decl[i]>>)], <<Item("char", ","), Space>>)
         \o <<Space, Mark(IF pipe.assign THEN "assign" ELSE "declare"), Space>>
PrintPipe(pipe) ==
    PrintDecl(pipe) \o Joined([i \in DOMAIN pipe.cmds |-> PrintCommand(pipe.cmds[i])], <<Space, Mark("pipe"), Space>>)

(* A pipeline is printed in parentheses where it is an argument.             *)
Bare(node) == IF node.k = "pipe" THEN PrintPipe(node) ELSE PrintArg(node)
Parenthesized(node) ==
    IF node.k = "pipe" THEN <<Mark("lparen")>> \o PrintPipe(node) \o <<Mark("rparen")>> ELSE PrintArg(node)
PrintCommand(args) == Joined([i \in DOMAIN args |-> Parenthesized(args[i])], <<Space>>)
PrintArg(node) ==
    CASE node.k = "field" -> PrintFields(node.ids)
      [] node.k = "variable" -> PrintVariable(node.ids)
      [] node.k = "chain" -> Parenthesized(node.node) \o PrintFields(node.ids)
      [] OTHER -> <<Item(node.k, node.val)>>

PrintBranch(node) ==
    Delimited(<<Mark(node.k), Space>> \o PrintPipe(node.pipe)) \o PrintList(node.list)
    \o (IF node.else = <<>> THEN <<>> ELSE Delimited(<<Mark("else")>>) \o PrintList(node.else[1]))
    \o Delimited(<<Mark("end")>>)
PrintTemplate(node) ==
    Delimited(<<Mark("template"), Space, Item("string", node.val)>>
              \o (IF node.pipe = NoPipe THEN <<>> ELSE <<Space>> \o PrintPipe(node.pipe)))
PrintNode(node) ==
    CASE node.k = "text" -> <<Item("text", node.val)>>
      [] node.k = "action" -> Delimited(PrintPipe(node.pipe))
      [] node.k \in {"if", "range", "with"} -> PrintBranch(node)
      [] node.k = "template" -> PrintTemplate(node)
      [] node.k \in {"break", "continue"} -> Delimited(<<Mark(node.k)>>)
PrintList(list) == FlattenSeq([i \in DOMAIN list |-> PrintNode(list[i])])

-----------------------------------------------------------------------------
(* Properties.                                                                *)

Parsed == status = "parsed"
Trees == {s.treeSet[name] : name \in DOMAIN s.treeSet}

(* Between two nodes of a text the parser is back where it started: no range  *)
(* and no parenthesis is open, and no more than one item was read ahead.      *)
TypeOK == /\ status \in {"parsing", "parsed", "failed"}
          /\ (status = "failed") = s.failed
          /\ ~s.failed => s.rangeDepth = 0 /\ s.stackDepth = 0 /\ s.peekCount \in 0..1

(* What a tree prints parses to the same tree: every pipeline, chain and      *)
(* else is taken apart the way it was written.                                *)
Reparse(items) == ItemList(Start(items \o Delimited(<<Mark("end")>>)), <<>>)
RoundTrip == Parsed => \A tree \in Trees : LET again == Reparse(PrintList(tree)) IN
                          ~again.failed /\ again.list = tree

(* No item is lost or read twice, although two parsers may read from one      *)
(* scanner and each reads ahead: what the text says is in its trees, in the   *)
(* order it was written.                                                      *)
IsPayload(item) == item.typ \in Terms \cup {"text"} /\ item.typ \notin {"string", "lparen"} /\ item.val \notin Blank
Payload(items) == SelectSeq(items, IsPayload)
RECURSIVE InOrder(_, _)
InOrder(part, whole) ==
    \/ part = <<>>
    \/ whole # <<>> /\ InOrder(IF Head(part) = Head(whole) THEN Tail(part) ELSE part, Tail(whole))
Times(item, items) == Cardinality({i \in DOMAIN items : items[i] = item})
NothingLost ==
    Parsed => LET said == Payload(text)
                  kept == [name \in DOMAIN s.treeSet |-> Payload(PrintList(s.treeSet[name]))]
              IN /\ \A name \in DOMAIN kept : InOrder(kept[name], said)
                 /\ \A item \in ToSet(said) :
                       Times(item, said) = FoldFunction(+, 0, [name \in DOMAIN kept |-> Times(item, kept[name])])

(* A break or a continue is in the list, not the else, of a range of the same *)
(* template: the executor has a range to unwind to.                           *)
RECURSIVE NoJump(_)
NoJump(list) ==
    \A i \in DOMAIN list :
        /\ list[i].k \notin {"break", "continue"}
        /\ list[i].k \in {"if", "with"} => NoJump(list[i].list)
        /\ list[i].k \in {"if", "with", "range"} => \A j \in DOMAIN list[i].else : NoJump(list[i].else[j])
JumpsInRange == Parsed => \A tree \in Trees : NoJump(tree)

(* doc.go: the scope of a variable runs from its declaration to the end of    *)
(* the control structure it is declared in, or of the template; a template    *)
(* does not see the variables of the place it is defined in.                  *)
SameAction(j, i) == \A m \in j..(i - 1) : text[m].typ # "right"
StartsBody(i) == text[i].typ = "right" /\ \E j \in 1..(i - 1) : text[j].typ \in {"define", "block"} /\ SameAction(j, i)
Opens(i) == \/ text[i].typ = "range" \/ StartsBody(i)
            \/ text[i].typ \in {"if", "with"} /\ ~\E j \in 1..(i - 1) : text[j].typ = "else" /\ SameAction(j, i)
Depth(i) == Cardinality({j \in 1..i : Opens(j)}) - Cardinality({j \in 1..i : text[j].typ = "end"})
StillOpen(j, i) == \A m \in j..i : Depth(m) >= Depth(j)
After(i) == IF text[i + 1].typ = "space" THEN text[i + 2] ELSE text[i + 1]
Declares(i) == text[i].typ = "variable" /\ (After(i).typ \in {"declare", "assign"} \/ After(i) = Item("char", ","))
Visible(j, i) ==
    /\ Declares(j) /\ text[j].val = text[i].val /\ StillOpen(j, i)
    /\ \A m \in j..i : StartsBody(m) => ~StillOpen(m, i)
VarsScoped ==
    Parsed => \A i \in DOMAIN text :
        text[i].typ = "variable" /\ text[i].val # "$" /\ ~Declares(i) => \E j \in 1..i : Visible(j, i)

(* What is defined stays defined: a template with something in it is never    *)
(* replaced by another of the same text.                                      *)
DefinitionsKept ==
    [][\A name \in DOMAIN s.treeSet :
         /\ name \in DOMAIN s'.treeSet
         /\ IsEmptyTree(s.treeSet[name]) \/ s'.treeSet[name] = s.treeSet[name]]_vars
=============================================================================
