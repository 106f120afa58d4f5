------------------------------- MODULE Lexer -------------------------------
(* The scanner of templates (src/tools/helmprov/tpl/parse/lex.go): text       *)
(* outside {{ }} passes through, less the white space that a trim marker      *)
(* ("{{- " or " -}}") and the comments take away; inside, the actions are cut *)
(* into items. Every item carries the line it starts on, which a template's   *)
(* author sees in every error, and every node's location comes from its       *)
(* position.                                                                  *)
(*                                                                            *)
(* A symbol is a character or a delimiter of two: positions count symbols,    *)
(* and a delimiter that stands where none is looked for is one character. A   *)
(* symbol may be a whole word ("end", "break", "true"). next and backup       *)
(* count newlines in and out, so a run they scan is counted whole (Scan),     *)
(* while what the code skips by adding to pos is counted where it says so.    *)
EXTENDS Integers, FiniteSets, Sequences

CONSTANTS
    Inputs,      \* the texts to scan
    Symbols      \* the symbols they are made of

Space == {"sp", "nl"}
Decimal == {"0", "1", "9", "_"}
Words == {"end", "break", "true"}
AlphaNumeric == Decimal \cup {"a", "b", "e", "i", "o", "p", "x"} \cup Words
Unprintable == {"ctl"}

ASSUME LexerAssumption == Inputs \subseteq Seq(Symbols) /\ "eof" \notin Symbols

VARIABLES
    input,         \* the text being scanned
    options,       \* emitComment, breakOK
    pos,           \* how much of it was consumed
    start,         \* where the item being scanned starts
    line,          \* 1 + the newlines consumed
    startLine,     \* the line of start
    parenDepth,    \* open parentheses of the action
    insideAction,  \* between the delimiters of an action?
    state,         \* the state function to run, "parser" between items, "done"
    items          \* the items given to the parser

place == <<pos, start, line, startLine>>
vars == <<input, options, place, parenDepth, insideAction, state, items>>

At(p) == IF p < Len(input) THEN input[p + 1] ELSE "eof"
Newlines(p, q) == Cardinality({i \in p..(q - 1) : At(i) = "nl"})

(* The end of the run of symbols of S that begins at p; where c is next; and *)
(* where the run of symbols of S that ends before q begins.                  *)
RunEnd(p, S) == p + Cardinality({q \in p..(Len(input) - 1) : \A i \in p..q : At(i) \in S})
Index(p, c) == RunEnd(p, Symbols \ {c})
RunStart(p, q, S) == q - Cardinality({m \in p..(q - 1) : \A i \in m..(q - 1) : At(i) \in S})

HasLeftTrimMarker(p) == At(p) = "minus" /\ At(p + 1) \in Space
HasRightTrimMarker(p) == At(p) \in Space /\ At(p + 1) = "minus"
TrimMarkerLen == 2
TrimmedAnywhere(p) == HasRightTrimMarker(p) /\ p + TrimMarkerLen < Len(input)
TrimmedRightDelim(p) == HasRightTrimMarker(p) /\ At(p + TrimMarkerLen) = "right"
AtRightDelim(p) == TrimmedRightDelim(p) \/ At(p) = "right"
AtTerminator(p) == At(p) \in Space \cup {"eof", "dot", "comma", "pipe", "colon", "rparen", "lparen", "right"}
-----------------------------------------------------------------------------
Item(typ, from, to, l) == [typ |-> typ, pos |-> from, end |-> to, line |-> l]

(* The pending item ends at q; what lies from q to e is skipped, uncounted.  *)
MoveToInItem(e, l) == pos' = e /\ start' = start /\ line' = l /\ startLine' = l
MoveTo(e, l) == pos' = e /\ start' = e /\ line' = l /\ startLine' = l
EmitAndSkipUncounted(typ, q, counted, e) ==
    /\ items' = Append(items, Item(typ, start, q, startLine))
    /\ MoveTo(e, counted)
    /\ state' = "parser"
EmitAndSkip(typ, q, counted, e) ==
    /\ items' = Append(items, Item(typ, start, q, startLine))
    /\ MoveTo(e, counted + Newlines(q, e))
    /\ state' = "parser"

(* What next consumed up to q is an item.                                    *)
Emit(typ, q) ==
    /\ EmitAndSkip(typ, q, line + Newlines(pos, q), q)
    /\ UNCHANGED insideAction

(* An error is the last item.                                                *)
Errorf ==
    /\ items' = Append(items, Item("error", start, start, startLine))
    /\ state' = "done"
    /\ pos' = 0 /\ start' = 0
    /\ UNCHANGED <<line, startLine, insideAction>>
-----------------------------------------------------------------------------
Init ==
    /\ input \in Inputs
    /\ options \in [emitComment : BOOLEAN, breakOK : BOOLEAN]
    /\ pos = 0 /\ start = 0
    /\ line = 1 /\ startLine = 1
    /\ parenDepth = 0
    /\ insideAction = FALSE
    /\ state = "parser"
    /\ items = <<>>

(* The parser asks for the next item.                                        *)
NextItem ==
    /\ state = "parser"
    /\ state' = IF insideAction THEN "insideAction" ELSE "text"
    /\ UNCHANGED <<input, options, place, parenDepth, insideAction, items>>

(* Text up to the next action, trimmed if the action says so; all of the     *)
(* rest, if there is none.                                                   *)
LexText ==
    /\ state = "text"
    /\ LET x == Index(pos, "left")
           t == IF HasLeftTrimMarker(x + 1) THEN RunStart(start, x, Space) ELSE x
           counted == line + Newlines(start, t)
       IN  \/ /\ x = Len(input) /\ x > start
              /\ EmitAndSkip("text", x, line + Newlines(start, x), x)
           \/ /\ x = Len(input) /\ x = start
              /\ items' = Append(items, Item("EOF", start, x, startLine))
              /\ state' = "done"
              /\ UNCHANGED place
           \/ /\ x < Len(input) /\ t > start
              /\ EmitAndSkip("text", t, counted, x)
           \/ /\ x < Len(input) /\ t = start
              /\ MoveTo(x, counted + Newlines(t, x))
              /\ state' = "leftDelim"
              /\ UNCHANGED items
    /\ UNCHANGED <<input, options, parenDepth, insideAction>>

LexLeftDelim ==
    /\ state = "leftDelim"
    /\ LET p == pos + 1
           q == IF HasLeftTrimMarker(p) THEN p + TrimMarkerLen ELSE p
       IN  \/ /\ At(q) = "lcomment"
              /\ MoveTo(q, line + Newlines(start, q))
              /\ state' = "comment"
              /\ UNCHANGED <<insideAction, parenDepth, items>>
           \/ /\ At(q) # "lcomment"
              /\ EmitAndSkip("leftDelim", p, line, q)
              /\ insideAction' = TRUE
              /\ parenDepth' = 0
    /\ UNCHANGED <<input, options>>

(* A comment is skipped, or an item of its own if the parser wants them.     *)
LexComment ==
    /\ state = "comment"
    /\ LET x == Index(pos + 1, "rcomment")
           q == x + 1
           e == IF TrimmedRightDelim(q) THEN RunEnd(q + TrimMarkerLen + 1, Space) ELSE q + 1
           counted == line + Newlines(start, q)
       IN  \/ /\ x = Len(input) \/ ~AtRightDelim(q)
              /\ Errorf
           \/ /\ x < Len(input) /\ AtRightDelim(q)
              /\ \/ options.emitComment /\ EmitAndSkip("comment", q, counted, e)
                 \/ /\ ~options.emitComment
                    /\ MoveTo(e, counted + Newlines(q, e))
                    /\ state' = "text"
                    /\ UNCHANGED items
              /\ UNCHANGED insideAction
    /\ UNCHANGED <<input, options, parenDepth>>

LexRightDelim ==
    /\ state = "rightDelim"
    /\ LET trim == TrimmedRightDelim(pos)
           p == IF trim THEN pos + TrimMarkerLen ELSE pos
           q == p + 1
           e == IF trim THEN RunEnd(q, Space) ELSE q
           l == line + Newlines(start, p)
       IN  /\ items' = Append(items, Item("rightDelim", p, q, l))
           /\ MoveTo(e, l + Newlines(q, e))
    /\ state' = "parser"
    /\ insideAction' = FALSE
    /\ UNCHANGED <<input, options, parenDepth>>
-----------------------------------------------------------------------------
(* Inside an action: what its first symbol makes of the next item.           *)
ItemOf(c) == CASE c = "equals" -> "assign" [] c = "pipe" -> "pipe" [] OTHER -> "char"
ScannerOf(c) == CASE c = "dq" -> "quote" [] c = "bq" -> "rawQuote" [] c = "sq" -> "charConstant"
                  [] c = "dollar" -> "variable" [] c = "dot" -> "field"
Quotes == {"dq", "bq", "sq", "dollar"}
Signs == {"plus", "minus"}
Digits == Decimal \ {"_"}
(* A dot starts a number before a digit, and at the end of the text.         *)
StartsNumber(p) == \/ At(p) \in Signs \cup Digits
                   \/ At(p) = "dot" /\ At(p + 1) \in Digits \cup {"eof"}
Special == Space \cup Quotes \cup Signs \cup AlphaNumeric \cup Unprintable
             \cup {"eof", "dot", "colon", "lparen", "rparen"}

(* Scan on in another state function, n symbols further.                     *)
Goto(f, n) ==
    /\ state' = f
    /\ pos' = pos + n
    /\ UNCHANGED <<start, line, startLine, insideAction, items>>

LexInsideAction ==
    /\ state = "insideAction"
    /\ LET c == At(pos) IN
       IF AtRightDelim(pos)
       THEN /\ UNCHANGED parenDepth
            /\ IF parenDepth = 0 THEN Goto("rightDelim", 0) ELSE Errorf
       ELSE \/ c \in Space /\ Goto("space", 0) /\ UNCHANGED parenDepth
            \/ c \notin Special /\ Emit(ItemOf(c), pos + 1) /\ UNCHANGED parenDepth
            \/ /\ c = "colon" /\ UNCHANGED parenDepth
               /\ IF At(pos + 1) = "equals" THEN Emit("declare", pos + 2) ELSE Errorf
            \/ /\ (c \in Quotes \/ (c = "dot" /\ ~StartsNumber(pos))) /\ UNCHANGED parenDepth
               /\ Goto(ScannerOf(c), 1)
            \/ StartsNumber(pos) /\ Goto("number", 0) /\ UNCHANGED parenDepth
            \/ /\ c \in AlphaNumeric /\ ~StartsNumber(pos) /\ UNCHANGED parenDepth
               /\ Goto("identifier", 0)
            \/ c = "lparen" /\ parenDepth' = parenDepth + 1 /\ Emit("leftParen", pos + 1)
            \/ /\ c = "rparen" /\ parenDepth' = parenDepth - 1
               /\ IF parenDepth = 0 THEN Errorf ELSE Emit("rightParen", pos + 1)
            \/ c \in Unprintable \cup {"eof"} /\ Errorf /\ UNCHANGED parenDepth
    /\ UNCHANGED <<input, options>>

LexSpaceBackingUp ==
    /\ state = "space"
    /\ LET q == RunEnd(pos, Space) IN
       IF HasRightTrimMarker(q - 1) THEN Goto("insideAction", q - 1 - pos) ELSE Emit("space", q)
    /\ UNCHANGED <<input, options, parenDepth>>

(* Spaces, of which the last is left for the trim marker it may belong to.   *)
LexSpace ==
    /\ state = "space"
    /\ LET q == RunEnd(pos, Space)
           numSpaces == q - pos
       IN  IF TrimmedRightDelim(q - 1)
           THEN IF numSpaces = 1 THEN Goto("rightDelim", 0) ELSE Emit("space", q - 1)
           ELSE Emit("space", q)
    /\ UNCHANGED <<input, options, parenDepth>>

WordType(word) ==
    CASE word = <<"end">> -> "keyword"
      [] word = <<"break">> -> IF options.breakOK THEN "keyword" ELSE "identifier"
      [] word = <<"true">> -> "bool"
      [] OTHER -> "identifier"
LexIdentifier ==
    /\ state = "identifier"
    /\ LET q == RunEnd(pos, AlphaNumeric) IN
       IF AtTerminator(q) THEN Emit(WordType(SubSeq(input, pos + 1, q)), q) ELSE Errorf
    /\ UNCHANGED <<input, options, parenDepth>>

(* A lone dot is the cursor; a lone dollar is a variable too.                *)
LexFieldOrVariable ==
    /\ state \in {"field", "variable"}
    /\ LET q == RunEnd(pos, AlphaNumeric) IN
       IF ~AtTerminator(q) THEN Errorf
       ELSE Emit(IF q = pos /\ state = "field" THEN "dot" ELSE state, q)
    /\ UNCHANGED <<input, options, parenDepth>>

(* A quotation with escapes, on one line; At(q) is escaped by an odd number  *)
(* of backslashes.                                                           *)
Escaped(p, q) == (q - RunStart(p, q, {"esc"})) % 2 = 1
Closes(p, q, c) == /\ At(q) = c /\ ~Escaped(p, q)
                   /\ \A i \in p..(q - 1) : At(i) # "nl" /\ (At(i) = c => Escaped(p, i))
LexQuoted(f, c, typ) ==
    /\ state = f
    /\ \/ \E q \in pos..Len(input) : Closes(pos, q, c) /\ Emit(typ, q + 1)
       \/ (\A q \in pos..Len(input) : ~Closes(pos, q, c)) /\ Errorf
    /\ UNCHANGED <<input, options, parenDepth>>
LexQuote == LexQuoted("quote", "dq", "string")
LexChar == LexQuoted("charConstant", "sq", "charConstant")

LexRawQuote ==
    /\ state = "rawQuote"
    /\ LET x == Index(pos, "bq") IN
       IF x = Len(input) THEN Errorf ELSE Emit("rawString", x + 1)
    /\ UNCHANGED <<input, options, parenDepth>>

(* Where a number's scan from p ends.                                        *)
Accept(p, S) == IF At(p) \in S THEN p + 1 ELSE p
Exponent(p, e) == IF At(p) # e THEN p ELSE RunEnd(Accept(p + 1, Signs), Decimal)
HexDigits == Decimal \cup {"a", "b", "e"}
ScanNumber(p) ==
    LET s == Accept(p, Signs)
        base == IF At(s) = "0" /\ At(s + 1) \in {"x", "o", "b"} THEN At(s + 1) ELSE "d"
        digits == CASE base = "d" -> Decimal [] base = "x" -> HexDigits
                    [] base = "o" -> Decimal \ {"9"} [] base = "b" -> Decimal \ {"9"}
        whole == RunEnd(IF base = "d" THEN s ELSE s + 2, digits)
        frac == IF At(whole) = "dot" THEN RunEnd(whole + 1, digits) ELSE whole
        exp == CASE base = "d" -> Exponent(frac, "e") [] base = "x" -> Exponent(frac, "p")
                 [] OTHER -> frac
    IN  Accept(exp, {"i"})
NumberEnds(q) == At(q) \notin AlphaNumeric
(* A complex number is two in a row, the second imaginary.                   *)
LexNumber ==
    /\ state = "number"
    /\ \E q \in {ScanNumber(pos)} : \E r \in {ScanNumber(q)} :
          IF ~NumberEnds(q) THEN Errorf
          ELSE IF At(q) \notin Signs THEN Emit("number", q)
          ELSE IF NumberEnds(r) /\ At(r - 1) = "i" THEN Emit("complex", r)
          ELSE Errorf
    /\ UNCHANGED <<input, options, parenDepth>>
-----------------------------------------------------------------------------
StateFn == \/ LexText \/ LexLeftDelim \/ LexComment \/ LexRightDelim
           \/ LexInsideAction \/ LexSpace \/ LexIdentifier \/ LexFieldOrVariable
           \/ LexQuote \/ LexChar \/ LexRawQuote \/ LexNumber
(* The parser reads no further than the end or an error.                     *)
Finished == state = "done" /\ UNCHANGED vars

Next == NextItem \/ StateFn \/ Finished
(* One goroutine runs parser and scanner: as long as a step is left, it is   *)
(* taken.                                                                    *)
Spec == Init /\ [][Next]_vars /\ WF_vars(NextItem \/ StateFn)
-----------------------------------------------------------------------------
States == {"parser", "done", "text", "leftDelim", "comment", "rightDelim", "insideAction", "space",
           "identifier", "field", "variable", "quote", "charConstant", "rawQuote", "number"}
ItemTypes == {"error", "EOF", "text", "leftDelim", "rightDelim", "comment", "space", "identifier",
              "keyword", "bool", "field", "dot", "variable", "number", "complex", "charConstant",
              "string", "rawString", "char", "assign", "declare", "pipe", "leftParen", "rightParen"}
TypeOK ==
    /\ input \in Seq(Symbols)
    /\ options \in [emitComment : BOOLEAN, breakOK : BOOLEAN]
    /\ pos \in 0..Len(input) /\ start \in 0..pos
    /\ line \in Nat /\ startLine \in Nat
    /\ parenDepth \in Int
    /\ insideAction \in BOOLEAN
    /\ state \in States
    /\ items \in Seq([typ : ItemTypes, pos : Nat, end : Nat, line : Nat])

(* An item's line is the line of the text it starts on, whatever the trims   *)
(* and comments before it skipped: error messages name it.                   *)
LinesAreRight == \A k \in DOMAIN items : items[k].line = 1 + Newlines(0, items[k].pos)

(* Items follow each other in the text, each of them of at least a symbol.   *)
InOrder ==
    \A k \in DOMAIN items :
      /\ items[k].typ \notin {"EOF", "error"} => items[k].pos < items[k].end
      /\ k > 1 => items[k - 1].end <= items[k].pos

Covered(p) == \E k \in DOMAIN items : items[k].pos <= p /\ p < items[k].end
OpensComment(q) == /\ At(q) = "lcomment"
                   /\ \/ q >= 1 /\ At(q - 1) = "left"
                      \/ q >= 3 /\ At(q - 3) = "left" /\ HasLeftTrimMarker(q - 2)
InComment(p) == \E q \in 0..p : OpensComment(q) /\ \A i \in q..(p - 1) : At(i) # "rcomment"
(* White space, in a run of it that a trim marker touches.                   *)
BesideMarker(p) == \E q \in 0..p, r \in (p + 1)..Len(input) :
    /\ \A i \in q..(r - 1) : At(i) \in Space
    /\ \/ At(r) = "left" /\ HasLeftTrimMarker(r + 1)
       \/ At(r) = "minus" /\ At(r + 1) = "right"
       \/ q >= 2 /\ At(q - 1) = "minus" /\ At(q - 2) = "left"
       \/ q >= 3 /\ At(q - 1) = "right" /\ HasRightTrimMarker(q - 3)
(* What belongs to no item and no comment.                                   *)
Dropped(p) ==
    CASE At(p) \in Space -> BesideMarker(p)
      [] At(p) = "minus" -> At(p + 1) = "right" \/ (p >= 1 /\ At(p - 1) = "left")
      [] At(p) = "left" -> OpensComment(p + 1) \/ OpensComment(p + 3)
      [] At(p) = "right" -> \E m \in {1, 3} : p >= m /\ At(p - m) = "rcomment"
      [] OTHER -> FALSE
Accounted(p) == Covered(p) \/ InComment(p) \/ Dropped(p)
(* Trimming loses white space and nothing else, and only at a trim marker:   *)
(* of what the scanner is past, everything else is in an item, or in a       *)
(* comment, or is the marker or the comment's delimiters.                    *)
TrimsOnlySpace == state = "parser" => \A p \in 0..(pos - 1) : Accounted(p)

(* Scanning ends, with the end of the text or an error.                      *)
Terminates == <>(state = "done")
=============================================================================
