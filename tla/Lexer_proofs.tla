---------------------------- MODULE Lexer_proofs ----------------------------
(* Proofs about the scanner, for every text. The inductive invariant adds to  *)
(* the properties what each state function expects of the symbol it begins    *)
(* at (Here), that line and startLine are those of pos and start (Counted),   *)
(* and that the items given end where the next one starts (Behind). What      *)
(* trimming may drop needs one more, on top of it: everything before start is *)
(* accounted for in every state, not only between items (TInv).               *)
EXTENDS Lexer, TLAPS, FiniteSetTheorems

(* The state functions entered with their first symbol already scanned.      *)
Inside1 == {"field", "variable", "quote", "charConstant", "rawQuote"}
Here ==
    /\ state \in Inside1 => start < pos
    /\ state \notin Inside1 \cup {"done"} => start = pos
    /\ state = "leftDelim" => At(pos) = "left"
    /\ state = "comment" => At(pos) = "lcomment"
    /\ state = "rightDelim" => AtRightDelim(pos)
    /\ state = "space" => At(pos) \in Space
    /\ state = "identifier" => At(pos) \in AlphaNumeric
    /\ state = "number" => StartsNumber(pos)

Counted == state # "done" => line = 1 + Newlines(0, pos) /\ startLine = 1 + Newlines(0, start)
Behind == state # "done" => \A k \in DOMAIN items : items[k].end <= start

IInv == TypeOK /\ Here /\ Counted /\ Behind /\ LinesAreRight /\ InOrder
-----------------------------------------------------------------------------
LEMMA Interval ==
    ASSUME NEW a \in Nat, NEW b \in Nat, a <= b
    PROVE  IsFiniteSet(a..(b - 1)) /\ Cardinality(a..(b - 1)) = b - a
<1>1. a \in Int /\ b - 1 \in Int
  OBVIOUS
<1>2. Cardinality(a..(b - 1)) = IF a > b - 1 THEN 0 ELSE (b - 1) - a + 1
  BY <1>1, FS_Interval
<1>3. IsFiniteSet(a..(b - 1))
  BY <1>1, FS_Interval
<1> QED BY <1>2, <1>3

(* A run counts as many symbols as fit between its ends, of the kind asked.  *)
LEMMA RunEndIs ==
    ASSUME NEW p \in Nat, p <= Len(input), NEW S, input \in Seq(Symbols)
    PROVE  /\ RunEnd(p, S) \in p..Len(input)
           /\ \A i \in p..(RunEnd(p, S) - 1) : At(i) \in S
           /\ RunEnd(p, S) < Len(input) => At(RunEnd(p, S)) \notin S
<1> DEFINE L == Len(input)
           A == {q \in p..(L - 1) : \A i \in p..q : At(i) \in S}
           r == RunEnd(p, S)
<1>1. L \in Nat
  OBVIOUS
<1>2. IsFiniteSet(p..(L - 1)) /\ Cardinality(p..(L - 1)) = L - p
  BY <1>1, Interval
<1>3. IsFiniteSet(A) /\ Cardinality(A) \in Nat /\ Cardinality(A) <= L - p
  <2>1. A \in SUBSET (p..(L - 1))
    OBVIOUS
  <2> HIDE DEF A
  <2> QED BY <1>2, <2>1, FS_Subset, FS_CardinalityType
<1>4. r = p + Cardinality(A)
  BY DEF RunEnd
<1>5. r \in p..L
  BY <1>1, <1>3, <1>4
<1>6. ASSUME NEW i \in p..(r - 1), At(i) \notin S PROVE FALSE
  <2>1. A \in SUBSET (p..(i - 1))
    BY <1>6, <1>1, <1>5
  <2>2. IsFiniteSet(p..(i - 1)) /\ Cardinality(p..(i - 1)) = i - p
    <3>1. i \in Nat /\ p <= i
      BY <1>6, <1>1, <1>5
    <3> QED BY <3>1, Interval
  <2>3. Cardinality(A) <= i - p
    BY <2>1, <2>2, FS_Subset
  <2> QED BY <2>3, <1>3, <1>4, <1>5, <1>6
<1>7. ASSUME r < L, At(r) \in S PROVE FALSE
  <2>1. p..r \in SUBSET A
    BY <1>6, <1>7, <1>1, <1>5
  <2>2. Cardinality(p..r) = r - p + 1
    <3>1. r + 1 \in Nat /\ p <= r + 1 /\ (r + 1) - 1 = r
      BY <1>1, <1>5
    <3>2. Cardinality(p..((r + 1) - 1)) = (r + 1) - p
      BY <3>1, Interval
    <3> QED BY <3>1, <3>2
  <2>3. Cardinality(p..r) <= Cardinality(A)
    BY <2>1, <1>3, FS_Subset
  <2> QED BY <2>2, <2>3, <1>3, <1>4, <1>5
<1> HIDE DEF A, r
<1> QED BY <1>5, <1>6, <1>7 DEF r

LEMMA RunStartIs ==
    ASSUME NEW p \in Nat, NEW q \in Nat, p <= q, NEW S
    PROVE  RunStart(p, q, S) \in p..q
<1> DEFINE A == {m \in p..(q - 1) : \A i \in m..(q - 1) : At(i) \in S}
<1>1. IsFiniteSet(p..(q - 1)) /\ Cardinality(p..(q - 1)) = q - p
  BY Interval
<1>2. Cardinality(A) \in Nat /\ Cardinality(A) <= q - p
  <2>1. A \in SUBSET (p..(q - 1))
    OBVIOUS
  <2> HIDE DEF A
  <2> QED BY <1>1, <2>1, FS_Subset, FS_CardinalityType
<1> QED BY <1>2 DEF RunStart

LEMMA AtInside ==
    ASSUME NEW p \in Nat, At(p) # "eof", input \in Seq(Symbols)
    PROVE  p + 1 <= Len(input) /\ At(p) \in Symbols
  BY DEF At

LEMMA IndexIs ==
    ASSUME NEW p \in Nat, p <= Len(input), NEW c, input \in Seq(Symbols)
    PROVE  /\ Index(p, c) \in p..Len(input)
           /\ Index(p, c) < Len(input) => At(Index(p, c)) = c
<1> DEFINE x == Index(p, c)
<1>1. /\ x \in p..Len(input)
      /\ x < Len(input) => At(x) \notin Symbols \ {c}
  BY RunEndIs DEF Index
<1>2. x < Len(input) => At(x) \in Symbols
  BY <1>1 DEF At
<1> QED BY <1>1, <1>2

(* Newlines are counted piece by piece.                                      *)
LEMMA NewlinesAdd ==
    ASSUME NEW a \in Nat, NEW b \in Nat, NEW c \in Nat, a <= b, b <= c
    PROVE  /\ Newlines(a, b) \in Nat
           /\ Newlines(a, c) = Newlines(a, b) + Newlines(b, c)
<1> DEFINE N(p, q) == {i \in p..(q - 1) : At(i) = "nl"}
<1>1. \A p, q \in Nat : IsFiniteSet(N(p, q)) /\ Cardinality(N(p, q)) \in Nat
  <2> TAKE p, q \in Nat
  <2>1. IsFiniteSet(p..(q - 1))
    BY FS_Interval
  <2> QED BY <2>1, FS_Subset, FS_CardinalityType
<1>2. N(a, c) = N(a, b) \cup N(b, c) /\ N(a, b) \cap N(b, c) = {}
  OBVIOUS
<1>3. Cardinality(N(a, c)) = Cardinality(N(a, b)) + Cardinality(N(b, c))
  <2>1. Cardinality(N(a, b) \cap N(b, c)) = 0
    BY <1>2, FS_EmptySet
  <2>2. \A X, Y : IsFiniteSet(X) /\ IsFiniteSet(Y) =>
           Cardinality(X \cup Y) = Cardinality(X) + Cardinality(Y) - Cardinality(X \cap Y)
    BY FS_Union
  <2>3. Cardinality(N(a, b)) \in Nat /\ Cardinality(N(b, c)) \in Nat
    BY <1>1
  <2>4. Cardinality(N(a, b) \cup N(b, c))
          = Cardinality(N(a, b)) + Cardinality(N(b, c)) - Cardinality(N(a, b) \cap N(b, c))
    BY <1>1, <2>2
  <2> HIDE DEF N
  <2> QED BY <1>2, <2>1, <2>3, <2>4
<1> QED BY <1>1, <1>3 DEF Newlines

LEMMA NoNewline ==
    ASSUME NEW p \in Nat, At(p) # "nl"
    PROVE  Newlines(p, p + 1) = 0
<1>1. {i \in p..(p + 1 - 1) : At(i) = "nl"} = {}
  OBVIOUS
<1> QED BY <1>1, FS_EmptySet DEF Newlines

LEMMA NoText ==
    ASSUME NEW p \in Nat PROVE Newlines(p, p) = 0
<1>1. {i \in p..(p - 1) : At(i) = "nl"} = {}
  OBVIOUS
<1> QED BY <1>1, FS_EmptySet DEF Newlines

LEMMA SameText ==
    ASSUME input' = input
    PROVE  /\ \A p, q : Newlines(p, q)' = Newlines(p, q)
           /\ \A p : At(p)' = At(p)
           /\ \A p : AtRightDelim(p)' = AtRightDelim(p)
           /\ \A p : StartsNumber(p)' = StartsNumber(p)
  BY DEF Newlines, At, AtRightDelim, TrimmedRightDelim, HasRightTrimMarker, StartsNumber
-----------------------------------------------------------------------------
(* What a step may do: give an item and come back to the parser, or go on in *)
(* another state function with no item given.                                *)
Items == [typ : ItemTypes, pos : Nat, end : Nat, line : Nat]
Kept == input' = input /\ options' = options /\ parenDepth' \in Int /\ insideAction' \in BOOLEAN
Gives(typ, a, b, e) ==
    /\ start <= a /\ a < b /\ b <= e
    /\ items' = Append(items, Item(typ, a, b, 1 + Newlines(0, a)))
    /\ pos' = e /\ start' = e
    /\ line' = 1 + Newlines(0, e) /\ startLine' = 1 + Newlines(0, e)
    /\ state' = "parser"

LEMMA AppendIs ==
    ASSUME NEW T, NEW s \in Seq(T), NEW x \in T
    PROVE  /\ Append(s, x) \in Seq(T)
           /\ DOMAIN s = 1..Len(s) /\ Len(s) \in Nat
           /\ DOMAIN Append(s, x) = 1..(Len(s) + 1)
           /\ Append(s, x)[Len(s) + 1] = x
           /\ \A k \in 1..Len(s) : Append(s, x)[k] = s[k] /\ s[k] \in T
  OBVIOUS

LEMMA ItemsType ==
    ASSUME TypeOK
    PROVE  /\ items \in Seq(Items) /\ start \in Nat
           /\ DOMAIN items = 1..Len(items) /\ Len(items) \in Nat
           /\ \A k \in DOMAIN items : items[k].end \in Nat
<1>1. items \in Seq(Items) /\ start \in Nat
  BY DEF TypeOK, Items
<1>2. DOMAIN items = 1..Len(items) /\ Len(items) \in Nat /\ \A k \in 1..Len(items) : items[k] \in Items
  BY <1>1
<1>3. \A x \in Items : x.end \in Nat
  BY DEF Items
<1> QED BY <1>1, <1>2, <1>3

LEMMA GivesKeeps ==
    ASSUME IInv, Kept, state # "done", NEW typ \in ItemTypes, NEW a \in Nat, NEW b \in Nat,
           NEW e \in 0..Len(input), Gives(typ, a, b, e)
    PROVE  IInv'
<1> USE DEF IInv, Kept, Gives
<1>1. Newlines(0, a) \in Nat /\ Newlines(0, e) \in Nat
  BY NewlinesAdd
<1>2. Item(typ, a, b, 1 + Newlines(0, a)) \in Items /\ items \in Seq(Items) /\ items' \in Seq(Items)
  <2>1. Item(typ, a, b, 1 + Newlines(0, a)) \in Items
    BY <1>1 DEF Items, Item
  <2> QED BY <2>1, ItemsType, AppendIs
<1>3. /\ items'[Len(items) + 1] = Item(typ, a, b, 1 + Newlines(0, a))
      /\ \A k \in DOMAIN items : items'[k] = items[k]
      /\ DOMAIN items' = 1..(Len(items) + 1) /\ DOMAIN items = 1..Len(items) /\ Len(items) \in Nat
  BY <1>2, AppendIs
<1>4. TypeOK'
  BY <1>1, <1>2, SMTT(30) DEF TypeOK, Items, States
<1>5. Here'
  BY DEF Here, Inside1
<1>6. Counted'
  BY SameText DEF Counted
<1>7. Behind'
  <2>1. \A k \in DOMAIN items : items[k].end \in Nat /\ items[k].end <= start /\ start \in Nat
    BY ItemsType DEF Behind
  <2>2. \A k \in 1..(Len(items) + 1) : k \in DOMAIN items \/ k = Len(items) + 1
    BY <1>3
  <2>3. items'[Len(items) + 1].end = b
    BY <1>3 DEF Item
  <2> QED BY <1>3, <2>1, <2>2, <2>3 DEF Behind
<1>8. LinesAreRight'
  <2> SUFFICES ASSUME NEW k \in 1..(Len(items) + 1)
               PROVE  items'[k].line = 1 + Newlines(0, items'[k].pos)
    BY <1>3, SameText DEF LinesAreRight
  <2> QED BY <1>3 DEF LinesAreRight, Item
<1>9. InOrder'
  <2> SUFFICES ASSUME NEW k \in 1..(Len(items) + 1)
               PROVE  /\ items'[k].typ \notin {"EOF", "error"} => items'[k].pos < items'[k].end
                      /\ k > 1 => items'[k - 1].end <= items'[k].pos
    BY <1>3 DEF InOrder
  <2>1. CASE k \in DOMAIN items
    BY <1>3, <2>1 DEF InOrder
  <2>2. CASE k = Len(items) + 1
    <3>1. start \in Nat /\ \A j \in DOMAIN items : items[j].end \in Nat /\ items[j].end <= start
      BY ItemsType DEF Behind
    <3>2. ASSUME k > 1 PROVE k - 1 \in DOMAIN items /\ items'[k - 1] = items[k - 1]
      <4>1. k - 1 = Len(items) /\ Len(items) >= 1
        BY <3>2, <2>2, <1>3
      <4> QED BY <4>1, <1>3
    <3>3. items'[k].pos = a /\ items'[k].end = b
      BY <1>3, <2>2 DEF Item
    <3> QED BY <3>1, <3>2, <3>3
  <2> QED BY <1>3, <2>1, <2>2
<1> QED BY <1>4, <1>5, <1>6, <1>7, <1>8, <1>9

(* The last item, of the end or of an error, is of what is pending.          *)
LEMMA LastKeeps ==
    ASSUME IInv, Kept, state # "done", state' = "done",
           NEW typ \in {"EOF", "error"},
           NEW b \in Nat, items' = Append(items, Item(typ, start, b, startLine)),
           pos' \in 0..Len(input), start' \in 0..pos', line' \in Nat, startLine' \in Nat
    PROVE  IInv'
<1> USE DEF IInv, Kept
<1>1. Item(typ, start, b, startLine) \in Items /\ items \in Seq(Items) /\ items' \in Seq(Items)
  <2>0. typ \in ItemTypes
    BY DEF ItemTypes
  <2>1. start \in Nat /\ startLine \in Nat
    BY ItemsType DEF TypeOK
  <2>2. Item(typ, start, b, startLine) \in Items
    BY <2>0, <2>1 DEF Items, Item
  <2> QED BY <2>2, ItemsType, AppendIs
<1>2. /\ items'[Len(items) + 1] = Item(typ, start, b, startLine)
      /\ \A k \in DOMAIN items : items'[k] = items[k]
      /\ DOMAIN items' = 1..(Len(items) + 1) /\ DOMAIN items = 1..Len(items) /\ Len(items) \in Nat
  BY <1>1, AppendIs
<1>3. TypeOK'
  BY <1>1 DEF TypeOK, Items, States
<1>4. Here' /\ Counted' /\ Behind'
  BY DEF Here, Inside1, Counted, Behind
<1>5. LinesAreRight'
  <2> SUFFICES ASSUME NEW k \in 1..(Len(items) + 1)
               PROVE  items'[k].line = 1 + Newlines(0, items'[k].pos)
    BY <1>2, SameText, SMTT(30) DEF LinesAreRight
  <2> QED BY <1>2 DEF LinesAreRight, Item, Counted
<1>6. InOrder'
  <2> SUFFICES ASSUME NEW k \in 1..(Len(items) + 1)
               PROVE  /\ items'[k].typ \notin {"EOF", "error"} => items'[k].pos < items'[k].end
                      /\ k > 1 => items'[k - 1].end <= items'[k].pos
    BY <1>2 DEF InOrder
  <2>1. CASE k \in DOMAIN items
    BY <1>2, <2>1, SMTT(30) DEF InOrder
  <2>2. CASE k = Len(items) + 1
    <3>1. ASSUME k > 1 PROVE k - 1 \in DOMAIN items /\ items'[k - 1] = items[k - 1]
      <4>1. k - 1 = Len(items) /\ Len(items) >= 1
        BY <3>1, <2>2, <1>2, SMTT(30)
      <4> QED BY <4>1, <1>2
    <3>2. items'[k].pos = start /\ items'[k].typ = typ
      BY <1>2, <2>2 DEF Item
    <3> QED BY <3>1, <3>2 DEF Behind
  <2> QED BY <1>2, <2>1, <2>2
<1> QED BY <1>3, <1>4, <1>5, <1>6

LEMMA ErrorKeeps ==
    ASSUME IInv, Errorf, state # "done", input' = input, options' = options, parenDepth' \in Int
    PROVE  IInv'
<1>1. Kept /\ start \in Nat /\ line' \in Nat /\ startLine' \in Nat /\ 0 \in 0..Len(input)
  BY DEF IInv, TypeOK, Errorf, Kept
<1> QED BY <1>1, LastKeeps DEF Errorf

(* No item: pos moves to e, and what is pending starts there too, or at the  *)
(* symbol before.                                                            *)
LEMMA GoesKeeps ==
    ASSUME IInv, Kept, UNCHANGED items, state # "done", state' \in States \ {"done"},
           NEW e \in 0..Len(input), pos' = e, start' \in 0..e, start <= start',
           line' = 1 + Newlines(0, e), startLine' = 1 + Newlines(0, start'), Here'
    PROVE  IInv'
<1> USE DEF IInv, Kept
<1>1. Newlines(0, e) \in Nat /\ Newlines(0, start') \in Nat
  BY NewlinesAdd
<1>2. TypeOK'
  BY <1>1 DEF TypeOK
<1>3. Counted' /\ LinesAreRight'
  BY SameText DEF Counted, LinesAreRight
<1>4. Behind' /\ InOrder'
  <2>1. start \in Nat /\ \A k \in DOMAIN items : items[k].end \in Nat
    BY ItemsType
  <2> QED BY <2>1 DEF Behind, InOrder
<1> QED BY <1>2, <1>3, <1>4

-----------------------------------------------------------------------------
(* What every action may use.                                                *)
LEMMA Basics ==
    ASSUME IInv
    PROVE  /\ input \in Seq(Symbols) /\ Len(input) \in Nat
           /\ pos \in Nat /\ pos <= Len(input) /\ start \in Nat /\ start <= pos
           /\ line \in Nat /\ startLine \in Nat /\ parenDepth \in Int /\ insideAction \in BOOLEAN
           /\ state \in States /\ Len(input) \in 0..Len(input) /\ "eof" \notin Symbols
  BY LexerAssumption DEF IInv, TypeOK

(* The symbol at p is not the end, so the text goes on to p + 1.             *)
LEMMA Within ==
    ASSUME IInv, NEW p \in Nat, At(p) # "eof"
    PROVE  p + 1 \in 0..Len(input)
  BY Basics DEF At

(* The line of q, counted from the pending item's start, or from pos.        *)
LEMMA LineAt ==
    ASSUME IInv, state # "done", NEW q \in Nat
    PROVE  /\ start <= q => startLine + Newlines(start, q) = 1 + Newlines(0, q)
           /\ pos <= q => line + Newlines(pos, q) = 1 + Newlines(0, q)
           /\ start = pos /\ start <= q => line + Newlines(start, q) = 1 + Newlines(0, q)
<1>1. start \in Nat /\ pos \in Nat
  BY Basics
<1>2. \A a \in Nat : a <= q => /\ Newlines(0, a) \in Nat /\ Newlines(a, q) \in Nat
                               /\ Newlines(0, q) = Newlines(0, a) + Newlines(a, q)
  <2> TAKE a \in Nat
  <2> HAVE a <= q
  <2>1. 0 \in Nat /\ 0 <= a
    OBVIOUS
  <2> QED BY <2>1, NewlinesAdd
<1>3. line = 1 + Newlines(0, pos) /\ startLine = 1 + Newlines(0, start)
  BY DEF IInv, Counted
<1> QED BY <1>1, <1>2, <1>3

LEMMA Split ==
    ASSUME NEW a \in Nat, NEW b \in Nat, a <= b
    PROVE  1 + Newlines(0, b) = 1 + Newlines(0, a) + Newlines(a, b)
<1>1. 0 \in Nat /\ 0 <= a
  OBVIOUS
<1> QED BY <1>1, NewlinesAdd

(* The item that is pending ends at q, and the scanner skips to e.           *)
LEMMA SkipKeeps ==
    ASSUME IInv, Kept, state # "done", NEW typ \in ItemTypes, NEW q \in Nat, NEW e \in 0..Len(input),
           start < q, q <= e, NEW counted, counted = 1 + Newlines(0, q),
           EmitAndSkip(typ, q, counted, e)
    PROVE  IInv'
<1>1. start \in Nat /\ e \in Nat
  BY DEF IInv, TypeOK
<1>2. 1 + Newlines(0, e) = counted + Newlines(q, e)
  <2>1. Newlines(0, q) \in Nat /\ Newlines(q, e) \in Nat /\ Newlines(0, e) = Newlines(0, q) + Newlines(q, e)
    BY <1>1, NewlinesAdd
  <2> QED BY <2>1
<1>3. startLine = 1 + Newlines(0, start)
  BY DEF IInv, Counted
<1>4. Gives(typ, start, q, e)
  BY <1>1, <1>2, <1>3 DEF Gives, EmitAndSkip, MoveTo
<1> QED BY <1>1, <1>4, GivesKeeps

LEMMA EmitKeeps ==
    ASSUME IInv, input' = input, options' = options, parenDepth' \in Int, state # "done",
           NEW typ \in ItemTypes, NEW q \in 0..Len(input), pos <= q, start < q, Emit(typ, q)
    PROVE  IInv'
<1>1. Kept /\ pos \in Nat /\ q \in Nat
  BY DEF IInv, TypeOK, Emit, Kept
<1>2. line + Newlines(pos, q) = 1 + Newlines(0, q)
  BY <1>1, LineAt
<1>3. EmitAndSkip(typ, q, line + Newlines(pos, q), q)
  BY DEF Emit
<1> QED BY <1>1, <1>2, <1>3, SkipKeeps

(* The same state function's place, another state function.                  *)
LEMMA GotoKeeps ==
    ASSUME IInv, input' = input, options' = options, parenDepth' \in Int, state # "done",
           NEW f \in States \ {"done"}, NEW n \in {0, 1}, Goto(f, n),
           pos + n <= Len(input), n = 1 => At(pos) # "nl", Here'
    PROVE  IInv'
<1>1. Kept /\ pos + n \in 0..Len(input) /\ start' = start
  BY Basics DEF Goto, Kept
<1>2. Newlines(0, pos + n) = Newlines(0, pos)
  <2>1. CASE n = 0
    BY <2>1, Basics
  <2>2. CASE n = 1
    <3>1. Newlines(pos, pos + 1) = 0
      BY <2>2, Basics, NoNewline
    <3>2. pos + 1 \in Nat /\ 0 <= pos /\ pos <= pos + 1
      BY Basics
    <3>3. Newlines(0, pos) \in Nat /\ Newlines(0, pos + 1) = Newlines(0, pos) + Newlines(pos, pos + 1)
      BY <3>2, Basics, NewlinesAdd
    <3> QED BY <2>2, <3>1, <3>3
  <2> QED BY <2>1, <2>2
<1>3. line' = 1 + Newlines(0, pos + n) /\ startLine' = 1 + Newlines(0, start')
  BY <1>2 DEF Goto, IInv, Counted
<1>4. start' \in 0..(pos + n) /\ start <= start' /\ pos' = pos + n /\ state' = f /\ UNCHANGED items
  BY Basics DEF Goto
<1> QED BY <1>1, <1>3, <1>4, GoesKeeps
-----------------------------------------------------------------------------
(* One lemma for each action.                                                *)
LEMMA NextItemKeeps == ASSUME IInv, NextItem PROVE IInv'
<1>1. input' = input /\ options' = options /\ state # "done" /\ Kept
  BY Basics DEF NextItem, Kept
<1>2. state' \in {"insideAction", "text"} /\ state = "parser"
  BY DEF NextItem
<1>3. start = pos
  BY <1>2 DEF IInv, Here, Inside1
<1>4. Here'
  BY <1>2, <1>3 DEF NextItem, Here, Inside1, place
<1>5. /\ pos' = pos /\ start' = start /\ UNCHANGED items /\ pos \in 0..Len(input)
      /\ start' \in 0..pos /\ start <= start'
  BY Basics DEF NextItem, place
<1>6. line' = 1 + Newlines(0, pos) /\ startLine' = 1 + Newlines(0, start')
  BY <1>1, <1>5 DEF NextItem, IInv, Counted, place
<1>7. state' \in States \ {"done"}
  BY <1>2 DEF States
<1> QED BY <1>1, <1>4, <1>5, <1>6, <1>7, GoesKeeps

(* A step without an item that skips to e, where its state function begins.  *)
LEMMA MoveKeeps ==
    ASSUME IInv, Kept, UNCHANGED items, state # "done", NEW f \in States \ {"done"}, state' = f,
           NEW e \in 0..Len(input), start <= e, NEW l, l = 1 + Newlines(0, e), MoveTo(e, l), Here'
    PROVE  IInv'
<1>1. pos' = e /\ start' \in 0..e /\ start <= start' /\ line' = l /\ startLine' = 1 + Newlines(0, start')
  BY DEF MoveTo
<1> QED BY <1>1, GoesKeeps

LEMMA LexTextKeeps == ASSUME IInv, LexText PROVE IInv'
<1> PICK x : x = Index(pos, "left")
  OBVIOUS
<1> PICK t : t = IF HasLeftTrimMarker(x + 1) THEN RunStart(start, x, Space) ELSE x
  OBVIOUS
<1>1. input' = input /\ options' = options /\ state # "done" /\ state = "text" /\ start = pos
  BY DEF LexText, IInv, Here, Inside1
<1>2. Kept
  BY Basics DEF LexText, Kept
<1>3. x \in start..Len(input) /\ (x < Len(input) => At(x) = "left") /\ x \in Nat
  <2>1. Index(pos, "left") \in pos..Len(input)
        /\ (Index(pos, "left") < Len(input) => At(Index(pos, "left")) = "left")
    BY Basics, IndexIs
  <2> QED BY <1>1, <2>1, Basics
<1>4. t \in start..x /\ t \in Nat
  <2>1. RunStart(start, x, Space) \in start..x
    BY <1>3, Basics, RunStartIs
  <2> QED BY <2>1, <1>3, Basics
<1>5. /\ line + Newlines(start, t) = 1 + Newlines(0, t)
      /\ line + Newlines(start, x) = 1 + Newlines(0, x)
  BY <1>1, <1>3, <1>4, LineAt
<1>6. CASE x = Len(input) /\ x > start /\ EmitAndSkip("text", x, line + Newlines(start, x), x)
  <2>1. x \in 0..Len(input) /\ start < x
    BY <1>3, <1>6, Basics
  <2>2. "text" \in ItemTypes
    BY DEF ItemTypes
  <2> QED BY <1>1, <1>2, <1>3, <1>5, <1>6, <2>1, <2>2, SkipKeeps
<1>7. CASE /\ x = Len(input) /\ x = start
           /\ items' = Append(items, Item("EOF", start, x, startLine))
           /\ state' = "done" /\ UNCHANGED place
  <2>1. pos' \in 0..Len(input) /\ start' \in 0..pos' /\ line' \in Nat /\ startLine' \in Nat
    BY <1>7, Basics DEF place
  <2>2. "EOF" \in {"EOF", "error"}
    OBVIOUS
  <2> QED BY <1>1, <1>2, <1>3, <1>7, <2>1, <2>2, LastKeeps
<1>8. CASE x < Len(input) /\ t > start /\ EmitAndSkip("text", t, line + Newlines(start, t), x)
  <2>1. x \in 0..Len(input) /\ start < t /\ t <= x
    BY <1>3, <1>4, <1>8, Basics
  <2>2. "text" \in ItemTypes
    BY DEF ItemTypes
  <2> QED BY <1>1, <1>2, <1>4, <1>5, <1>8, <2>1, <2>2, SkipKeeps
<1>9. CASE /\ x < Len(input) /\ t = start
           /\ MoveTo(x, line + Newlines(start, t) + Newlines(t, x))
           /\ state' = "leftDelim" /\ UNCHANGED items
  <2>1. line + Newlines(start, t) + Newlines(t, x) = 1 + Newlines(0, x)
    BY <1>3, <1>4, <1>5, Split
  <2>2. At(x)' = "left"
    BY <1>1, <1>3, <1>9, SameText
  <2>3. pos' = x /\ start' = x
    BY <1>9 DEF MoveTo
  <2>4. Here'
    BY <1>9, <2>2, <2>3 DEF Here, Inside1
  <2>5. "leftDelim" \in States \ {"done"} /\ x \in 0..Len(input) /\ start <= x
    BY <1>3, <1>9, Basics DEF States
  <2> QED BY <1>1, <1>2, <1>9, <2>1, <2>4, <2>5, MoveKeeps
<1> QED BY <1>6, <1>7, <1>8, <1>9 DEF LexText

LEMMA LexLeftDelimKeeps == ASSUME IInv, LexLeftDelim PROVE IInv'
<1> PICK p : p = pos + 1
  OBVIOUS
<1> PICK q : q = IF HasLeftTrimMarker(p) THEN p + TrimMarkerLen ELSE p
  OBVIOUS
<1>1. /\ input' = input /\ options' = options /\ state # "done" /\ state = "leftDelim" /\ start = pos
      /\ At(pos) = "left"
  BY DEF LexLeftDelim, IInv, Here, Inside1
<1>2. p \in 0..Len(input) /\ p \in Nat /\ start < p /\ pos <= p
  <2>1. pos \in Nat /\ At(pos) # "eof"
    BY <1>1, Basics
  <2> QED BY <1>1, <2>1, Within
<1>3. q \in Nat /\ p <= q /\ q \in 0..Len(input)
  <2>1. CASE HasLeftTrimMarker(p)
    <3>1. At(p + 1) # "eof" /\ p + 1 \in Nat
      BY <2>1, <1>2 DEF HasLeftTrimMarker, Space
    <3>2. p + 1 + 1 \in 0..Len(input)
      BY <3>1, Within
    <3> QED BY <2>1, <3>2, <1>2 DEF TrimMarkerLen
  <2>2. CASE ~HasLeftTrimMarker(p)
    BY <2>2, <1>2
  <2> QED BY <2>1, <2>2
<1>4. line = 1 + Newlines(0, p)
  <2>1. Newlines(pos, pos + 1) = 0
    BY <1>1, Basics, NoNewline
  <2>2. line + Newlines(pos, p) = 1 + Newlines(0, p)
    BY <1>1, <1>2, LineAt
  <2> QED BY <2>1, <2>2, Basics
<1>5. line + Newlines(start, q) = 1 + Newlines(0, q)
  BY <1>1, <1>2, <1>3, LineAt, Basics
<1>6. CASE /\ At(q) = "lcomment" /\ MoveTo(q, line + Newlines(start, q)) /\ state' = "comment"
           /\ UNCHANGED <<insideAction, parenDepth, items>>
  <2>1. At(q)' = "lcomment"
    BY <1>1, <1>6, SameText
  <2>2. Kept /\ start <= q
    BY <1>1, <1>2, <1>3, <1>6, Basics DEF Kept
  <2>3. pos' = q /\ start' = q
    BY <1>6 DEF MoveTo
  <2>4. Here'
    BY <1>6, <2>1, <2>3 DEF Here, Inside1
  <2>5. "comment" \in States \ {"done"} /\ UNCHANGED items
    BY <1>6 DEF States
  <2> QED BY <1>1, <1>3, <1>5, <1>6, <2>2, <2>4, <2>5, MoveKeeps
<1>7. CASE EmitAndSkip("leftDelim", p, line, q) /\ insideAction' = TRUE /\ parenDepth' = 0
  <2>1. Kept
    BY <1>1, <1>7 DEF Kept
  <2>2. "leftDelim" \in ItemTypes
    BY DEF ItemTypes
  <2> QED BY <1>1, <1>2, <1>3, <1>4, <1>7, <2>1, <2>2, SkipKeeps
<1> QED BY <1>6, <1>7 DEF LexLeftDelim

LEMMA LexCommentKeeps == ASSUME IInv, LexComment PROVE IInv'
<1> PICK x : x = Index(pos + 1, "rcomment")
  OBVIOUS
<1> PICK q : q = x + 1
  OBVIOUS
<1> PICK e : e = IF TrimmedRightDelim(q) THEN RunEnd(q + TrimMarkerLen + 1, Space) ELSE q + 1
  OBVIOUS
<1>1. /\ input' = input /\ options' = options /\ state # "done" /\ state = "comment" /\ start = pos
      /\ At(pos) = "lcomment" /\ parenDepth' \in Int
  BY Basics DEF LexComment, IInv, Here, Inside1
<1>2. pos + 1 \in 0..Len(input) /\ pos + 1 \in Nat
  <2>1. pos \in Nat /\ At(pos) # "eof"
    BY <1>1, Basics
  <2> QED BY <2>1, Within
<1>3. x \in (pos + 1)..Len(input)
  <2>1. Index(pos + 1, "rcomment") \in (pos + 1)..Len(input)
    BY <1>2, Basics, IndexIs
  <2> QED BY <2>1
<1>4. CASE Errorf
  BY <1>1, <1>4, ErrorKeeps
<1>5. CASE /\ x < Len(input) /\ AtRightDelim(q) /\ UNCHANGED insideAction
           /\ \/ EmitAndSkip("comment", q, line + Newlines(start, q), e)
              \/ /\ MoveTo(e, line + Newlines(start, q) + Newlines(q, e))
                 /\ state' = "text" /\ UNCHANGED items
  <2>1. q \in Nat /\ start < q /\ Kept
    BY <1>1, <1>3, <1>5, Basics DEF Kept
  <2>2. e \in 0..Len(input) /\ q <= e
    <3>1. CASE TrimmedRightDelim(q)
      <4>1. At(q + 2) # "eof" /\ q + 2 \in Nat
        BY <2>1, <3>1 DEF TrimmedRightDelim, TrimMarkerLen
      <4>2. q + 2 + 1 \in 0..Len(input)
        BY <4>1, Within
      <4>3. RunEnd(q + 2 + 1, Space) \in (q + 2 + 1)..Len(input)
        BY <4>1, <4>2, Basics, RunEndIs
      <4> QED BY <2>1, <3>1, <4>2, <4>3 DEF TrimMarkerLen
    <3>2. CASE ~TrimmedRightDelim(q)
      <4>1. At(q) # "eof"
        BY <1>5, <3>2 DEF AtRightDelim
      <4> QED BY <2>1, <3>2, <4>1, Within
    <3> QED BY <3>1, <3>2
  <2>3. line + Newlines(start, q) = 1 + Newlines(0, q)
    BY <1>1, <2>1, Basics, LineAt
  <2>4. CASE EmitAndSkip("comment", q, line + Newlines(start, q), e)
    <3>1. "comment" \in ItemTypes
      BY DEF ItemTypes
    <3> QED BY <1>1, <2>1, <2>2, <2>3, <2>4, <3>1, SkipKeeps
  <2>5. CASE /\ MoveTo(e, line + Newlines(start, q) + Newlines(q, e))
             /\ state' = "text" /\ UNCHANGED items
    <3>1. line + Newlines(start, q) + Newlines(q, e) = 1 + Newlines(0, e)
      BY <2>1, <2>2, <2>3, Split
    <3>2. pos' = e /\ start' = e
      BY <2>5 DEF MoveTo
    <3>3. Here'
      BY <2>5, <3>2 DEF Here, Inside1
    <3>4. "text" \in States \ {"done"} /\ start <= e
      BY <2>1, <2>2, Basics DEF States
    <3> QED BY <1>1, <2>1, <2>2, <2>5, <3>1, <3>3, <3>4, MoveKeeps
  <2> QED BY <1>5, <2>4, <2>5
<1> QED BY <1>4, <1>5 DEF LexComment

LEMMA LexRightDelimKeeps == ASSUME IInv, LexRightDelim PROVE IInv'
<1> PICK p : p = IF TrimmedRightDelim(pos) THEN pos + TrimMarkerLen ELSE pos
  OBVIOUS
<1> PICK q : q = p + 1
  OBVIOUS
<1> PICK e : e = IF TrimmedRightDelim(pos) THEN RunEnd(q, Space) ELSE q
  OBVIOUS
<1>1. /\ input' = input /\ options' = options /\ state # "done" /\ state = "rightDelim" /\ start = pos
      /\ AtRightDelim(pos) /\ Kept
  BY Basics DEF LexRightDelim, IInv, Here, Inside1, Kept
<1>2. p \in Nat /\ start <= p /\ At(p) = "right"
  BY <1>1, Basics DEF AtRightDelim, TrimmedRightDelim, TrimMarkerLen
<1>3. q \in 0..Len(input) /\ q \in Nat
  <2>1. At(p) # "eof"
    BY <1>2
  <2> QED BY <1>2, <2>1, Within
<1>4. e \in 0..Len(input) /\ q <= e
  <2>1. RunEnd(q, Space) \in q..Len(input)
    BY <1>3, Basics, RunEndIs
  <2> QED BY <1>3, <2>1
<1>5. line + Newlines(start, p) = 1 + Newlines(0, p)
  BY <1>1, <1>2, LineAt
<1>6. 1 + Newlines(0, p) + Newlines(q, e) = 1 + Newlines(0, e)
  <2>1. Newlines(p, p + 1) = 0
    BY <1>2, NoNewline
  <2>2. Newlines(p, q) = 0
    BY <2>1
  <2>3. p <= q /\ q <= e /\ e \in Nat
    BY <1>2, <1>3, <1>4
  <2>4. 1 + Newlines(0, q) = 1 + Newlines(0, p) + Newlines(p, q)
    BY <1>2, <1>3, <2>3, Split
  <2>5. 1 + Newlines(0, e) = 1 + Newlines(0, q) + Newlines(q, e)
    BY <1>3, <2>3, Split
  <2>6. Newlines(0, p) \in Nat
    <3>1. 0 \in Nat /\ 0 <= p
      BY <1>2
    <3> QED BY <1>2, <3>1, NewlinesAdd
  <2> QED BY <2>2, <2>4, <2>5, <2>6
<1>7. /\ items' = Append(items, Item("rightDelim", p, q, line + Newlines(start, p)))
      /\ MoveTo(e, line + Newlines(start, p) + Newlines(q, e)) /\ state' = "parser"
  BY DEF LexRightDelim
<1>8. Gives("rightDelim", p, q, e)
  BY <1>2, <1>4, <1>5, <1>6, <1>7 DEF Gives, MoveTo
<1>9. "rightDelim" \in ItemTypes
  BY DEF ItemTypes
<1> QED BY <1>1, <1>2, <1>3, <1>4, <1>8, <1>9, GivesKeeps

(* Symbols that are not the end and not a newline.                           *)
LEMMA Distinct ==
    /\ \A c \in Quotes \cup Signs \cup AlphaNumeric \cup {"dot"} : c # "nl" /\ c # "eof" /\ c \notin Space
    /\ \A c \in Space : c # "eof"
    /\ "eof" \in Special
  BY DEF Quotes, Signs, AlphaNumeric, Decimal, Words, Space, Special

LEMMA LexInsideActionKeeps == ASSUME IInv, LexInsideAction PROVE IInv'
<1> PICK c : c = At(pos)
  OBVIOUS
<1>1. /\ input' = input /\ options' = options /\ state # "done" /\ state = "insideAction" /\ start = pos
      /\ pos \in Nat /\ start \in Nat /\ parenDepth \in Int /\ pos <= Len(input)
  BY Basics DEF LexInsideAction, IInv, Here, Inside1
<1>2. CASE Errorf /\ parenDepth' \in Int
  BY <1>1, <1>2, ErrorKeeps
<1>3. CASE Goto("rightDelim", 0) /\ AtRightDelim(pos) /\ parenDepth' \in Int
  <2>1. AtRightDelim(pos)' /\ pos' = pos /\ start' = start /\ state' = "rightDelim"
    <3>1. pos' = pos
      BY <1>1, <1>3 DEF Goto
    <3> QED BY <1>1, <1>3, <3>1, SameText DEF Goto
  <2>2. Here'
    BY <1>1, <2>1 DEF Here, Inside1
  <2>3. "rightDelim" \in States \ {"done"}
    BY DEF States
  <2> QED BY <1>1, <1>3, <2>2, <2>3, GotoKeeps
<1>4. ASSUME NEW f \in {"space", "number", "identifier"}, Goto(f, 0), parenDepth' \in Int,
             f = "space" => c \in Space, f = "number" => StartsNumber(pos),
             f = "identifier" => c \in AlphaNumeric
      PROVE  IInv'
  <2>1. pos' = pos /\ start' = start /\ state' = f
    BY <1>1, <1>4 DEF Goto
  <2>2. At(pos)' = At(pos) /\ StartsNumber(pos)' = StartsNumber(pos)
    BY <1>1, <2>1, SameText
  <2>3. Here'
    BY <1>1, <1>4, <2>1, <2>2 DEF Here, Inside1
  <2>4. f \in States \ {"done"}
    BY DEF States
  <2> QED BY <1>1, <1>4, <2>3, <2>4, GotoKeeps
<1>5. ASSUME NEW f \in Inside1, Goto(f, 1), parenDepth' \in Int, c \in Quotes \cup {"dot"} PROVE IInv'
  <2>1. At(pos) # "nl" /\ At(pos) # "eof"
    BY <1>5, Distinct
  <2>2. pos + 1 \in 0..Len(input)
    BY <1>1, <2>1, Within
  <2>3. pos' = pos + 1 /\ start' = start /\ state' = f
    BY <1>5 DEF Goto
  <2>4. Here'
    BY <1>1, <2>3 DEF Here, Inside1
  <2>5. f \in States \ {"done"}
    BY DEF States, Inside1
  <2> QED BY <1>1, <1>5, <2>1, <2>2, <2>4, <2>5, GotoKeeps
<1>6. ASSUME NEW typ \in ItemTypes, NEW n \in {1, 2}, Emit(typ, pos + n), parenDepth' \in Int,
             c # "eof", n = 2 => At(pos + 1) # "eof"
      PROVE  IInv'
  <2>1. pos + 1 \in 0..Len(input)
    BY <1>1, <1>6, Within
  <2>2. pos + n \in 0..Len(input)
    <3>1. CASE n = 2
      <4>1. pos + 1 + 1 \in 0..Len(input)
        BY <1>1, <1>6, <3>1, Within
      <4> QED BY <1>1, <3>1, <4>1
    <3> QED BY <2>1, <3>1
  <2>3. pos <= pos + n /\ start < pos + n
    BY <1>1
  <2> QED BY <1>1, <1>6, <2>2, <2>3, EmitKeeps
<1>7. CASE AtRightDelim(pos)
  BY <1>1, <1>2, <1>3, <1>7 DEF LexInsideAction
<1>8. CASE ~AtRightDelim(pos)
  <2>1. CASE c \in Space /\ Goto("space", 0) /\ UNCHANGED parenDepth
    BY <1>1, <1>4, <2>1
  <2>2. CASE c \notin Special /\ Emit(ItemOf(c), pos + 1) /\ UNCHANGED parenDepth
    <3>1. ItemOf(c) \in ItemTypes /\ c # "eof"
      BY <2>2, Distinct DEF ItemOf, ItemTypes
    <3> QED BY <1>1, <1>6, <2>2, <3>1
  <2>3. CASE /\ c = "colon" /\ UNCHANGED parenDepth
             /\ IF At(pos + 1) = "equals" THEN Emit("declare", pos + 2) ELSE Errorf
    <3>1. "declare" \in ItemTypes
      BY DEF ItemTypes
    <3> QED BY <1>1, <1>2, <1>6, <2>3, <3>1
  <2>4. CASE /\ (c \in Quotes \/ (c = "dot" /\ ~StartsNumber(pos))) /\ UNCHANGED parenDepth
             /\ Goto(ScannerOf(c), 1)
    <3>1. ScannerOf(c) \in Inside1
      BY <2>4 DEF ScannerOf, Inside1, Quotes
    <3> QED BY <1>1, <1>5, <2>4, <3>1
  <2>5. CASE StartsNumber(pos) /\ Goto("number", 0) /\ UNCHANGED parenDepth
    BY <1>1, <1>4, <2>5
  <2>6. CASE c \in AlphaNumeric /\ UNCHANGED parenDepth /\ Goto("identifier", 0)
    BY <1>1, <1>4, <2>6
  <2>7. CASE /\ c = "lparen" /\ parenDepth' = parenDepth + 1 /\ Emit("leftParen", pos + 1)
    <3>1. "leftParen" \in ItemTypes
      BY DEF ItemTypes
    <3> QED BY <1>1, <1>6, <2>7, <3>1
  <2>8. CASE /\ c = "rparen" /\ parenDepth' = parenDepth - 1
             /\ IF parenDepth = 0 THEN Errorf ELSE Emit("rightParen", pos + 1)
    <3>1. "rightParen" \in ItemTypes
      BY DEF ItemTypes
    <3> QED BY <1>1, <1>2, <1>6, <2>8, <3>1
  <2>9. CASE Errorf /\ UNCHANGED parenDepth
    BY <1>1, <1>2, <2>9
  <2> QED BY <1>8, <2>1, <2>2, <2>3, <2>4, <2>5, <2>6, <2>7, <2>8, <2>9 DEF LexInsideAction
<1> QED BY <1>7, <1>8

LEMMA LexSpaceKeeps == ASSUME IInv, LexSpace PROVE IInv'
<1> PICK q : q = RunEnd(pos, Space)
  OBVIOUS
<1>1. /\ input' = input /\ options' = options /\ state # "done" /\ state = "space" /\ start = pos
      /\ At(pos) \in Space /\ parenDepth' \in Int /\ pos \in Nat
  BY Basics DEF LexSpace, IInv, Here, Inside1
<1>2. q \in Nat /\ q \in 0..Len(input) /\ pos < q
  <2>1. /\ RunEnd(pos, Space) \in pos..Len(input)
        /\ RunEnd(pos, Space) < Len(input) => At(RunEnd(pos, Space)) \notin Space
    BY Basics, RunEndIs
  <2>2. pos + 1 \in 0..Len(input)
    BY <1>1, Distinct, Within
  <2> QED BY <1>1, <2>1, <2>2, Basics
<1>3. "space" \in ItemTypes
  BY DEF ItemTypes
<1>4. CASE Emit("space", q)
  BY <1>1, <1>2, <1>3, <1>4, EmitKeeps
<1>5. CASE q - pos # 1 /\ Emit("space", q - 1)
  <2>1. q - 1 \in 0..Len(input) /\ pos <= q - 1 /\ start < q - 1
    BY <1>1, <1>2, <1>5
  <2> QED BY <1>1, <1>3, <1>5, <2>1, EmitKeeps
<1>6. CASE q - pos = 1 /\ TrimmedRightDelim(q - 1) /\ Goto("rightDelim", 0)
  <2>1. AtRightDelim(pos)
    <3>1. q - 1 = pos
      BY <1>1, <1>2, <1>6
    <3> QED BY <1>6, <3>1 DEF AtRightDelim
  <2>2. pos' = pos /\ start' = start /\ state' = "rightDelim"
    BY <1>1, <1>6 DEF Goto
  <2>3. Here'
    BY <1>1, <2>1, <2>2, SameText DEF Here, Inside1
  <2>4. "rightDelim" \in States \ {"done"} /\ pos + 0 <= Len(input)
    BY <1>1, Basics DEF States
  <2> QED BY <1>1, <1>6, <2>3, <2>4, GotoKeeps
<1> QED BY <1>4, <1>5, <1>6 DEF LexSpace

LEMMA LexIdentifierKeeps == ASSUME IInv, LexIdentifier PROVE IInv'
<1> PICK q : q = RunEnd(pos, AlphaNumeric)
  OBVIOUS
<1>1. /\ input' = input /\ options' = options /\ state # "done" /\ start = pos
      /\ At(pos) \in AlphaNumeric /\ parenDepth' \in Int /\ pos \in Nat
  BY Basics DEF LexIdentifier, IInv, Here, Inside1
<1>2. q \in 0..Len(input) /\ pos < q
  <2>1. /\ RunEnd(pos, AlphaNumeric) \in pos..Len(input)
        /\ RunEnd(pos, AlphaNumeric) < Len(input) => At(RunEnd(pos, AlphaNumeric)) \notin AlphaNumeric
    BY Basics, RunEndIs
  <2>2. pos + 1 \in 0..Len(input)
    BY <1>1, Distinct, Within
  <2> QED BY <1>1, <2>1, <2>2, Basics
<1>3. CASE Emit(WordType(SubSeq(input, pos + 1, q)), q)
  <2>1. WordType(SubSeq(input, pos + 1, q)) \in ItemTypes
    BY DEF WordType, ItemTypes
  <2> QED BY <1>1, <1>2, <1>3, <2>1, EmitKeeps
<1>4. CASE Errorf
  BY <1>1, <1>4, ErrorKeeps
<1> QED BY <1>3, <1>4 DEF LexIdentifier

LEMMA LexFieldOrVariableKeeps == ASSUME IInv, LexFieldOrVariable PROVE IInv'
<1> PICK q : q = RunEnd(pos, AlphaNumeric)
  OBVIOUS
<1> PICK typ : typ = IF q = pos /\ state = "field" THEN "dot" ELSE state
  OBVIOUS
<1>1. /\ input' = input /\ options' = options /\ state # "done" /\ start < pos
      /\ parenDepth' \in Int /\ pos \in Nat /\ start \in Nat
  BY Basics DEF LexFieldOrVariable, IInv, Here, Inside1
<1>2. q \in 0..Len(input) /\ pos <= q
  <2>1. RunEnd(pos, AlphaNumeric) \in pos..Len(input)
    BY Basics, RunEndIs
  <2> QED BY <1>1, <2>1
<1>3. typ \in ItemTypes
  BY DEF LexFieldOrVariable, ItemTypes
<1>4. CASE Emit(typ, q)
  <2>1. start < q
    BY <1>1, <1>2
  <2> QED BY <1>1, <1>2, <1>3, <1>4, <2>1, EmitKeeps
<1>5. CASE Errorf
  BY <1>1, <1>5, ErrorKeeps
<1> QED BY <1>4, <1>5 DEF LexFieldOrVariable

LEMMA LexQuotedKeeps ==
    ASSUME IInv, NEW f \in Inside1, NEW c \in {"dq", "sq"}, NEW typ \in ItemTypes, LexQuoted(f, c, typ)
    PROVE  IInv'
<1>1. /\ input' = input /\ options' = options /\ state # "done" /\ start < pos
      /\ parenDepth' \in Int /\ pos \in Nat /\ start \in Nat
  BY Basics DEF LexQuoted, IInv, Here, Inside1
<1>2. ASSUME NEW q \in pos..Len(input), Closes(pos, q, c), Emit(typ, q + 1) PROVE IInv'
  <2>1. q \in Nat /\ At(q) # "eof"
    BY <1>1, <1>2 DEF Closes
  <2>2. q + 1 \in 0..Len(input)
    BY <2>1, Within
  <2>3. pos <= q + 1 /\ start < q + 1
    BY <1>1, <2>1
  <2> QED BY <1>1, <1>2, <2>2, <2>3, EmitKeeps
<1>3. CASE Errorf
  BY <1>1, <1>3, ErrorKeeps
<1> QED BY <1>2, <1>3 DEF LexQuoted

LEMMA LexRawQuoteKeeps == ASSUME IInv, LexRawQuote PROVE IInv'
<1> PICK x : x = Index(pos, "bq")
  OBVIOUS
<1>1. /\ input' = input /\ options' = options /\ state # "done" /\ start < pos
      /\ parenDepth' \in Int /\ pos \in Nat /\ start \in Nat /\ Len(input) \in Nat
  BY Basics DEF LexRawQuote, IInv, Here, Inside1
<1>2. x \in pos..Len(input)
  <2>1. Index(pos, "bq") \in pos..Len(input)
    BY Basics, IndexIs
  <2> QED BY <2>1
<1>3. CASE x # Len(input) /\ Emit("rawString", x + 1)
  <2>1. x + 1 \in 0..Len(input) /\ pos <= x + 1 /\ start < x + 1
    BY <1>1, <1>2, <1>3
  <2>2. "rawString" \in ItemTypes
    BY DEF ItemTypes
  <2> QED BY <1>1, <1>3, <2>1, <2>2, EmitKeeps
<1>4. CASE Errorf
  BY <1>1, <1>4, ErrorKeeps
<1> QED BY <1>3, <1>4 DEF LexRawQuote

(* A number's scan stays within the text, and passes the number's first      *)
(* symbol, which is a sign, a digit or a dot.                                *)
LEMMA AcceptIs ==
    ASSUME IInv, NEW p \in 0..Len(input), NEW S, "eof" \notin S
    PROVE  Accept(p, S) \in p..Len(input) /\ (At(p) \in S => p < Accept(p, S))
<1>1. p \in Nat /\ p <= Len(input)
  BY Basics
<1>2. CASE At(p) \in S
  <2>1. p + 1 \in 0..Len(input)
    BY <1>1, <1>2, Within
  <2> QED BY <1>1, <1>2, <2>1 DEF Accept
<1>3. CASE At(p) \notin S
  BY <1>1, <1>3, Basics DEF Accept
<1> QED BY <1>2, <1>3

LEMMA RunIs ==
    ASSUME IInv, NEW p \in 0..Len(input), NEW S
    PROVE  RunEnd(p, S) \in p..Len(input) /\ (At(p) \in S => p < RunEnd(p, S) \/ p = Len(input))
<1>1. p \in Nat /\ p <= Len(input) /\ input \in Seq(Symbols)
  BY Basics
<1>2. /\ RunEnd(p, S) \in p..Len(input)
      /\ RunEnd(p, S) < Len(input) => At(RunEnd(p, S)) \notin S
  BY <1>1, RunEndIs
<1> QED BY <1>1, <1>2, Basics

LEMMA ScanNumberIs ==
    ASSUME IInv, NEW p \in 0..Len(input)
    PROVE  ScanNumber(p) \in p..Len(input) /\ (StartsNumber(p) => p < ScanNumber(p))
<1> PICK s : s = Accept(p, Signs)
  OBVIOUS
<1> PICK base : base = IF At(s) = "0" /\ At(s + 1) \in {"x", "o", "b"} THEN At(s + 1) ELSE "d"
  OBVIOUS
<1> PICK digits : digits = CASE base = "d" -> Decimal [] base = "x" -> HexDigits
                             [] base = "o" -> Decimal \ {"9"} [] base = "b" -> Decimal \ {"9"}
  OBVIOUS
<1> PICK w : w = IF base = "d" THEN s ELSE s + 2
  OBVIOUS
<1> PICK whole : whole = RunEnd(w, digits)
  OBVIOUS
<1> PICK frac : frac = IF At(whole) = "dot" THEN RunEnd(whole + 1, digits) ELSE whole
  OBVIOUS
<1> PICK exp : exp = CASE base = "d" -> Exponent(frac, "e") [] base = "x" -> Exponent(frac, "p")
                       [] OTHER -> frac
  OBVIOUS
<1>1. ScanNumber(p) = Accept(exp, {"i"})
  BY DEF ScanNumber
<1>2. p \in Nat /\ Len(input) \in Nat
  BY Basics
<1>3. "eof" \notin Signs /\ Decimal \subseteq AlphaNumeric
  BY DEF Signs, Decimal, AlphaNumeric
<1>4. s \in p..Len(input) /\ (At(p) \in Signs => p < s) /\ (At(p) \notin Signs => s = p)
  BY <1>3, AcceptIs DEF Accept
<1>5. w \in s..Len(input) /\ (base # "d" => s < w)
  <2>1. CASE base # "d"
    <3>1. At(s + 1) # "eof" /\ s + 1 \in Nat /\ s \in Nat
      BY <2>1, <1>2, <1>4
    <3>2. s + 1 + 1 \in 0..Len(input)
      BY <3>1, Within
    <3> QED BY <2>1, <3>1, <3>2, <1>2
  <2>2. CASE base = "d"
    BY <2>2, <1>4, <1>2
  <2> QED BY <2>1, <2>2
<1>6. whole \in w..Len(input) /\ w \in 0..Len(input) /\ whole \in 0..Len(input)
  <2>1. w \in 0..Len(input)
    BY <1>2, <1>4, <1>5
  <2> QED BY <2>1, <1>2, RunIs
<1>7. frac \in whole..Len(input) /\ (At(whole) = "dot" => whole < frac) /\ frac \in 0..Len(input)
  <2>1. CASE At(whole) = "dot"
    <3>1. whole + 1 \in 0..Len(input)
      BY <2>1, <1>6, Within
    <3>2. RunEnd(whole + 1, digits) \in (whole + 1)..Len(input)
      BY <3>1, RunIs
    <3> QED BY <2>1, <3>2, <1>2, <1>6
  <2>2. CASE At(whole) # "dot"
    BY <2>2, <1>2, <1>6
  <2> QED BY <2>1, <2>2
<1>8. \A e \in {"e", "p"} : Exponent(frac, e) \in frac..Len(input)
  <2> TAKE e \in {"e", "p"}
  <2>1. CASE At(frac) = e
    <3>1. frac + 1 \in 0..Len(input)
      BY <2>1, <1>7, Within
    <3>2. Accept(frac + 1, Signs) \in (frac + 1)..Len(input)
      BY <1>3, <3>1, AcceptIs
    <3>3. Accept(frac + 1, Signs) \in 0..Len(input)
      BY <1>2, <3>1, <3>2
    <3>4. RunEnd(Accept(frac + 1, Signs), Decimal) \in Accept(frac + 1, Signs)..Len(input)
      BY <3>3, RunIs, SMTT(30)
    <3> QED BY <2>1, <1>2, <1>7, <3>2, <3>4 DEF Exponent
  <2>2. CASE At(frac) # e
    BY <2>2, <1>2, <1>7 DEF Exponent
  <2> QED BY <2>1, <2>2, SMTT(30)
<1>9. exp \in frac..Len(input) /\ exp \in 0..Len(input)
  <2>1. exp \in {Exponent(frac, "e"), Exponent(frac, "p"), frac}
    <3>1. CASE base = "d"
      BY <3>1, SMTT(30)
    <3>2. CASE base = "x"
      BY <3>2
    <3>3. CASE base # "d" /\ base # "x"
      BY <3>3
    <3> QED BY <3>1, <3>2, <3>3, Zenon
  <2>2. Exponent(frac, "e") \in frac..Len(input) /\ Exponent(frac, "p") \in frac..Len(input)
    BY <1>8
  <2>3. frac \in 0..Len(input) /\ frac \in Nat /\ frac \in frac..Len(input)
    BY <1>2, <1>7
  <2>4. \A n \in frac..Len(input) : n \in 0..Len(input)
    BY <1>2, <2>3, SMTT(30)
  <2> QED BY <2>1, <2>2, <2>3, <2>4, Zenon
<1>10. Accept(exp, {"i"}) \in exp..Len(input)
  <2>1. "eof" \notin {"i"}
    OBVIOUS
  <2> QED BY <1>9, <2>1, AcceptIs
<1>11. ScanNumber(p) \in frac..Len(input)
  <2>1. frac \in Nat /\ exp \in Nat /\ frac <= exp
    BY <1>2, <1>7, <1>9
  <2>2. \A n \in exp..Len(input) : n \in frac..Len(input)
    BY <1>2, <2>1
  <2> QED BY <1>1, <1>10, <2>2
<1>12. ASSUME StartsNumber(p) PROVE p < frac
  <2>1. CASE At(p) \in Signs
    BY <2>1, <1>2, <1>4, <1>5, <1>6, <1>7
  <2>2. CASE base # "d"
    BY <2>2, <1>2, <1>4, <1>5, <1>6, <1>7
  <2>3. CASE At(p) \notin Signs /\ base = "d" /\ At(p) \in Digits
    <3>1. w = p /\ digits = Decimal /\ At(p) \in Decimal /\ At(p) # "eof"
      BY <2>3, <1>4 DEF Digits, Decimal
    <3>2. p + 1 \in 0..Len(input)
      BY <1>2, <3>1, Within
    <3>3. p < whole
      BY <1>2, <1>6, <3>1, <3>2, RunIs
    <3> QED BY <1>2, <1>6, <1>7, <3>3
  <2>4. CASE At(p) \notin Signs /\ base = "d" /\ At(p) = "dot"
    <3>1. w = p /\ digits = Decimal /\ At(p) \notin Decimal
      BY <2>4, <1>4 DEF Decimal
    <3>2. whole = p \/ p < whole
      BY <1>2, <1>6, <3>1
    <3> QED BY <1>2, <1>6, <1>7, <2>4, <3>2
  <2> QED BY <1>12, <2>1, <2>2, <2>3, <2>4 DEF StartsNumber
<1> QED BY <1>2, <1>6, <1>7, <1>11, <1>12, <1>5, <1>4

LEMMA LexNumberKeeps == ASSUME IInv, LexNumber PROVE IInv'
<1> PICK q : q = ScanNumber(pos)
  OBVIOUS
<1> PICK r : r = ScanNumber(q)
  OBVIOUS
<1>1. /\ input' = input /\ options' = options /\ state # "done" /\ start = pos /\ StartsNumber(pos)
      /\ parenDepth' \in Int /\ pos \in Nat /\ start \in Nat /\ Len(input) \in Nat /\ pos \in 0..Len(input)
  BY Basics DEF LexNumber, IInv, Here, Inside1
<1>2. q \in 0..Len(input) /\ pos < q
  <2>1. ScanNumber(pos) \in pos..Len(input) /\ pos < ScanNumber(pos)
    BY <1>1, ScanNumberIs
  <2> QED BY <1>1, <2>1
<1>3. r \in 0..Len(input) /\ q <= r
  <2>1. ScanNumber(q) \in q..Len(input)
    BY <1>2, ScanNumberIs
  <2> QED BY <1>1, <1>2, <2>1
<1>4. "number" \in ItemTypes /\ "complex" \in ItemTypes
  BY DEF ItemTypes
<1>5. CASE Errorf
  BY <1>1, <1>5, ErrorKeeps
<1>6. CASE Emit("number", q)
  BY <1>1, <1>2, <1>4, <1>6, EmitKeeps
<1>7. CASE Emit("complex", r)
  <2>1. pos <= r /\ start < r
    BY <1>1, <1>2, <1>3
  <2> QED BY <1>1, <1>3, <1>4, <1>7, <2>1, EmitKeeps
<1> QED BY <1>5, <1>6, <1>7 DEF LexNumber
-----------------------------------------------------------------------------
LEMMA InitIInv == Init => IInv
<1> SUFFICES ASSUME Init PROVE IInv
  OBVIOUS
<1>1. TypeOK
  <2>1. input \in Seq(Symbols)
    BY LexerAssumption DEF Init
  <2>2. 0 \in 0..Len(input) /\ 0 \in 0..0 /\ <<>> \in Seq(Items)
    BY <2>1
  <2>3. pos \in 0..Len(input) /\ start \in 0..pos
    BY <2>2 DEF Init
  <2>4. items \in Seq(Items)
    BY <2>2 DEF Init
  <2>5. state \in States /\ line \in Nat /\ startLine \in Nat /\ parenDepth \in Int
    BY DEF Init, States
  <2> QED BY <2>1, <2>3, <2>4, <2>5 DEF Init, TypeOK, Items
<1>2. Newlines(0, 0) = 0
  BY NoText
<1> QED BY <1>1, <1>2 DEF Init, IInv, Here, Inside1, Counted, Behind, LinesAreRight, InOrder

LEMMA NextIInv == IInv /\ [Next]_vars => IInv'
<1> SUFFICES ASSUME IInv, [Next]_vars PROVE IInv'
  OBVIOUS
<1>1. CASE NextItem
  BY <1>1, NextItemKeeps
<1>2. CASE LexText
  BY <1>2, LexTextKeeps
<1>3. CASE LexLeftDelim
  BY <1>3, LexLeftDelimKeeps
<1>4. CASE LexComment
  BY <1>4, LexCommentKeeps
<1>5. CASE LexRightDelim
  BY <1>5, LexRightDelimKeeps
<1>6. CASE LexInsideAction
  BY <1>6, LexInsideActionKeeps
<1>7. CASE LexSpace
  BY <1>7, LexSpaceKeeps
<1>8. CASE LexIdentifier
  BY <1>8, LexIdentifierKeeps
<1>9. CASE LexFieldOrVariable
  BY <1>9, LexFieldOrVariableKeeps
<1>10. CASE LexQuote \/ LexChar
  <2>1. "quote" \in Inside1 /\ "charConstant" \in Inside1 /\ "string" \in ItemTypes
        /\ "charConstant" \in ItemTypes
    BY DEF Inside1, ItemTypes
  <2> QED BY <1>10, <2>1, LexQuotedKeeps DEF LexQuote, LexChar
<1>11. CASE LexRawQuote
  BY <1>11, LexRawQuoteKeeps
<1>12. CASE LexNumber
  BY <1>12, LexNumberKeeps
<1>13. CASE UNCHANGED vars
  BY <1>13, SameText
     DEF vars, place, IInv, TypeOK, Here, Counted, Behind, LinesAreRight, InOrder
<1> QED BY <1>1, <1>2, <1>3, <1>4, <1>5, <1>6, <1>7, <1>8, <1>9, <1>10, <1>11, <1>12, <1>13
        DEF Next, StateFn, Finished

LEMMA Invariant == Spec => []IInv
  BY InitIInv, NextIInv, PTL DEF Spec

(* The scanner's state is of its type: pos and start stay within the text.   *)
THEOREM TypeCorrect == Spec => []TypeOK
<1>1. IInv => TypeOK
  BY DEF IInv
<1> QED BY <1>1, Invariant, PTL

(* Every item carries the line it starts on.                                 *)
THEOREM LinesAreAlwaysRight == Spec => []LinesAreRight
<1>1. IInv => LinesAreRight
  BY DEF IInv
<1> QED BY <1>1, Invariant, PTL

(* Items are never empty and never overlap: with each one scanning has moved *)
(* on, so that it gives no more items than the text has symbols, and an end. *)
THEOREM ItemsInOrder == Spec => []InOrder
<1>1. IInv => InOrder
  BY DEF IInv
<1> QED BY <1>1, Invariant, PTL
-----------------------------------------------------------------------------
(* Trimming loses white space and nothing else. Everything before the item   *)
(* being scanned is accounted for, in every state: what a step skips is      *)
(* beside the marker or comment that it has just read.                       *)
TInv == state # "done" => /\ \A p \in 0..(start - 1) : Accounted(p)
                          /\ state = "comment" => OpensComment(start)

(* All of the run that ends before q is of S; nothing up to the index is c.  *)
LEMMA RunStartRun ==
    ASSUME NEW p \in Nat, NEW q \in Nat, p <= q, NEW S
    PROVE  \A i \in RunStart(p, q, S)..(q - 1) : At(i) \in S
<1> DEFINE A == {m \in p..(q - 1) : \A i \in m..(q - 1) : At(i) \in S}
           r == RunStart(p, q, S)
<1>1. r \in p..q /\ r = q - Cardinality(A)
  BY RunStartIs DEF RunStart
<1>2. ASSUME NEW i \in r..(q - 1), At(i) \notin S PROVE FALSE
  <2>1. A \in SUBSET ((i + 1)..(q - 1))
    BY <1>1, <1>2
  <2>2. IsFiniteSet((i + 1)..(q - 1)) /\ Cardinality((i + 1)..(q - 1)) = q - (i + 1)
    <3>1. i + 1 \in Nat /\ i + 1 <= q
      BY <1>1, <1>2
    <3>. QED
      BY <3>1, Interval
  <2>3. Cardinality(A) \in Nat /\ Cardinality(A) <= q - (i + 1)
    <3>. HIDE DEF A
    <3>. QED
      BY <2>1, <2>2, FS_Subset, FS_CardinalityType
  <2>. QED
    BY <1>1, <1>2, <2>3
<1>. QED
  BY <1>2

LEMMA BeforeIndex ==
    ASSUME NEW p \in Nat, p <= Len(input), NEW c, input \in Seq(Symbols)
    PROVE  \A i \in p..(Index(p, c) - 1) : At(i) # c
<1>1. \A i \in p..(RunEnd(p, Symbols \ {c}) - 1) : At(i) \in Symbols \ {c}
  BY RunEndIs
<1>. QED
  BY <1>1 DEF Index

(* What is dropped, by the symbol it is.                                     *)
LEMMA DroppedIs ==
    ASSUME NEW p
    PROVE  /\ At(p) \in Space /\ BesideMarker(p) => Dropped(p)
           /\ At(p) = "minus" /\ (At(p + 1) = "right" \/ (p >= 1 /\ At(p - 1) = "left")) => Dropped(p)
           /\ At(p) = "left" /\ (OpensComment(p + 1) \/ OpensComment(p + 3)) => Dropped(p)
           /\ At(p) = "right" /\ (\E m \in {1, 3} : p >= m /\ At(p - m) = "rcomment") => Dropped(p)
  BY DEF Dropped, Space

(* White space of a run that begins at a and ends before b, by the marker it *)
(* touches.                                                                  *)
LEMMA RunDropped ==
    ASSUME NEW a \in Nat, NEW b \in 0..Len(input), NEW p \in a..(b - 1),
           \A i \in a..(b - 1) : At(i) \in Space,
           \/ At(b) = "left" /\ HasLeftTrimMarker(b + 1)
           \/ At(b) = "minus" /\ At(b + 1) = "right"
           \/ a >= 2 /\ At(a - 1) = "minus" /\ At(a - 2) = "left"
           \/ a >= 3 /\ At(a - 1) = "right" /\ HasRightTrimMarker(a - 3)
    PROVE  Accounted(p)
<1>1. a \in 0..p /\ b \in (p + 1)..Len(input)
  OBVIOUS
<1>2. BesideMarker(p)
  BY <1>1 DEF BesideMarker
<1>. QED
  BY <1>2, DroppedIs DEF Accounted

(* The items given stay, so what they account for stays accounted for.       *)
LEMMA StaysAccounted ==
    ASSUME TypeOK, input' = input, NEW x \in Items, items' = items \/ items' = Append(items, x)
    PROVE  /\ \A p : Accounted(p) => Accounted(p)'
           /\ \A p \in x.pos..(x.end - 1) : items' = Append(items, x) => Accounted(p)'
<1>1. items \in Seq(Items)
  BY DEF TypeOK, Items
<1>2. /\ DOMAIN items \subseteq DOMAIN items'
      /\ \A k \in DOMAIN items : items'[k] = items[k]
      /\ items' = Append(items, x) => \E k \in DOMAIN items' : items'[k] = x
  BY <1>1, AppendIs
<1>3. \A p : Covered(p) => Covered(p)'
  BY <1>2 DEF Covered
<1>4. \A p : At(p)' = At(p)
  BY SameText
<1>5. \A p : InComment(p) => InComment(p)'
  BY <1>4 DEF InComment, OpensComment, HasLeftTrimMarker
<1>6. \A p : BesideMarker(p)' = BesideMarker(p)
  BY <1>4 DEF BesideMarker, HasLeftTrimMarker, HasRightTrimMarker
<1>7. \A p : Dropped(p)' = Dropped(p)
  BY <1>4, <1>6 DEF Dropped, OpensComment, HasLeftTrimMarker
<1>8. \A p \in x.pos..(x.end - 1) : items' = Append(items, x) => Covered(p)'
  <2>1. x.pos \in Nat /\ x.end \in Nat
    BY DEF Items
  <2>. QED
    BY <1>2, <2>1 DEF Covered
<1>. QED
  BY <1>3, <1>5, <1>7, <1>8 DEF Accounted

LEMMA Between ==
    ASSUME NEW a \in Nat, NEW b \in Nat, NEW p \in 0..(b - 1)
    PROVE  p \in 0..(a - 1) \/ (p \in Nat /\ a <= p /\ p < b)
  OBVIOUS

(* A step accounts for all it moves start over.                              *)
LEMMA StepAccounts ==
    ASSUME IInv, IInv', TInv, state # "done", input' = input, NEW x \in Items,
           items' = items \/ items' = Append(items, x),
           \A p \in Nat : start <= p /\ p < start' =>
             \/ Accounted(p)
             \/ items' = Append(items, x) /\ x.pos <= p /\ p < x.end,
           state' = "comment" => OpensComment(start')
    PROVE  TInv'
<1>1. TypeOK /\ start \in Nat /\ start' \in Nat /\ x.pos \in Nat /\ x.end \in Nat
  BY Basics DEF IInv, TypeOK, Items
<1>2. ASSUME NEW p \in 0..(start' - 1) PROVE Accounted(p)'
  <2>1. /\ \A q : Accounted(q) => Accounted(q)'
        /\ \A q \in x.pos..(x.end - 1) : items' = Append(items, x) => Accounted(q)'
    BY <1>1, StaysAccounted
  <2>2. p \in 0..(start - 1) \/ (p \in Nat /\ start <= p /\ p < start')
    BY <1>1, Between
  <2>3. CASE p \in 0..(start - 1)
    BY <2>1, <2>3 DEF TInv
  <2>4. CASE p \in Nat /\ start <= p /\ p < start'
    <3>1. Accounted(p) \/ (items' = Append(items, x) /\ p \in x.pos..(x.end - 1))
      BY <1>1, <2>4
    <3>. QED
      BY <2>1, <3>1
  <2>. QED
    BY <2>2, <2>3, <2>4
<1>3. OpensComment(start)' <=> OpensComment(start')
  BY SameText DEF OpensComment, HasLeftTrimMarker
<1>. QED
  BY <1>2, <1>3 DEF TInv

(* A step that skips nothing: it gives what it scanned, fails, or goes on.   *)
LEMMA PlainAccounts ==
    ASSUME IInv, IInv', TInv, state # "done", input' = input,
           \/ \E typ \in ItemTypes : \E q : Emit(typ, q)
           \/ Errorf
           \/ UNCHANGED <<items, start>> /\ state' # "comment"
    PROVE  TInv'
<1>1. start \in Nat /\ start' \in Nat /\ startLine \in Nat
  BY Basics DEF IInv, TypeOK
<1>2. ASSUME NEW typ \in ItemTypes, NEW q, Emit(typ, q) PROVE TInv'
  <2>1. /\ items' = Append(items, Item(typ, start, q, startLine)) /\ start' = q
        /\ state' = "parser"
    BY <1>2 DEF Emit, EmitAndSkip, MoveTo
  <2>2. PICK x \in Items : x = Item(typ, start, q, startLine)
    BY <1>1, <2>1 DEF Items, Item
  <2>3. x.pos = start /\ x.end = q
    BY <2>2 DEF Item
  <2>. QED
    BY <1>1, <2>1, <2>2, <2>3, StepAccounts
<1>3. CASE Errorf
  BY <1>3 DEF Errorf, TInv
<1>4. CASE UNCHANGED <<items, start>> /\ state' # "comment"
  <2>1. PICK x \in Items : x = Item("char", 0, 0, 0)
    BY DEF Items, Item, ItemTypes
  <2>. QED
    BY <1>1, <1>4, <2>1, StepAccounts
<1>. QED
  BY <1>2, <1>3, <1>4

(* Inside an action nothing is skipped.                                      *)
LEMMA InsideAccounts ==
    ASSUME IInv, IInv', TInv,
           \/ NextItem \/ LexInsideAction \/ LexSpace \/ LexIdentifier \/ LexFieldOrVariable
           \/ LexQuote \/ LexChar \/ LexRawQuote \/ LexNumber
    PROVE  TInv'
<1> DEFINE Plain == /\ state # "done" /\ input' = input
                    /\ \/ \E typ \in ItemTypes : \E q : Emit(typ, q)
                       \/ Errorf
                       \/ UNCHANGED <<items, start>> /\ state' # "comment"
<1>1. ASSUME NextItem PROVE Plain
  BY <1>1 DEF NextItem, place
<1>2. ASSUME LexInsideAction PROVE Plain
  <2>1. \A c : ItemOf(c) \in ItemTypes
    BY DEF ItemOf, ItemTypes
  <2>2. \A c \in Quotes \cup {"dot"} : ScannerOf(c) # "comment"
    BY DEF ScannerOf, Quotes
  <2>3. {"declare", "leftParen", "rightParen"} \subseteq ItemTypes
    BY DEF ItemTypes
  <2>4. \A f, n : Goto(f, n) /\ f # "comment" => UNCHANGED <<items, start>> /\ state' # "comment"
    BY DEF Goto
  <2>5. state # "done" /\ input' = input
    BY <1>2 DEF LexInsideAction
  <2>6. \/ Errorf
        \/ \E typ \in ItemTypes : \E q : Emit(typ, q)
        \/ \E f, n : Goto(f, n) /\ f # "comment"
    BY <1>2, <2>1, <2>2, <2>3 DEF LexInsideAction
  <2>. QED
    BY <2>4, <2>5, <2>6
<1>3. ASSUME LexSpace PROVE Plain
  BY <1>3 DEF LexSpace, Goto, ItemTypes
<1>4. ASSUME LexIdentifier PROVE Plain
  <2>1. \A w : WordType(w) \in ItemTypes
    BY DEF WordType, ItemTypes
  <2>. QED
    BY <1>4, <2>1 DEF LexIdentifier
<1>5. ASSUME LexFieldOrVariable PROVE Plain
  BY <1>5 DEF LexFieldOrVariable, ItemTypes
<1>6. ASSUME LexQuote \/ LexChar \/ LexRawQuote PROVE Plain
  BY <1>6 DEF LexQuote, LexChar, LexRawQuote, LexQuoted, ItemTypes
<1>7. ASSUME LexNumber PROVE Plain
  BY <1>7 DEF LexNumber, ItemTypes
<1>8. Plain
  BY <1>1, <1>2, <1>3, <1>4, <1>5, <1>6, <1>7
<1>. QED
  BY <1>8, PlainAccounts

(* Text: the run of white space before an action that trims it is dropped.   *)
LEMMA TextAccounts == ASSUME IInv, IInv', TInv, LexText PROVE TInv'
<1> PICK x : x = Index(pos, "left")
  OBVIOUS
<1> PICK t : t = IF HasLeftTrimMarker(x + 1) THEN RunStart(start, x, Space) ELSE x
  OBVIOUS
<1>1. /\ input' = input /\ state = "text" /\ state # "done" /\ start = pos
      /\ start \in Nat /\ startLine \in Nat /\ TypeOK
  BY Basics DEF LexText, IInv, Here, Inside1
<1>2. x \in start..Len(input) /\ (x < Len(input) => At(x) = "left")
  BY <1>1, Basics, IndexIs
<1>3. x \in Nat /\ start <= x /\ x \in 0..Len(input)
  BY <1>1, <1>2, Basics
<1>4. /\ t \in Nat /\ start <= t /\ t <= x
      /\ t # x => HasLeftTrimMarker(x + 1) /\ \A i \in t..(x - 1) : At(i) \in Space
  <2>1. /\ RunStart(start, x, Space) \in start..x
        /\ \A i \in RunStart(start, x, Space)..(x - 1) : At(i) \in Space
    BY <1>1, <1>3, RunStartIs, RunStartRun
  <2>. QED
    BY <1>1, <1>3, <2>1
<1>5. ASSUME NEW p \in Nat, t <= p, p < x, x < Len(input) PROVE Accounted(p)
  <2>1. p \in t..(x - 1) /\ t # x
    BY <1>3, <1>4, <1>5
  <2>. QED
    BY <1>2, <1>3, <1>4, <1>5, <2>1, RunDropped
<1>6. ASSUME NEW q \in Nat, q = x \/ (q = t /\ x < Len(input)),
             EmitAndSkip("text", q, line + Newlines(start, q), x)
      PROVE  TInv'
  <2>1. /\ items' = Append(items, Item("text", start, q, startLine)) /\ start' = x
        /\ state' = "parser"
    BY <1>6 DEF EmitAndSkip, MoveTo
  <2>2. PICK y \in Items : y = Item("text", start, q, startLine)
    BY <1>1, <2>1 DEF Items, Item, ItemTypes
  <2>3. y.pos = start /\ y.end = q
    BY <2>2 DEF Item
  <2>4. ASSUME NEW p \in Nat, start <= p, p < start'
        PROVE  Accounted(p) \/ (y.pos <= p /\ p < y.end)
    <3>1. p < q \/ (t <= p /\ p < x /\ x < Len(input))
      BY <1>3, <1>4, <1>6, <2>1, <2>4
    <3>. QED
      BY <1>5, <2>3, <2>4, <3>1
  <2>. QED
    BY <1>1, <2>1, <2>2, <2>4, StepAccounts
<1>7. CASE state' = "done"
  BY <1>7 DEF TInv
<1>8. CASE /\ x < Len(input) /\ t = start
           /\ MoveTo(x, line + Newlines(start, t) + Newlines(t, x))
           /\ state' = "leftDelim" /\ UNCHANGED items
  <2>1. PICK y \in Items : y = Item("char", 0, 0, 0)
    BY DEF Items, Item, ItemTypes
  <2>2. \A p \in Nat : start <= p /\ p < start' => Accounted(p)
    BY <1>5, <1>8 DEF MoveTo
  <2>. QED
    BY <1>1, <1>8, <2>1, <2>2, StepAccounts
<1>. QED
  BY <1>3, <1>4, <1>6, <1>7, <1>8 DEF LexText

(* The left delimiter is an item, unless a comment follows it; its trim      *)
(* marker is dropped.                                                        *)
LEMMA LeftDelimAccounts == ASSUME IInv, IInv', TInv, LexLeftDelim PROVE TInv'
<1> PICK p : p = pos + 1
  OBVIOUS
<1> PICK q : q = IF HasLeftTrimMarker(p) THEN p + TrimMarkerLen ELSE p
  OBVIOUS
<1>1. /\ input' = input /\ state = "leftDelim" /\ state # "done" /\ start = pos
      /\ start \in Nat /\ startLine \in Nat /\ TypeOK /\ At(start) = "left"
  BY Basics DEF LexLeftDelim, IInv, Here, Inside1
<1>2. p = start + 1 /\ p \in Nat
  BY <1>1
<1>3. q = p \/ (q = p + 2 /\ HasLeftTrimMarker(p))
  BY DEF TrimMarkerLen
<1>4. ASSUME HasLeftTrimMarker(p) PROVE Accounted(p) /\ Accounted(p + 1)
  <2>1. At(p) = "minus" /\ At(p + 1) \in Space
    BY <1>4 DEF HasLeftTrimMarker
  <2>2. p - 1 = start /\ p >= 1
    BY <1>1, <1>2
  <2>3. Dropped(p)
    BY <1>1, <2>1, <2>2, DroppedIs
  <2>4. p + 2 \in 0..Len(input)
    <3>1. At(p + 1) # "eof" /\ p + 1 \in Nat
      BY <1>2, <2>1 DEF Space
    <3>2. p + 1 + 1 \in 0..Len(input)
      BY <3>1, Within
    <3>. QED
      BY <1>2, <3>2
  <2>5. PICK a \in Nat : a = p + 1
    BY <1>2
  <2>6. /\ a \in a..(p + 2 - 1) /\ \A i \in a..(p + 2 - 1) : At(i) \in Space
        /\ a >= 2 /\ At(a - 1) = "minus" /\ At(a - 2) = "left"
    <3>1. a - 1 = p /\ a - 2 = start /\ a >= 2 /\ \A i \in a..(p + 2 - 1) : i = p + 1
      BY <1>1, <1>2, <2>5
    <3>. QED
      BY <1>1, <1>2, <2>1, <2>5, <3>1
  <2>7. Accounted(a)
    BY <2>4, <2>6, RunDropped
  <2>. QED
    BY <2>3, <2>5, <2>7 DEF Accounted
<1>5. CASE /\ At(q) = "lcomment" /\ MoveTo(q, line + Newlines(start, q)) /\ state' = "comment"
           /\ UNCHANGED items
  <2>1. OpensComment(q)
    <3>1. CASE q = p
      BY <1>1, <1>2, <1>5, <3>1 DEF OpensComment
    <3>2. CASE q = p + 2 /\ HasLeftTrimMarker(p)
      <4>1. q - 3 = start /\ q - 2 = p /\ q >= 3
        BY <1>1, <1>2, <3>2
      <4>. QED
        BY <1>1, <1>5, <3>2, <4>1 DEF OpensComment
    <3>. QED
      BY <1>3, <3>1, <3>2
  <2>2. Accounted(start)
    <3>1. q = start + 1 \/ q = start + 3
      BY <1>1, <1>2, <1>3
    <3>2. Dropped(start)
      BY <1>1, <2>1, <3>1, DroppedIs
    <3>. QED
      BY <3>2 DEF Accounted
  <2>3. PICK y \in Items : y = Item("char", 0, 0, 0)
    BY DEF Items, Item, ItemTypes
  <2>4. start' = q
    BY <1>5 DEF MoveTo
  <2>5. ASSUME NEW r \in Nat, start <= r, r < start' PROVE Accounted(r)
    <3>1. r = start \/ ((r = p \/ r = p + 1) /\ HasLeftTrimMarker(p))
      BY <1>1, <1>2, <1>3, <2>4, <2>5
    <3>. QED
      BY <1>4, <2>2, <3>1
  <2>. QED
    BY <1>1, <1>5, <2>1, <2>3, <2>4, <2>5, StepAccounts
<1>6. CASE EmitAndSkip("leftDelim", p, line, q)
  <2>1. /\ items' = Append(items, Item("leftDelim", start, p, startLine)) /\ start' = q
        /\ state' = "parser"
    BY <1>6 DEF EmitAndSkip, MoveTo
  <2>2. PICK y \in Items : y = Item("leftDelim", start, p, startLine)
    BY <1>1, <1>2, <2>1 DEF Items, Item, ItemTypes
  <2>3. y.pos = start /\ y.end = p
    BY <2>2 DEF Item
  <2>4. ASSUME NEW r \in Nat, start <= r, r < start'
        PROVE  Accounted(r) \/ (y.pos <= r /\ r < y.end)
    <3>1. r < p \/ ((r = p \/ r = p + 1) /\ HasLeftTrimMarker(p))
      BY <1>1, <1>2, <1>3, <2>1, <2>4
    <3>. QED
      BY <1>4, <2>3, <2>4, <3>1
  <2>. QED
    BY <1>1, <2>1, <2>2, <2>4, StepAccounts
<1>. QED
  BY <1>5, <1>6 DEF LexLeftDelim

LEMMA FirstThree ==
    ASSUME NEW p \in Nat, NEW q \in Nat, q <= p
    PROVE  p = q \/ p = q + 1 \/ p = q + 2 \/ p >= q + 3
  OBVIOUS

(* The comment is accounted for as one, and so are its delimiters and the     *)
(* white space after a marker.                                               *)
LEMMA CommentAccounts == ASSUME IInv, IInv', TInv, LexComment PROVE TInv'
<1> PICK x : x = Index(pos + 1, "rcomment")
  OBVIOUS
<1> PICK q : q = x + 1
  OBVIOUS
<1> PICK e : e = IF TrimmedRightDelim(q) THEN RunEnd(q + TrimMarkerLen + 1, Space) ELSE q + 1
  OBVIOUS
<1>1. /\ input' = input /\ state = "comment" /\ state # "done" /\ start = pos
      /\ start \in Nat /\ startLine \in Nat /\ TypeOK /\ At(start) = "lcomment" /\ OpensComment(start)
  BY Basics DEF LexComment, IInv, Here, Inside1, TInv
<1>2. start + 1 \in 0..Len(input) /\ start + 1 \in Nat
  BY <1>1, Within
<1>3. /\ x \in (start + 1)..Len(input) /\ (x < Len(input) => At(x) = "rcomment")
      /\ \A i \in (start + 1)..(x - 1) : At(i) # "rcomment"
  <2>1. start + 1 <= Len(input) /\ input \in Seq(Symbols) /\ x = Index(start + 1, "rcomment")
    BY <1>1, <1>2, Basics
  <2>. QED
    BY <1>2, <2>1, IndexIs, BeforeIndex
<1>4. x \in Nat /\ start < x /\ q \in Nat
  BY <1>1, <1>3, Basics
<1>5. ASSUME NEW p \in Nat, start <= p, p < q PROVE Accounted(p)
  <2>1. start \in 0..p
    BY <1>1, <1>5
  <2>2. \A i \in start..(p - 1) : At(i) # "rcomment"
    <3>1. \A i \in start..(p - 1) : i = start \/ i \in (start + 1)..(x - 1)
      BY <1>1, <1>4, <1>5
    <3>. QED
      BY <1>1, <1>3, <3>1
  <2>3. InComment(p)
    BY <1>1, <2>1, <2>2 DEF InComment
  <2>. QED
    BY <2>3 DEF Accounted
<1>6. ASSUME x < Len(input), AtRightDelim(q), NEW p \in Nat, q <= p, p < e PROVE Accounted(p)
  <2>1. At(x) = "rcomment"
    BY <1>3, <1>6
  <2>2. CASE TrimmedRightDelim(q)
    <3>1. At(q) \in Space /\ At(q + 1) = "minus" /\ At(q + 2) = "right" /\ HasRightTrimMarker(q)
      BY <2>2 DEF TrimmedRightDelim, HasRightTrimMarker, TrimMarkerLen
    <3>2. q + 3 \in 0..Len(input) /\ q + 1 \in 0..Len(input)
      <4>1. q + 2 \in Nat /\ At(q + 2) # "eof"
        BY <1>4, <3>1
      <4>2. q + 2 + 1 \in 0..Len(input)
        BY <4>1, Within
      <4>3. Len(input) \in Nat
        BY Basics
      <4>. QED
        BY <1>4, <4>2, <4>3
    <3>3. PICK a \in Nat : a = q + 3
      BY <1>4
    <3>4. e = RunEnd(a, Space) /\ a <= Len(input)
      <4>1. q + TrimMarkerLen + 1 = a
        BY <1>4, <3>3 DEF TrimMarkerLen
      <4>. QED
        BY <2>2, <3>2, <3>3, <4>1
    <3>5. e \in a..Len(input) /\ \A i \in a..(e - 1) : At(i) \in Space
      BY <3>4, Basics, RunEndIs
    <3>6. CASE p = q
      <4>1. PICK b \in 0..Len(input) : b = q + 1
        BY <3>2
      <4>2. q \in q..(b - 1) /\ \A i \in q..(b - 1) : i = q
        BY <1>4, <4>1
      <4>3. At(b) = "minus" /\ At(b + 1) = "right"
        <5>1. b + 1 = q + 2
          BY <1>4, <4>1
        <5>. QED
          BY <3>1, <4>1, <5>1
      <4>4. Accounted(q)
        BY <1>4, <3>1, <4>2, <4>3, RunDropped
      <4>. QED
        BY <3>6, <4>4
    <3>7. CASE p = q + 1
      <4>1. p + 1 = q + 2
        BY <1>4, <3>7
      <4>2. Dropped(p)
        BY <3>1, <3>7, <4>1, DroppedIs
      <4>. QED
        BY <4>2 DEF Accounted
    <3>8. CASE p = q + 2
      <4>1. p - 3 = x /\ p >= 3
        BY <1>1, <1>4, <3>8
      <4>2. Dropped(p)
        BY <2>1, <3>1, <3>8, <4>1, DroppedIs
      <4>. QED
        BY <4>2 DEF Accounted
    <3>9. CASE p >= a
      <4>1. a - 1 = q + 2 /\ a - 3 = q /\ a >= 3
        BY <1>4, <3>3
      <4>2. e \in 0..Len(input) /\ p \in a..(e - 1)
        BY <1>6, <3>3, <3>5, <3>9, Basics
      <4>. QED
        BY <3>1, <3>3, <3>5, <4>1, <4>2, RunDropped
    <3>10. p = q \/ p = q + 1 \/ p = q + 2 \/ p >= a
      BY <1>4, <1>6, <3>3, FirstThree
    <3>. QED
      BY <3>6, <3>7, <3>8, <3>9, <3>10
  <2>3. CASE ~TrimmedRightDelim(q)
    <3>1. p = q /\ At(p) = "right"
      BY <1>4, <1>6, <2>3 DEF AtRightDelim
    <3>2. p - 1 = x /\ p >= 1
      BY <1>4, <3>1
    <3>3. Dropped(p)
      BY <2>1, <3>1, <3>2, DroppedIs
    <3>. QED
      BY <3>3 DEF Accounted
  <2>. QED
    BY <2>2, <2>3
<1>7. CASE Errorf
  BY <1>7 DEF Errorf, TInv
<1>8. CASE /\ x < Len(input) /\ AtRightDelim(q)
           /\ \/ EmitAndSkip("comment", q, line + Newlines(start, q), e)
              \/ /\ MoveTo(e, line + Newlines(start, q) + Newlines(q, e))
                 /\ state' = "text" /\ UNCHANGED items
  <2>1. PICK y \in Items : y = Item("comment", start, q, startLine)
    BY <1>1, <1>4 DEF Items, Item, ItemTypes
  <2>2. /\ items' = items \/ items' = Append(items, y)
        /\ start' = e /\ state' # "comment"
    BY <1>8, <2>1 DEF EmitAndSkip, MoveTo
  <2>3. ASSUME NEW p \in Nat, start <= p, p < start' PROVE Accounted(p)
    <3>1. p < q \/ q <= p
      BY <1>4
    <3>. QED
      BY <1>5, <1>6, <1>8, <2>2, <2>3, <3>1
  <2>. QED
    BY <1>1, <2>2, <2>3, StepAccounts
<1>. QED
  BY <1>7, <1>8 DEF LexComment

(* The right delimiter is an item; its marker and the space after go.         *)
LEMMA RightDelimAccounts == ASSUME IInv, IInv', TInv, LexRightDelim PROVE TInv'
<1> PICK p : p = IF TrimmedRightDelim(pos) THEN pos + TrimMarkerLen ELSE pos
  OBVIOUS
<1> PICK q : q = p + 1
  OBVIOUS
<1> PICK e : e = IF TrimmedRightDelim(pos) THEN RunEnd(q, Space) ELSE q
  OBVIOUS
<1> PICK l : l = line + Newlines(start, p)
  OBVIOUS
<1>1. /\ input' = input /\ state = "rightDelim" /\ state # "done" /\ start = pos
      /\ start \in Nat /\ line \in Nat /\ TypeOK /\ AtRightDelim(start)
  BY Basics DEF LexRightDelim, IInv, Here, Inside1
<1>2. p \in Nat /\ q \in Nat /\ start <= p /\ At(p) = "right"
  BY <1>1 DEF AtRightDelim, TrimmedRightDelim, TrimMarkerLen
<1>3. l \in Nat
  <2>1. Newlines(start, p) \in Nat
    <3>1. start \in Nat /\ p \in Nat /\ start <= p /\ p <= p
      BY <1>1, <1>2
    <3>. QED
      BY <3>1, NewlinesAdd
  <2>. QED
    BY <1>1, <2>1
<1>4. /\ items' = Append(items, Item("rightDelim", p, q, l)) /\ start' = e /\ state' = "parser"
  BY DEF LexRightDelim, MoveTo
<1>5. PICK y \in Items : y = Item("rightDelim", p, q, l)
  BY <1>2, <1>3 DEF Items, Item, ItemTypes
<1>6. y.pos = p /\ y.end = q
  BY <1>5 DEF Item
<1>7. ASSUME NEW r \in Nat, start <= r, r < e, r # p PROVE Accounted(r)
  <2>1. TrimmedRightDelim(start)
    BY <1>1, <1>2, <1>7
  <2>2. /\ At(start) \in Space /\ At(start + 1) = "minus" /\ At(start + 2) = "right"
        /\ HasRightTrimMarker(start) /\ p = start + 2 /\ q = start + 3
    BY <1>1, <2>1 DEF TrimmedRightDelim, HasRightTrimMarker, TrimMarkerLen
  <2>3. start + 3 \in 0..Len(input) /\ start + 1 \in 0..Len(input)
    <3>1. start + 2 \in Nat /\ At(start + 2) # "eof"
      BY <1>1, <2>2
    <3>2. start + 2 + 1 \in 0..Len(input)
      BY <3>1, Within
    <3>. QED
      BY <1>1, <3>2, Basics
  <2>4. e \in q..Len(input) /\ \A i \in q..(e - 1) : At(i) \in Space
    <3>1. e = RunEnd(q, Space) /\ q <= Len(input)
      BY <1>1, <2>1, <2>2, <2>3
    <3>. QED
      BY <1>2, <3>1, Basics, RunEndIs
  <2>5. CASE r = start
    <3>1. PICK b \in 0..Len(input) : b = start + 1
      BY <2>3
    <3>2. start \in start..(b - 1) /\ \A i \in start..(b - 1) : i = start
      BY <1>1, <3>1
    <3>3. At(b) = "minus" /\ At(b + 1) = "right"
      <4>1. b + 1 = start + 2
        BY <1>1, <3>1
      <4>. QED
        BY <2>2, <3>1, <4>1
    <3>4. Accounted(start)
      BY <1>1, <2>2, <3>2, <3>3, RunDropped
    <3>. QED
      BY <2>5, <3>4
  <2>6. CASE r = start + 1
    <3>1. r + 1 = start + 2
      BY <1>1, <2>6
    <3>2. Dropped(r)
      BY <2>2, <2>6, <3>1, DroppedIs
    <3>. QED
      BY <3>2 DEF Accounted
  <2>7. CASE r >= q
    <3>1. q - 1 = start + 2 /\ q - 3 = start /\ q >= 3
      BY <1>1, <2>2
    <3>2. e \in 0..Len(input) /\ r \in q..(e - 1)
      BY <1>2, <1>7, <2>4, <2>7, Basics
    <3>. QED
      BY <1>2, <2>2, <2>4, <3>1, <3>2, RunDropped
  <2>. QED
    BY <1>1, <1>7, <2>2, <2>5, <2>6, <2>7
<1>8. ASSUME NEW r \in Nat, start <= r, r < start'
      PROVE  Accounted(r) \/ (y.pos <= r /\ r < y.end)
  <2>1. CASE r = p
    BY <1>2, <1>6, <2>1
  <2>2. CASE r # p
    BY <1>4, <1>7, <1>8, <2>2
  <2>. QED
    BY <2>1, <2>2
<1>. QED
  BY <1>1, <1>4, <1>5, <1>8, StepAccounts

LEMMA NextAccounts == IInv /\ IInv' /\ TInv /\ [Next]_vars => TInv'
<1> SUFFICES ASSUME IInv, IInv', TInv, [Next]_vars PROVE TInv'
  OBVIOUS
<1>1. CASE UNCHANGED vars
  <2>1. UNCHANGED <<input, items, state, start>>
    BY <1>1 DEF vars, place
  <2>2. PICK x \in Items : x = Item("char", 0, 0, 0)
    BY DEF Items, Item, ItemTypes
  <2>3. CASE state = "done"
    BY <2>1, <2>3 DEF TInv
  <2>4. CASE state # "done"
    <3>1. \A p \in Nat : ~(start <= p /\ p < start')
      BY <2>1, Basics
    <3>. QED
      BY <2>1, <2>2, <2>4, <3>1, StepAccounts DEF TInv
  <2>. QED
    BY <2>3, <2>4
<1>. QED
  BY <1>1, InsideAccounts, TextAccounts, LeftDelimAccounts, CommentAccounts, RightDelimAccounts
     DEF Next, StateFn, Finished

(* Of what the scanner is past, all but white space beside a trim marker, the *)
(* markers and the comments is in an item.                                    *)
THEOREM TrimmingIsHarmless == Spec => []TrimsOnlySpace
<1>1. Init => TInv
  BY DEF Init, TInv
<1>2. IInv /\ TInv => TrimsOnlySpace
  BY DEF IInv, Here, Inside1, TInv, TrimsOnlySpace
<1>. QED
  BY <1>1, <1>2, NextAccounts, Invariant, PTL DEF Spec
=============================================================================
