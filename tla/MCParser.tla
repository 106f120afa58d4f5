------------------------------ MODULE MCParser ------------------------------
(* Texts for TLC: every sequence of up to MaxPieces actions and texts; deeper *)
(* ones of ranges, ifs and jumps only; and, in one action, pipelines of up to *)
(* MaxItems items.                                                            *)
EXTENDS Parser
CONSTANTS MaxPieces, MaxDeep, MaxItems

W(typ) == <<Mark(typ)>>
Sp == W("space")
X == <<Item("variable", "$x")>>
Y == <<Item("variable", "$y")>>
A == <<Item("field", "a")>>
F == <<Item("identifier", "f")>>
Com == <<Item("char", ",")>>
Name(n) == <<Item("string", n)>>
Decl(v) == v \o Sp \o W("declare") \o Sp \o A
Act(items) == Delimited(items)

Structure == {Act(W("if") \o Sp \o A), Act(W("else")), Act(W("end")), Act(W("break")),
              Act(W("range") \o Sp \o A)}
Pieces == Structure \cup
          {<<Item("text", "t")>>, <<Item("text", "b")>>, Act(Sp \o X \o Sp), Act(Decl(X)),
           Act(X \o Sp \o W("assign") \o Sp \o A),
           Act(W("if") \o Sp \o Decl(X)), Act(W("else") \o Sp \o W("if") \o Sp \o X),
           Act(W("range") \o Sp \o X \o Com \o Sp \o Decl(Y)), Act(W("with") \o Sp \o Decl(X)),
           Act(W("else") \o Sp \o W("with") \o Sp \o A),
           Act(W("define") \o Sp \o Name("d")) \o <<Item("text", "t")>> \o Act(W("end")),
           Act(W("define") \o Sp \o Name("d")) \o <<Item("text", "b")>> \o Act(W("end")),
           Act(Sp \o W("define") \o Sp \o Name("d")), Act(W("block") \o Sp \o Name("d") \o Sp \o A),
           Act(W("block") \o Sp \o Name("e") \o Sp \o X), Act(W("template") \o Sp \o Name("d"))}
(* Two texts in a row are one to the scanner.                                *)
NoTwoTexts(w) == \A i \in 1..(Len(w) - 1) : w[i][1].typ = "left" \/ w[i + 1][1].typ = "left"
Sequences(S, n) == {FlattenSeq(w) : w \in {v \in UNION {[1..m -> S] : m \in 0..n} : NoTwoTexts(v)}}

Words == {W("space"), X, A, F, <<Item("number", "1")>>, W("pipe"), W("lparen"), W("rparen"), Com,
          W("declare"), W("assign")}
Pipelines(n) == {FlattenSeq(w) : w \in UNION {[1..m -> Words] : m \in 0..n}}
NoTwoSpaces(items) == \A i \in 1..(Len(items) - 1) : items[i].typ # "space" \/ items[i + 1].typ # "space"
InAction == {Act(Decl(X)) \o Act(before \o items) :
                before \in {<<>>, F \o Sp, W("lparen") \o X}, items \in {p \in Pipelines(MaxItems) : NoTwoSpaces(p)}}
InRange == {Act(W("range") \o Sp \o before \o items) \o Act(X) \o Act(W("end")) :
               before \in {X, X \o Com \o X}, items \in {p \in Pipelines(MaxItems) : NoTwoSpaces(p)}}

MCTexts == Sequences(Pieces, MaxPieces) \cup Sequences(Structure, MaxDeep) \cup InAction \cup InRange
=============================================================================
