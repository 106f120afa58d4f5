------------------------------ MODULE MCLexer ------------------------------
(* Texts for TLC: every short one over the symbols that delimit, trim and     *)
(* comment, and actions with every short content.                             *)
EXTENDS Lexer

Outside == {"left", "right", "lcomment", "rcomment", "sp", "nl", "minus", "a"}
Inside == {"sp", "nl", "minus", "dot", "lparen", "rparen", "dollar", "dq", "sq", "bq", "esc", "colon", "equals", "pipe", "comma", "ctl", "left", "lcomment"}
            \cup {"a", "end", "break", "true", "9"}
Scanned == {"dq", "sq", "bq", "esc", "nl", "a", "dollar", "dot"}
Numeric == {"0", "9", "x", "e", "b", "i", "dot", "minus"}
MCSymbols == Outside \cup Inside \cup Numeric \cup {"_", "p"}

Up(S, n) == UNION {[1..k -> S] : k \in 0..n}
MCInputs ==
    Up(Outside, 4)
    \cup {<<"nl", "left", "minus">> \o w : w \in Up({"lcomment", "rcomment", "sp", "nl", "minus", "right", "a"}, 4)}
    \cup {<<"left">> \o w \o t : w \in Up(Inside, 2), t \in {<<>>, <<"right", "nl", "a">>}}
    \cup {<<"left">> \o w : w \in Up(Scanned, 3)}
    \cup {<<"left", "lparen">> \o w \o <<"right">> : w \in Up({"lparen", "rparen", "sp", "minus", "a"}, 3)}
    \cup {<<"left">> \o w \o <<"right">> : w \in Up(Numeric, 3)}
=============================================================================
