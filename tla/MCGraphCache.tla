---------------------------- MODULE MCGraphCache ----------------------------
EXTENDS GraphCache, TLC

CONSTANTS gone, f, g, h, n, u

T(is, name, line) == [is |-> is, name |-> name, line |-> line]

(* A variable, the same one line lower, another file's variable that uses it, *)
(* and a function that does.                                                  *)
Defines(l) == {T("var", n, l)}
Uses == {T("var", u, 1), T("mention", n, 2)}
User == {T("function", u, 1), T("mention", n, 1)}

MCTexts == {Defines(1), Defines(2), Uses, User}
MCVersions == (f :> {Defines(1), Defines(2), Uses}) @@ (g :> {User}) @@ (h :> {gone, Defines(1)})
=============================================================================
