------------------------------ MODULE MCRender ------------------------------
(* Charts for TLC: a file with one control node (or two, nested) before and   *)
(* after other nodes, and a helper template that it may call, one that        *)
(* explores and one that calls itself. at says where a node stands.           *)
EXTENDS RenderOuter, RenderReads, SequencesExt

N(kind, path, at) == [kind |-> kind, path |-> path, at |-> at]
T(text, at) == [kind |-> "text", text |-> text, at |-> at]
Call(kind, at) == [kind |-> kind, name |-> "h", at |-> at]
If(p, then, else, at) == [kind |-> "if", path |-> p, at |-> at, arms |-> [then |-> then, else |-> else]]
Rng(p, body, else, at) == [kind |-> "range", path |-> p, at |-> at, arms |-> [body |-> body, else |-> else]]

Leaves(at) == {N("print", "b", at), N("deref", "a", at), N("assign", "b", at), N("let", "b", at),
               N("show", "a", at), Call("template", at), Call("include", at)}
Breaks(at) == {N("break", "a", at), N("continue", "a", at)}
Ones(L) == {<<n>> : n \in L}
Else(at) == {<<>>} \cup Ones({N("deref", "a", at), N("assign", "b", at), Call("include", at)})

Helpers == {<<N("deref", "b", "h1")>>,
            <<If("b", <<N("print", "a", "h1t")>>, <<T(<<"t">>, "h1e1"), Call("template", "h1e2")>>, "h1")>>,
            <<Rng("b", <<N("assign", "a", "h1b")>>, <<>>, "h1"), N("show", "a", "h2"),
              Call("include", "h3")>>}
Plains == {If("b", t, e, "1b") : t \in Ones(Leaves("1bt")), e \in Else("1be")}
Loops == {Rng("b", t, e, "1b") : t \in Ones(Leaves("1bt") \cup Breaks("1bt")), e \in Else("1be")}
Broken == {If("b", t, e, "1b") : t \in Ones(Breaks("1bt")), e \in Else("1be")}
Shows == N("show", "a", "2")
Ranges == {Rng("a", <<n, T(<<"t">>, "1b2")>>, e, "1") :
              n \in Plains \cup Loops \cup Broken, e \in {<<>>, <<N("print", "b", "1e")>>}}
Ifs == {If("a", <<n>>, e, "1") : n \in Plains \cup Loops, e \in {<<>>, <<N("assign", "b", "1e")>>}}
       \cup {If("a", <<N("print", "a", "1t")>>, <<n>>, "1") :
               n \in {p \in Plains \cup Loops : p.arms["else"] \in Ones({N("deref", "a", "1be")})}}
Mains == {<<n, Shows>> : n \in Ranges \cup Ifs}
(* Text that spells "<no value>" across nodes.                               *)
Split == {<<T(<<"<no", "<no">>, "1"), If("a", <<T(<<"value>", "t">>, "2t1"), N("print", "b", "2t2")>>, <<>>, "2"),
            T(<<"value>">>, "3")>>}
(* An untaken arm that changes the values a later condition reads.           *)
Sets == {<<If("a", <<N("set", "b", "1t")>>, <<>>, "1"),
           If("b", <<T(<<"t">>, "2t")>>, <<N("print", "a", "2e")>>, "2")>>}
RECURSIVE Uses(_, _)
Uses(list, kinds) == \E n \in ToSet(list) :
    \/ n.kind \in kinds
    \/ n.kind \in {"if", "range"} /\ \E a \in DOMAIN n.arms : Uses(n.arms[a], kinds)
Calls(list) == Uses(list, {"template", "include"})
(* A template that is not there.                                             *)
Gone(kind, at) == [kind |-> kind, name |-> "gone", at |-> at]
Missing == {<<If("a", <<Gone(k, "1t")>>, <<Gone(k, "1e1"), N("print", "b", "1e2")>>, "1"), Shows>> :
               k \in {"template", "include"}}
MCTemplates == {[main |-> m, h |-> h] : m \in {l \in Mains : Calls(l)}, h \in Helpers}
               \cup {[main |-> m, h |-> <<>>] : m \in {l \in Mains : ~Calls(l)} \cup Split \cup Sets \cup Missing}
MCStraight == {t \in MCTemplates : \A h \in Names : ~Uses(t[h], Jumps \cup {"set"})}
Tops(lists) == UNION {ToSet(l) : l \in lists}
Under(nodes) == UNION {UNION {ToSet(n.arms[a]) : a \in DOMAIN n.arms} : n \in {m \in nodes : m.kind \in {"if", "range"}}}
MCNodes == LET top == Tops(Mains \cup Split \cup Sets \cup Missing \cup Helpers)
               all == top \cup Under(top) \cup Under(Under(top)) IN {n \in all : n \notin Broken /\ n.kind \notin Jumps}
MCLoopNodes == Broken \cup Breaks("1bt")
=============================================================================
