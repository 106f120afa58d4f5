---------------------------- MODULE RenderOuter ----------------------------
(* What exploring may not do: a render that explores, seen from outside the   *)
(* arms it explores, is a render that does not. The abstract specification is *)
(* Render with no arm entered (MaxGuards = 0), the refinement mapping forgets *)
(* the arm under way, of the stack and of the state, and what the recorder    *)
(* noted in arms.                                                             *)
EXTENDS Render

(* What main keeps of the recorder outside of arms.                          *)
IsTaken(r) == r.guard = NoGuard
Plainly(w) ==
    [w EXCEPT !.reads = Pick(@, {i \in DOMAIN w.reads : IsTaken(w.reads[i])}),
              !.arms = Pick(@, {i \in DOMAIN w.arms : ~w.arms[i].untaken}),
              !.explored = Pick(@, {i \in DOMAIN w.explored : w.explored[i].guard[2] = "symbolic"})]
PlainResult(w) == IF w = NoRender THEN w ELSE Plainly(w)

Exploring == Running /\ s.guards # <<>>
Outermost == CHOOSE j \in DOMAIN stack : stack[j].kind = "arm" /\ stack[j].caller.guards = <<>>
OuterState == IF Exploring THEN Plainly(stack[Outermost].caller) ELSE PlainResult(s)
OuterStack == [j \in 1..(IF Exploring THEN Outermost - 1 ELSE Len(stack)) |->
                 [stack[j] EXCEPT !.caller = Plainly(@)]]

Plain == INSTANCE Render WITH MaxGuards <- 0, s <- OuterState, stack <- OuterStack,
                              first <- PlainResult(first), second <- PlainResult(second)

(* The values themselves are not restored (prov.go says so): an arm that      *)
(* calls set changes them, and nothing else.                                  *)
SetsValues ==
    /\ EndArm
    /\ \E d \in [Paths -> Syms] : OuterState' = [OuterState EXCEPT !.data = d]
    /\ UNCHANGED <<OuterStack, chart, phase, first, second>>

(* Exploring is invisible: bytes, spans, variables, taken reads and arms are *)
(* at every moment those of a render that does not explore - in a symbolic    *)
(* render the text that is printed depends on it.                             *)
ExplorationInvisible == [][Plain!Next \/ SetsValues]_(Plain!vars)
=============================================================================
