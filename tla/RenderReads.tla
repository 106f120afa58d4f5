---------------------------- MODULE RenderReads ----------------------------
(* What exploring is for: helmprov is called with -branches or -symbolic, and *)
(* what it reports is held against a later call on the same chart with any    *)
(* values. A hole hides what follows it, and so do break, continue and set.   *)
EXTENDS Render

CONSTANT Straight  \* of Templates, some without break, continue and set
ASSUME ReadsAssumption == Straight \subseteq Templates

VARIABLE known  \* the reads that a call reported, if one has explored

(* What it prints: the reads of the first render, and of the second those in *)
(* untaken arms.                                                              *)
Explorer == IF Symbolic THEN first ELSE second
ReadsOut ==
    {first.reads[i] : i \in DOMAIN first.reads}
    \cup (IF second = NoRender THEN {}
          ELSE {r \in {second.reads[i] : i \in DOMAIN second.reads} : r.guard # NoGuard})
At(reads) == {<<r.path, r.at>> : r \in reads}

OtherValues ==
    /\ CallAgain /\ chart'.flag = "plain"
    /\ phase = "done" /\ chart.flag # "plain" /\ chart.templates \in Straight
    /\ \A i \in DOMAIN Explorer.explored : ~Explorer.explored[i].hole
    /\ known' = [explored |-> TRUE, reads |-> At(ReadsOut)]

ReadsInit == Init /\ known = [explored |-> FALSE, reads |-> {}]
ReadsNext == (Step /\ UNCHANGED known) \/ OtherValues
ReadsSpec == ReadsInit /\ [][ReadsNext]_<<vars, known>>

(* Whatever values a chart is given, a read it makes is one that a call which *)
(* explored reported.                                                         *)
SeesEveryRead ==
    known.explored /\ phase = "first" =>
        \A i \in DOMAIN s.reads : <<s.reads[i].path, s.reads[i].at>> \in known.reads
=============================================================================
