----------------------------- MODULE AgentPlans -----------------------------
(***************************************************************************)
(* From a plan to a write: the registry of plans an agent holds             *)
(* (txn_plan_*, txn_preview, txn_apply, txn_undo of agent.lua), the staged   *)
(* move-set and the staged transaction of the cockpit (store.lua), the       *)
(* checks txn.apply makes before it writes, and the refresh that re-reads    *)
(* the graph - and is refused while anything is staged (refresh.lua).        *)
(*                                                                          *)
(* A plan's edits are offsets into the text the graph was extracted from;    *)
(* its stamps are those of the disk.  Texts are versions: every write gives  *)
(* a file a new one, and a file's stamp is its version.                      *)
(*                                                                          *)
(* Left out: what an edit does, durable refs (they resolve as long as the    *)
(* generation is the plan's), unsaved buffers, streaming extraction.  The    *)
(* write itself is one step here; Txn.tla takes it apart.                    *)
(***************************************************************************)
EXTENDS Integers, FiniteSets

CONSTANTS Files,
          Symbols,     \* what a move-set may stage
          PlanCap,     \* PLAN_CAP
          MaxSeq,      \* bound: plans made by one host
          MaxVersion,  \* bound: writes to one file
          MaxGen       \* bound: graph generations of one host

ASSUME PlanAssumption ==
    /\ PlanCap \in Nat \ {0}
    /\ MaxSeq \in Nat
    /\ MaxVersion \in Nat
    /\ MaxGen \in Nat \ {0}

Versions == 0..MaxVersion
Generations == 1..MaxGen
PlanIds == 1..MaxSeq

VARIABLES disk,        \* [Files -> Versions]
          graph,       \* [Files -> Versions], the text each file's nodes were read from
          generation,  \* store.generation
          moveset,     \* store.moveset
          txn,         \* store.txn: a plan or NoPlan
          plans,       \* M._plans: [PlanIds -> plan or NoPlan]
          seq,         \* plan_seq
          stagedAt,    \* history variable: the generation the oldest staged id is of
          evicted,     \* history variable: ids dropped because of PLAN_CAP
          last         \* history variable: what the step just taken applied

vars == <<disk, graph, generation, moveset, txn, plans, seq, stagedAt, evicted, last>>

Unset == [f \in Files |-> 0]

(* touched, moves, generation, stamps are the plan's; seen: the graph's       *)
(* versions its offsets come from; previewed, shown: the entry's `previewed`  *)
(* and the versions the preview diffed (`reviewed`).                          *)
Plan == [touched : SUBSET Files, moves : SUBSET Symbols, gen : {0} \cup Generations,
         stamps : [Files -> Versions], seen : [Files -> Versions],
         previewed : BOOLEAN, shown : [Files -> Versions]]
NoPlan == [touched |-> {}, moves |-> {}, gen |-> 0, stamps |-> Unset, seen |-> Unset,
           previewed |-> FALSE, shown |-> Unset]

(* What is remembered of an apply: who, the plan, and the versions it was      *)
(* computed from.                                                              *)
NoApply == [by |-> "nobody", plan |-> NoPlan, base |-> Unset]

TypeOK ==
    /\ disk \in [Files -> Versions]
    /\ graph \in [Files -> Versions]
    /\ generation \in Generations
    /\ moveset \in SUBSET Symbols
    /\ txn \in Plan
    /\ plans \in [PlanIds -> Plan]
    /\ seq \in 0..MaxSeq
    /\ stagedAt \in Generations
    /\ evicted \in SUBSET PlanIds
    /\ last \in [by : {"nobody", "agent", "cockpit"}, plan : Plan,
                 base : [Files -> Versions]]
-----------------------------------------------------------------------------
Only(T, c) == [f \in Files |-> IF f \in T THEN c[f] ELSE 0]

Held == {i \in PlanIds : plans[i] # NoPlan}

(* held_plan: known, and of this generation. *)
Usable(i) == i \in Held /\ plans[i].gen = generation

(* Mutant: the staged transaction does not freeze the graph. *)
FrozenByMoves(moves, staged) == moves # {}

(* What refresh.files, refresh.all, hotswap and init.open refuse on. *)
Frozen(moves, staged) == moves # {} \/ staged # NoPlan

(* Any planner: offsets from the graph, stamps from the disk. *)
NewPlan(T, S) ==
    [touched |-> T, moves |-> S, gen |-> generation, stamps |-> Only(T, disk),
     seen |-> Only(T, graph), previewed |-> FALSE, shown |-> Unset]

(* What stash_plan drops: the oldest, until PLAN_CAP are left. *)
Overflow(held) ==
    {i \in held : Cardinality({j \in held : j > i}) >= PlanCap}

(* Mutant: no stamp CAS. *)
ApplicableUnstamped(p) ==
    /\ p.moves # {} => p.moves = moveset
    /\ p.gen = generation

(* plan.precheck of a move-set plan, then txn.verify. *)
Applicable(p) ==
    /\ p.moves # {} => p.moves = moveset
    /\ p.gen = generation
    /\ \A f \in p.touched : disk[f] = p.stamps[f]

Written(T) == [f \in Files |-> IF f \in T THEN disk[f] + 1 ELSE disk[f]]
CanWrite(T) == \A f \in T : disk[f] < MaxVersion

(* Mutant: an ingest that does not count. *)
RereadSilently(T, now, frozen) ==
    IF frozen
      THEN UNCHANGED <<graph, generation>>
      ELSE /\ graph' = [f \in Files |-> IF f \in T THEN now[f] ELSE graph[f]]
           /\ UNCHANGED generation

(* refresh.files(T) once the tree is `now`: nothing while frozen, else the     *)
(* files are read again and the ingest makes a new generation.                 *)
Reread(T, now, frozen) ==
    IF frozen
      THEN UNCHANGED <<graph, generation>>
      ELSE /\ generation < MaxGen
           /\ generation' = generation + 1
           /\ graph' = [f \in Files |-> IF f \in T THEN now[f] ELSE graph[f]]
-----------------------------------------------------------------------------
Init ==
    /\ disk = Unset
    /\ graph = Unset
    /\ generation = 1
    /\ moveset = {}
    /\ txn = NoPlan
    /\ plans = [i \in PlanIds |-> NoPlan]
    /\ seq = 0
    /\ stagedAt = 1
    /\ evicted = {}
    /\ last = NoApply

(* stash_plan, at the end of every txn_plan_* verb. *)
Stash(p) ==
    LET id == seq + 1
        gone == Overflow(Held \cup {id})
    IN  /\ seq < MaxSeq
        /\ seq' = id
        /\ plans' = [i \in PlanIds |->
                        IF i \in gone THEN NoPlan ELSE IF i = id THEN p ELSE plans[i]]
        /\ evicted' = evicted \cup gone

(* txn_plan_moveset on a writable host: the move-set becomes the plan's (what  *)
(* was staged is put back when no plan comes of it).                           *)
PlanMove(T, S) ==
    /\ T # {} /\ S # {}
    /\ Stash(NewPlan(T, S))
    /\ moveset' = S
    /\ stagedAt' = generation
    /\ last' = NoApply
    /\ UNCHANGED <<disk, graph, generation, txn>>

(* Every other txn_plan_* verb. *)
PlanEdit(T) ==
    /\ T # {}
    /\ Stash(NewPlan(T, {}))
    /\ last' = NoApply
    /\ UNCHANGED <<disk, graph, generation, moveset, txn, stagedAt>>

(* txn_preview: txn.stage reads the files as they are, stamps unseen. *)
Preview(i) ==
    /\ Usable(i)
    /\ plans' = [plans EXCEPT ![i].previewed = TRUE,
                              ![i].shown = Only(plans[i].touched, disk)]
    /\ last' = NoApply
    /\ UNCHANGED <<disk, graph, generation, moveset, txn, seq, stagedAt, evicted>>

(* txn.apply of a plan that passes: plan.consume, the write, set_txn(nil), the *)
(* refresh. verify's look at the stamps, stage's reading of the files and the  *)
(* write are one step: a change from outside between them is not seen.         *)
Commit(p, by) ==
    LET left == IF p.moves = {} THEN moveset ELSE {} IN
    /\ Applicable(p)
    /\ CanWrite(p.touched)
    /\ disk' = Written(p.touched)
    /\ moveset' = left
    /\ txn' = NoPlan
    /\ Reread(p.touched, Written(p.touched), Frozen(left, NoPlan))
    /\ last' = [by |-> by, plan |-> p, base |-> Only(p.touched, disk)]

(* txn.apply that passes verify and then fails: a guard in txn.stage, the      *)
(* journal, or a file of the write loop (W: the files written before it).      *)
(* plan.consume has run.                                                       *)
FailMidway(p, W) ==
    /\ Applicable(p)
    /\ W \subseteq p.touched /\ W # p.touched
    /\ CanWrite(W)
    /\ disk' = Written(W)
    /\ moveset' = IF p.moves = {} THEN moveset ELSE {}
    /\ last' = NoApply
    /\ UNCHANGED <<graph, generation, txn, plans, seq, stagedAt, evicted>>

(* txn_apply: an applied plan leaves the registry. *)
Apply(i) ==
    /\ Usable(i)
    /\ plans[i].previewed
    /\ Commit(plans[i], "agent")
    /\ plans' = [plans EXCEPT ![i] = NoPlan]
    /\ UNCHANGED <<seq, stagedAt, evicted>>

ApplyFails(i, W) ==
    /\ Usable(i)
    /\ plans[i].previewed
    /\ FailMidway(plans[i], W)

(* txn_undo, :CartographUndo, :CartographRedo: the files T of an entry change  *)
(* and are refreshed (which ones is Txn's matter).                             *)
Restore(T) ==
    /\ T # {}
    /\ CanWrite(T)
    /\ disk' = Written(T)
    /\ Reread(T, Written(T), Frozen(moveset, txn))
    /\ last' = NoApply
    /\ UNCHANGED <<moveset, txn, plans, seq, stagedAt, evicted>>

(* dd: a symbol enters or leaves the move-set. *)
ToggleStage(s) ==
    /\ moveset' = IF s \in moveset THEN moveset \ {s} ELSE moveset \cup {s}
    /\ stagedAt' = IF moveset = {} THEN generation ELSE stagedAt
    /\ last' = NoApply
    /\ UNCHANGED <<disk, graph, generation, txn, plans, seq, evicted>>

ClearStage ==
    /\ moveset # {}
    /\ moveset' = {}
    /\ last' = NoApply
    /\ UNCHANGED <<disk, graph, generation, txn, plans, seq, stagedAt, evicted>>

(* :CartographMove (the staged symbols) and the other planning commands (none). *)
StageTxn(T, S) ==
    /\ txn = NoPlan
    /\ T # {}
    /\ S \in {{}, moveset}
    /\ txn' = NewPlan(T, S)
    /\ last' = NoApply
    /\ UNCHANGED <<disk, graph, generation, moveset, plans, seq, stagedAt, evicted>>

(* :CartographApply *)
ApplyTxn ==
    /\ txn # NoPlan
    /\ Commit(txn, "cockpit")
    /\ UNCHANGED <<plans, seq, stagedAt, evicted>>

ApplyTxnFails(W) ==
    /\ txn # NoPlan
    /\ FailMidway(txn, W)

(* :CartographTxnClear *)
ClearTxn ==
    /\ txn # NoPlan
    /\ txn' = NoPlan
    /\ last' = NoApply
    /\ UNCHANGED <<disk, graph, generation, moveset, plans, seq, stagedAt, evicted>>

(* A file is saved in the editor or written by another program. *)
Save(f) ==
    /\ CanWrite({f})
    /\ disk' = Written({f})
    /\ last' = NoApply
    /\ UNCHANGED <<graph, generation, moveset, txn, plans, seq, stagedAt, evicted>>

(* refresh.files after a save, refresh.all, and hotswap (no file at all). *)
Refresh(T) ==
    /\ ~Frozen(moveset, txn)
    /\ Reread(T, disk, FALSE)
    /\ last' = NoApply
    /\ UNCHANGED <<disk, moveset, txn, plans, seq, stagedAt, evicted>>

(* The host is started again: all it held is gone, the tree is read afresh. *)
Restart ==
    /\ graph' = disk
    /\ generation' = 1
    /\ moveset' = {}
    /\ txn' = NoPlan
    /\ plans' = [i \in PlanIds |-> NoPlan]
    /\ seq' = 0
    /\ stagedAt' = 1
    /\ evicted' = {}
    /\ last' = NoApply
    /\ UNCHANGED disk

AgentSteps ==
    \/ \E T \in SUBSET Files, S \in SUBSET Symbols : PlanMove(T, S)
    \/ \E T \in SUBSET Files : PlanEdit(T)
    \/ \E i \in PlanIds : Preview(i)
    \/ \E i \in PlanIds : Apply(i)
    \/ \E i \in PlanIds, W \in SUBSET Files : ApplyFails(i, W)

CockpitSteps ==
    \/ \E s \in Symbols : ToggleStage(s)
    \/ ClearStage
    \/ \E T \in SUBSET Files, S \in SUBSET Symbols : StageTxn(T, S)
    \/ ApplyTxn
    \/ \E W \in SUBSET Files : ApplyTxnFails(W)
    \/ ClearTxn

Next ==
    \/ AgentSteps
    \/ CockpitSteps
    \/ \E T \in SUBSET Files : Restore(T)
    \/ \E f \in Files : Save(f)
    \/ \E T \in SUBSET Files : Refresh(T)
    \/ Restart

Spec == Init /\ [][Next]_vars
-----------------------------------------------------------------------------
(* What an agent's apply writes is what its preview showed: the same edit, of  *)
(* the same texts ("does not write bytes no caller has seen"), whatever was    *)
(* saved, undone or re-planned between the two calls.                          *)
AppliedAsReviewed == last.by = "agent" => last.base = last.plan.shown

(* Nothing staged outlives the graph it names (init.open: a swap "would strand *)
(* the plan on dead ids"): node ids die with the generation.                   *)
StagedIdsAlive ==
    /\ moveset # {} => stagedAt = generation
    /\ txn # NoPlan => txn.gen = generation

(* A generation names one graph: a plan of this generation was computed from   *)
(* the nodes the graph still has, which is all held_plan's and txn.verify's    *)
(* comparison of generations can tell.                                         *)
GenerationNamesTheGraph ==
    \A p \in {plans[i] : i \in Held} \cup {txn} :
        p.gen = generation => p.seen = Only(p.touched, graph)

(* The registry at its limit: never more than PLAN_CAP plans, and a plan is    *)
(* only dropped after every older one ("only the most recent are kept").       *)
EvictionInOrder ==
    /\ Cardinality(Held) <= PlanCap
    /\ \A e \in evicted, h \in Held : e < h
=============================================================================
