------------------------- MODULE AgentPlans_proofs -------------------------
(* Proofs about plans and staging, for any files, symbols, registry size and *)
(* bounds.                                                                    *)
(*                                                                            *)
(* Nothing compares a plan's stamps with its preview, so AppliedAsReviewed    *)
(* needs what both have to do with the tree: a plan's stamps are not newer    *)
(* than its preview, the preview not newer than the tree, and no write brings *)
(* an old version back. Sound says so of every plan, with what its generation *)
(* says of the graph.                                                         *)
EXTENDS AgentPlans, FiniteSetTheorems, WellFoundedInduction, TLAPS

(* What is true of a plan p while the tree is d, the graph g and its         *)
(* generation n.                                                             *)
Sound(p, d, g, n) ==
    /\ p.gen <= n
    /\ p.gen = n => p.seen = Only(p.touched, g)
    /\ \A f \in p.touched : p.stamps[f] <= d[f]
    /\ p.previewed =>
         \A f \in Files : IF f \in p.touched
                          THEN p.stamps[f] <= p.shown[f] /\ p.shown[f] <= d[f]
                          ELSE p.shown[f] = 0

AllSound ==
    /\ \A i \in PlanIds : Sound(plans[i], disk, graph, generation)
    /\ Sound(txn, disk, graph, generation)

IInv == TypeOK /\ StagedIdsAlive /\ AllSound /\ AppliedAsReviewed

(* How the tree and the graph may move under the plans.                      *)
Onward(d, g, n, d2, g2, n2) ==
    /\ \A f \in Files : d[f] <= d2[f]
    /\ (g2 = g /\ n2 = n) \/ n < n2
-----------------------------------------------------------------------------
LEMMA VersionsAreNat == Versions \subseteq Nat /\ Generations \subseteq Nat \ {0} /\ 0 \in Versions
  BY PlanAssumption DEF Versions, Generations

LEMMA OnlyType ==
    ASSUME NEW T \in SUBSET Files, NEW c \in [Files -> Versions]
    PROVE  Only(T, c) \in [Files -> Versions]
  BY VersionsAreNat DEF Only

LEMMA NoPlanType == NoPlan \in Plan /\ Unset \in [Files -> Versions]
  BY VersionsAreNat DEF NoPlan, Plan, Unset

LEMMA NoApplyType ==
    NoApply \in [by : {"nobody", "agent", "cockpit"}, plan : Plan, base : [Files -> Versions]]
    /\ NoApply.by = "nobody"
  BY NoPlanType DEF NoApply

LEMMA NewPlanType ==
    ASSUME TypeOK, NEW T \in SUBSET Files, NEW S \in SUBSET Symbols
    PROVE  NewPlan(T, S) \in Plan /\ Sound(NewPlan(T, S), disk, graph, generation)
<1>1. Only(T, disk) \in [Files -> Versions] /\ Only(T, graph) \in [Files -> Versions]
  BY OnlyType DEF TypeOK
<1>2. NewPlan(T, S) \in Plan
  BY <1>1, NoPlanType DEF NewPlan, Plan, TypeOK
<1>3. ASSUME NEW f \in T PROVE Only(T, disk)[f] <= disk[f]
  <2>1. f \in Files /\ disk[f] \in Nat
    BY VersionsAreNat DEF TypeOK
  <2> QED BY <2>1 DEF Only
<1>4. generation <= generation
  BY VersionsAreNat DEF TypeOK
<1> QED BY <1>2, <1>3, <1>4 DEF NewPlan, Sound

LEMMA NoPlanIsSound ==
    ASSUME NEW d, NEW g, NEW n \in Generations
    PROVE  Sound(NoPlan, d, g, n)
  BY VersionsAreNat DEF NoPlan, Sound

(* A plan stays sound while the tree only gains versions, and the graph       *)
(* either stays or has a new generation.                                     *)
LEMMA StillSound ==
    ASSUME NEW p \in Plan, NEW d \in [Files -> Versions], NEW d2 \in [Files -> Versions],
           NEW g, NEW g2, NEW n \in Generations, NEW n2 \in Generations,
           Sound(p, d, g, n), Onward(d, g, n, d2, g2, n2)
    PROVE  Sound(p, d2, g2, n2)
<1>1. p.gen \in Nat /\ n \in Nat /\ n2 \in Nat /\ p.touched \subseteq Files
  BY VersionsAreNat DEF Plan
<1>2. \A f \in Files : d[f] \in Nat /\ d2[f] \in Nat /\ p.stamps[f] \in Nat /\ p.shown[f] \in Nat
  BY VersionsAreNat DEF Plan
<1>3. p.gen <= n2 /\ (p.gen = n2 => p.seen = Only(p.touched, g2))
  BY <1>1 DEF Sound, Onward
<1>4. \A f \in p.touched : p.stamps[f] <= d2[f]
  BY <1>1, <1>2 DEF Sound, Onward
<1>5. ASSUME p.previewed, NEW f \in Files
      PROVE  IF f \in p.touched
             THEN p.stamps[f] <= p.shown[f] /\ p.shown[f] <= d2[f]
             ELSE p.shown[f] = 0
  BY <1>1, <1>2, <1>5 DEF Sound, Onward
<1> QED BY <1>3, <1>4, <1>5 DEF Sound

(* A plan that was previewed and still applies was shown the tree as it is.  *)
LEMMA ShownIsBase ==
    ASSUME NEW p \in Plan, NEW d \in [Files -> Versions], NEW g, NEW n,
           Sound(p, d, g, n), p.previewed, \A f \in p.touched : d[f] = p.stamps[f]
    PROVE  Only(p.touched, d) = p.shown
<1>1. ASSUME NEW f \in Files PROVE Only(p.touched, d)[f] = p.shown[f]
  <2>1. d[f] \in Nat /\ p.stamps[f] \in Nat /\ p.shown[f] \in Nat
    BY VersionsAreNat DEF Plan
  <2> QED BY <2>1 DEF Only, Sound
<1>2. p.shown \in [Files -> Versions]
  BY DEF Plan
<1> QED BY <1>1, <1>2 DEF Only

LEMMA WrittenType ==
    ASSUME TypeOK, NEW T \in SUBSET Files, CanWrite(T)
    PROVE  Written(T) \in [Files -> Versions] /\ \A f \in Files : disk[f] <= Written(T)[f]
<1>1. ASSUME NEW f \in Files
      PROVE  (IF f \in T THEN disk[f] + 1 ELSE disk[f]) \in Versions
             /\ disk[f] <= (IF f \in T THEN disk[f] + 1 ELSE disk[f])
  <2>1. disk[f] \in 0..MaxVersion /\ MaxVersion \in Nat
    BY PlanAssumption DEF TypeOK, Versions
  <2>2. f \in T => disk[f] < MaxVersion
    BY DEF CanWrite
  <2> QED BY <2>1, <2>2 DEF Versions
<1> QED BY <1>1 DEF Written

(* Every reread leaves the graph or gives it a new generation.               *)
LEMMA RereadOnward ==
    ASSUME TypeOK, NEW T \in SUBSET Files, NEW d2 \in [Files -> Versions], NEW frozen \in BOOLEAN,
           Reread(T, d2, frozen)
    PROVE  /\ graph' \in [Files -> Versions] /\ generation' \in Generations
           /\ (graph' = graph /\ generation' = generation) \/ generation < generation'
           /\ frozen => generation' = generation
<1>1. CASE frozen
  BY <1>1 DEF Reread, TypeOK
<1>2. CASE ~frozen
  <2>1. generation < MaxGen /\ generation' = generation + 1
        /\ graph' = [f \in Files |-> IF f \in T THEN d2[f] ELSE graph[f]]
    BY <1>2 DEF Reread
  <2>2. generation \in 1..MaxGen /\ MaxGen \in Nat
    BY PlanAssumption DEF TypeOK, Generations
  <2>3. generation' \in Generations /\ generation < generation'
    BY <2>1, <2>2 DEF Generations
  <2>4. graph' \in [Files -> Versions]
    BY <2>1 DEF TypeOK
  <2> QED BY <1>2, <2>3, <2>4
<1> QED BY <1>1, <1>2

LEMMA StayingIsOnward ==
    ASSUME TypeOK
    PROVE  Onward(disk, graph, generation, disk, graph, generation)
<1>1. ASSUME NEW f \in Files PROVE disk[f] <= disk[f]
  <2>1. disk[f] \in Nat
    BY VersionsAreNat DEF TypeOK
  <2> QED BY <2>1
<1> QED BY <1>1 DEF Onward

(* Plans that stay, go, or are sound where the step leads: all are sound.    *)
LEMMA AllSoundKept ==
    ASSUME TypeOK, TypeOK', AllSound,
           Onward(disk, graph, generation, disk', graph', generation'),
           \A i \in PlanIds : \/ plans'[i] = plans[i]
                              \/ plans'[i] = NoPlan
                              \/ Sound(plans'[i], disk', graph', generation'),
           \/ txn' = txn
           \/ txn' = NoPlan
           \/ Sound(txn', disk', graph', generation')
    PROVE  AllSound'
<1>1. /\ disk \in [Files -> Versions] /\ disk' \in [Files -> Versions]
      /\ generation \in Generations /\ generation' \in Generations
      /\ txn \in Plan /\ \A i \in PlanIds : plans[i] \in Plan
  BY DEF TypeOK
<1>2. Sound(NoPlan, disk', graph', generation')
  BY <1>1, NoPlanIsSound
<1>3. ASSUME NEW i \in PlanIds PROVE Sound(plans'[i], disk', graph', generation')
  <2>1. Sound(plans[i], disk, graph, generation)
    BY DEF AllSound
  <2>2. Sound(plans[i], disk', graph', generation')
    BY <1>1, <2>1, StillSound
  <2> QED BY <1>2, <2>2
<1>4. Sound(txn', disk', graph', generation')
  <2>1. Sound(txn, disk, graph, generation)
    BY DEF AllSound
  <2>2. Sound(txn, disk', graph', generation')
    BY <1>1, <2>1, StillSound
  <2> QED BY <1>2, <2>2
<1> QED BY <1>3, <1>4 DEF AllSound

LEMMA QuietIsReviewed ==
    ASSUME last' = NoApply
    PROVE  AppliedAsReviewed'
  BY NoApplyType DEF AppliedAsReviewed
-----------------------------------------------------------------------------
LEMMA StashType ==
    ASSUME TypeOK, NEW p \in Plan, Stash(p)
    PROVE  /\ plans' \in [PlanIds -> Plan] /\ seq' \in 0..MaxSeq /\ evicted' \in SUBSET PlanIds
           /\ \A i \in PlanIds : plans'[i] = plans[i] \/ plans'[i] = NoPlan \/ plans'[i] = p
<1>1. seq \in 0..MaxSeq /\ seq < MaxSeq /\ MaxSeq \in Nat
  BY PlanAssumption DEF TypeOK, Stash
<1>2. seq + 1 \in PlanIds /\ seq + 1 \in 0..MaxSeq
  BY <1>1 DEF PlanIds
<1>3. Overflow(Held \cup {seq + 1}) \subseteq PlanIds
  BY <1>2 DEF Overflow, Held
<1>4. plans' = [i \in PlanIds |-> IF i \in Overflow(Held \cup {seq + 1}) THEN NoPlan
                                 ELSE IF i = seq + 1 THEN p ELSE plans[i]]
  BY DEF Stash
<1>5. plans' \in [PlanIds -> Plan]
  BY <1>4, NoPlanType DEF TypeOK
<1>6. seq' = seq + 1 /\ evicted' = evicted \cup Overflow(Held \cup {seq + 1})
  BY DEF Stash
<1> QED BY <1>2, <1>3, <1>4, <1>5, <1>6 DEF TypeOK

LEMMA PlanMoveKeeps ==
    ASSUME IInv, NEW T \in SUBSET Files, NEW S \in SUBSET Symbols, PlanMove(T, S)
    PROVE  IInv'
<1>1. TypeOK /\ AllSound
  BY DEF IInv
<1>2. NewPlan(T, S) \in Plan /\ Sound(NewPlan(T, S), disk, graph, generation)
  BY <1>1, NewPlanType
<1>3. UNCHANGED <<disk, graph, generation, txn>> /\ last' = NoApply
      /\ moveset' = S /\ stagedAt' = generation /\ Stash(NewPlan(T, S))
  BY DEF PlanMove
<1>4. TypeOK'
  BY <1>1, <1>2, <1>3, StashType, NoApplyType DEF TypeOK
<1>5. AllSound'
  BY <1>1, <1>2, <1>3, <1>4, StashType, StayingIsOnward, AllSoundKept
<1>6. StagedIdsAlive'
  BY <1>3 DEF IInv, StagedIdsAlive
<1> QED BY <1>3, <1>4, <1>5, <1>6, QuietIsReviewed DEF IInv

LEMMA PlanEditKeeps ==
    ASSUME IInv, NEW T \in SUBSET Files, PlanEdit(T)
    PROVE  IInv'
<1>1. TypeOK /\ AllSound
  BY DEF IInv
<1>2. NewPlan(T, {}) \in Plan /\ Sound(NewPlan(T, {}), disk, graph, generation)
  BY <1>1, NewPlanType
<1>3. UNCHANGED <<disk, graph, generation, moveset, txn, stagedAt>> /\ last' = NoApply
      /\ Stash(NewPlan(T, {}))
  BY DEF PlanEdit
<1>4. TypeOK'
  BY <1>1, <1>2, <1>3, StashType, NoApplyType DEF TypeOK
<1>5. AllSound'
  BY <1>1, <1>2, <1>3, <1>4, StashType, StayingIsOnward, AllSoundKept
<1>6. StagedIdsAlive'
  BY <1>3 DEF IInv, StagedIdsAlive
<1> QED BY <1>3, <1>4, <1>5, <1>6, QuietIsReviewed DEF IInv

LEMMA PreviewKeeps ==
    ASSUME IInv, NEW i \in PlanIds, Preview(i)
    PROVE  IInv'
<1> DEFINE p == [plans[i] EXCEPT !.previewed = TRUE, !.shown = Only(plans[i].touched, disk)]
<1>1. TypeOK /\ AllSound /\ plans[i] \in Plan
  BY DEF IInv, TypeOK
<1>2. plans' = [plans EXCEPT ![i] = p] /\ last' = NoApply
      /\ UNCHANGED <<disk, graph, generation, moveset, txn, seq, stagedAt, evicted>>
  BY <1>1 DEF Preview, Plan
<1>3. plans[i].touched \in SUBSET Files
  BY <1>1 DEF Plan
<1>4. Only(plans[i].touched, disk) \in [Files -> Versions]
  BY <1>1, <1>3, OnlyType DEF TypeOK
<1>5. p \in Plan /\ p.touched = plans[i].touched /\ p.gen = plans[i].gen /\ p.seen = plans[i].seen
      /\ p.stamps = plans[i].stamps /\ p.shown = Only(plans[i].touched, disk)
  BY <1>1, <1>4 DEF Plan
<1>6. Sound(p, disk, graph, generation)
  <2>1. Sound(plans[i], disk, graph, generation)
    BY <1>1 DEF AllSound
  <2>2. \A f \in Files : disk[f] <= disk[f]
    BY <1>1, StayingIsOnward DEF Onward
  <2>3. \A f \in Files : p.shown[f] = IF f \in p.touched THEN disk[f] ELSE 0
    BY <1>5 DEF Only
  <2> HIDE DEF p
  <2> QED BY <1>3, <1>5, <2>1, <2>2, <2>3 DEF Sound
<1> HIDE DEF p
<1>7. TypeOK'
  BY <1>1, <1>2, <1>5, NoApplyType DEF TypeOK
<1>8. \A j \in PlanIds : plans'[j] = plans[j] \/ plans'[j] = p
  BY <1>1, <1>2 DEF TypeOK
<1>9. AllSound'
  BY <1>1, <1>2, <1>6, <1>7, <1>8, StayingIsOnward, AllSoundKept
<1>10. StagedIdsAlive'
  BY <1>2 DEF IInv, StagedIdsAlive
<1> QED BY <1>2, <1>7, <1>9, <1>10, QuietIsReviewed DEF IInv
-----------------------------------------------------------------------------
(* A plan p that was previewed, or is the cockpit's, is applied; the registry *)
(* loses at most it.                                                         *)
LEMMA CommitKeeps ==
    ASSUME IInv, NEW p \in Plan, NEW by \in {"agent", "cockpit"},
           Sound(p, disk, graph, generation), by = "agent" => p.previewed, Commit(p, by),
           plans' \in [PlanIds -> Plan], UNCHANGED <<seq, stagedAt, evicted>>,
           \A i \in PlanIds : plans'[i] = plans[i] \/ plans'[i] = NoPlan
    PROVE  IInv'
<1> DEFINE left == IF p.moves = {} THEN moveset ELSE {}
<1>1. TypeOK /\ AllSound /\ StagedIdsAlive
  BY DEF IInv
<1>2. /\ Applicable(p) /\ CanWrite(p.touched) /\ disk' = Written(p.touched)
      /\ moveset' = left /\ txn' = NoPlan
      /\ Reread(p.touched, Written(p.touched), Frozen(left, NoPlan))
      /\ last' = [by |-> by, plan |-> p, base |-> Only(p.touched, disk)]
  BY DEF Commit
<1>3. p.touched \in SUBSET Files /\ Frozen(left, NoPlan) = (left # {})
  BY DEF Plan, Frozen
<1>4. disk' \in [Files -> Versions] /\ \A f \in Files : disk[f] <= disk'[f]
  BY <1>1, <1>2, <1>3, WrittenType
<1>5. /\ graph' \in [Files -> Versions] /\ generation' \in Generations
      /\ (graph' = graph /\ generation' = generation) \/ generation < generation'
      /\ left # {} => generation' = generation
  <2>1. Written(p.touched) \in [Files -> Versions] /\ (left # {}) \in BOOLEAN
    BY <1>2, <1>4
  <2> HIDE DEF left
  <2> QED BY <1>1, <1>2, <1>3, <2>1, RereadOnward
<1>6. Only(p.touched, disk) \in [Files -> Versions]
  BY <1>1, <1>3, OnlyType DEF TypeOK
<1>7. TypeOK'
  BY <1>1, <1>2, <1>4, <1>5, <1>6, NoPlanType DEF TypeOK
<1>8. Onward(disk, graph, generation, disk', graph', generation')
  BY <1>4, <1>5 DEF Onward
<1>9. AllSound'
  BY <1>1, <1>2, <1>7, <1>8, AllSoundKept
<1>10. StagedIdsAlive'
  BY <1>1, <1>2, <1>5 DEF StagedIdsAlive
<1>11. AppliedAsReviewed'
  <2>1. last'.by = by /\ last'.plan = p /\ last'.base = Only(p.touched, disk)
    BY <1>2
  <2>2. by = "agent" => Only(p.touched, disk) = p.shown
    BY <1>1, <1>2, ShownIsBase DEF TypeOK, Applicable
  <2> QED BY <2>1, <2>2 DEF AppliedAsReviewed
<1> QED BY <1>7, <1>9, <1>10, <1>11 DEF IInv

LEMMA ApplyKeeps ==
    ASSUME IInv, NEW i \in PlanIds, Apply(i)
    PROVE  IInv'
<1>1. plans[i] \in Plan /\ Sound(plans[i], disk, graph, generation) /\ plans \in [PlanIds -> Plan]
  BY DEF IInv, TypeOK, AllSound
<1>2. plans[i].previewed /\ Commit(plans[i], "agent") /\ UNCHANGED <<seq, stagedAt, evicted>>
      /\ plans' = [plans EXCEPT ![i] = NoPlan]
  BY DEF Apply
<1>3. plans' \in [PlanIds -> Plan] /\ \A j \in PlanIds : plans'[j] = plans[j] \/ plans'[j] = NoPlan
  BY <1>1, <1>2, NoPlanType
<1> QED BY <1>1, <1>2, <1>3, CommitKeeps

LEMMA ApplyTxnKeeps ==
    ASSUME IInv, ApplyTxn
    PROVE  IInv'
<1>1. txn \in Plan /\ Sound(txn, disk, graph, generation) /\ plans \in [PlanIds -> Plan]
  BY DEF IInv, TypeOK, AllSound
<1>2. Commit(txn, "cockpit") /\ UNCHANGED <<plans, seq, stagedAt, evicted>>
  BY DEF ApplyTxn
<1> QED BY <1>1, <1>2, CommitKeeps

(* Files may be written; what is staged stays or is dropped; the graph only   *)
(* changes when nothing is staged.                                           *)
LEMMA WorldKeeps ==
    ASSUME IInv, disk' \in [Files -> Versions], \A f \in Files : disk[f] <= disk'[f],
           graph' \in [Files -> Versions], generation' \in Generations,
           (graph' = graph /\ generation' = generation)
             \/ (generation < generation' /\ moveset' = {} /\ txn' = NoPlan),
           moveset' \in {moveset, {}}, txn' \in {txn, NoPlan},
           last' = NoApply, UNCHANGED <<plans, seq, stagedAt, evicted>>
    PROVE  IInv'
<1>1. TypeOK /\ AllSound /\ StagedIdsAlive
  BY DEF IInv
<1>2. TypeOK'
  BY <1>1, NoPlanType, NoApplyType DEF TypeOK
<1>3. Onward(disk, graph, generation, disk', graph', generation')
  BY DEF Onward
<1>4. AllSound'
  BY <1>1, <1>2, <1>3, AllSoundKept
<1>5. StagedIdsAlive'
  BY <1>1 DEF StagedIdsAlive
<1> QED BY <1>2, <1>4, <1>5, QuietIsReviewed DEF IInv

LEMMA FailMidwayKeeps ==
    ASSUME IInv, NEW p \in Plan, NEW W \in SUBSET Files, FailMidway(p, W)
    PROVE  IInv'
<1>1. TypeOK
  BY DEF IInv
<1>2. CanWrite(W) /\ disk' = Written(W) /\ moveset' \in {moveset, {}} /\ last' = NoApply
      /\ UNCHANGED <<graph, generation, txn, plans, seq, stagedAt, evicted>>
  BY DEF FailMidway
<1>3. disk' \in [Files -> Versions] /\ \A f \in Files : disk[f] <= disk'[f]
  BY <1>1, <1>2, WrittenType
<1>4. graph' \in [Files -> Versions] /\ generation' \in Generations
  BY <1>1, <1>2 DEF TypeOK
<1> QED BY <1>2, <1>3, <1>4, WorldKeeps

LEMMA RestoreKeeps ==
    ASSUME IInv, NEW T \in SUBSET Files, Restore(T)
    PROVE  IInv'
<1>1. TypeOK
  BY DEF IInv
<1>2. CanWrite(T) /\ disk' = Written(T) /\ Reread(T, Written(T), Frozen(moveset, txn))
      /\ last' = NoApply /\ UNCHANGED <<moveset, txn, plans, seq, stagedAt, evicted>>
  BY DEF Restore
<1>3. disk' \in [Files -> Versions] /\ \A f \in Files : disk[f] <= disk'[f]
  BY <1>1, <1>2, WrittenType
<1>4. CASE Frozen(moveset, txn)
  <2>1. UNCHANGED <<graph, generation>>
    BY <1>2, <1>4 DEF Reread
  <2>2. graph' \in [Files -> Versions] /\ generation' \in Generations
    BY <1>1, <2>1 DEF TypeOK
  <2> QED BY <1>2, <1>3, <2>1, <2>2, WorldKeeps
<1>5. CASE ~Frozen(moveset, txn)
  <2>1. moveset' = {} /\ txn' = NoPlan
    BY <1>2, <1>5 DEF Frozen
  <2>2. Reread(T, Written(T), FALSE)
    BY <1>2, <1>5 DEF Reread
  <2>3. /\ graph' \in [Files -> Versions] /\ generation' \in Generations
        /\ (graph' = graph /\ generation' = generation) \/ generation < generation'
    BY <1>1, <1>2, <1>3, <2>2, RereadOnward
  <2> QED BY <1>2, <1>3, <2>1, <2>3, WorldKeeps
<1> QED BY <1>4, <1>5

LEMMA RefreshKeeps ==
    ASSUME IInv, NEW T \in SUBSET Files, Refresh(T)
    PROVE  IInv'
<1>1. TypeOK /\ disk \in [Files -> Versions]
  BY DEF IInv, TypeOK
<1>2. Reread(T, disk, FALSE) /\ moveset = {} /\ txn = NoPlan /\ last' = NoApply
      /\ UNCHANGED <<disk, moveset, txn, plans, seq, stagedAt, evicted>>
  BY DEF Refresh, Frozen
<1>3. /\ graph' \in [Files -> Versions] /\ generation' \in Generations
      /\ (graph' = graph /\ generation' = generation) \/ generation < generation'
  BY <1>1, <1>2, RereadOnward
<1>4. \A f \in Files : disk[f] <= disk'[f]
  BY <1>1, <1>2, StayingIsOnward DEF Onward
<1> QED BY <1>1, <1>2, <1>3, <1>4, WorldKeeps

LEMMA SaveKeeps ==
    ASSUME IInv, NEW f \in Files, Save(f)
    PROVE  IInv'
<1>1. TypeOK
  BY DEF IInv
<1>2. CanWrite({f}) /\ disk' = Written({f}) /\ last' = NoApply
      /\ UNCHANGED <<graph, generation, moveset, txn, plans, seq, stagedAt, evicted>>
  BY DEF Save
<1>3. disk' \in [Files -> Versions] /\ \A g \in Files : disk[g] <= disk'[g]
  BY <1>1, <1>2, WrittenType
<1>4. graph' \in [Files -> Versions] /\ generation' \in Generations
  BY <1>1, <1>2 DEF TypeOK
<1> QED BY <1>2, <1>3, <1>4, WorldKeeps

LEMMA ClearKeeps ==
    ASSUME IInv, ClearStage \/ ClearTxn
    PROVE  IInv'
<1>1. TypeOK
  BY DEF IInv
<1>2. moveset' \in {moveset, {}} /\ txn' \in {txn, NoPlan} /\ last' = NoApply
      /\ UNCHANGED <<disk, graph, generation, plans, seq, stagedAt, evicted>>
  BY DEF ClearStage, ClearTxn
<1>3. disk' \in [Files -> Versions] /\ graph' \in [Files -> Versions] /\ generation' \in Generations
  BY <1>1, <1>2 DEF TypeOK
<1>4. \A f \in Files : disk[f] <= disk'[f]
  BY <1>1, <1>2, StayingIsOnward DEF Onward
<1> QED BY <1>2, <1>3, <1>4, WorldKeeps

LEMMA ToggleStageKeeps ==
    ASSUME IInv, NEW s \in Symbols, ToggleStage(s)
    PROVE  IInv'
<1>1. TypeOK /\ AllSound /\ StagedIdsAlive
  BY DEF IInv
<1>2. /\ moveset' = IF s \in moveset THEN moveset \ {s} ELSE moveset \cup {s}
      /\ stagedAt' = IF moveset = {} THEN generation ELSE stagedAt
      /\ last' = NoApply /\ UNCHANGED <<disk, graph, generation, txn, plans, seq, evicted>>
  BY DEF ToggleStage
<1>3. TypeOK'
  BY <1>1, <1>2, NoApplyType DEF TypeOK
<1>4. AllSound'
  BY <1>1, <1>2, <1>3, StayingIsOnward, AllSoundKept
<1>5. StagedIdsAlive'
  BY <1>1, <1>2 DEF StagedIdsAlive
<1> QED BY <1>2, <1>3, <1>4, <1>5, QuietIsReviewed DEF IInv

LEMMA StageTxnKeeps ==
    ASSUME IInv, NEW T \in SUBSET Files, NEW S \in SUBSET Symbols, StageTxn(T, S)
    PROVE  IInv'
<1>1. TypeOK /\ AllSound /\ StagedIdsAlive
  BY DEF IInv
<1>2. NewPlan(T, S) \in Plan /\ Sound(NewPlan(T, S), disk, graph, generation)
  BY <1>1, NewPlanType
<1>3. txn' = NewPlan(T, S) /\ last' = NoApply
      /\ UNCHANGED <<disk, graph, generation, moveset, plans, seq, stagedAt, evicted>>
  BY DEF StageTxn
<1>4. TypeOK'
  BY <1>1, <1>2, <1>3, NoApplyType DEF TypeOK
<1>5. AllSound'
  BY <1>1, <1>2, <1>3, <1>4, StayingIsOnward, AllSoundKept
<1>6. StagedIdsAlive'
  BY <1>1, <1>3 DEF StagedIdsAlive, NewPlan
<1> QED BY <1>3, <1>4, <1>5, <1>6, QuietIsReviewed DEF IInv

(* A host that starts, for the first time or again, holds nothing.           *)
Fresh ==
    /\ disk \in [Files -> Versions] /\ graph \in [Files -> Versions] /\ generation = 1
    /\ moveset = {} /\ txn = NoPlan /\ plans = [i \in PlanIds |-> NoPlan] /\ seq = 0
    /\ stagedAt = 1 /\ evicted = {} /\ last = NoApply

LEMMA FreshIsGood == Fresh => IInv
<1> SUFFICES ASSUME Fresh PROVE IInv
  OBVIOUS
<1>1. generation \in Generations /\ stagedAt \in Generations /\ seq \in 0..MaxSeq
  BY PlanAssumption DEF Fresh, Generations
<1>2. TypeOK
  BY <1>1, NoPlanType, NoApplyType DEF Fresh, TypeOK
<1>3. AllSound
  BY <1>1, NoPlanIsSound DEF Fresh, AllSound
<1> QED BY <1>2, <1>3, NoApplyType DEF Fresh, IInv, StagedIdsAlive, AppliedAsReviewed

LEMMA RestartKeeps == IInv /\ Restart => IInv'
<1>1. IInv /\ Restart => Fresh'
  BY DEF IInv, TypeOK, Restart, Fresh
<1> QED BY <1>1, FreshIsGood, PTL

THEOREM InductiveInvariant == Spec => []IInv
<1>1. Init => IInv
  <2>1. Init => Fresh
    BY NoPlanType DEF Init, Fresh
  <2> QED BY <2>1, FreshIsGood
<1>2. IInv /\ [Next]_vars => IInv'
  <2> SUFFICES ASSUME IInv, [Next]_vars PROVE IInv'
    OBVIOUS
  <2>1. CASE AgentSteps
    BY <2>1, PlanMoveKeeps, PlanEditKeeps, PreviewKeeps, ApplyKeeps, FailMidwayKeeps
       DEF AgentSteps, ApplyFails, IInv, TypeOK
  <2>2. CASE CockpitSteps
    BY <2>2, ToggleStageKeeps, ClearKeeps, StageTxnKeeps, ApplyTxnKeeps, FailMidwayKeeps
       DEF CockpitSteps, ApplyTxnFails, IInv, TypeOK
  <2>3. CASE \E T \in SUBSET Files : Restore(T)
    BY <2>3, RestoreKeeps
  <2>4. CASE \E f \in Files : Save(f)
    BY <2>4, SaveKeeps
  <2>5. CASE \E T \in SUBSET Files : Refresh(T)
    BY <2>5, RefreshKeeps
  <2>6. CASE Restart
    BY <2>6, RestartKeeps
  <2>7. CASE UNCHANGED vars
    BY <2>7 DEF vars, IInv, TypeOK, StagedIdsAlive, AllSound, AppliedAsReviewed
  <2> QED BY <2>1, <2>2, <2>3, <2>4, <2>5, <2>6, <2>7 DEF Next
<1> QED BY <1>1, <1>2, PTL DEF Spec

(* Plans, staging and the registry stay well-formed, whatever is planned,    *)
(* previewed, applied, refused, saved, refreshed or restarted.               *)
THEOREM TypeCorrect == Spec => []TypeOK
  BY InductiveInvariant, PTL DEF IInv

(* txn_apply writes what txn_preview showed, although apply never looks at    *)
(* the preview: the stamp comparison of txn.verify is enough.                *)
THEOREM AppliedIsReviewed == Spec => []AppliedAsReviewed
  BY InductiveInvariant, PTL DEF IInv

(* No staged node id outlives the graph it names: the freeze of refresh.lua   *)
(* covers every way to a new generation.                                     *)
THEOREM StagedIdsStayAlive == Spec => []StagedIdsAlive
  BY InductiveInvariant, PTL DEF IInv

(* The comparison of generations in held_plan and txn.verify tells a plan of  *)
(* this graph from a plan of another.                                        *)
THEOREM GenerationIsAName == Spec => []GenerationNamesTheGraph
<1>1. IInv => GenerationNamesTheGraph
  <2> SUFFICES ASSUME IInv,
                      NEW p \in {plans[i] : i \in Held} \cup {txn}, p.gen = generation
               PROVE  p.seen = Only(p.touched, graph)
    BY DEF GenerationNamesTheGraph
  <2>1. Sound(p, disk, graph, generation)
    BY DEF IInv, AllSound, Held
  <2> QED BY <2>1 DEF Sound
<1> QED BY <1>1, InductiveInvariant, PTL
-----------------------------------------------------------------------------
(* The registry. What stash_plan keeps are fewer than PLAN_CAP plans above    *)
(* the oldest one kept.                                                      *)
LEMMA HasOldest ==
    ASSUME NEW K \in SUBSET Nat, K # {}
    PROVE  \E m \in K : \A k \in K : m <= k
<1>1. PICK m \in K : \A k \in K : <<k, m>> \notin OpToRel(<, Nat)
  BY NatLessThanWellFounded, WFMin
<1>2. ASSUME NEW k \in K PROVE m <= k
  <2>1. k \in Nat /\ m \in Nat /\ <<k, m>> \in Nat \X Nat
    BY <1>1
  <2>2. ~ (<<k, m>>[1] < <<k, m>>[2])
    BY <1>1, <2>1, Zenon DEF OpToRel
  <2> QED BY <2>1, <2>2
<1> QED BY <1>2

LEMMA KeepsTheNewest ==
    ASSUME NEW H \in SUBSET PlanIds
    PROVE  /\ IsFiniteSet(H \ Overflow(H)) /\ Cardinality(H \ Overflow(H)) <= PlanCap
           /\ \A e \in Overflow(H), h \in H \ Overflow(H) : e < h
<1> DEFINE Newer(i) == {j \in H : j > i}
           K == H \ Overflow(H)
<1>1. IsFiniteSet(H) /\ H \subseteq Nat
  <2>1. MaxSeq \in Int /\ 1 \in Int /\ PlanIds = 1..MaxSeq
    BY PlanAssumption DEF PlanIds
  <2>2. IsFiniteSet(PlanIds) /\ PlanIds \subseteq Nat
    BY <2>1, FS_Interval
  <2> QED BY <2>1, <2>2, FS_Subset
<1>2. ASSUME NEW i \in H PROVE IsFiniteSet(Newer(i)) /\ Cardinality(Newer(i)) \in Nat
  <2>1. Newer(i) \in SUBSET H
    OBVIOUS
  <2> HIDE DEF Newer
  <2> QED BY <1>1, <2>1, FS_Subset, FS_CardinalityType
<1>3. IsFiniteSet(K) /\ Cardinality(K) \in Nat /\ K \subseteq H
  <2>1. K \in SUBSET H
    OBVIOUS
  <2> HIDE DEF K
  <2> QED BY <1>1, <2>1, FS_Subset, FS_CardinalityType
<1>4. PlanCap \in Nat /\ PlanCap > 0
  BY PlanAssumption
<1>5. \A i \in H : i \in Overflow(H) <=> Cardinality(Newer(i)) >= PlanCap
  BY DEF Overflow
<1>6. Cardinality(K) <= PlanCap
  <2>1. CASE K = {}
    BY <1>4, <2>1, FS_EmptySet
  <2>2. CASE K # {}
    <3>1. PICK m \in K : \A k \in K : m <= k
      BY <1>1, <2>2, HasOldest
    <3>2. K \ {m} \in SUBSET Newer(m)
      <4>1. SUFFICES ASSUME NEW k \in K, k # m PROVE k \in Newer(m)
        OBVIOUS
      <4>2. k \in Nat /\ m \in Nat /\ m <= k
        BY <1>1, <1>3, <3>1
      <4> QED BY <1>3, <4>1, <4>2
    <3>3. Cardinality(Newer(m)) < PlanCap
      BY <1>2, <1>4, <1>5, <3>1
    <3>4. m \in H /\ m \in K
      BY <3>1
    <3> HIDE DEF Newer, K
    <3>5. Cardinality(K \ {m}) <= Cardinality(Newer(m))
      BY <1>2, <3>2, <3>4, FS_Subset
    <3>6. Cardinality(K \ {m}) = Cardinality(K) - 1
      BY <1>3, <3>4, FS_RemoveElement
    <3> QED BY <1>2, <1>3, <1>4, <3>3, <3>4, <3>5, <3>6
  <2> QED BY <2>1, <2>2
<1>7. ASSUME NEW e \in Overflow(H), NEW h \in K PROVE e < h
  <2>1. e \in H /\ h \in H /\ e \in Nat /\ h \in Nat /\ h \notin Overflow(H)
    BY <1>1 DEF Overflow
  <2>2. SUFFICES ASSUME h <= e PROVE FALSE
    BY <2>1
  <2>3. Newer(e) \in SUBSET Newer(h)
    <3>1. SUFFICES ASSUME NEW j \in H, j > e PROVE j > h
      OBVIOUS
    <3>2. j \in Nat
      BY <1>1
    <3> QED BY <2>1, <2>2, <3>1, <3>2
  <2> HIDE DEF Newer
  <2>4. Cardinality(Newer(e)) <= Cardinality(Newer(h))
    BY <1>2, <2>1, <2>3, FS_Subset
  <2> QED BY <1>2, <1>4, <1>5, <2>1, <2>4
<1> QED BY <1>3, <1>6, <1>7

(* Ids come from a counter, so what was dropped and what is held is old.     *)
Registry ==
    /\ \A i \in Held : i <= seq
    /\ \A e \in evicted : e <= seq
    /\ EvictionInOrder

LEMMA StashKeepsOrder ==
    ASSUME TypeOK, Registry, NEW p, Stash(p)
    PROVE  Registry'
<1> DEFINE H == Held \cup {seq + 1}
<1>1. seq \in 0..MaxSeq /\ seq < MaxSeq /\ MaxSeq \in Nat /\ seq' = seq + 1
  BY PlanAssumption DEF TypeOK, Stash
<1>2. H \in SUBSET PlanIds /\ evicted \in SUBSET PlanIds /\ PlanIds \subseteq Nat
  BY <1>1 DEF PlanIds, Held, TypeOK
<1>3. evicted' = evicted \cup Overflow(H) /\ Overflow(H) \subseteq H
  BY DEF Stash, Overflow
<1>4. Held' \in SUBSET (H \ Overflow(H))
  <2>1. plans' = [i \in PlanIds |-> IF i \in Overflow(H) THEN NoPlan
                                   ELSE IF i = seq + 1 THEN p ELSE plans[i]]
    BY DEF Stash
  <2> HIDE DEF H
  <2>2. ASSUME NEW i \in PlanIds, plans'[i] # NoPlan
        PROVE  i \notin Overflow(H) /\ (i = seq + 1 \/ plans[i] # NoPlan)
    BY <2>1, <2>2
  <2> QED BY <2>2 DEF H, Held
<1>5. Cardinality(Held') <= PlanCap
  <2> HIDE DEF H
  <2>1. IsFiniteSet(H \ Overflow(H)) /\ Cardinality(H \ Overflow(H)) <= PlanCap
    BY <1>2, KeepsTheNewest
  <2>2. IsFiniteSet(Held') /\ Cardinality(Held') <= Cardinality(H \ Overflow(H))
    BY <1>4, <2>1, FS_Subset
  <2>3. Cardinality(Held') \in Nat /\ Cardinality(H \ Overflow(H)) \in Nat /\ PlanCap \in Nat
    BY <2>1, <2>2, FS_CardinalityType, PlanAssumption
  <2> QED BY <2>1, <2>2, <2>3
<1>6. ASSUME NEW e \in evicted', NEW h \in Held' PROVE e < h
  <2>1. CASE e \in evicted /\ h \in Held
    BY <2>1 DEF Registry, EvictionInOrder
  <2>2. CASE e \in evicted /\ h = seq + 1
    BY <1>1, <1>2, <2>2 DEF Registry
  <2>3. CASE e \in Overflow(H)
    BY <1>2, <1>4, <2>3, KeepsTheNewest
  <2> QED BY <1>3, <1>4, <2>1, <2>2, <2>3
<1>7. ASSUME NEW i \in H PROVE i <= seq'
  <2>1. i \in Nat /\ seq \in Nat
    <3>1. seq \in Nat
      BY <1>1
    <3>2. i \in Nat
      <4> HIDE DEF H
      <4>1. i \in PlanIds
        BY <1>2
      <4> QED BY <1>2, <4>1
    <3> QED BY <3>1, <3>2
  <2>2. i \in Held \/ i = seq + 1
    OBVIOUS
  <2>3. i \in Held => i <= seq
    BY DEF Registry
  <2> QED BY <1>1, <2>1, <2>2, <2>3
<1>8. ASSUME NEW e \in evicted' PROVE e <= seq'
  <2>1. CASE e \in evicted
    <3>1. e \in Nat /\ seq \in Nat /\ e <= seq
      BY <1>1, <1>2, <2>1 DEF Registry
    <3> QED BY <1>1, <3>1
  <2>2. CASE e \in Overflow(H)
    BY <1>3, <1>7, <2>2
  <2> QED BY <1>3, <2>1, <2>2
<1>9. \A i \in Held' : i <= seq'
  BY <1>4, <1>7
<1> QED BY <1>5, <1>6, <1>8, <1>9 DEF Registry, EvictionInOrder

(* Every other step drops no plan for its age and makes none.                *)
LEMMA OthersKeepOrder ==
    ASSUME TypeOK, Registry, Held' \in SUBSET Held, UNCHANGED <<seq, evicted>>
    PROVE  Registry'
<1>1. IsFiniteSet(Held)
  <2>1. MaxSeq \in Int /\ 1 \in Int /\ PlanIds = 1..MaxSeq
    BY PlanAssumption DEF PlanIds
  <2>2. IsFiniteSet(PlanIds) /\ Held \in SUBSET PlanIds
    BY <2>1, FS_Interval DEF Held
  <2> QED BY <2>2, FS_Subset
<1>2. Cardinality(Held') <= PlanCap
  <2>1. IsFiniteSet(Held') /\ Cardinality(Held') <= Cardinality(Held)
    BY <1>1, FS_Subset
  <2>2. Cardinality(Held') \in Nat /\ Cardinality(Held) \in Nat /\ PlanCap \in Nat
    BY <1>1, <2>1, FS_CardinalityType, PlanAssumption
  <2> QED BY <2>1, <2>2 DEF Registry, EvictionInOrder
<1> QED BY <1>2 DEF Registry, EvictionInOrder

(* A fresh registry is empty.                                                *)
NoPlansYet == plans = [i \in PlanIds |-> NoPlan] /\ seq = 0 /\ evicted = {}

LEMMA EmptyIsInOrder == NoPlansYet => Registry
<1> SUFFICES ASSUME NoPlansYet PROVE Registry
  OBVIOUS
<1>1. Held = {}
  BY DEF NoPlansYet, Held
<1>2. Cardinality(Held) <= PlanCap
  BY <1>1, FS_EmptySet, PlanAssumption
<1> QED BY <1>1, <1>2 DEF NoPlansYet, Registry, EvictionInOrder

(* The registry drops the oldest plan, never a newer one, and holds at most   *)
(* PLAN_CAP: for every cap and every number of plans.                        *)
THEOREM EvictsInOrder == Spec => []EvictionInOrder
<1>1. Init => Registry
  <2>1. Init => NoPlansYet
    BY DEF Init, NoPlansYet
  <2> QED BY <2>1, EmptyIsInOrder
<1>2. IInv /\ Registry /\ [Next]_vars => Registry'
  <2>1. IInv /\ Restart => Registry'
    <3>1. IInv /\ Restart => NoPlansYet'
      BY DEF Restart, NoPlansYet
    <3> QED BY <3>1, EmptyIsInOrder, PTL
  <2> SUFFICES ASSUME IInv, Registry, [Next]_vars PROVE Registry'
    OBVIOUS
  <2>2. TypeOK
    BY DEF IInv
  <2>3. CASE \E p : Stash(p)
    BY <2>2, <2>3, StashKeepsOrder
  <2>4. ASSUME NEW i \in PlanIds, Preview(i) PROVE Registry'
    <3>1. i \in Held /\ UNCHANGED <<seq, evicted>>
          /\ \A j \in PlanIds : j # i => plans'[j] = plans[j]
      BY <2>2, <2>4 DEF Preview, Usable, TypeOK
    <3>2. Held' \in SUBSET Held
      BY <3>1 DEF Held
    <3> QED BY <2>2, <3>1, <3>2, OthersKeepOrder
  <2>5. ASSUME NEW i \in PlanIds, Apply(i) PROVE Registry'
    <3>1. UNCHANGED <<seq, evicted>> /\ plans' = [plans EXCEPT ![i] = NoPlan]
      BY <2>5 DEF Apply
    <3>2. \A j \in PlanIds : plans'[j] = plans[j] \/ plans'[j] = NoPlan
      BY <2>2, <3>1 DEF TypeOK
    <3>3. Held' \in SUBSET Held
      BY <3>2 DEF Held
    <3> QED BY <2>2, <3>1, <3>3, OthersKeepOrder
  <2>6. CASE UNCHANGED <<plans, seq, evicted>>
    BY <2>2, <2>6, OthersKeepOrder DEF Held
  <2>7. CASE AgentSteps
    BY <2>3, <2>4, <2>5, <2>6, <2>7 DEF AgentSteps, PlanMove, PlanEdit, ApplyFails, FailMidway
  <2>8. CASE CockpitSteps
    BY <2>6, <2>8 DEF CockpitSteps, ToggleStage, ClearStage, StageTxn, ApplyTxn, ApplyTxnFails,
                      FailMidway, ClearTxn
  <2>9. CASE (\E T \in SUBSET Files : Restore(T) \/ Refresh(T)) \/ \E f \in Files : Save(f)
    BY <2>6, <2>9 DEF Restore, Refresh, Save
  <2>10. CASE UNCHANGED vars
    BY <2>6, <2>10 DEF vars
  <2> QED BY <2>1, <2>7, <2>8, <2>9, <2>10 DEF Next
<1>3. Registry => EvictionInOrder
  BY DEF Registry
<1> QED BY <1>1, <1>2, <1>3, InductiveInvariant, PTL DEF Spec
=============================================================================
