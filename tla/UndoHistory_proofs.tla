------------------------ MODULE UndoHistory_proofs ------------------------
(***************************************************************************)
(* Theorems about UndoHistory for any files, texts and number of entries.  *)
(***************************************************************************)
EXTENDS UndoHistory, TLAPS

(* The inductive invariant: the replay property of the tree and of every    *)
(* applied entry's before-texts hold one another up.  Undoing the newest     *)
(* entry uncovers what its `before` promised (Chained), applying on top      *)
(* records what the tree held (Explained).                                   *)
IInv == TypeOK /\ Explained /\ Chained /\ AfterIsText

LEMMA OverlayType ==
    ASSUME TypeOK, NEW T \in SUBSET Files, NEW image,
           \A f \in T : image[f] \in Contents
    PROVE  Overlay(T, image) \in [Files -> Contents]
  BY DEF TypeOK, Overlay

LEMMA EntryFields ==
    ASSUME TypeOK, NEW i \in Ids
    PROVE  /\ log[i] \in Entries
           /\ log[i].touched \in SUBSET Files
           /\ log[i].before \in [Files -> Contents]
           /\ log[i].after \in [Files -> Contents]
  BY DEF TypeOK, Entries

LEMMA StatusUpdate ==
    ASSUME TypeOK, NEW i \in Ids, NEW s \in {"applied", "rolled_back"}
    PROVE  [log EXCEPT ![i].status = s] \in [Ids -> Entries]
  BY DEF TypeOK, Entries

(* Every variable keeps its type: entries stay well-formed and the tree     *)
(* only ever holds texts or absence.                                        *)
THEOREM TypeCorrect == Spec => []TypeOK
<1>1. Init => TypeOK
  BY ContentAssumption DEF Init, TypeOK, NoEntry, Nowhere, Entries, Contents
<1>2. TypeOK /\ [Next]_vars => TypeOK'
  <2> SUFFICES ASSUME TypeOK, [Next]_vars PROVE TypeOK'
    OBVIOUS
  <2>1. ASSUME NEW id \in Ids, NEW T \in SUBSET Files, NEW new \in [T -> Texts],
               Apply(id, T, new)
        PROVE  TypeOK'
    <3>1. disk' \in [Files -> Contents]
      BY <2>1, OverlayType DEF Apply, Contents
    <3>2. [status  |-> "applied", touched |-> T,
           before  |-> [f \in Files |-> IF f \in T THEN disk[f] ELSE Absent],
           after   |-> [f \in Files |-> IF f \in T THEN new[f] ELSE Absent]] \in Entries
      BY DEF TypeOK, Entries, Contents
    <3> QED BY <2>1, <3>1, <3>2 DEF Apply, TypeOK
  <2>2. ASSUME NEW i \in Ids, Undo(i) PROVE TypeOK'
    <3>1. disk' \in [Files -> Contents]
      <4> DEFINE img == log[i].before
      <4>1. log[i].touched \in SUBSET Files /\ \A f \in log[i].touched : img[f] \in Contents
        BY EntryFields
      <4>2. Overlay(log[i].touched, img) \in [Files -> Contents]
        BY <4>1, OverlayType
      <4> QED BY <2>2, <4>2 DEF Undo
    <3> QED BY <2>2, <3>1, StatusUpdate DEF Undo, TypeOK
  <2>3. ASSUME NEW i \in Ids, Redo(i) PROVE TypeOK'
    <3>1. disk' \in [Files -> Contents]
      <4> DEFINE img == log[i].after
      <4>1. log[i].touched \in SUBSET Files /\ \A f \in log[i].touched : img[f] \in Contents
        BY EntryFields
      <4>2. Overlay(log[i].touched, img) \in [Files -> Contents]
        BY <4>1, OverlayType
      <4> QED BY <2>3, <4>2 DEF Redo
    <3> QED BY <2>3, <3>1, StatusUpdate DEF Redo, TypeOK
  <2>4. ASSUME NEW T \in SUBSET Files, NEW new \in [T -> Contents], Edit(T, new)
        PROVE  TypeOK'
    <3>1. disk' \in [Files -> Contents]
      BY <2>4, OverlayType DEF Edit
    <3> QED BY <2>4, <3>1 DEF Edit, TypeOK
  <2>5. CASE UNCHANGED vars
    BY <2>5 DEF vars, TypeOK
  <2> QED BY <2>1, <2>2, <2>3, <2>4, <2>5 DEF Next
<1> QED BY <1>1, <1>2, PTL DEF Spec

(* Undoing the newest applied entry leaves a tree the remaining entries      *)
(* explain: for each file, its next older writer is the entry `before` was    *)
(* chained to.                                                               *)
LEMMA UndoPreserves ==
    ASSUME IInv, NEW i \in Ids, Undo(i)
    PROVE  Explained' /\ Chained'
<1> USE DEF IInv
<1>0. /\ log'[i].status = "rolled_back"
      /\ \A k \in Ids : k # i => log'[k].status = log[k].status
  BY DEF Undo, TypeOK, Entries
<1>1. \A k \in Ids : /\ log'[k].touched = log[k].touched
                     /\ log'[k].before = log[k].before
                     /\ log'[k].after = log[k].after
  BY DEF Undo, TypeOK, Entries
<1>2. i \in Applied /\ \A j \in Applied : j <= i
  BY DEF Undo, UndoTarget
<1>3. Applied' = Applied \ {i}
  BY <1>0 DEF Applied
<1>4. \A f \in Files : disk'[f] = IF f \in log[i].touched THEN log[i].before[f] ELSE disk[f]
  BY DEF Undo, Overlay
<1>5. origin' = origin /\ edited' = edited
  BY DEF Undo
<1>6. \A f \in Files : \A j : j \in Touching(f)' <=> j \in Touching(f) /\ j # i
  BY <1>1, <1>3 DEF Touching, Applied
<1>7. \A f \in Files : \A j \in Touching(f) : j \in Int /\ j \in Ids /\ j <= i
  BY <1>2 DEF Touching, Applied, Ids
<1>8. i \in Int /\ i < MaxId + 1
  BY IdAssumption DEF Ids
<1>9. \A f \in Files, j \in Ids, bound \in Int :
          bound <= i => (LastWriter(j, f, bound)' <=> LastWriter(j, f, bound))
  BY <1>6, <1>7, <1>8 DEF LastWriter
<1>10. \A f \in Files, bound \in Int :
          bound <= i => (NoWriter(f, bound)' <=> NoWriter(f, bound))
  BY <1>6, <1>7, <1>8 DEF NoWriter
<1>11. ASSUME NEW f \in Files \ edited PROVE IsReplay(disk[f], f, MaxId + 1)'
  <2>1. CASE f \in log[i].touched
    <3>1. IsReplay(log[i].before[f], f, i)
      BY <1>2, <2>1 DEF Chained
    <3>2. NoWriter(f, MaxId + 1)' => NoWriter(f, i)
      BY <1>6, <1>7, <1>8, IdAssumption DEF NoWriter
    <3>3. \A j \in Ids : LastWriter(j, f, MaxId + 1)' => LastWriter(j, f, i)
      BY <1>6, <1>7, <1>8, IdAssumption DEF LastWriter
    <3> QED
      BY <1>1, <1>4, <1>5, <2>1, <3>1, <3>2, <3>3 DEF IsReplay
  <2>2. CASE f \notin log[i].touched
    <3>1. IsReplay(disk[f], f, MaxId + 1)
      BY DEF Explained
    <3>2. Touching(f)' = Touching(f)
      BY <1>6, <2>2 DEF Touching
    <3> QED
      BY <1>1, <1>4, <1>5, <2>2, <3>1, <3>2 DEF IsReplay, NoWriter, LastWriter
  <2> QED BY <2>1, <2>2
<1>12. ASSUME NEW k \in Applied', NEW f \in log'[k].touched \ edited
       PROVE  IsReplay(log[k].before[f], f, k)'
  <2>1. k \in Applied /\ k \in Ids /\ k <= i /\ f \in log[k].touched /\ f \in Files
    BY <1>1, <1>2, <1>3, EntryFields DEF Applied
  <2>2. IsReplay(log[k].before[f], f, k)
    BY <2>1 DEF Chained
  <2>3. k \in Int
    BY <2>1 DEF Ids
  <2> QED
    BY <1>1, <1>5, <1>9, <1>10, <2>1, <2>2, <2>3 DEF IsReplay
<1> QED BY <1>5, <1>11, <1>12 DEF Explained, Chained

(* An entry put on top of the applied ones, whose before-texts are what the  *)
(* tree held, leaves a tree the entries explain: the common half of Apply     *)
(* (a new id above all others) and Redo (an old id above the applied ones).   *)
LEMMA PushPreserves ==
    ASSUME IInv, NEW i \in Ids,
           \A j \in Applied : j < i,
           Applied' = Applied \cup {i},
           \A k \in Applied : log'[k].touched = log[k].touched
                              /\ log'[k].before = log[k].before
                              /\ log'[k].after = log[k].after,
           log'[i].touched \in SUBSET Files,
           \A f \in log'[i].touched : log'[i].before[f] = disk[f],
           \A f \in Files : disk'[f] = IF f \in log'[i].touched
                                       THEN log'[i].after[f] ELSE disk[f],
           origin' = origin, edited' = edited
    PROVE  Explained' /\ Chained'
<1> USE DEF IInv
<1>1. Applied \subseteq Ids /\ i \notin Applied
  BY DEF Applied, Ids
<1>2. \A f \in Files : \A j :
          j \in Touching(f)' <=> j \in Touching(f) \/ (j = i /\ f \in log'[i].touched)
  BY <1>1 DEF Touching
<1>3. \A f \in Files, j \in Ids, bound \in Int :
          bound <= i => (LastWriter(j, f, bound)' <=> LastWriter(j, f, bound))
  BY <1>1, <1>2 DEF LastWriter, Touching, Ids
<1>4. \A f \in Files, bound \in Int :
          bound <= i => (NoWriter(f, bound)' <=> NoWriter(f, bound))
  BY <1>1, <1>2 DEF NoWriter, Touching, Ids
<1>5. \A f \in Files, j \in Ids : LastWriter(j, f, MaxId + 1) <=> LastWriter(j, f, i)
  BY <1>1, IdAssumption DEF LastWriter, Touching, Ids
<1>6. \A f \in Files : NoWriter(f, MaxId + 1) <=> NoWriter(f, i)
  <2>1. \A f \in Files : \A j \in Touching(f) : j \in Int /\ j < i /\ j < MaxId + 1
    BY <1>1, IdAssumption DEF Touching, Ids
  <2> QED BY <2>1, IdAssumption DEF NoWriter, Ids
<1>7. i \in Int
  BY DEF Ids
<1>8. ASSUME NEW f \in Files \ edited PROVE IsReplay(disk[f], f, MaxId + 1)'
  <2>1. CASE f \in log'[i].touched
    <3>1. i \in Touching(f)' /\ i < MaxId + 1
      BY <1>2, <2>1, IdAssumption DEF Ids
    <3>2. ~ NoWriter(f, MaxId + 1)'
      BY <3>1, <1>7, IdAssumption DEF NoWriter
    <3>3. \A j \in Ids : LastWriter(j, f, MaxId + 1)' => j = i
      BY <1>1, <1>2, <3>1 DEF LastWriter, Touching, Ids
    <3> QED
      BY <2>1, <3>2, <3>3 DEF IsReplay
  <2>2. CASE f \notin log'[i].touched
    <3>1. IsReplay(disk[f], f, MaxId + 1)
      BY DEF Explained
    <3>2. Touching(f)' = Touching(f)
      BY <1>2, <2>2
    <3>3. \A j \in Ids : LastWriter(j, f, MaxId + 1) => log'[j].after = log[j].after
      BY DEF LastWriter, Touching
    <3> QED
      BY <2>2, <3>1, <3>2, <3>3 DEF IsReplay, NoWriter, LastWriter
  <2> QED BY <2>1, <2>2
<1>9. ASSUME NEW k \in Applied', NEW f \in log'[k].touched \ edited
      PROVE  IsReplay(log[k].before[f], f, k)'
  <2>1. CASE k = i
    <3>1. f \in Files /\ log'[k].before[f] = disk[f]
      BY <2>1
    <3>2. IsReplay(disk[f], f, i)
      BY <1>5, <1>6, <3>1 DEF Explained, IsReplay
    <3>3. \A j \in Ids : LastWriter(j, f, i) => log'[j].after = log[j].after
      BY DEF LastWriter, Touching
    <3> QED
      BY <1>3, <1>4, <1>7, <2>1, <3>1, <3>2, <3>3 DEF IsReplay
  <2>2. CASE k # i
    <3>1. k \in Applied /\ k \in Ids /\ k < i /\ f \in log[k].touched /\ f \in Files
      BY <1>1, <2>2, EntryFields
    <3>2. IsReplay(log[k].before[f], f, k)
      BY <3>1 DEF Chained
    <3>3. \A j \in Ids : LastWriter(j, f, k) => log'[j].after = log[j].after
      BY DEF LastWriter, Touching
    <3>4. k \in Int
      BY <3>1 DEF Ids
    <3> QED
      BY <1>3, <1>4, <1>7, <3>1, <3>2, <3>3, <3>4 DEF IsReplay
  <2> QED BY <2>1, <2>2
<1> QED BY <1>8, <1>9 DEF Explained, Chained

LEMMA ApplyPreserves ==
    ASSUME IInv, NEW id \in Ids, NEW T \in SUBSET Files, NEW new \in [T -> Texts],
           Apply(id, T, new)
    PROVE  Explained' /\ Chained'
<1> USE DEF IInv
<1>1. \A j \in Applied : j < id
  BY DEF Apply, Unused, Applied, Ids
<1>2. /\ log'[id].status = "applied"
      /\ \A k \in Ids : k # id => log'[k] = log[k]
  BY DEF Apply, TypeOK
<1>3. Applied' = Applied \cup {id}
  BY <1>2 DEF Applied
<1>4. /\ log'[id].touched = T
      /\ \A f \in T : log'[id].before[f] = disk[f]
      /\ \A f \in T : log'[id].after[f] = new[f]
  BY DEF Apply, TypeOK
<1>5. \A f \in Files : disk'[f] = IF f \in T THEN new[f] ELSE disk[f]
  BY DEF Apply, Overlay
<1>6. \A k \in Applied : log'[k] = log[k]
  BY <1>1, <1>2 DEF Applied, Ids
<1>7. origin' = origin /\ edited' = edited
  BY DEF Apply
<1> QED BY <1>1, <1>3, <1>4, <1>5, <1>6, <1>7, PushPreserves

LEMMA RedoPreserves ==
    ASSUME IInv, NEW i \in Ids, Redo(i)
    PROVE  Explained' /\ Chained'
<1> USE DEF IInv
<1>1. \A j \in Applied : j < i
  BY DEF Redo, RedoTarget
<1>2. /\ log'[i].status = "applied"
      /\ \A k \in Ids : k # i => log'[k].status = log[k].status
  BY DEF Redo, TypeOK, Entries
<1>3. \A k \in Ids : /\ log'[k].touched = log[k].touched
                     /\ log'[k].before = log[k].before
                     /\ log'[k].after = log[k].after
  BY DEF Redo, TypeOK, Entries
<1>4. Applied' = Applied \cup {i}
  BY <1>2 DEF Applied
<1>5. \A f \in log[i].touched : log[i].before[f] = disk[f]
  BY DEF Redo, RedoDrift
<1>6. \A f \in Files : disk'[f] = IF f \in log[i].touched THEN log[i].after[f] ELSE disk[f]
  BY DEF Redo, Overlay
<1>7. origin' = origin /\ edited' = edited
  BY DEF Redo
<1>8. log[i].touched \in SUBSET Files /\ Applied \subseteq Ids
  BY EntryFields DEF Applied
<1> QED BY <1>1, <1>3, <1>4, <1>5, <1>6, <1>7, <1>8, PushPreserves

(* An outside edit only takes files out of the claim.                       *)
LEMMA EditPreserves ==
    ASSUME IInv, NEW T \in SUBSET Files, NEW new \in [T -> Contents], Edit(T, new)
    PROVE  Explained' /\ Chained'
<1> USE DEF IInv
<1>1. log' = log /\ origin' = origin /\ edited' = edited \cup T
  BY DEF Edit
<1>2. \A f \in Files \ edited' : disk'[f] = disk[f]
  BY <1>1 DEF Edit, Overlay
<1>3. Explained'
  BY <1>1, <1>2 DEF Explained, IsReplay, NoWriter, LastWriter, Touching, Applied
<1>4. Chained'
  BY <1>1 DEF Chained, IsReplay, NoWriter, LastWriter, Touching, Applied
<1> QED BY <1>3, <1>4

LEMMA AfterTextPreserves ==
    ASSUME TypeOK, AfterIsText, [Next]_vars
    PROVE  AfterIsText'
<1>1. ASSUME NEW id \in Ids, NEW T \in SUBSET Files, NEW new \in [T -> Texts],
             Apply(id, T, new)
      PROVE  AfterIsText'
  <2>1. /\ log'[id].touched = T
        /\ \A f \in T : log'[id].after[f] = new[f]
    BY <1>1 DEF Apply, TypeOK
  <2>2. \A k \in Ids : k # id => log'[k] = log[k]
    BY <1>1 DEF Apply, TypeOK
  <2> QED BY <2>1, <2>2 DEF AfterIsText
<1>2. ASSUME NEW i \in Ids, Undo(i) \/ Redo(i) PROVE AfterIsText'
  <2>1. \A k \in Ids : log'[k].touched = log[k].touched /\ log'[k].after = log[k].after
    <3>1. CASE Undo(i)
      BY <3>1 DEF Undo, TypeOK, Entries
    <3>2. CASE Redo(i)
      BY <3>2 DEF Redo, TypeOK, Entries
    <3> QED BY <1>2, <3>1, <3>2
  <2> QED BY <2>1 DEF AfterIsText
<1>3. ASSUME log' = log PROVE AfterIsText'
  BY <1>3 DEF AfterIsText
<1> QED BY <1>1, <1>2, <1>3 DEF Next, vars, Edit

(* The inductive invariant holds in every reachable state.                  *)
THEOREM InductiveInvariant == Spec => []IInv
<1>1. Init => Explained /\ Chained /\ AfterIsText
  <2> SUFFICES ASSUME Init PROVE Explained /\ Chained /\ AfterIsText
    OBVIOUS
  <2>1. Applied = {}
    BY DEF Init, Applied, NoEntry
  <2> QED
    BY <2>1 DEF Init, Explained, Chained, IsReplay, LastWriter, Touching, AfterIsText,
                NoEntry
<1>2. IInv /\ [Next]_vars => (Explained /\ Chained /\ AfterIsText)'
  <2> SUFFICES ASSUME IInv, [Next]_vars PROVE Explained' /\ Chained' /\ AfterIsText'
    OBVIOUS
  <2>1. CASE UNCHANGED vars
    BY <2>1 DEF IInv, vars, Explained, Chained, IsReplay, NoWriter, LastWriter,
                Touching, Applied, AfterIsText
  <2> QED
    BY <2>1, AfterTextPreserves, ApplyPreserves, UndoPreserves, RedoPreserves, EditPreserves
    DEF Next, IInv
<1> QED BY <1>1, <1>2, TypeCorrect, PTL DEF Spec, IInv

(* A file nobody else touched holds what the applied entries say it holds.  *)
THEOREM TreeIsExplained == Spec => []Explained
<1>1. IInv => Explained
  BY DEF IInv
<1> QED BY <1>1, InductiveInvariant, PTL

(* The before-texts of the applied entries chain back to the first tree.    *)
THEOREM BeforesAreChained == Spec => []Chained
<1>1. IInv => Chained
  BY DEF IInv
<1> QED BY <1>1, InductiveInvariant, PTL

(* Undo is never refused for a change whose files nobody else edited.       *)
THEOREM UndoIsNeverStuck == Spec => []UndoNeverStuck
<1>1. IInv => UndoNeverStuck
  <2> SUFFICES ASSUME IInv, NEW i \in Ids, UndoTarget(i),
                      log[i].touched \cap edited = {}
               PROVE  UndoDrift(i) = {}
    BY DEF UndoNeverStuck
  <2>1. SUFFICES ASSUME NEW f \in log[i].touched
                 PROVE  AsText(disk[f]) = log[i].after[f]
    BY DEF UndoDrift
  <2>2. f \in Files \ edited
    BY EntryFields DEF IInv
  <2>3. LastWriter(i, f, MaxId + 1)
    BY IdAssumption DEF UndoTarget, LastWriter, Touching, Ids
  <2>4. disk[f] = log[i].after[f]
    BY <2>2, <2>3 DEF IInv, Explained, IsReplay
  <2>5. log[i].after[f] \in Texts
    BY DEF IInv, AfterIsText
  <2> QED
    BY <2>4, <2>5, ContentAssumption DEF AsText
<1> QED BY <1>1, InductiveInvariant, PTL

(* With every change undone the tree is the one the first change found.     *)
THEOREM AllUndoneRestoresOrigin == Spec => []AllUndoneIsOrigin
<1>1. IInv => AllUndoneIsOrigin
  BY DEF IInv, AllUndoneIsOrigin, Explained, IsReplay, NoWriter, Touching
<1> QED BY <1>1, InductiveInvariant, PTL
=============================================================================
