---------------------------- MODULE UndoHistory ----------------------------
(***************************************************************************)
(* What the transaction journal promises its user, with every operation    *)
(* one atomic step: apply a change, undo the newest applied change, redo   *)
(* the change the journal picks, and edits made by anybody else in         *)
(* between.  Txn.tla takes the same operations apart into the file writes  *)
(* of the code and is shown to implement this module.                      *)
(***************************************************************************)
EXTENDS Integers

CONSTANTS Files,    \* project files, by relative path
          Texts,    \* file contents
          Empty,    \* the empty text ''
          Absent,   \* "no such file": `before == false` / `absent = true` in the code
          MaxId     \* bound: number of journal entries a behaviour may use

ASSUME ContentAssumption == Empty \in Texts /\ Absent \notin Texts
ASSUME IdAssumption == MaxId \in Nat

Contents == Texts \cup {Absent}
Ids == 1..MaxId

VARIABLES disk,     \* [Files -> Contents], the project tree
          log,      \* [Ids -> entry], the journal; an entry's status is "none" until used
          origin,   \* history variable: the tree before the first change
          edited    \* history variable: files somebody else has changed since

vars == <<disk, log, origin, edited>>

Entries == [status  : {"none", "applied", "rolled_back"},
            touched : SUBSET Files,
            before  : [Files -> Contents],
            after   : [Files -> Contents]]

Nowhere == [f \in Files |-> Absent]

NoEntry == [status |-> "none", touched |-> {}, before |-> Nowhere, after |-> Nowhere]

TypeOK ==
    /\ disk \in [Files -> Contents]
    /\ log \in [Ids -> Entries]
    /\ origin \in [Files -> Contents]
    /\ edited \in SUBSET Files
-----------------------------------------------------------------------------
(* A file that is not there is compared as '': `hash(now or '')`.          *)
AsText(c) == IF c = Absent THEN Empty ELSE c

(* `image` on the files of T, everything else as it is on disk. *)
Overlay(T, image) == [f \in Files |-> IF f \in T THEN image[f] ELSE disk[f]]

Applied == {i \in Ids : log[i].status = "applied"}

(* Mutant: ids that do not grow, as when the wall clock is set back. *)
UnusedAnyOrder(id) == log[id].status = "none"

Unused(id) == \A k \in Ids : k >= id => log[k].status = "none"

(* Mutant: M.list sorted the other way round. *)
UndoTargetOldest(i) == i \in Applied /\ \A j \in Applied : i <= j

(* M.last: the newest applied entry. *)
UndoTarget(i) == i \in Applied /\ \A j \in Applied : j <= i

(* Mutant: redo forgets about the applied entries above. *)
RedoTargetAny(i) ==
    /\ log[i].status = "rolled_back"
    /\ \A k \in Ids : k < i => log[k].status # "rolled_back"

(* The oldest rolled-back entry that is newer than every applied one. *)
RedoTarget(i) ==
    /\ log[i].status = "rolled_back"
    /\ \A j \in Applied : j < i
    /\ \A k \in Ids : k < i /\ log[k].status = "rolled_back" => \E j \in Applied : k <= j

UndoDrift(i) == {f \in log[i].touched : AsText(disk[f]) # log[i].after[f]}
RedoDrift(i) == {f \in log[i].touched : disk[f] # log[i].before[f]}
-----------------------------------------------------------------------------
Init ==
    /\ disk \in [Files -> Contents]
    /\ log = [i \in Ids |-> NoEntry]
    /\ origin = disk
    /\ edited = {}

(* txn.execute: the after-texts reach the tree and the entry is 'applied'. *)
Apply(id, T, new) ==
    /\ Unused(id)
    /\ \E f \in T : new[f] # disk[f]
    /\ disk' = Overlay(T, new)
    /\ log' = [log EXCEPT ![id] =
                 [status  |-> "applied",
                  touched |-> T,
                  before  |-> [f \in Files |-> IF f \in T THEN disk[f] ELSE Absent],
                  after   |-> [f \in Files |-> IF f \in T THEN new[f] ELSE Absent]]]
    /\ UNCHANGED <<origin, edited>>

(* Mutant: undoing a create leaves an empty file. *)
UndoLeavesHusk(i) ==
    /\ UndoTarget(i)
    /\ UndoDrift(i) = {}
    /\ disk' = Overlay(log[i].touched, [f \in Files |-> AsText(log[i].before[f])])
    /\ log' = [log EXCEPT ![i].status = "rolled_back"]
    /\ UNCHANGED <<origin, edited>>

(* journal.rollback: refused on any drift, else every touched file goes back. *)
Undo(i) ==
    /\ UndoTarget(i)
    /\ UndoDrift(i) = {}
    /\ disk' = Overlay(log[i].touched, log[i].before)
    /\ log' = [log EXCEPT ![i].status = "rolled_back"]
    /\ UNCHANGED <<origin, edited>>

(* journal.redo *)
Redo(i) ==
    /\ RedoTarget(i)
    /\ RedoDrift(i) = {}
    /\ disk' = Overlay(log[i].touched, log[i].after)
    /\ log' = [log EXCEPT ![i].status = "applied"]
    /\ UNCHANGED <<origin, edited>>

(* Somebody else (an editor, git, an interrupted apply) changes the files T. *)
Edit(T, new) ==
    /\ T # {}
    /\ disk' = Overlay(T, new)
    /\ edited' = edited \cup T
    /\ UNCHANGED <<log, origin>>

Next ==
    \/ \E id \in Ids, T \in SUBSET Files : \E new \in [T -> Texts] : Apply(id, T, new)
    \/ \E i \in Ids : Undo(i) \/ Redo(i)
    \/ \E T \in SUBSET Files : \E new \in [T -> Contents] : Edit(T, new)

Spec == Init /\ [][Next]_vars
-----------------------------------------------------------------------------
Touching(f) == {i \in Applied : f \in log[i].touched}

(* The applied entry below `bound` that wrote f last. *)
LastWriter(i, f, bound) ==
    /\ i \in Touching(f)
    /\ i < bound
    /\ \A j \in Touching(f) : j < bound => j <= i

NoWriter(f, bound) == \A j \in Touching(f) : j >= bound

(* `c` is what f holds according to the applied entries below `bound`. *)
IsReplay(c, f, bound) ==
    /\ NoWriter(f, bound) => c = origin[f]
    /\ \A i \in Ids : LastWriter(i, f, bound) => c = log[i].after[f]

(* The journal explains the tree: a file nobody else touched holds exactly  *)
(* what the newest applied entry that names it wrote, or its first text if  *)
(* no applied entry names it - whatever was undone and redone on the way    *)
(* (rollback, redo and execute over one journal).                           *)
Explained == \A f \in Files \ edited : IsReplay(disk[f], f, MaxId + 1)

(* The before-texts chain: what an applied entry would restore is what the  *)
(* applied entry below it wrote, so undoing entry after entry walks the     *)
(* tree back through states it really was in (before_hash / after_hash).    *)
Chained ==
    \A i \in Applied : \A f \in log[i].touched \ edited :
        IsReplay(log[i].before[f], f, i)

(* An entry's after is a text on every file it touches: no entry records a   *)
(* deletion, so the drift check's '' stands for a file somebody removed.      *)
AfterIsText == \A i \in Ids : \A f \in log[i].touched : log[i].after[f] \in Texts

(* Undo is never stuck: with no outside edit to its files the undo target   *)
(* is never refused as drifted (the refusal in rollback).                   *)
UndoNeverStuck ==
    \A i \in Ids : UndoTarget(i) /\ log[i].touched \cap edited = {} => UndoDrift(i) = {}

(* When every change has been undone, each file nobody else edited is back  *)
(* at its first content - a file an apply created is gone again, never left *)
(* as an empty husk (rollback's `f.absent` branch).                         *)
AllUndoneIsOrigin == Applied = {} => \A f \in Files \ edited : disk[f] = origin[f]
=============================================================================
