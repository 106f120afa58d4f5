-------------------------------- MODULE Txn --------------------------------
(***************************************************************************)
(* The write path of cartograph.nvim, file write by file write: txn.execute *)
(* over journal.begin / commit / abort, journal.rollback and journal.redo,  *)
(* run by one or more host processes (editor sessions, agent servers) over  *)
(* one project root and one journal directory.                              *)
(*                                                                          *)
(* A host runs one operation at a time, but each of its file operations is  *)
(* a step of its own: an entry or a file opened with 'w' is truncated first *)
(* and written after, a host may die or an open may fail at any of them,    *)
(* and other hosts and other programs act in between.                       *)
(*                                                                          *)
(* Left out: which edit a plan makes (any after-texts), and the graph       *)
(* generation, refs and buffers txn.verify also looks at (AgentPlans has    *)
(* the generation): without them more plans get through, never fewer. And   *)
(* txn.stage reads the files once more after verify has compared their      *)
(* stamps: here that is one step, so that no change comes between the two;  *)
(* rollback and redo, too, look at all their files in one.                  *)
(***************************************************************************)
EXTENDS Integers

CONSTANTS Hosts,
          Files, Texts, Empty, Absent,
          MaxId,        \* bound: journal ids, and the last tick of the clock
          CrashPoints,  \* the program points at which a host may die
          Faults,       \* which calls may fail: opening a project file ("open"),
                        \* opening an entry ("entry"), deleting a file ("delete")
          Initial,      \* bound: what a file may hold in the first tree
          Editable      \* bound: the files other programs change

ASSUME TxnContentAssumption == Empty \in Texts /\ Absent \notin Texts
ASSUME TxnIdAssumption == MaxId \in Nat /\ MaxId > 0
ASSUME TxnSwitchAssumption ==
    /\ CrashPoints \subseteq {"reserve", "header", "write", "fill", "seal", "mark"}
    /\ Faults \subseteq {"open", "entry", "delete"}
    /\ Initial \subseteq Texts \cup {Absent}
    /\ Editable \subseteq Files

Contents == Texts \cup {Absent}
Ids == 1..MaxId

VARIABLES disk,      \* [Files -> Contents]
          journal,   \* [Ids -> entry file], one file per entry id
          clock,     \* the wall clock, in the ticks ids are made of
          plan,      \* [Hosts -> plan], what each host means to apply next
          op,        \* [Hosts -> operation], what each host is in the middle of
          edited,    \* history variable: files changed by other programs
          stained,   \* history variable: files a dead or failed operation touched
          origin     \* history variable: the first tree

vars == <<disk, journal, clock, plan, op, edited, stained, origin>>

Nowhere == [f \in Files |-> Absent]

(* An entry file.  "free": no such file; "torn": there, but not (yet) valid  *)
(* JSON.  `after` is Absent on every file until the entry is committed.      *)
Statuses == {"free", "torn", "pending", "applied", "aborted", "rolled_back"}
EntryFiles == [status : Statuses, touched : SUBSET Files,
               before : [Files -> Contents], after : [Files -> Contents]]

NoEntry(status) ==
    [status |-> status, touched |-> {}, before |-> Nowhere, after |-> Nowhere]

Decodable(e) == e.status \notin {"free", "torn"}

Plans == [touched : SUBSET Files, stamps : [Files -> Contents]]
NoPlan == [touched |-> {}, stamps |-> Nowhere]

(* Where a host is inside an operation: reserving the entry's id, writing    *)
(* its pending form, between two project files, holding a truncated project  *)
(* file open, about to rewrite the entry, holding the truncated entry open.  *)
PCs == {"idle", "reserve", "header", "write", "fill", "seal", "mark"}
Kinds == {"apply", "abort", "undo", "redo"}
Ops == [pc : PCs, kind : Kinds, id : Ids, entry : EntryFiles,
        todo : SUBSET Files, cur : SUBSET Files, pre : [Files -> Contents]]

Idle == [pc |-> "idle", kind |-> "apply", id |-> 1, entry |-> NoEntry("pending"),
         todo |-> {}, cur |-> {}, pre |-> Nowhere]

TypeOK ==
    /\ disk \in [Files -> Contents]
    /\ journal \in [Ids -> EntryFiles]
    /\ clock \in Ids
    /\ plan \in [Hosts -> Plans]
    /\ op \in [Hosts -> Ops]
    /\ edited \in SUBSET Files
    /\ stained \in SUBSET Files
    /\ origin \in [Files -> Contents]
-----------------------------------------------------------------------------
(* `c` on the files of T, Absent elsewhere. *)
Only(T, c) == [f \in Files |-> IF f \in T THEN c[f] ELSE Absent]

(* A file that is not there hashes as '': `hash(now or '')`. *)
AsText(c) == IF c = Absent THEN Empty ELSE c

(* Mutant: the clock's id, taken or not (the ids before CART-0582). *)
ClockId(i) == i = clock

(* The id alloc_id reserves: the clock's, bumped past every file there. *)
IsNextId(i) ==
    /\ i >= clock
    /\ journal[i].status = "free"
    /\ \A k \in clock..(i - 1) : journal[k].status # "free"

WithStatus(s) == {i \in Ids : journal[i].status = s}

(* M.last: the newest applied entry of M.list. *)
IsLast(i) == i \in WithStatus("applied") /\ \A j \in WithStatus("applied") : j <= i

(* Mutant: redo forgets about the applied entries above. *)
OldestRolledBack(i) ==
    i \in WithStatus("rolled_back") /\ \A k \in WithStatus("rolled_back") : i <= k

(* The oldest rolled-back entry newer than every applied one. *)
IsRedoCandidate(i) ==
    LET cands == {k \in WithStatus("rolled_back") :
                    \A j \in WithStatus("applied") : j < k}
    IN  i \in cands /\ \A k \in cands : i <= k

(* Mutant: no drift check. *)
NoDrift(e) == {}

UndoDrift(e) == {f \in e.touched : AsText(disk[f]) # e.after[f]}
RedoDrift(e) == {f \in e.touched : disk[f] # e.before[f]}

(* What an operation makes of the files it touches. *)
Image(o) == IF o.kind = "undo" THEN o.entry.before ELSE o.entry.after

(* Mutant: rollback misspells the entry's status. *)
SealedMisspelt(o) ==
    CASE o.kind = "undo"  -> [o.entry EXCEPT !.status = "rolledback"]
      [] o.kind = "abort" -> [o.entry EXCEPT !.status = "aborted", !.after = Nowhere]
      [] OTHER            -> [o.entry EXCEPT !.status = "applied"]

(* The entry as commit, abort, rollback and redo write it back; an aborted   *)
(* entry has no after-texts.                                                 *)
Sealed(o) ==
    CASE o.kind = "undo"  -> [o.entry EXCEPT !.status = "rolled_back"]
      [] o.kind = "abort" -> [o.entry EXCEPT !.status = "aborted", !.after = Nowhere]
      [] OTHER            -> [o.entry EXCEPT !.status = "applied"]
-----------------------------------------------------------------------------
Init ==
    /\ disk \in [Files -> Initial]
    /\ journal = [i \in Ids |-> NoEntry("free")]
    /\ clock = 1
    /\ plan = [h \in Hosts |-> NoPlan]
    /\ op = [h \in Hosts |-> Idle]
    /\ edited = {}
    /\ stained = {}
    /\ origin = disk

(* A planner reads the graph and the tree and stamps the files it will touch. *)
MakePlan(h, T) ==
    /\ op[h].pc = "idle"
    /\ T # {}
    /\ plan' = [plan EXCEPT ![h] = [touched |-> T, stamps |-> Only(T, disk)]]
    /\ UNCHANGED <<disk, journal, clock, op, edited, stained, origin>>

(* txn.verify's stamp CAS, then txn.stage: the before-texts are read and the  *)
(* after-texts computed.  A plan that would change nothing, or whose guards    *)
(* fail, is refused before the journal is opened.                              *)
Stage(h, new) ==
    LET T == plan[h].touched IN
    /\ op[h].pc = "idle"
    /\ T # {}
    /\ \A f \in T : disk[f] = plan[h].stamps[f]
    /\ \E f \in T : new[f] # disk[f]
    /\ op' = [op EXCEPT ![h] =
                [Idle EXCEPT !.pc = "reserve",
                             !.entry = [status |-> "pending", touched |-> T,
                                        before |-> Only(T, disk), after |-> Only(T, new)],
                             !.todo = T,
                             !.pre = Only(T, disk)]]
    /\ plan' = [plan EXCEPT ![h] = NoPlan]
    /\ UNCHANGED <<disk, journal, clock, edited, stained, origin>>

(* journal.begin, alloc_id: an empty file, created with O_EXCL. *)
Reserve(h, i) ==
    /\ op[h].pc = "reserve"
    /\ IsNextId(i)
    /\ journal' = [journal EXCEPT ![i] = NoEntry("torn")]
    /\ op' = [op EXCEPT ![h].pc = "header", ![h].id = i]
    /\ UNCHANGED <<disk, clock, plan, edited, stained, origin>>

(* Mutant: the entry records which files, not what they held. *)
HeaderWithoutBefore(h) ==
    /\ op[h].pc = "header"
    /\ journal' = [journal EXCEPT ![op[h].id] =
                     [op[h].entry EXCEPT !.after = Nowhere, !.before = Nowhere]]
    /\ op' = [op EXCEPT ![h].pc = "write"]
    /\ UNCHANGED <<disk, clock, plan, edited, stained, origin>>

(* journal.begin, write_entry: 'pending', with every before-text. *)
WriteHeader(h) ==
    /\ op[h].pc = "header"
    /\ journal' = [journal EXCEPT ![op[h].id] = [op[h].entry EXCEPT !.after = Nowhere]]
    /\ op' = [op EXCEPT ![h].pc = "write"]
    /\ UNCHANGED <<disk, clock, plan, edited, stained, origin>>

(* journal.begin when write_entry fails: the reservation is unlinked and the  *)
(* apply refused.                                                             *)
HeaderFails(h) ==
    /\ "entry" \in Faults
    /\ op[h].pc = "header"
    /\ journal' = [journal EXCEPT ![op[h].id] = NoEntry("free")]
    /\ op' = [op EXCEPT ![h] = Idle]
    /\ UNCHANGED <<disk, clock, plan, edited, stained, origin>>

(* The write loops of execute, rollback and redo: io.open(path, 'w') cuts the *)
(* file to nothing ...                                                        *)
OpenFile(h, f) ==
    /\ op[h].pc = "write"
    /\ f \in op[h].todo
    /\ Image(op[h])[f] # Absent
    /\ disk' = [disk EXCEPT ![f] = Empty]
    /\ op' = [op EXCEPT ![h].pc = "fill", ![h].cur = {f}, ![h].todo = @ \ {f}]
    /\ UNCHANGED <<journal, clock, plan, edited, stained, origin>>

(* ... and fd:write, fd:close give it its text. *)
FillFile(h) ==
    /\ op[h].pc = "fill"
    /\ disk' = [f \in Files |-> IF f \in op[h].cur THEN Image(op[h])[f] ELSE disk[f]]
    /\ op' = [op EXCEPT ![h].pc = "write", ![h].cur = {}]
    /\ UNCHANGED <<journal, clock, plan, edited, stained, origin>>

(* rollback of a create: the file is deleted ... *)
RemoveFile(h, f) ==
    /\ op[h].pc = "write"
    /\ f \in op[h].todo
    /\ Image(op[h])[f] = Absent
    /\ disk' = [disk EXCEPT ![f] = Absent]
    /\ op' = [op EXCEPT ![h].todo = @ \ {f}]
    /\ UNCHANGED <<journal, clock, plan, edited, stained, origin>>

(* ... and when vim.fn.delete fails nobody looks at its result. *)
RemoveFails(h, f) ==
    /\ "delete" \in Faults
    /\ op[h].pc = "write"
    /\ f \in op[h].todo
    /\ Image(op[h])[f] = Absent
    /\ op' = [op EXCEPT ![h].todo = @ \ {f}]
    /\ stained' = stained \cup {f}
    /\ UNCHANGED <<disk, journal, clock, plan, edited, origin>>

(* A project file cannot be opened: execute aborts its entry; rollback and    *)
(* redo return, their entry as it was - in both, with earlier files written.  *)
OpenFails(h, f) ==
    /\ "open" \in Faults
    /\ op[h].pc = "write"
    /\ f \in op[h].todo
    /\ Image(op[h])[f] # Absent
    /\ IF op[h].kind = "apply"
         THEN /\ op' = [op EXCEPT ![h].pc = "seal", ![h].kind = "abort", ![h].todo = {}]
              /\ UNCHANGED stained
         ELSE /\ op' = [op EXCEPT ![h] = Idle]
              /\ stained' = stained \cup op[h].entry.touched
    /\ UNCHANGED <<disk, journal, clock, plan, edited, origin>>

(* Every file is written: on to the entry. *)
FilesDone(h) ==
    /\ op[h].pc = "write"
    /\ op[h].todo = {}
    /\ op' = [op EXCEPT ![h].pc = "seal"]
    /\ UNCHANGED <<disk, journal, clock, plan, edited, stained, origin>>

(* write_entry opens the entry's own file with 'w': what it held is gone ...  *)
OpenEntry(h) ==
    /\ op[h].pc = "seal"
    /\ journal' = [journal EXCEPT ![op[h].id] = NoEntry("torn")]
    /\ op' = [op EXCEPT ![h].pc = "mark"]
    /\ UNCHANGED <<disk, clock, plan, edited, stained, origin>>

(* ... until the new text is written. *)
WriteEntry(h) ==
    /\ op[h].pc = "mark"
    /\ journal' = [journal EXCEPT ![op[h].id] = Sealed(op[h])]
    /\ op' = [op EXCEPT ![h] = Idle]
    /\ stained' = IF op[h].kind = "abort" THEN stained \cup op[h].entry.touched ELSE stained
    /\ UNCHANGED <<disk, clock, plan, edited, origin>>

(* write_entry returns false and no caller looks: the files are written, the  *)
(* entry still says what it said before.                                      *)
EntryFails(h) ==
    /\ "entry" \in Faults
    /\ op[h].pc = "seal"
    /\ op' = [op EXCEPT ![h] = Idle]
    /\ stained' = stained \cup op[h].entry.touched
    /\ UNCHANGED <<disk, journal, clock, plan, edited, origin>>

(* journal.rollback, up to its first write: pick the newest applied entry and *)
(* refuse if any of its files drifted.                                        *)
StartUndo(h, i) ==
    /\ op[h].pc = "idle"
    /\ IsLast(i)
    /\ UndoDrift(journal[i]) = {}
    /\ op' = [op EXCEPT ![h] = [pc |-> "write", kind |-> "undo", id |-> i,
                                entry |-> journal[i], todo |-> journal[i].touched,
                                cur |-> {}, pre |-> Only(journal[i].touched, disk)]]
    /\ UNCHANGED <<disk, journal, clock, plan, edited, stained, origin>>

(* journal.redo, up to its first write. *)
StartRedo(h, i) ==
    /\ op[h].pc = "idle"
    /\ IsRedoCandidate(i)
    /\ RedoDrift(journal[i]) = {}
    /\ op' = [op EXCEPT ![h] = [pc |-> "write", kind |-> "redo", id |-> i,
                                entry |-> journal[i], todo |-> journal[i].touched,
                                cur |-> {}, pre |-> Only(journal[i].touched, disk)]]
    /\ UNCHANGED <<disk, journal, clock, plan, edited, stained, origin>>

(* The host dies and is started again: its memory is gone, its files are not. *)
Crash(h) ==
    /\ op[h].pc \in CrashPoints
    /\ op' = [op EXCEPT ![h] = Idle]
    /\ plan' = [plan EXCEPT ![h] = NoPlan]
    /\ stained' = IF op[h].pc \in {"write", "fill", "seal", "mark"}
                    THEN stained \cup op[h].entry.touched ELSE stained
    /\ UNCHANGED <<disk, journal, clock, edited, origin>>

(* Another program writes, creates or removes a file. *)
Edit(f, c) ==
    /\ disk[f] # c
    /\ disk' = [disk EXCEPT ![f] = c]
    /\ edited' = edited \cup {f}
    /\ UNCHANGED <<journal, clock, plan, op, stained, origin>>

Tick ==
    /\ clock < MaxId
    /\ clock' = clock + 1
    /\ UNCHANGED <<disk, journal, plan, op, edited, stained, origin>>

ApplySteps(h) ==
    \/ \E T \in SUBSET Files : MakePlan(h, T)
    \/ \E new \in [plan[h].touched -> Texts] : Stage(h, new)
    \/ \E i \in Ids : Reserve(h, i)
    \/ WriteHeader(h)
    \/ HeaderFails(h)

WriteSteps(h) ==
    \/ \E f \in Files : OpenFile(h, f) \/ RemoveFile(h, f)
    \/ \E f \in Files : OpenFails(h, f) \/ RemoveFails(h, f)
    \/ FillFile(h)
    \/ FilesDone(h)
    \/ OpenEntry(h)
    \/ WriteEntry(h)
    \/ EntryFails(h)

Next ==
    \/ \E h \in Hosts : ApplySteps(h) \/ WriteSteps(h) \/ Crash(h)
    \/ \E h \in Hosts, i \in Ids : StartUndo(h, i) \/ StartRedo(h, i)
    \/ \E f \in Editable, c \in Contents : Edit(f, c)
    \/ Tick

Spec == Init /\ [][Next]_vars
-----------------------------------------------------------------------------
(* The entry with id i: its file, or, while a host rewrites that file, the    *)
(* copy the host holds.                                                       *)
EntryNow(i) ==
    IF Decodable(journal[i]) THEN journal[i]
    ELSE IF \E h \in Hosts : op[h].pc = "mark" /\ op[h].id = i
         THEN (CHOOSE o \in {op[h] : h \in Hosts} : o.pc = "mark" /\ o.id = i).entry
         ELSE NoEntry("free")

(* Before-content first (journal.begin before the write loop of execute, and  *)
(* O_EXCL in alloc_id): from the first byte an apply moves until it seals its *)
(* entry, the entry's file holds the pending record with every before-text,   *)
(* and no other host has taken or rewritten that file.                        *)
EvidenceFirst ==
    \A h \in Hosts :
        op[h].kind \in {"apply", "abort"} /\ op[h].pc \in {"write", "fill", "seal"}
            => journal[op[h].id] = [op[h].entry EXCEPT !.after = Nowhere]

(* Nothing is lost (the header of journal.lua): whatever was applied, undone,  *)
(* redone, refused or interrupted, a file that differs from the first tree      *)
(* and that no other program changed has a first entry that names it, and that  *)
(* entry holds the first text.                                                  *)
Recoverable ==
    \A f \in Files \ edited :
        disk[f] # origin[f] =>
            \E i \in Ids :
                /\ f \in EntryNow(i).touched
                /\ EntryNow(i).before[f] = origin[f]
                /\ \A j \in 1..(i - 1) : f \notin EntryNow(j).touched

(* A file's texts on record: those its entries hold, and the one that an apply  *)
(* under way is to put into its entry.                                         *)
Underway(h, f) ==
    /\ op[h].pc \in {"write", "fill", "seal", "mark"}
    /\ f \in op[h].entry.touched

OnRecord(f, c) ==
    \/ \E i \in Ids : /\ f \in EntryNow(i).touched
                      /\ c \in {EntryNow(i).before[f], EntryNow(i).after[f]}
    \/ \E h \in Hosts : /\ Underway(h, f)
                        /\ op[h].kind \in {"apply", "abort"}
                        /\ c = op[h].entry.after[f]

(* "Files that drifted since are refused, not clobbered" (the header of          *)
(* journal.lua): all files are looked at, then all are written, and another      *)
(* host or program may come in between. What that costs: a text a host writes    *)
(* over is on record, whether the host looked at it or another host has put it   *)
(* there since. Gone for good is at most what was put there since the look into  *)
(* a file that other programs change or that an operation died or failed on.     *)
OverwritesOnRecord ==
    [][\A h \in Hosts, f \in Files :
         /\ op'[h] # op[h] /\ disk'[f] # disk[f]
         /\ disk[f] \in Texts \ {Empty}
         /\ f \in edited \cup stained => disk[f] = op[h].pre[f]
         => OnRecord(f, disk[f])]_vars
-----------------------------------------------------------------------------
(* Refinement.  The user's view: an operation happens when its entry's new     *)
(* status is on disk; until then its files count as they were.  Files left     *)
(* by a dead or failed operation count as changed by somebody else.            *)
ViewDisk ==
    [f \in Files |->
        IF \E h \in Hosts : Underway(h, f)
          THEN (CHOOSE o \in {op[h] : h \in {g \in Hosts : Underway(g, f)}} : TRUE).pre[f]
          ELSE disk[f]]

ViewLog ==
    [i \in Ids |->
        IF EntryNow(i).status \in {"applied", "rolled_back"}
          THEN EntryNow(i)
          ELSE [EntryNow(i) EXCEPT !.status = "none", !.touched = {},
                                   !.before = Nowhere, !.after = Nowhere]]

History == INSTANCE UndoHistory
             WITH disk <- ViewDisk, log <- ViewLog, edited <- edited \cup stained

(* One host at a time, whatever fails outside the rewrite of an entry, keeps    *)
(* every promise of UndoHistory.                                               *)
ImplementsHistory == History!Spec
=============================================================================
