----------------------------- MODULE Txn_proofs -----------------------------
(***************************************************************************)
(* Proofs about the write path, for any number of files and entries. Every   *)
(* theorem says which hosts, crashes, failures and editors it is about.      *)
(*                                                                          *)
(* First, for any of them: EvidenceFirst is a claim about every step of      *)
(* every host, so the inductive invariant (IInv) says which entry files      *)
(* belong to whom. A host that applies owns its entry's file from the moment *)
(* it reserved it (Own), and no host works on a file another one owns        *)
(* (Alone): an undo or redo only ever starts on an entry that is applied or  *)
(* rolled back, and an owned one is neither.                                *)
(*                                                                          *)
(* Then that no first text is lost (RInv), that what is written over is on   *)
(* record (WInv), and that the write path implements UndoHistory (VInv).     *)
(***************************************************************************)
EXTENDS Txn, TLAPS

Active(o) == o.pc \in {"header", "write", "fill", "seal", "mark"}
Owner(o) == Active(o) /\ o.kind \in {"apply", "abort"}

(* What is true of a host's operation o and of the entry file it works on.   *)
Own(o, j) ==
    /\ o.pc \in {"reserve", "header"} => o.kind = "apply"
    /\ o.kind \in {"apply", "abort"} => o.entry.status = "pending"
    /\ Active(o) => j[o.id].status # "free"
    /\ Owner(o) => j[o.id].status \in {"torn", "pending"}
    /\ Owner(o) /\ o.pc \in {"write", "fill", "seal"} =>
         j[o.id] = [o.entry EXCEPT !.after = Nowhere]

(* Of two operations on one entry file, none is an apply. *)
Apart(o, p) == Active(o) /\ Active(p) /\ o.id = p.id => ~Owner(o) /\ ~Owner(p)

(* An entry e written to the file k takes nothing away from the operation o.  *)
Spares(o, k, e) == Active(o) /\ o.id = k => ~Owner(o) /\ e.status # "free"

Owned == \A h \in Hosts : Own(op[h], journal)
Alone == \A g, h \in Hosts : g # h => Apart(op[g], op[h])

IInv == TypeOK /\ Owned /\ Alone
-----------------------------------------------------------------------------
LEMMA NowhereType == Nowhere \in [Files -> Contents]
  BY DEF Nowhere, Contents

LEMMA NoEntryType ==
    ASSUME NEW s \in Statuses
    PROVE  NoEntry(s) \in EntryFiles /\ NoEntry(s).status = s
  BY NowhereType DEF NoEntry, EntryFiles

LEMMA IdleType == Idle \in Ops /\ Idle.pc = "idle" /\ Idle.kind = "apply"
                  /\ Idle.entry.status = "pending"
<1>1. NoEntry("pending") \in EntryFiles /\ NoEntry("pending").status = "pending"
  BY NoEntryType DEF Statuses
<1>2. 1 \in Ids
  BY TxnIdAssumption DEF Ids
<1> QED BY <1>1, <1>2, NowhereType DEF Idle, Ops, PCs, Kinds

LEMMA OnlyType ==
    ASSUME NEW T \in SUBSET Files, NEW c, \A f \in T : c[f] \in Contents
    PROVE  Only(T, c) \in [Files -> Contents]
  BY DEF Only, Contents

LEMMA SealedType ==
    ASSUME NEW o \in Ops
    PROVE  Sealed(o) \in EntryFiles /\ Sealed(o).status # "free"
  BY NowhereType DEF Sealed, Ops, EntryFiles, Statuses

(* One host's step, seen by all: if it leaves what the host's new operation  *)
(* needs, spares the files of the others and keeps apart from them, nobody   *)
(* loses anything.                                                           *)
LEMMA HostStep ==
    ASSUME IInv, NEW h \in Hosts, NEW o, NEW k \in Ids, NEW e,
           op' = [op EXCEPT ![h] = o],
           journal' = [journal EXCEPT ![k] = e],
           Own(o, journal'),
           \A g \in Hosts \ {h} : Spares(op[g], k, e),
           \A g \in Hosts \ {h} : Apart(op[g], o)
    PROVE  Owned' /\ Alone'
<1>1. ASSUME NEW g \in Hosts \ {h} PROVE op'[g] = op[g] /\ Own(op[g], journal')
  <2>1. op'[g] = op[g] /\ op[g] \in Ops /\ Own(op[g], journal)
    BY DEF IInv, TypeOK, Owned
  <2>2. CASE op[g].id = k
    <3>1. journal'[op[g].id] = e
      BY <2>2 DEF IInv, TypeOK
    <3> QED BY <2>1, <2>2, <3>1 DEF Own, Owner, Spares
  <2>3. CASE op[g].id # k
    <3>1. journal'[op[g].id] = journal[op[g].id]
      BY <2>1, <2>3 DEF IInv, TypeOK, Ops
    <3> QED BY <2>1, <3>1 DEF Own, Owner
  <2> QED BY <2>1, <2>2, <2>3
<1>2. op'[h] = o
  BY DEF IInv, TypeOK
<1>3. Owned'
  <2>1. ASSUME NEW g \in Hosts PROVE Own(op'[g], journal')
    BY <1>1, <1>2
  <2> QED BY <2>1 DEF Owned
<1>4. Alone'
  <2>1. ASSUME NEW g \in Hosts, NEW i \in Hosts, g # i PROVE Apart(op'[g], op'[i])
    <3>1. CASE g # h /\ i # h
      BY <3>1, <2>1, <1>1 DEF IInv, Alone
    <3>2. CASE g # h /\ i = h
      BY <3>2, <1>1, <1>2
    <3>3. CASE g = h
      <4>1. Apart(op[i], o)
        BY <3>3, <2>1
      <4> QED BY <4>1, <3>3, <2>1, <1>1, <1>2 DEF Apart
    <3> QED BY <3>1, <3>2, <3>3
  <2> QED BY <2>1 DEF Alone
<1> QED BY <1>3, <1>4

(* The same for a step that leaves the journal alone. *)
LEMMA QuietStep ==
    ASSUME IInv, NEW h \in Hosts, NEW o,
           op' = [op EXCEPT ![h] = o],
           journal' = journal,
           Own(o, journal),
           \A g \in Hosts \ {h} : Apart(op[g], o)
    PROVE  Owned' /\ Alone'
<1>1. ASSUME NEW g \in Hosts \ {h} PROVE op'[g] = op[g]
  BY DEF IInv, TypeOK
<1>2. op'[h] = o
  BY DEF IInv, TypeOK
<1>3. Owned'
  BY <1>1, <1>2 DEF Owned, IInv
<1>4. Alone'
  <2>1. ASSUME NEW g \in Hosts, NEW i \in Hosts, g # i PROVE Apart(op'[g], op'[i])
    <3>1. CASE g # h /\ i # h
      BY <3>1, <2>1, <1>1 DEF IInv, Alone
    <3>2. CASE g # h /\ i = h
      BY <3>2, <1>1, <1>2
    <3>3. CASE g = h
      <4>1. Apart(op[i], o)
        BY <3>3, <2>1
      <4> QED BY <4>1, <3>3, <2>1, <1>1, <1>2 DEF Apart
    <3> QED BY <3>1, <3>2, <3>3
  <2> QED BY <2>1 DEF Alone
<1> QED BY <1>3, <1>4

(* A host goes on with its entry, or stops: the others do not notice.        *)
LEMMA GoesOn ==
    ASSUME IInv, NEW h \in Hosts, NEW o,
           Active(o) => /\ Active(op[h])
                        /\ o.id = op[h].id
                        /\ Owner(o) => Owner(op[h])
    PROVE  \A g \in Hosts \ {h} : Apart(op[g], o)
<1>1. ASSUME NEW g \in Hosts \ {h} PROVE Apart(op[g], o)
  <2>1. Apart(op[g], op[h])
    BY DEF IInv, Alone
  <2> QED BY <2>1 DEF Apart
<1> QED BY <1>1

LEMMA ContinueQuietly ==
    ASSUME IInv, NEW h \in Hosts, NEW o,
           op' = [op EXCEPT ![h] = o],
           journal' = journal,
           Own(o, journal),
           Active(o) => /\ Active(op[h])
                        /\ o.id = op[h].id
                        /\ Owner(o) => Owner(op[h])
    PROVE  Owned' /\ Alone'
<1>1. \A g \in Hosts \ {h} : Apart(op[g], o)
  BY GoesOn
<1> QED BY <1>1, QuietStep

(* A host writes its own entry's file; it may only remove it as its owner. *)
LEMMA ContinueWriting ==
    ASSUME IInv, NEW h \in Hosts, NEW o, NEW e,
           op' = [op EXCEPT ![h] = o],
           journal' = [journal EXCEPT ![op[h].id] = e],
           e.status # "free" \/ Owner(op[h]),
           Own(o, journal'),
           Active(op[h]),
           Active(o) => o.id = op[h].id /\ (Owner(o) => Owner(op[h]))
    PROVE  Owned' /\ Alone'
<1>1. \A g \in Hosts \ {h} : Apart(op[g], o)
  BY GoesOn
<1>2. ASSUME NEW g \in Hosts \ {h} PROVE Spares(op[g], op[h].id, e)
  <2>1. Apart(op[g], op[h])
    BY DEF IInv, Alone
  <2> QED BY <2>1 DEF Apart, Spares
<1>3. op[h].id \in Ids
  BY DEF IInv, TypeOK, Ops
<1> QED BY <1>1, <1>2, <1>3, HostStep
-----------------------------------------------------------------------------
LEMMA InitIInv == Init => IInv
<1> SUFFICES ASSUME Init PROVE IInv
  OBVIOUS
<1>1. NoEntry("free") \in EntryFiles
  BY NoEntryType DEF Statuses
<1>2. NoPlan \in Plans
  BY NowhereType DEF NoPlan, Plans
<1>3. TypeOK
  BY <1>1, <1>2, IdleType, TxnContentAssumption, TxnIdAssumption, TxnSwitchAssumption
     DEF Init, TypeOK, Ids, Contents
<1>4. \A h \in Hosts : op[h] = Idle
  BY DEF Init
<1>5. Owned
  BY <1>4, IdleType DEF Owned, Own, Active, Owner
<1>6. Alone
  BY <1>4, IdleType DEF Alone, Apart, Active
<1> QED BY <1>3, <1>5, <1>6 DEF IInv
-----------------------------------------------------------------------------
(* One lemma per action of a host: its operation afterwards, its type, and    *)
(* why nobody's record suffers.                                               *)
LEMMA StageKeeps ==
    ASSUME IInv, NEW h \in Hosts, NEW new \in [plan[h].touched -> Texts], Stage(h, new)
    PROVE  IInv'
<1> DEFINE T == plan[h].touched
           e == [status |-> "pending", touched |-> T,
                 before |-> Only(T, disk), after |-> Only(T, new)]
           o == [Idle EXCEPT !.pc = "reserve", !.entry = e, !.todo = T,
                             !.pre = Only(T, disk)]
<1>1. T \in SUBSET Files /\ disk \in [Files -> Contents]
  BY DEF IInv, TypeOK, Plans
<1>2. Only(T, disk) \in [Files -> Contents]
  BY <1>1, OnlyType
<1>3. Only(T, new) \in [Files -> Contents]
  BY <1>1, OnlyType DEF Contents
<1>4. e \in EntryFiles /\ e.status = "pending"
  BY <1>1, <1>2, <1>3 DEF EntryFiles, Statuses
<1>5. o \in Ops /\ o.pc = "reserve" /\ o.kind = "apply" /\ o.entry = e
  BY <1>1, <1>2, <1>4, IdleType DEF Ops, PCs
<1>6. op' = [op EXCEPT ![h] = o] /\ journal' = journal
  BY DEF Stage
<1>7. Own(o, journal)
  BY <1>4, <1>5 DEF Own, Owner, Active
<1>8. \A g \in Hosts \ {h} : Apart(op[g], o)
  BY <1>5 DEF Apart, Active
<1>9. Owned' /\ Alone'
  BY <1>6, <1>7, <1>8, QuietStep
<1>10. plan' \in [Hosts -> Plans]
  BY NowhereType DEF IInv, TypeOK, Stage, NoPlan, Plans
<1>11. TypeOK'
  BY <1>5, <1>6, <1>10 DEF IInv, TypeOK, Stage
<1> QED BY <1>9, <1>11 DEF IInv

LEMMA ReserveKeeps ==
    ASSUME IInv, NEW h \in Hosts, NEW i \in Ids, Reserve(h, i)
    PROVE  IInv'
<1> DEFINE o == [op[h] EXCEPT !.pc = "header", !.id = i]
           e == NoEntry("torn")
<1>1. op[h] \in Ops /\ op[h].pc = "reserve" /\ journal[i].status = "free"
  BY DEF IInv, TypeOK, Reserve, IsNextId
<1>2. op[h].kind = "apply" /\ op[h].entry.status = "pending"
  BY <1>1 DEF IInv, Owned, Own
<1>3. e \in EntryFiles /\ e.status = "torn"
  BY NoEntryType DEF Statuses
<1>4. o \in Ops /\ o.pc = "header" /\ o.id = i /\ o.kind = "apply" /\ o.entry = op[h].entry
  BY <1>1, <1>2 DEF Ops, PCs
<1>5. op' = [op EXCEPT ![h] = o] /\ journal' = [journal EXCEPT ![i] = e]
  BY DEF Reserve, IInv, TypeOK
<1>6. journal'[i] = e
  BY <1>5 DEF IInv, TypeOK
<1>7. Own(o, journal')
  BY <1>2, <1>3, <1>4, <1>6 DEF Own, Owner, Active
<1>8. \A g \in Hosts \ {h} : ~(Active(op[g]) /\ op[g].id = i)
  BY <1>1 DEF IInv, Owned, Own
<1>9. \A g \in Hosts \ {h} : Apart(op[g], o) /\ Spares(op[g], i, e)
  BY <1>4, <1>8 DEF Apart, Spares
<1>10. Owned' /\ Alone'
  <2> HIDE DEF o, e
  <2> QED BY <1>5, <1>7, <1>9, HostStep
<1>11. TypeOK'
  BY <1>3, <1>4, <1>5 DEF IInv, TypeOK, Reserve
<1> QED BY <1>10, <1>11 DEF IInv

LEMMA WriteHeaderKeeps ==
    ASSUME IInv, NEW h \in Hosts, WriteHeader(h)
    PROVE  IInv'
<1> DEFINE o == [op[h] EXCEPT !.pc = "write"]
           e == [op[h].entry EXCEPT !.after = Nowhere]
<1>1. op[h] \in Ops /\ op[h].pc = "header" /\ op[h].id \in Ids
  BY DEF IInv, TypeOK, WriteHeader, Ops
<1>2. op[h].kind = "apply" /\ op[h].entry.status = "pending"
  BY <1>1 DEF IInv, Owned, Own
<1>3. e \in EntryFiles /\ e.status = "pending"
  BY <1>1, <1>2, NowhereType DEF Ops, EntryFiles
<1>4. /\ o \in Ops /\ o.pc = "write" /\ o.id = op[h].id
      /\ o.kind = "apply" /\ o.entry = op[h].entry
  BY <1>1, <1>2 DEF Ops, PCs
<1>5. op' = [op EXCEPT ![h] = o] /\ journal' = [journal EXCEPT ![op[h].id] = e]
  BY DEF WriteHeader, IInv, TypeOK
<1>6. journal'[op[h].id] = e
  BY <1>1, <1>5 DEF IInv, TypeOK
<1>7. Own(o, journal')
  BY <1>2, <1>3, <1>4, <1>6 DEF Own, Owner, Active
<1>8. TypeOK'
  BY <1>1, <1>3, <1>4, <1>5 DEF IInv, TypeOK, WriteHeader
<1>9. Active(op[h]) /\ Owner(op[h])
  BY <1>1, <1>2 DEF Active, Owner
<1>10. Owned' /\ Alone'
  <2> HIDE DEF o, e
  <2> QED BY <1>3, <1>4, <1>5, <1>7, <1>9, ContinueWriting
<1> QED BY <1>8, <1>10 DEF IInv

LEMMA HeaderFailsKeeps ==
    ASSUME IInv, NEW h \in Hosts, HeaderFails(h)
    PROVE  IInv'
<1> DEFINE e == NoEntry("free")
<1>1. op[h] \in Ops /\ op[h].pc = "header" /\ op[h].id \in Ids
  BY DEF IInv, TypeOK, HeaderFails, Ops
<1>2. op[h].kind = "apply"
  BY <1>1 DEF IInv, Owned, Own
<1>3. e \in EntryFiles
  BY NoEntryType DEF Statuses
<1>4. op' = [op EXCEPT ![h] = Idle] /\ journal' = [journal EXCEPT ![op[h].id] = e]
  BY DEF HeaderFails
<1>5. Own(Idle, journal') /\ ~Active(Idle)
  BY IdleType DEF Own, Owner, Active
<1>6. TypeOK'
  BY <1>1, <1>3, <1>4, IdleType DEF IInv, TypeOK, HeaderFails
<1>7. Active(op[h]) /\ Owner(op[h])
  BY <1>1, <1>2 DEF Active, Owner
<1>8. Owned' /\ Alone'
  <2> HIDE DEF e
  <2> QED BY <1>4, <1>5, <1>7, ContinueWriting
<1> QED BY <1>6, <1>8 DEF IInv

(* A host takes up an undo or a redo: its entry is nobody's. *)
LEMMA StartKeeps ==
    ASSUME IInv, NEW h \in Hosts, NEW i \in Ids, StartUndo(h, i) \/ StartRedo(h, i)
    PROVE  IInv'
<1> DEFINE o(kind) == [pc |-> "write", kind |-> kind, id |-> i,
                       entry |-> journal[i], todo |-> journal[i].touched,
                       cur |-> {}, pre |-> Only(journal[i].touched, disk)]
<1>1. journal[i] \in EntryFiles /\ journal[i].status \in {"applied", "rolled_back"}
  BY DEF IInv, TypeOK, StartUndo, StartRedo, IsLast, IsRedoCandidate, WithStatus
<1>2. journal[i].touched \in SUBSET Files
  BY <1>1 DEF EntryFiles
<1>3. Only(journal[i].touched, disk) \in [Files -> Contents]
  BY <1>2, OnlyType DEF IInv, TypeOK
<1>4. PICK kind \in {"undo", "redo"} : op' = [op EXCEPT ![h] = o(kind)]
  BY DEF StartUndo, StartRedo
<1>5. /\ o(kind) \in Ops /\ o(kind).kind \notin {"apply", "abort"}
      /\ o(kind).pc = "write" /\ o(kind).id = i
  BY <1>1, <1>2, <1>3 DEF Ops, PCs, Kinds
<1>6. journal' = journal
  BY DEF StartUndo, StartRedo
<1>7. Own(o(kind), journal)
  BY <1>1, <1>5 DEF Own, Owner
<1>8. ASSUME NEW g \in Hosts \ {h} PROVE Apart(op[g], o(kind))
  <2>1. op[g].id = i => ~Owner(op[g])
    BY <1>1 DEF IInv, Owned, Own
  <2> QED BY <1>5, <2>1 DEF Apart, Owner
<1>9. TypeOK'
  BY <1>4, <1>5 DEF IInv, TypeOK, StartUndo, StartRedo
<1>10. Owned' /\ Alone'
  <2> HIDE DEF o
  <2> QED BY <1>4, <1>6, <1>7, <1>8, QuietStep
<1> QED BY <1>9, <1>10 DEF IInv

(* A host stops, because its process died or its operation failed: only its   *)
(* own memory is lost.                                                        *)
LEMMA StopKeeps ==
    ASSUME IInv, NEW h \in Hosts, op' = [op EXCEPT ![h] = Idle], journal' = journal
    PROVE  Owned' /\ Alone' /\ op' \in [Hosts -> Ops]
<1>1. Own(Idle, journal) /\ ~Active(Idle)
  BY IdleType DEF Own, Owner, Active
<1>2. Owned' /\ Alone'
  BY <1>1, ContinueQuietly
<1>3. op' \in [Hosts -> Ops]
  BY IdleType DEF IInv, TypeOK
<1> QED BY <1>2, <1>3

(* A host goes to the next point of its write loop with the same entry. *)
LEMMA LoopKeeps ==
    ASSUME IInv, NEW h \in Hosts, NEW pc \in {"write", "fill", "seal"},
           NEW todo \in SUBSET Files, NEW cur \in SUBSET Files,
           op[h].pc \in {"write", "fill"},
           op' = [op EXCEPT ![h] = [op[h] EXCEPT !.pc = pc, !.todo = todo, !.cur = cur]],
           journal' = journal
    PROVE  Owned' /\ Alone' /\ op' \in [Hosts -> Ops]
<1> DEFINE o == [op[h] EXCEPT !.pc = pc, !.todo = todo, !.cur = cur]
<1>1. op[h] \in Ops /\ Own(op[h], journal)
  BY DEF IInv, TypeOK, Owned
<1>2. /\ o \in Ops /\ o.pc = pc /\ o.id = op[h].id
      /\ o.kind = op[h].kind /\ o.entry = op[h].entry
  BY <1>1 DEF Ops, PCs
<1>3. Active(op[h]) /\ (Owner(o) => Owner(op[h]))
  BY <1>2 DEF Active, Owner
<1> HIDE DEF o
<1>4. Own(o, journal)
  BY <1>1, <1>2, <1>3 DEF Own, Owner, Active
<1>5. op' = [op EXCEPT ![h] = o]
  BY DEF o
<1>6. Owned' /\ Alone'
  BY <1>2, <1>3, <1>4, <1>5, ContinueQuietly
<1> QED BY <1>2, <1>5, <1>6 DEF IInv, TypeOK

LEMMA OpenFileKeeps ==
    ASSUME IInv, NEW h \in Hosts, NEW f \in Files, OpenFile(h, f)
    PROVE  IInv'
<1>1. op[h] \in Ops
  BY DEF IInv, TypeOK
<1>2. op' = [op EXCEPT ![h] = [op[h] EXCEPT !.pc = "fill", !.todo = op[h].todo \ {f},
                                            !.cur = {f}]]
  BY <1>1 DEF OpenFile, IInv, TypeOK, Ops
<1>3. op[h].pc = "write" /\ journal' = journal
  BY DEF OpenFile
<1>4. op[h].todo \ {f} \in SUBSET Files /\ {f} \in SUBSET Files
  BY <1>1 DEF Ops
<1>5. Owned' /\ Alone' /\ op' \in [Hosts -> Ops]
  BY <1>2, <1>3, <1>4, LoopKeeps
<1>6. disk' \in [Files -> Contents]
  BY TxnContentAssumption DEF OpenFile, IInv, TypeOK, Contents
<1> QED BY <1>5, <1>6 DEF IInv, TypeOK, OpenFile

LEMMA FillFileKeeps ==
    ASSUME IInv, NEW h \in Hosts, FillFile(h)
    PROVE  IInv'
<1>1. op[h] \in Ops
  BY DEF IInv, TypeOK
<1>2. op' = [op EXCEPT ![h] = [op[h] EXCEPT !.pc = "write", !.todo = op[h].todo,
                                            !.cur = {}]]
  BY <1>1 DEF FillFile, IInv, TypeOK, Ops
<1>3. op[h].pc = "fill" /\ journal' = journal
  BY DEF FillFile
<1>4. op[h].todo \in SUBSET Files /\ {} \in SUBSET Files
  BY <1>1 DEF Ops
<1>5. Owned' /\ Alone' /\ op' \in [Hosts -> Ops]
  BY <1>2, <1>3, <1>4, LoopKeeps
<1>6. Image(op[h]) \in [Files -> Contents]
  BY <1>1 DEF Image, Ops, EntryFiles
<1>7. disk' \in [Files -> Contents]
  BY <1>6 DEF FillFile, IInv, TypeOK
<1> QED BY <1>5, <1>7 DEF IInv, TypeOK, FillFile

LEMMA RemoveKeeps ==
    ASSUME IInv, NEW h \in Hosts, NEW f \in Files, RemoveFile(h, f) \/ RemoveFails(h, f)
    PROVE  IInv'
<1>1. op[h] \in Ops
  BY DEF IInv, TypeOK
<1>2. op[h].pc = "write" /\ journal' = journal
  BY DEF RemoveFile, RemoveFails
<1>3. op' = [op EXCEPT ![h] = [op[h] EXCEPT !.pc = "write", !.todo = op[h].todo \ {f},
                                            !.cur = op[h].cur]]
  BY <1>1, <1>2 DEF RemoveFile, RemoveFails, IInv, TypeOK, Ops
<1>4. op[h].todo \ {f} \in SUBSET Files /\ op[h].cur \in SUBSET Files
  BY <1>1 DEF Ops
<1>5. Owned' /\ Alone' /\ op' \in [Hosts -> Ops]
  BY <1>2, <1>3, <1>4, LoopKeeps
<1>6. disk' \in [Files -> Contents] /\ stained' \in SUBSET Files
  BY DEF RemoveFile, RemoveFails, IInv, TypeOK, Contents
<1> QED BY <1>5, <1>6 DEF IInv, TypeOK, RemoveFile, RemoveFails

LEMMA FilesDoneKeeps ==
    ASSUME IInv, NEW h \in Hosts, FilesDone(h)
    PROVE  IInv'
<1>1. op[h] \in Ops
  BY DEF IInv, TypeOK
<1>2. op' = [op EXCEPT ![h] = [op[h] EXCEPT !.pc = "seal", !.todo = op[h].todo,
                                            !.cur = op[h].cur]]
  BY <1>1 DEF FilesDone, IInv, TypeOK, Ops
<1>3. op[h].pc = "write" /\ journal' = journal
  BY DEF FilesDone
<1>4. op[h].todo \in SUBSET Files /\ op[h].cur \in SUBSET Files
  BY <1>1 DEF Ops
<1>5. Owned' /\ Alone' /\ op' \in [Hosts -> Ops]
  BY <1>2, <1>3, <1>4, LoopKeeps
<1> QED BY <1>5 DEF IInv, TypeOK, FilesDone

(* execute aborts and keeps its entry; rollback and redo stop. *)
LEMMA OpenFailsKeeps ==
    ASSUME IInv, NEW h \in Hosts, NEW f \in Files, OpenFails(h, f)
    PROVE  IInv'
<1>1. op[h] \in Ops /\ Own(op[h], journal) /\ op[h].pc = "write" /\ journal' = journal
  BY DEF IInv, TypeOK, Owned, OpenFails
<1>2. stained' \in SUBSET Files
  BY <1>1 DEF OpenFails, IInv, TypeOK, Ops, EntryFiles
<1>3. CASE op[h].kind = "apply"
  <2> DEFINE o == [op[h] EXCEPT !.pc = "seal", !.kind = "abort", !.todo = {}]
  <2>1. /\ o \in Ops /\ o.pc = "seal" /\ o.id = op[h].id
        /\ o.kind = "abort" /\ o.entry = op[h].entry
    BY <1>1 DEF Ops, PCs, Kinds
  <2>2. op' = [op EXCEPT ![h] = o]
    BY <1>1, <1>3 DEF OpenFails, IInv, TypeOK, Ops
  <2>3. Active(op[h]) /\ Owner(op[h])
    BY <1>1, <1>3 DEF Active, Owner
  <2> HIDE DEF o
  <2>4. Own(o, journal)
    BY <1>1, <1>3, <2>1, <2>3 DEF Own, Owner, Active
  <2>5. Owned' /\ Alone'
    BY <1>1, <2>1, <2>2, <2>3, <2>4, ContinueQuietly
  <2> QED BY <1>2, <2>1, <2>2, <2>5 DEF IInv, TypeOK, OpenFails
<1>4. CASE op[h].kind # "apply"
  <2>1. op' = [op EXCEPT ![h] = Idle]
    BY <1>4 DEF OpenFails
  <2> QED BY <1>1, <1>2, <2>1, StopKeeps DEF IInv, TypeOK, OpenFails
<1> QED BY <1>3, <1>4

LEMMA OpenEntryKeeps ==
    ASSUME IInv, NEW h \in Hosts, OpenEntry(h)
    PROVE  IInv'
<1> DEFINE o == [op[h] EXCEPT !.pc = "mark"]
           e == NoEntry("torn")
<1>1. op[h] \in Ops /\ Own(op[h], journal) /\ op[h].pc = "seal" /\ op[h].id \in Ids
  BY DEF IInv, TypeOK, Owned, OpenEntry, Ops
<1>2. e \in EntryFiles /\ e.status = "torn"
  BY NoEntryType DEF Statuses
<1>3. /\ o \in Ops /\ o.pc = "mark" /\ o.id = op[h].id
      /\ o.kind = op[h].kind /\ o.entry = op[h].entry
  BY <1>1 DEF Ops, PCs
<1>4. op' = [op EXCEPT ![h] = o] /\ journal' = [journal EXCEPT ![op[h].id] = e]
  BY DEF OpenEntry, IInv, TypeOK
<1>5. Active(op[h]) /\ (Owner(o) => Owner(op[h]))
  BY <1>1, <1>3 DEF Active, Owner
<1> HIDE DEF o, e
<1>6. journal'[op[h].id] = e
  BY <1>1, <1>4 DEF IInv, TypeOK
<1>7. Own(o, journal')
  BY <1>1, <1>2, <1>3, <1>5, <1>6 DEF Own, Owner, Active
<1>8. Owned' /\ Alone'
  BY <1>2, <1>3, <1>4, <1>5, <1>7, ContinueWriting
<1>9. TypeOK'
  BY <1>1, <1>2, <1>3, <1>4 DEF IInv, TypeOK, OpenEntry
<1> QED BY <1>8, <1>9 DEF IInv

LEMMA WriteEntryKeeps ==
    ASSUME IInv, NEW h \in Hosts, WriteEntry(h)
    PROVE  IInv'
<1> DEFINE e == Sealed(op[h])
<1>1. op[h] \in Ops /\ op[h].pc = "mark" /\ op[h].id \in Ids
  BY DEF IInv, TypeOK, WriteEntry, Ops
<1>2. e \in EntryFiles /\ e.status # "free"
  BY <1>1, SealedType
<1>3. op' = [op EXCEPT ![h] = Idle] /\ journal' = [journal EXCEPT ![op[h].id] = e]
  BY DEF WriteEntry
<1>4. Own(Idle, journal') /\ ~Active(Idle)
  BY IdleType DEF Own, Owner, Active
<1>5. Active(op[h])
  BY <1>1 DEF Active
<1>6. stained' \in SUBSET Files
  BY <1>1 DEF WriteEntry, IInv, TypeOK, Ops, EntryFiles
<1> HIDE DEF e
<1>7. Owned' /\ Alone'
  BY <1>2, <1>3, <1>4, <1>5, ContinueWriting
<1>8. TypeOK'
  BY <1>1, <1>2, <1>3, <1>6, IdleType DEF IInv, TypeOK, WriteEntry
<1> QED BY <1>7, <1>8 DEF IInv

LEMMA StopsKeep ==
    ASSUME IInv, NEW h \in Hosts, EntryFails(h) \/ Crash(h)
    PROVE  IInv'
<1>1. op[h] \in Ops
  BY DEF IInv, TypeOK
<1>2. op' = [op EXCEPT ![h] = Idle] /\ journal' = journal
  BY DEF EntryFails, Crash
<1>3. Owned' /\ Alone' /\ op' \in [Hosts -> Ops]
  BY <1>2, StopKeeps
<1>4. stained' \in SUBSET Files
  BY <1>1 DEF EntryFails, Crash, IInv, TypeOK, Ops, EntryFiles
<1>5. plan' \in [Hosts -> Plans]
  BY NowhereType, SMTT(30) DEF EntryFails, Crash, IInv, TypeOK, NoPlan, Plans
<1> QED BY <1>2, <1>3, <1>4, <1>5 DEF IInv, TypeOK, EntryFails, Crash

(* Plans, other programs and the clock touch neither operations nor entries.  *)
LEMMA OutsideKeeps ==
    ASSUME IInv,
           \/ \E h \in Hosts, T \in SUBSET Files : MakePlan(h, T)
           \/ \E f \in Editable, c \in Contents : Edit(f, c)
           \/ Tick
           \/ UNCHANGED vars
    PROVE  IInv'
<1>1. op' = op /\ journal' = journal
  BY DEF MakePlan, Edit, Tick, vars
<1>2. Owned' /\ Alone'
  BY <1>1 DEF IInv, Owned, Alone
<1>3. TypeOK'
  <2>1. ASSUME NEW h \in Hosts, NEW T \in SUBSET Files, MakePlan(h, T) PROVE TypeOK'
    <3>1. Only(T, disk) \in [Files -> Contents]
      BY OnlyType DEF IInv, TypeOK
    <3>2. [touched |-> T, stamps |-> Only(T, disk)] \in Plans
      BY <3>1 DEF Plans
    <3> HIDE DEF Plans
    <3> QED BY <2>1, <3>2 DEF MakePlan, IInv, TypeOK
  <2>2. ASSUME NEW f \in Editable, NEW c \in Contents, Edit(f, c) PROVE TypeOK'
    BY <2>2, TxnSwitchAssumption DEF Edit, IInv, TypeOK
  <2>3. ASSUME Tick PROVE TypeOK'
    BY <2>3, TxnIdAssumption DEF Tick, IInv, TypeOK, Ids
  <2>4. ASSUME UNCHANGED vars PROVE TypeOK'
    BY <2>4 DEF vars, IInv, TypeOK
  <2> QED BY <2>1, <2>2, <2>3, <2>4
<1> QED BY <1>2, <1>3 DEF IInv
-----------------------------------------------------------------------------
(* Every reachable state is well-typed, and every host owns what it writes.   *)
THEOREM InductiveInvariant == Spec => []IInv
<1>1. IInv /\ [Next]_vars => IInv'
  <2> SUFFICES ASSUME IInv, [Next]_vars PROVE IInv'
    OBVIOUS
  <2>1. ASSUME NEW h \in Hosts, ApplySteps(h) PROVE IInv'
    BY <2>1, OutsideKeeps, StageKeeps, ReserveKeeps, WriteHeaderKeeps, HeaderFailsKeeps
       DEF ApplySteps
  <2>2. ASSUME NEW h \in Hosts, WriteSteps(h) PROVE IInv'
    BY <2>2, OpenFileKeeps, RemoveKeeps, OpenFailsKeeps, FillFileKeeps, FilesDoneKeeps,
       OpenEntryKeeps, WriteEntryKeeps, StopsKeep DEF WriteSteps
  <2>3. ASSUME NEW h \in Hosts, Crash(h) PROVE IInv'
    BY <2>3, StopsKeep
  <2>4. ASSUME NEW h \in Hosts, NEW i \in Ids, StartUndo(h, i) \/ StartRedo(h, i)
        PROVE  IInv'
    BY <2>4, StartKeeps
  <2> QED BY <2>1, <2>2, <2>3, <2>4, OutsideKeeps DEF Next
<1> QED BY <1>1, InitIInv, PTL DEF Spec

(* Every variable keeps its type, whatever dies, fails or interleaves.        *)
THEOREM TypeCorrect == Spec => []TypeOK
<1>1. IInv => TypeOK
  BY DEF IInv
<1> QED BY <1>1, InductiveInvariant, PTL

(* Before-content first, for any number of hosts on one journal: from the     *)
(* first byte an apply moves until it seals its entry, that entry's file holds *)
(* the pending record with every before-text.                                 *)
THEOREM EvidenceComesFirst == Spec => []EvidenceFirst
<1>1. IInv => EvidenceFirst
  BY DEF IInv, Owned, Own, Owner, Active, EvidenceFirst
<1> QED BY <1>1, InductiveInvariant, PTL
-----------------------------------------------------------------------------
(* Nothing is lost.                                                         *)
(*                                                                          *)
(* The promise is about files and entries that steps of several operations   *)
(* put out of step, so the invariant follows the evidence: what an entry     *)
(* says its files held outlives every rewrite of its file (Held); ids only   *)
(* grow, so a later entry never comes before an earlier one (Packed, Newest);*)
(* a text about to be recorded is the first one, or one is on record already *)
(* (Witnessed).                                                             *)

Same(e, d) == e.touched = d.touched /\ e.before = d.before
Names(i, f) == f \in EntryNow(i).touched

(* The entry file i is open for a rewrite. *)
Marked(i) == \E h \in Hosts : op[h].pc = "mark" /\ op[h].id = i

(* An operation that writes has its entry on record. *)
Held ==
    \A h \in Hosts :
        /\ op[h].pc = "header" => journal[op[h].id].status = "torn"
        /\ op[h].pc \in {"write", "fill", "seal", "mark"} =>
             \A i \in Ids : i = op[h].id => Same(EntryNow(i), op[h].entry)
        /\ op[h].todo \cup op[h].cur \subseteq op[h].entry.touched

(* From the clock on, ids are taken in order. *)
Packed ==
    \A i, j \in Ids :
        i < j /\ clock <= i /\ journal[j].status # "free" => journal[i].status # "free"

(* Where an id may be given back, it is the last. *)
Newest ==
    "entry" \in Faults =>
        \A h \in Hosts : op[h].pc = "header" =>
            \A j \in Ids : journal[j].status # "free" => j <= op[h].id

(* A text an apply is about to record is the first one, or a first one is on    *)
(* record.                                                                   *)
Witnessed ==
    \A h \in Hosts : \A f \in op[h].entry.touched \ edited :
        /\ op[h].pc = "reserve" =>
             op[h].entry.before[f] = origin[f] \/ \E i \in Ids : Names(i, f)
        /\ op[h].pc = "header" =>
             op[h].entry.before[f] = origin[f] \/ \E i \in Ids : i < op[h].id /\ Names(i, f)

First(f) ==
    \E i \in Ids : /\ Names(i, f)
                   /\ EntryNow(i).before[f] = origin[f]
                   /\ \A j \in Ids : j < i => ~Names(j, f)

(* Whatever changed or was ever named has its first text on record. *)
Traced ==
    \A f \in Files \ edited : disk[f] # origin[f] \/ (\E i \in Ids : Names(i, f)) => First(f)

RInv == Held /\ Packed /\ Newest /\ Witnessed /\ Traced

(* An id may be given back, but then only one process takes them.              *)
OneWriter == "entry" \notin Faults \/ \A g, h \in Hosts : g = h

(* No entry loses what it says of its files. *)
Steady == \A i \in Ids : Same(EntryNow(i)', EntryNow(i))

LEMMA EntryNowIs ==
    ASSUME NEW i
    PROVE  /\ Decodable(journal[i]) => EntryNow(i) = journal[i]
           /\ ~Decodable(journal[i]) /\ Marked(i) =>
                \E h \in Hosts : op[h].pc = "mark" /\ op[h].id = i /\ EntryNow(i) = op[h].entry
           /\ ~Decodable(journal[i]) /\ ~Marked(i) => EntryNow(i) = NoEntry("free")
<1> DEFINE marks == {op[h] : h \in Hosts}
<1>1. Marked(i) => \E o \in marks : o.pc = "mark" /\ o.id = i
  BY DEF Marked
<1>2. Marked(i) => /\ (CHOOSE o \in marks : o.pc = "mark" /\ o.id = i) \in marks
                   /\ (CHOOSE o \in marks : o.pc = "mark" /\ o.id = i).pc = "mark"
                   /\ (CHOOSE o \in marks : o.pc = "mark" /\ o.id = i).id = i
  BY <1>1
<1>3. ~Decodable(journal[i]) /\ Marked(i) =>
        EntryNow(i) = (CHOOSE o \in marks : o.pc = "mark" /\ o.id = i).entry
  BY DEF EntryNow, Marked
<1>. QED
  BY <1>2, <1>3 DEF EntryNow, Marked

(* The same in the next state. *)
LEMMA EntryNextIs ==
    ASSUME NEW i
    PROVE  /\ Decodable(journal'[i]) => EntryNow(i)' = journal'[i]
           /\ ~Decodable(journal'[i]) /\ Marked(i)' =>
                \E h \in Hosts : op'[h].pc = "mark" /\ op'[h].id = i /\ EntryNow(i)' = op'[h].entry
           /\ ~Decodable(journal'[i]) /\ ~Marked(i)' => EntryNow(i)' = NoEntry("free")
<1> DEFINE marks == {op'[h] : h \in Hosts}
<1>1. Marked(i)' => \E o \in marks : o.pc = "mark" /\ o.id = i
  BY DEF Marked
<1>2. Marked(i)' => /\ (CHOOSE o \in marks : o.pc = "mark" /\ o.id = i) \in marks
                    /\ (CHOOSE o \in marks : o.pc = "mark" /\ o.id = i).pc = "mark"
                    /\ (CHOOSE o \in marks : o.pc = "mark" /\ o.id = i).id = i
  BY <1>1
<1>3. ~Decodable(journal'[i]) /\ Marked(i)' =>
        EntryNow(i)' = (CHOOSE o \in marks : o.pc = "mark" /\ o.id = i).entry
  BY DEF EntryNow, Marked
<1>. QED
  BY <1>2, <1>3 DEF EntryNow, Marked

(* A step that puts nothing on record that was not, and keeps what was, is steady. *)
LEMMA SteadyStep ==
    ASSUME \A i \in Ids : Decodable(journal'[i]) => Same(journal'[i], EntryNow(i)),
           \A h \in Hosts : op'[h].pc = "mark" => Same(op'[h].entry, EntryNow(op'[h].id)),
           \A i \in Ids : ~Decodable(journal'[i]) /\ ~Marked(i)'
                            => Same(NoEntry("free"), EntryNow(i))
    PROVE  Steady
BY EntryNextIs DEF Steady

(* A step that leaves the journal and the operations that hold an entry open. *)
LEMMA QuietIsSteady ==
    ASSUME IInv, Held, journal' = journal,
           \A h \in Hosts : op'[h].pc = "mark" \/ op[h].pc = "mark" => op'[h] = op[h]
    PROVE  Steady
<1>1. \A i \in Ids : Decodable(journal'[i]) => Same(journal'[i], EntryNow(i))
  BY EntryNowIs DEF Same
<1>2. \A h \in Hosts : op'[h].pc = "mark" => Same(op'[h].entry, EntryNow(op'[h].id))
  BY DEF Held, Same, IInv, TypeOK, Ops
<1>3. \A i \in Ids : Marked(i)' <=> Marked(i)
  BY DEF Marked
<1>4. \A i \in Ids : ~Decodable(journal'[i]) /\ ~Marked(i)' => Same(NoEntry("free"), EntryNow(i))
  BY <1>3, EntryNowIs DEF Same
<1>. QED
  BY <1>1, <1>2, <1>4, SteadyStep

(* In a steady step, only files that have a record change, or others change them. *)
LEMMA TracedStep ==
    ASSUME Steady, Traced, edited \subseteq edited', origin' = origin,
           \A f \in Files \ edited' : disk'[f] # disk[f] => \E i \in Ids : Names(i, f)
    PROVE  Traced'
<1>1. \A i \in Ids : \A f : /\ Names(i, f)' <=> Names(i, f)
                            /\ EntryNow(i)'.before[f] = EntryNow(i).before[f]
  BY DEF Steady, Same, Names
<1>2. \A f : First(f) => First(f)'
  BY <1>1 DEF First
<1>. QED
  BY <1>1, <1>2 DEF Traced

(* Named entries have files. *)
LEMMA NamesTaken ==
    ASSUME IInv, NEW i \in Ids, NEW f, Names(i, f)
    PROVE  journal[i].status # "free"
<1>1. CASE Marked(i)
  BY <1>1 DEF Marked, IInv, Owned, Own, Active
<1>2. CASE ~Marked(i) /\ ~Decodable(journal[i])
  BY <1>2, EntryNowIs DEF Names, NoEntry
<1>3. CASE Decodable(journal[i])
  BY <1>3 DEF Decodable
<1>. QED
  BY <1>1, <1>2, <1>3
-----------------------------------------------------------------------------
(* A host's step that leaves the journal alone. *)
LEMMA QuietTraced ==
    ASSUME IInv, RInv, NEW h \in Hosts, NEW o,
           op' = [op EXCEPT ![h] = o], journal' = journal,
           UNCHANGED <<clock, edited, origin>>,
           op[h].pc # "mark", o.pc \notin {"header", "mark"}, o.id \in Ids,
           o.pc \in {"write", "fill", "seal"} => Same(EntryNow(o.id), o.entry),
           o.todo \cup o.cur \subseteq o.entry.touched,
           o.pc = "reserve" => \A f \in o.entry.touched \ edited :
             o.entry.before[f] = origin[f] \/ \E i \in Ids : Names(i, f),
           \A f \in Files \ edited : disk'[f] # disk[f] => \E i \in Ids : Names(i, f)
    PROVE  RInv'
<1>1. op'[h] = o /\ \A g \in Hosts \ {h} : op'[g] = op[g]
  BY DEF IInv, TypeOK
<1>2. Held /\ Packed /\ Newest /\ Witnessed /\ Traced
  BY DEF RInv
<1>3. Steady
  BY <1>1, <1>2, QuietIsSteady
<1>4. Traced'
  BY <1>2, <1>3, TracedStep
<1>5. \A i \in Ids : \A f : Names(i, f)' <=> Names(i, f)
  BY <1>3 DEF Steady, Same, Names
<1>6. \A g \in Hosts : op[g].id \in Ids
  BY DEF IInv, TypeOK, Ops
<1>7. Held'
  <2> SUFFICES ASSUME NEW g \in Hosts
               PROVE  /\ op'[g].pc = "header" => journal'[op'[g].id].status = "torn"
                      /\ op'[g].pc \in {"write", "fill", "seal", "mark"} =>
                           \A i \in Ids : i = op'[g].id => Same(EntryNow(i)', op'[g].entry)
                      /\ op'[g].todo \cup op'[g].cur \subseteq op'[g].entry.touched
    BY DEF Held
  <2>1. \A i \in Ids : Same(EntryNow(i)', EntryNow(i))
    BY <1>3 DEF Steady
  <2>2. CASE g = h
    BY <1>1, <2>1, <2>2 DEF Same
  <2>3. CASE g # h
    BY <1>1, <1>2, <1>6, <2>1, <2>3 DEF Held, Same
  <2>. QED
    BY <2>2, <2>3
<1>8. Packed' /\ Newest'
  BY <1>1, <1>2 DEF Packed, Newest
<1>9. Witnessed'
  <2> SUFFICES ASSUME NEW g \in Hosts, NEW f \in op'[g].entry.touched \ edited
               PROVE  /\ op'[g].pc = "reserve" =>
                           \/ op'[g].entry.before[f] = origin[f]
                           \/ \E i \in Ids : Names(i, f)'
                      /\ op'[g].pc = "header" =>
                           \/ op'[g].entry.before[f] = origin[f]
                           \/ \E i \in Ids : i < op'[g].id /\ Names(i, f)'
    BY DEF Witnessed
  <2>1. CASE g = h
    BY <1>1, <1>5, <2>1
  <2>2. CASE g # h
    BY <1>1, <1>2, <1>5, <2>2 DEF Witnessed
  <2>. QED
    BY <2>1, <2>2
<1>. QED
  BY <1>4, <1>7, <1>8, <1>9 DEF RInv

(* A plan staged records what the files hold: their first texts, or there is a *)
(* record of those already.                                                  *)
LEMMA StageTraced ==
    ASSUME IInv, RInv, NEW h \in Hosts, NEW new \in [plan[h].touched -> Texts], Stage(h, new)
    PROVE  RInv'
<1> DEFINE T == plan[h].touched
           e == [status |-> "pending", touched |-> T,
                 before |-> Only(T, disk), after |-> Only(T, new)]
           o == [Idle EXCEPT !.pc = "reserve", !.entry = e, !.todo = T,
                             !.pre = Only(T, disk)]
<1>1. /\ op' = [op EXCEPT ![h] = o] /\ journal' = journal
      /\ UNCHANGED <<clock, edited, origin, disk>>
      /\ op[h].pc = "idle"
  BY DEF Stage
<1>2. /\ o.pc = "reserve" /\ o.id = 1 /\ o.entry = e /\ o.todo = T /\ o.cur = {}
  BY DEF Idle
<1>3. T \in SUBSET Files
  BY DEF IInv, TypeOK, Plans
<1>4. \A f \in T \ edited : e.before[f] = origin[f] \/ \E i \in Ids : Names(i, f)
  <2>1. \A f \in T : e.before[f] = disk[f]
    BY <1>3 DEF Only
  <2>2. \A f \in T \ edited : disk[f] # origin[f] => First(f)
    BY <1>3 DEF RInv, Traced
  <2>. QED
    BY <2>1, <2>2 DEF First
<1>5. e.touched = T /\ 1 \in Ids
  BY TxnIdAssumption DEF Ids
<1> HIDE DEF o, e
<1>. QED
  BY <1>1, <1>2, <1>4, <1>5, QuietTraced

(* An undo or a redo takes its entry from the record. *)
LEMMA StartTraced ==
    ASSUME IInv, RInv, NEW h \in Hosts, NEW i \in Ids, StartUndo(h, i) \/ StartRedo(h, i)
    PROVE  RInv'
<1> DEFINE o(kind) == [pc |-> "write", kind |-> kind, id |-> i,
                       entry |-> journal[i], todo |-> journal[i].touched,
                       cur |-> {}, pre |-> Only(journal[i].touched, disk)]
<1>1. PICK kind \in {"undo", "redo"} : op' = [op EXCEPT ![h] = o(kind)]
  BY DEF StartUndo, StartRedo
<1>2. /\ journal' = journal /\ UNCHANGED <<clock, edited, origin, disk>> /\ op[h].pc = "idle"
  BY DEF StartUndo, StartRedo
<1>3. Decodable(journal[i])
  BY DEF StartUndo, StartRedo, IsLast, IsRedoCandidate, WithStatus, Decodable
<1>4. Same(EntryNow(i), journal[i])
  BY <1>3, EntryNowIs DEF Same
<1>5. /\ o(kind).pc = "write" /\ o(kind).id = i /\ o(kind).entry = journal[i]
      /\ o(kind).todo = journal[i].touched /\ o(kind).cur = {}
  OBVIOUS
<1> HIDE DEF o
<1>. QED
  BY <1>1, <1>2, <1>4, <1>5, QuietTraced

(* In the write loop of any operation only files that its entry names change. *)
LEMMA LoopTraced ==
    ASSUME IInv, RInv, NEW h \in Hosts,
           \/ \E f \in Files : \/ OpenFile(h, f) \/ RemoveFile(h, f)
                               \/ OpenFails(h, f) \/ RemoveFails(h, f)
           \/ FillFile(h) \/ FilesDone(h)
    PROVE  RInv'
<1>1. /\ op[h] \in Ops /\ op[h].id \in Ids
      /\ Same(EntryNow(op[h].id), op[h].entry)
      /\ op[h].todo \cup op[h].cur \subseteq op[h].entry.touched
      /\ op[h].pc \in {"write", "fill"}
  BY DEF IInv, TypeOK, Ops, RInv, Held, OpenFile, RemoveFile, OpenFails, RemoveFails,
         FillFile, FilesDone
<1>2. journal' = journal /\ UNCHANGED <<clock, edited, origin>>
  BY DEF OpenFile, RemoveFile, OpenFails, RemoveFails, FillFile, FilesDone
<1>3. \E o : /\ op' = [op EXCEPT ![h] = o]
             /\ o.pc \notin {"header", "mark", "reserve"} /\ o.id \in Ids
             /\ o.pc \in {"write", "fill", "seal"} => o.id = op[h].id /\ o.entry = op[h].entry
             /\ o.todo \cup o.cur \subseteq o.entry.touched
  <2>1. ASSUME NEW f \in Files, OpenFile(h, f)
        PROVE  op' = [op EXCEPT ![h] = [op[h] EXCEPT !.pc = "fill", !.cur = {f},
                                                     !.todo = op[h].todo \ {f}]]
               /\ f \in op[h].todo
    BY <1>1, <2>1 DEF OpenFile, IInv, TypeOK, Ops
  <2>2. ASSUME NEW f \in Files, RemoveFile(h, f) \/ RemoveFails(h, f)
        PROVE  op' = [op EXCEPT ![h] = [op[h] EXCEPT !.todo = op[h].todo \ {f}]]
    BY <1>1, <2>2 DEF RemoveFile, RemoveFails, IInv, TypeOK, Ops
  <2>3. ASSUME NEW f \in Files, OpenFails(h, f)
        PROVE  \/ op' = [op EXCEPT ![h] = Idle]
               \/ op' = [op EXCEPT ![h] = [op[h] EXCEPT !.pc = "seal", !.kind = "abort",
                                                        !.todo = {}]]
    BY <1>1, <2>3 DEF OpenFails, IInv, TypeOK, Ops
  <2>4. FillFile(h) => op' = [op EXCEPT ![h] = [op[h] EXCEPT !.pc = "write", !.cur = {}]]
    BY <1>1 DEF FillFile, IInv, TypeOK, Ops
  <2>5. FilesDone(h) => op' = [op EXCEPT ![h] = [op[h] EXCEPT !.pc = "seal"]]
    BY <1>1 DEF FilesDone, IInv, TypeOK, Ops
  <2>6. CASE \E f \in Files : OpenFile(h, f)
    <3>1. PICK f \in Files : OpenFile(h, f)
      BY <2>6
    <3> DEFINE o == [op[h] EXCEPT !.pc = "fill", !.cur = {f}, !.todo = op[h].todo \ {f}]
    <3>2. /\ o.pc = "fill" /\ o.id = op[h].id /\ o.entry = op[h].entry
          /\ o.cur = {f} /\ o.todo = op[h].todo \ {f}
      BY <1>1 DEF Ops
    <3>3. op' = [op EXCEPT ![h] = o] /\ f \in op[h].todo
      BY <2>1, <3>1
    <3> HIDE DEF o
    <3>. QED
      BY <1>1, <3>2, <3>3
  <2>7. CASE \E f \in Files : RemoveFile(h, f) \/ RemoveFails(h, f)
    <3>1. PICK f \in Files : RemoveFile(h, f) \/ RemoveFails(h, f)
      BY <2>7
    <3> DEFINE o == [op[h] EXCEPT !.todo = op[h].todo \ {f}]
    <3>2. /\ o.pc = op[h].pc /\ o.id = op[h].id /\ o.entry = op[h].entry
          /\ o.cur = op[h].cur /\ o.todo = op[h].todo \ {f}
      BY <1>1 DEF Ops
    <3>3. op' = [op EXCEPT ![h] = o]
      BY <2>2, <3>1
    <3> HIDE DEF o
    <3>. QED
      BY <1>1, <3>2, <3>3
  <2>8. CASE op' = [op EXCEPT ![h] = Idle]
    <3>1. Idle.pc = "idle" /\ Idle.id = 1 /\ Idle.todo = {} /\ Idle.cur = {}
      BY DEF Idle
    <3>2. 1 \in Ids
      BY TxnIdAssumption DEF Ids
    <3>. QED
      BY <2>8, <3>1, <3>2
  <2>9. CASE op' = [op EXCEPT ![h] = [op[h] EXCEPT !.pc = "seal", !.kind = "abort", !.todo = {}]]
    <3> DEFINE o == [op[h] EXCEPT !.pc = "seal", !.kind = "abort", !.todo = {}]
    <3>1. /\ o.pc = "seal" /\ o.id = op[h].id /\ o.entry = op[h].entry
          /\ o.cur = op[h].cur /\ o.todo = {}
      BY <1>1 DEF Ops
    <3>2. op' = [op EXCEPT ![h] = o]
      BY <2>9
    <3> HIDE DEF o
    <3>. QED
      BY <1>1, <3>1, <3>2
  <2>10. CASE FillFile(h)
    <3> DEFINE o == [op[h] EXCEPT !.pc = "write", !.cur = {}]
    <3>1. /\ o.pc = "write" /\ o.id = op[h].id /\ o.entry = op[h].entry
          /\ o.cur = {} /\ o.todo = op[h].todo
      BY <1>1 DEF Ops
    <3>2. op' = [op EXCEPT ![h] = o]
      BY <2>4, <2>10
    <3> HIDE DEF o
    <3>. QED
      BY <1>1, <3>1, <3>2
  <2>11. CASE FilesDone(h)
    <3> DEFINE o == [op[h] EXCEPT !.pc = "seal"]
    <3>1. /\ o.pc = "seal" /\ o.id = op[h].id /\ o.entry = op[h].entry
          /\ o.cur = op[h].cur /\ o.todo = op[h].todo
      BY <1>1 DEF Ops
    <3>2. op' = [op EXCEPT ![h] = o]
      BY <2>5, <2>11
    <3> HIDE DEF o
    <3>. QED
      BY <1>1, <3>1, <3>2
  <2>. QED
    BY <2>3, <2>6, <2>7, <2>8, <2>9, <2>10, <2>11
<1>4. \A f \in Files : disk'[f] # disk[f] => f \in op[h].todo \cup op[h].cur
  BY DEF OpenFile, RemoveFile, OpenFails, RemoveFails, FillFile, FilesDone, IInv, TypeOK
<1>5. \A f \in Files \ edited : disk'[f] # disk[f] => \E i \in Ids : Names(i, f)
  BY <1>1, <1>4 DEF Same, Names
<1>6. PICK o : /\ op' = [op EXCEPT ![h] = o]
               /\ o.pc \notin {"header", "mark", "reserve"} /\ o.id \in Ids
               /\ o.pc \in {"write", "fill", "seal"} => o.id = op[h].id /\ o.entry = op[h].entry
               /\ o.todo \cup o.cur \subseteq o.entry.touched
  BY <1>3
<1>. QED
  BY <1>1, <1>2, <1>5, <1>6, QuietTraced

(* A host that stops leaves its record behind, unless it dies rewriting it.    *)
LEMMA StopTraced ==
    ASSUME IInv, RInv, "mark" \notin CrashPoints, NEW h \in Hosts, EntryFails(h) \/ Crash(h)
    PROVE  RInv'
<1>1. /\ op' = [op EXCEPT ![h] = Idle] /\ journal' = journal
      /\ UNCHANGED <<clock, edited, origin, disk>>
      /\ op[h].pc # "mark"
  BY DEF EntryFails, Crash
<1>2. Idle.pc = "idle" /\ Idle.id = 1 /\ Idle.todo = {} /\ Idle.cur = {}
  BY DEF Idle
<1>3. 1 \in Ids
  BY TxnIdAssumption DEF Ids
<1>. QED
  BY <1>1, <1>2, <1>3, QuietTraced

(* Other programs change files, and that is remembered; plans and the clock    *)
(* concern no entry.                                                         *)
LEMMA OutsideTraced ==
    ASSUME IInv, RInv,
           \/ \E h \in Hosts, T \in SUBSET Files : MakePlan(h, T)
           \/ \E f \in Editable, c \in Contents : Edit(f, c)
           \/ Tick
           \/ UNCHANGED vars
    PROVE  RInv'
<1>1. op' = op /\ journal' = journal /\ origin' = origin /\ edited \subseteq edited'
  BY DEF MakePlan, Edit, Tick, vars
<1>2. \A f \in Files \ edited' : disk'[f] = disk[f]
  BY DEF MakePlan, Edit, Tick, vars, IInv, TypeOK
<1>3. clock \in Int /\ clock' \in Int /\ clock <= clock'
  BY DEF MakePlan, Edit, Tick, vars, IInv, TypeOK, Ids
<1>4. Held /\ Packed /\ Newest /\ Witnessed /\ Traced
  BY DEF RInv
<1>5. Steady
  BY <1>1, <1>4, QuietIsSteady
<1>6. Traced'
  BY <1>1, <1>2, <1>4, <1>5, TracedStep
<1>7. Packed'
  BY <1>1, <1>3, <1>4 DEF Packed, Ids
<1>8. Newest'
  BY <1>1, <1>4 DEF Newest
<1>9. \A i \in Ids : Same(EntryNow(i)', EntryNow(i))
  BY <1>5 DEF Steady
<1>10. Held'
  BY <1>1, <1>4, <1>9 DEF Held, Same
<1>11. Witnessed'
  BY <1>1, <1>4, <1>9 DEF Witnessed, Names, Same
<1>. QED
  BY <1>6, <1>7, <1>8, <1>10, <1>11 DEF RInv

(* The id taken is beyond all that are. *)
LEMMA ReservedLast ==
    ASSUME IInv, Packed, NEW i \in Ids, IsNextId(i), NEW j \in Ids, journal[j].status # "free"
    PROVE  j < i
<1>1. clock <= i /\ journal[i].status = "free"
  BY DEF IsNextId, IInv, TypeOK, Ids
<1>2. ~(i < j)
  BY <1>1 DEF Packed
<1>. QED
  BY <1>1, <1>2 DEF Ids

LEMMA ReserveTraced ==
    ASSUME IInv, RInv, OneWriter, NEW h \in Hosts, NEW i \in Ids, Reserve(h, i)
    PROVE  RInv'
<1>1. /\ Held /\ Packed /\ Newest /\ Witnessed /\ Traced
  BY DEF RInv
<1>2. /\ op[h].pc = "reserve" /\ IsNextId(i) /\ journal[i].status = "free"
      /\ journal' = [journal EXCEPT ![i] = NoEntry("torn")]
      /\ UNCHANGED <<disk, clock, edited, origin>>
  BY DEF Reserve, IsNextId
<1>3. /\ journal'[i] = NoEntry("torn")
      /\ \A j \in Ids \ {i} : journal'[j] = journal[j]
  BY <1>2 DEF IInv, TypeOK
<1>4. /\ op'[h].pc = "header" /\ op'[h].id = i /\ op'[h].entry = op[h].entry
      /\ op'[h].todo = op[h].todo /\ op'[h].cur = op[h].cur
      /\ \A g \in Hosts \ {h} : op'[g] = op[g]
  BY DEF Reserve, IInv, TypeOK, Ops
<1>5. NoEntry("torn").status = "torn" /\ ~Decodable(NoEntry("torn"))
  BY DEF NoEntry, Decodable
<1>6. \A g \in Hosts : op[g].id \in Ids /\ (Active(op[g]) => op[g].id # i)
  BY <1>2 DEF IInv, TypeOK, Ops, Owned, Own
<1>7. Steady
  <2>1. \A j \in Ids : Decodable(journal'[j]) => Same(journal'[j], EntryNow(j))
    BY <1>3, <1>5, EntryNowIs DEF Same
  <2>2. \A g \in Hosts : op'[g].pc = "mark" => Same(op'[g].entry, EntryNow(op'[g].id))
    BY <1>1, <1>4, <1>6 DEF Held, Same
  <2>3. \A j \in Ids : Marked(j)' <=> Marked(j)
    BY <1>2, <1>4 DEF Marked
  <2>4. ~Marked(i) /\ ~Decodable(journal[i])
    BY <1>2, <1>6 DEF Marked, Active, Decodable
  <2>5. \A j \in Ids : ~Decodable(journal'[j]) /\ ~Marked(j)' => Same(NoEntry("free"), EntryNow(j))
    BY <1>3, <2>3, <2>4, EntryNowIs DEF Same
  <2>. QED
    BY <2>1, <2>2, <2>5, SteadyStep
<1>8. \A j \in Ids : Same(EntryNow(j)', EntryNow(j)) /\ \A f : Names(j, f)' <=> Names(j, f)
  BY <1>7 DEF Steady, Same, Names
<1>9. Traced'
  BY <1>1, <1>2, <1>7, TracedStep
<1>10. Held'
  <2> SUFFICES ASSUME NEW g \in Hosts
               PROVE  /\ op'[g].pc = "header" => journal'[op'[g].id].status = "torn"
                      /\ op'[g].pc \in {"write", "fill", "seal", "mark"} =>
                           \A j \in Ids : j = op'[g].id => Same(EntryNow(j)', op'[g].entry)
                      /\ op'[g].todo \cup op'[g].cur \subseteq op'[g].entry.touched
    BY DEF Held
  <2>1. CASE g = h
    BY <1>1, <1>3, <1>4, <1>5, <2>1 DEF Held
  <2>2. CASE g # h
    BY <1>1, <1>3, <1>4, <1>6, <1>8, <2>2 DEF Held, Same, Active
  <2>. QED
    BY <2>1, <2>2
<1>11. \A j \in Ids : journal[j].status # "free" => j < i
  BY <1>1, <1>2, ReservedLast
<1>12. Packed'
  <2>1. \A k \in clock..(i - 1) : journal[k].status # "free"
    BY <1>2 DEF IsNextId
  <2>. QED
    BY <1>1, <1>2, <1>3, <1>5, <2>1 DEF Packed, Ids, IInv, TypeOK
<1>13. Newest'
  <2>1. \A j \in Ids : journal'[j].status # "free" => j <= i
    BY <1>3, <1>11 DEF Ids
  <2>2. "entry" \in Faults => \A g \in Hosts : g = h
    BY DEF OneWriter
  <2>. QED
    BY <1>4, <2>1, <2>2 DEF Newest
<1>14. Witnessed'
  <2> SUFFICES ASSUME NEW g \in Hosts, NEW f \in op'[g].entry.touched \ edited
               PROVE  /\ op'[g].pc = "reserve" =>
                           \/ op'[g].entry.before[f] = origin[f]
                           \/ \E j \in Ids : Names(j, f)'
                      /\ op'[g].pc = "header" =>
                           \/ op'[g].entry.before[f] = origin[f]
                           \/ \E j \in Ids : j < op'[g].id /\ Names(j, f)'
    BY <1>2 DEF Witnessed
  <2>1. CASE g = h
    <3>1. \A j \in Ids : Names(j, f) => j < i
      BY <1>11, NamesTaken
    <3>. QED
      BY <1>1, <1>2, <1>4, <1>8, <2>1, <3>1 DEF Witnessed
  <2>2. CASE g # h
    BY <1>1, <1>4, <1>8, <2>2 DEF Witnessed
  <2>. QED
    BY <2>1, <2>2
<1>. QED
  BY <1>9, <1>10, <1>12, <1>13, <1>14 DEF RInv

(* A reservation given back was the last, and said nothing. *)
LEMMA HeaderFailsTraced ==
    ASSUME IInv, RInv, OneWriter, NEW h \in Hosts, HeaderFails(h)
    PROVE  RInv'
<1> DEFINE k == op[h].id
<1>1. /\ Held /\ Packed /\ Newest /\ Witnessed /\ Traced
  BY DEF RInv
<1>2. /\ op[h].pc = "header" /\ "entry" \in Faults
      /\ journal' = [journal EXCEPT ![k] = NoEntry("free")]
      /\ op' = [op EXCEPT ![h] = Idle]
      /\ UNCHANGED <<disk, clock, edited, origin>>
  BY DEF HeaderFails
<1>3. \A g \in Hosts : g = h
  BY <1>2 DEF OneWriter
<1>4. k \in Ids
  BY DEF IInv, TypeOK, Ops
<1>5. /\ journal'[k] = NoEntry("free")
      /\ \A j \in Ids \ {k} : journal'[j] = journal[j]
      /\ op'[h] = Idle
  BY <1>2, <1>4 DEF IInv, TypeOK
<1>6. Idle.pc = "idle" /\ Idle.todo = {} /\ Idle.cur = {}
  BY DEF Idle
<1>7. journal[k].status = "torn"
  BY <1>1, <1>2 DEF Held
<1> HIDE DEF k
<1>8. Steady
  <2>1. ~Decodable(NoEntry("free"))
    BY DEF NoEntry, Decodable
  <2>2. \A j \in Ids : Decodable(journal'[j]) => Same(journal'[j], EntryNow(j))
    BY <1>5, <2>1, EntryNowIs DEF Same
  <2>3. \A j : ~Marked(j) /\ ~Marked(j)'
    BY <1>2, <1>3, <1>5, <1>6 DEF Marked
  <2>4. \A j \in Ids : ~Decodable(journal'[j]) => Same(NoEntry("free"), EntryNow(j))
    BY <1>5, <1>7, <2>3, EntryNowIs DEF Same, Decodable
  <2>. QED
    BY <1>3, <1>5, <1>6, <2>2, <2>4, SteadyStep
<1>9. Traced'
  BY <1>1, <1>2, <1>8, TracedStep
<1>10. Held' /\ Newest' /\ Witnessed'
  BY <1>3, <1>5, <1>6 DEF Held, Newest, Witnessed
<1>11. Packed'
  <2>1. \A j \in Ids : journal[j].status # "free" => j <= k
    BY <1>1, <1>2 DEF Newest, k
  <2>2. NoEntry("free").status = "free"
    BY DEF NoEntry
  <2>. QED
    BY <1>1, <1>2, <1>4, <1>5, <2>1, <2>2 DEF Packed, Ids
<1>. QED
  BY <1>9, <1>10, <1>11 DEF RInv

(* The first record of a file: before it, or on it, is its first text. *)
LEMMA WriteHeaderTraced ==
    ASSUME IInv, RInv, NEW h \in Hosts, WriteHeader(h)
    PROVE  RInv'
<1>k. PICK k \in Ids : k = op[h].id
  BY DEF IInv, TypeOK, Ops
<1>e. PICK e : e = [op[h].entry EXCEPT !.after = Nowhere]
  OBVIOUS
<1>1. /\ Held /\ Packed /\ Newest /\ Witnessed /\ Traced
  BY DEF RInv
<1>2. /\ op[h].pc = "header"
      /\ journal' = [journal EXCEPT ![k] = e]
      /\ UNCHANGED <<disk, clock, edited, origin>>
  BY <1>k, <1>e DEF WriteHeader
<1>3. k \in Ids /\ op[h] \in Ops
  BY DEF IInv, TypeOK, Ops
<1>4. /\ op'[h].pc = "write" /\ op'[h].id = k /\ op'[h].entry = op[h].entry
      /\ op'[h].todo = op[h].todo /\ op'[h].cur = op[h].cur
      /\ \A g \in Hosts \ {h} : op'[g] = op[g]
  BY <1>k DEF WriteHeader, IInv, TypeOK, Ops
<1>5. /\ journal'[k] = e
      /\ \A j \in Ids \ {k} : journal'[j] = journal[j]
  BY <1>2, <1>3 DEF IInv, TypeOK
<1>6. op[h].kind = "apply" /\ op[h].entry.status = "pending"
  BY <1>2 DEF IInv, Owned, Own
<1>7. Same(e, op[h].entry) /\ e.status = "pending" /\ Decodable(e)
  BY <1>e, <1>3, <1>6 DEF Ops, EntryFiles, Same, Decodable
<1>8. journal[k].status = "torn"
  BY <1>k, <1>1, <1>2 DEF Held
<1>9. \A g \in Hosts : /\ op[g].id \in Ids
                       /\ g # h /\ Active(op[g]) => op[g].id # k
  BY <1>k, <1>2, <1>6 DEF IInv, TypeOK, Ops, Alone, Apart, Owner, Active
<1>10. ~Marked(k)
  BY <1>2, <1>9 DEF Marked, Active
<1>11. \A f : ~Names(k, f)
  BY <1>8, <1>10, EntryNowIs DEF Names, NoEntry, Decodable
<1>12. EntryNow(k)' = e
  BY <1>5, <1>7, EntryNextIs
<1>13. \A j \in Ids \ {k} : Same(EntryNow(j)', EntryNow(j))
  <2> SUFFICES ASSUME NEW j \in Ids \ {k} PROVE Same(EntryNow(j)', EntryNow(j))
    OBVIOUS
  <2>1. journal'[j] = journal[j]
    BY <1>5
  <2>2. Marked(j)' <=> Marked(j)
    BY <1>2, <1>4 DEF Marked
  <2>3. CASE Decodable(journal[j]) \/ ~Marked(j)
    BY <2>1, <2>2, <2>3, EntryNowIs, EntryNextIs DEF Same
  <2>4. CASE ~Decodable(journal[j]) /\ Marked(j)
    <3>1. PICK g \in Hosts : op'[g].pc = "mark" /\ op'[g].id = j /\ EntryNow(j)' = op'[g].entry
      BY <2>1, <2>2, <2>4, EntryNextIs
    <3>. QED
      BY <1>1, <1>4, <3>1 DEF Held, Same
  <2>. QED
    BY <2>3, <2>4
<1>14. \A j \in Ids \ {k} : \A f : Names(j, f)' <=> Names(j, f)
  BY <1>13 DEF Names, Same
<1>15. \A f : Names(k, f)' <=> f \in op[h].entry.touched
  BY <1>7, <1>12 DEF Names, Same
<1>16. Held'
  <2> SUFFICES ASSUME NEW g \in Hosts
               PROVE  /\ op'[g].pc = "header" => journal'[op'[g].id].status = "torn"
                      /\ op'[g].pc \in {"write", "fill", "seal", "mark"} =>
                           \A j \in Ids : j = op'[g].id => Same(EntryNow(j)', op'[g].entry)
                      /\ op'[g].todo \cup op'[g].cur \subseteq op'[g].entry.touched
    BY DEF Held
  <2>1. CASE g = h
    BY <1>1, <1>4, <1>7, <1>12, <2>1 DEF Held
  <2>2. CASE g # h
    BY <1>1, <1>4, <1>5, <1>9, <1>13, <2>2 DEF Held, Same, Active
  <2>. QED
    BY <2>1, <2>2
<1>17. \A j \in Ids : journal'[j].status = "free" <=> journal[j].status = "free"
  BY <1>5, <1>7, <1>8
<1>18. Packed' /\ Newest'
  BY <1>1, <1>2, <1>4, <1>17 DEF Packed, Newest
<1>19. Witnessed'
  <2> SUFFICES ASSUME NEW g \in Hosts, NEW f \in op'[g].entry.touched \ edited
               PROVE  /\ op'[g].pc = "reserve" =>
                           \/ op'[g].entry.before[f] = origin[f]
                           \/ \E j \in Ids : Names(j, f)'
                      /\ op'[g].pc = "header" =>
                           \/ op'[g].entry.before[f] = origin[f]
                           \/ \E j \in Ids : j < op'[g].id /\ Names(j, f)'
    BY <1>2 DEF Witnessed
  <2>1. CASE g = h
    BY <1>4, <2>1
  <2>2. CASE g # h
    BY <1>1, <1>4, <1>11, <1>14, <2>2 DEF Witnessed
  <2>. QED
    BY <2>1, <2>2
<1>20. Traced'
  <2> SUFFICES ASSUME NEW f \in Files \ edited,
                      disk[f] # origin[f] \/ \E i \in Ids : Names(i, f)'
               PROVE  First(f)'
    BY <1>2 DEF Traced
  <2>1. ASSUME f \in op[h].entry.touched, op[h].entry.before[f] = origin[f],
               \A j \in Ids : j < k => ~Names(j, f)
        PROVE  First(f)'
    <3>1. Names(k, f)' /\ EntryNow(k)'.before[f] = origin[f]
      BY <1>7, <1>12, <1>15, <2>1 DEF Same
    <3>2. \A j \in Ids : j < k => ~Names(j, f)'
      BY <1>3, <1>14, <2>1 DEF Ids
    <3>. QED
      BY <1>2, <1>3, <3>1, <3>2 DEF First
  <2>2. CASE First(f)
    <3>1. PICK i \in Ids : /\ Names(i, f)
                           /\ EntryNow(i).before[f] = origin[f]
                           /\ \A j \in Ids : j < i => ~Names(j, f)
      BY <2>2 DEF First
    <3>2. i # k
      BY <1>11, <3>1
    <3>3. CASE k < i /\ f \in op[h].entry.touched
      <4>1. \A j \in Ids : j < k => ~Names(j, f)
        BY <1>3, <3>1, <3>3 DEF Ids
      <4>2. op[h].entry.before[f] = origin[f]
        BY <1>k, <1>1, <1>2, <3>3, <4>1 DEF Witnessed
      <4>. QED
        BY <2>1, <3>3, <4>1, <4>2
    <3>4. CASE ~(k < i /\ f \in op[h].entry.touched)
      <4>1. \A j \in Ids : j < i => ~Names(j, f)'
        BY <1>14, <1>15, <3>1, <3>4
      <4>2. Names(i, f)' /\ EntryNow(i)'.before[f] = origin[f]
        BY <1>13, <1>14, <3>1, <3>2 DEF Same
      <4>. QED
        BY <1>2, <4>1, <4>2 DEF First
    <3>. QED
      BY <3>3, <3>4
  <2>3. CASE ~First(f)
    <3>1. disk[f] = origin[f] /\ \A i \in Ids : ~Names(i, f)
      BY <1>1, <2>3 DEF Traced
    <3>2. f \in op[h].entry.touched
      BY <1>14, <1>15, <3>1
    <3>3. op[h].entry.before[f] = origin[f]
      BY <1>1, <1>2, <3>1, <3>2 DEF Witnessed
    <3>. QED
      BY <2>1, <3>1, <3>2, <3>3
  <2>. QED
    BY <2>2, <2>3
<1>. QED
  BY <1>16, <1>18, <1>19, <1>20 DEF RInv

(* A host opens or rewrites its entry's file: what the entry says of its files *)
(* is in its memory while the file is cut short, and in the file again after. *)
LEMMA EntryTraced ==
    ASSUME IInv, RInv, NEW h \in Hosts, OpenEntry(h) \/ WriteEntry(h)
    PROVE  RInv'
<1>k. PICK k \in Ids : k = op[h].id
  BY DEF IInv, TypeOK, Ops
<1>1. /\ Held /\ Packed /\ Newest /\ Witnessed /\ Traced
  BY DEF RInv
<1>2. op[h] \in Ops /\ op[h].pc \in {"seal", "mark"} /\ UNCHANGED <<disk, clock, edited, origin>>
  BY DEF OpenEntry, WriteEntry, IInv, TypeOK
<1>3. /\ journal[k].status # "free"
      /\ Same(EntryNow(k), op[h].entry)
  BY <1>k, <1>1, <1>2 DEF IInv, Owned, Own, Active, Held
<1>4. \A g \in Hosts \ {h} : op'[g] = op[g] /\ op[g].id \in Ids
  BY DEF OpenEntry, WriteEntry, IInv, TypeOK, Ops
<1>5. \E e : /\ journal' = [journal EXCEPT ![k] = e]
             /\ e.status # "free"
             /\ \/ /\ ~Decodable(e)
                   /\ op'[h].pc = "mark" /\ op'[h].id = k /\ op'[h].entry = op[h].entry
                   /\ op'[h].todo \cup op'[h].cur \subseteq op'[h].entry.touched
                \/ /\ Decodable(e) /\ Same(e, op[h].entry)
                   /\ op'[h] = Idle
  <2>1. CASE OpenEntry(h)
    <3>1. NoEntry("torn").status = "torn" /\ ~Decodable(NoEntry("torn"))
      BY DEF NoEntry, Decodable
    <3>2. /\ op'[h].pc = "mark" /\ op'[h].id = k /\ op'[h].entry = op[h].entry
          /\ op'[h].todo = op[h].todo /\ op'[h].cur = op[h].cur
      BY <1>k, <2>1 DEF OpenEntry, IInv, TypeOK, Ops
    <3>3. journal' = [journal EXCEPT ![k] = NoEntry("torn")]
      BY <1>k, <2>1 DEF OpenEntry
    <3>. QED
      BY <1>1, <3>1, <3>2, <3>3 DEF Held
  <2>2. CASE WriteEntry(h)
    <3>1. Decodable(Sealed(op[h])) /\ Same(Sealed(op[h]), op[h].entry)
      BY <1>2 DEF Sealed, Ops, EntryFiles, Decodable, Same
    <3>2. op'[h] = Idle
      BY <2>2 DEF WriteEntry, IInv, TypeOK
    <3>3. journal' = [journal EXCEPT ![k] = Sealed(op[h])]
      BY <1>k, <2>2 DEF WriteEntry
    <3>4. Sealed(op[h]).status # "free"
      BY <3>1 DEF Decodable
    <3>. QED
      BY <3>1, <3>2, <3>3, <3>4
  <2>. QED
    BY <2>1, <2>2
<1>6. PICK e : /\ journal' = [journal EXCEPT ![k] = e]
               /\ e.status # "free"
               /\ \/ /\ ~Decodable(e)
                     /\ op'[h].pc = "mark" /\ op'[h].id = k /\ op'[h].entry = op[h].entry
                     /\ op'[h].todo \cup op'[h].cur \subseteq op'[h].entry.touched
                  \/ /\ Decodable(e) /\ Same(e, op[h].entry)
                     /\ op'[h] = Idle
  BY <1>5
<1>7. journal'[k] = e /\ \A j \in Ids \ {k} : journal'[j] = journal[j]
  BY <1>6 DEF IInv, TypeOK
<1>8. Idle.pc = "idle" /\ Idle.todo = {} /\ Idle.cur = {}
  BY DEF Idle
<1>9. op'[h].pc \in {"idle", "mark"}
  BY <1>6, <1>8
<1>10. Steady
  <2>1. \A j \in Ids : Decodable(journal'[j]) => Same(journal'[j], EntryNow(j))
    BY <1>3, <1>6, <1>7, EntryNowIs DEF Same
  <2>2. \A g \in Hosts : op'[g].pc = "mark" => Same(op'[g].entry, EntryNow(op'[g].id))
    <3>1. op'[h].pc = "mark" => Same(op'[h].entry, EntryNow(op'[h].id))
      BY <1>3, <1>6, <1>8 DEF Same
    <3>2. \A g \in Hosts \ {h} : op'[g].pc = "mark" => Same(op'[g].entry, EntryNow(op'[g].id))
      BY <1>1, <1>4 DEF Held, Same
    <3>. QED
      BY <3>1, <3>2
  <2>3. \A j \in Ids \ {k} : Marked(j)' <=> Marked(j)
    <3>1. \A j \in Ids \ {k} : ~(op'[h].pc = "mark" /\ op'[h].id = j)
      BY <1>6, <1>8
    <3>. QED
      BY <1>k, <1>4, <3>1 DEF Marked
  <2>4. ~Decodable(journal'[k]) => Marked(k)'
    BY <1>6, <1>7 DEF Marked
  <2>5. \A j \in Ids : ~Decodable(journal'[j]) /\ ~Marked(j)' => Same(NoEntry("free"), EntryNow(j))
    BY <1>7, <2>3, <2>4, EntryNowIs DEF Same
  <2>. QED
    BY <2>1, <2>2, <2>5, SteadyStep
<1>11. \A j \in Ids : Same(EntryNow(j)', EntryNow(j)) /\ \A f : Names(j, f)' <=> Names(j, f)
  BY <1>10 DEF Steady, Same, Names
<1>12. Traced'
  BY <1>1, <1>2, <1>10, TracedStep
<1>13. Held'
  <2> SUFFICES ASSUME NEW g \in Hosts
               PROVE  /\ op'[g].pc = "header" => journal'[op'[g].id].status = "torn"
                      /\ op'[g].pc \in {"write", "fill", "seal", "mark"} =>
                           \A j \in Ids : j = op'[g].id => Same(EntryNow(j)', op'[g].entry)
                      /\ op'[g].todo \cup op'[g].cur \subseteq op'[g].entry.touched
    BY DEF Held
  <2>1. CASE g = h
    BY <1>3, <1>6, <1>8, <1>9, <1>11, <2>1 DEF Same
  <2>2. CASE g # h
    <3>1. op[g].pc = "header" => op[g].id # k
      BY <1>k, <1>2, <2>2 DEF IInv, Alone, Apart, Owned, Own, Owner, Active
    <3>. QED
      BY <1>1, <1>4, <1>7, <1>11, <2>2, <3>1 DEF Held, Same
  <2>. QED
    BY <2>1, <2>2
<1>14. \A j \in Ids : journal'[j].status = "free" <=> journal[j].status = "free"
  BY <1>3, <1>6, <1>7
<1>15. Packed' /\ Newest'
  BY <1>1, <1>2, <1>4, <1>9, <1>14 DEF Packed, Newest
<1>16. Witnessed'
  <2> SUFFICES ASSUME NEW g \in Hosts, NEW f \in op'[g].entry.touched \ edited
               PROVE  /\ op'[g].pc = "reserve" =>
                           \/ op'[g].entry.before[f] = origin[f]
                           \/ \E j \in Ids : Names(j, f)'
                      /\ op'[g].pc = "header" =>
                           \/ op'[g].entry.before[f] = origin[f]
                           \/ \E j \in Ids : j < op'[g].id /\ Names(j, f)'
    BY <1>2 DEF Witnessed
  <2>1. CASE g = h
    BY <1>9, <2>1
  <2>2. CASE g # h
    BY <1>1, <1>4, <1>11, <2>2 DEF Witnessed
  <2>. QED
    BY <2>1, <2>2
<1>. QED
  BY <1>12, <1>13, <1>15, <1>16 DEF RInv

LEMMA InitRInv == Init => RInv
<1> SUFFICES ASSUME Init PROVE RInv
  OBVIOUS
<1>1. /\ journal = [i \in Ids |-> NoEntry("free")] /\ disk = origin
      /\ \A h \in Hosts : op[h] = Idle
  BY DEF Init
<1>2. Idle.pc = "idle" /\ Idle.todo = {} /\ Idle.cur = {}
  BY DEF Idle
<1>3. NoEntry("free").status = "free" /\ NoEntry("free").touched = {}
      /\ ~Decodable(NoEntry("free"))
  BY DEF NoEntry, Decodable
<1>4. \A i \in Ids : ~Marked(i)
  BY <1>1, <1>2 DEF Marked
<1>5. \A i \in Ids : \A f : ~Names(i, f)
  BY <1>1, <1>3, <1>4, EntryNowIs DEF Names
<1>. QED
  BY <1>1, <1>2, <1>3, <1>5 DEF RInv, Held, Packed, Newest, Witnessed, Traced

(* The evidence of every change is kept, whoever dies and whatever fails.     *)
THEOREM EvidenceIsKept ==
    ASSUME "mark" \notin CrashPoints, OneWriter
    PROVE  Spec => []RInv
<1>1. IInv /\ RInv /\ [Next]_vars => RInv'
  <2> SUFFICES ASSUME IInv, RInv, [Next]_vars PROVE RInv'
    OBVIOUS
  <2>1. ASSUME NEW h \in Hosts, ApplySteps(h) PROVE RInv'
    BY <2>1, OutsideTraced, StageTraced, ReserveTraced, WriteHeaderTraced, HeaderFailsTraced
       DEF ApplySteps
  <2>2. ASSUME NEW h \in Hosts, WriteSteps(h) PROVE RInv'
    BY <2>2, LoopTraced, EntryTraced, StopTraced DEF WriteSteps
  <2>3. ASSUME NEW h \in Hosts, Crash(h) PROVE RInv'
    BY <2>3, StopTraced
  <2>4. ASSUME NEW h \in Hosts, NEW i \in Ids, StartUndo(h, i) \/ StartRedo(h, i)
        PROVE  RInv'
    BY <2>4, StartTraced
  <2>. QED
    BY <2>1, <2>2, <2>3, <2>4, OutsideTraced DEF Next
<1>. QED
  BY <1>1, InitRInv, InductiveInvariant, PTL DEF Spec

(* For any number of files, entries and hosts: whatever was applied, undone,   *)
(* redone, refused or interrupted, a changed file nobody else changed has its  *)
(* first text in the first entry that names it - if no host dies while it      *)
(* rewrites an entry in place (the run torn_entry shows what is lost then), and *)
(* if only one process takes ids where a failing entry may give them back.    *)
THEOREM NothingIsLost ==
    ASSUME "mark" \notin CrashPoints, OneWriter
    PROVE  Spec => []Recoverable
<1>1. RInv => Recoverable
  <2> SUFFICES ASSUME RInv, NEW f \in Files \ edited, disk[f] # origin[f]
               PROVE  \E i \in Ids : /\ f \in EntryNow(i).touched
                                     /\ EntryNow(i).before[f] = origin[f]
                                     /\ \A j \in 1..(i - 1) : f \notin EntryNow(j).touched
    BY DEF Recoverable
  <2>1. First(f)
    BY DEF RInv, Traced
  <2>. QED
    BY <2>1, TxnIdAssumption DEF First, Names, Ids
<1>. QED
  BY <1>1, EvidenceIsKept, PTL
-----------------------------------------------------------------------------
(* What is written over is on record.                                       *)
(*                                                                          *)
(* A host may write long after it looked, so nothing is known of the text it *)
(* meets but where it comes from: a file that only operations changed holds  *)
(* a text of an entry, or of an apply under way, or its first text (Known).  *)
(* The text the host did look at is in its entry (Viewed), and what it holds *)
(* of an entry is what the entry's file says (Copied).                       *)

Writing == {"write", "fill", "seal", "mark"}

(* An undo or redo, and a host that rewrites an entry, has its after-texts.    *)
Copied ==
    \A h \in Hosts :
        op[h].pc = "mark" \/ (op[h].pc \in Writing /\ op[h].kind \in {"undo", "redo"}) =>
            \A i \in Ids : i = op[h].id => EntryNow(i).after = op[h].entry.after

Viewed ==
    \A h \in Hosts : op[h].pc # "idle" =>
        \A f \in op[h].entry.touched :
            IF op[h].kind = "undo" THEN AsText(op[h].pre[f]) = op[h].entry.after[f]
            ELSE op[h].pre[f] = op[h].entry.before[f]

Known ==
    \A f \in Files \ (edited \cup stained) :
        disk[f] \in {Absent, Empty, origin[f]} \/ OnRecord(f, disk[f])

WInv == Copied /\ Viewed /\ Known

(* No entry loses a text, but those of a file an operation fails on. *)
EntryKept(i) ==
    \A f \in EntryNow(i).touched :
        /\ f \in EntryNow(i)'.touched
        /\ EntryNow(i)'.before[f] = EntryNow(i).before[f]
        /\ \/ EntryNow(i).after[f] \in {Absent, EntryNow(i)'.after[f]}
           \/ f \in stained'

Kept == \A i \in Ids : EntryKept(i)

LEMMA FieldsOf ==
    ASSUME IInv, NEW h \in Hosts
    PROVE  /\ op[h] \in Ops /\ op[h].id \in Ids /\ op[h].entry \in EntryFiles
           /\ op[h].entry.touched \in SUBSET Files /\ op[h].pre \in [Files -> Contents]
           /\ op[h].entry.before \in [Files -> Contents] /\ op[h].entry.after \in [Files -> Contents]
  BY DEF IInv, TypeOK, Ops, EntryFiles

(* Whichever host holds an entry open, its copy is the entry. *)
LEMMA AfterIs ==
    ASSUME IInv, Copied, NEW i \in Ids
    PROVE  /\ Decodable(journal[i]) => EntryNow(i) = journal[i]
           /\ \A h \in Hosts : op[h].pc = "mark" /\ op[h].id = i =>
                EntryNow(i).after = op[h].entry.after
           /\ ~Decodable(journal[i]) /\ ~Marked(i) => EntryNow(i) = NoEntry("free")
  BY EntryNowIs DEF Copied

(* A step that leaves the journal and the hosts that hold an entry open. *)
LEMMA QuietKeeps ==
    ASSUME IInv, RInv, Copied, NEW h \in Hosts, NEW o,
           op' = [op EXCEPT ![h] = o], journal' = journal,
           op[h].pc # "mark", o.pc # "mark",
           o.pc \in Writing /\ o.kind \in {"undo", "redo"} =>
             \A i \in Ids : i = o.id => EntryNow(i).after = o.entry.after
    PROVE  Kept /\ Copied' /\ \A i \in Ids : EntryNow(i)'.after = EntryNow(i).after
<1>1. op'[h] = o /\ \A g \in Hosts \ {h} : op'[g] = op[g]
  BY DEF IInv, TypeOK
<1>2. \A g \in Hosts : op'[g].pc = "mark" \/ op[g].pc = "mark" => op'[g] = op[g]
  BY <1>1
<1>3. Steady
  BY <1>2, QuietIsSteady DEF RInv
<1>4. ASSUME NEW i \in Ids PROVE EntryNow(i)'.after = EntryNow(i).after
  <2>1. Marked(i)' <=> Marked(i)
    BY <1>2 DEF Marked
  <2>2. CASE Decodable(journal[i]) \/ ~Marked(i)
    BY <2>1, <2>2, EntryNowIs, EntryNextIs
  <2>3. CASE ~Decodable(journal[i]) /\ Marked(i)
    <3>1. PICK g \in Hosts : op'[g].pc = "mark" /\ op'[g].id = i /\ EntryNow(i)' = op'[g].entry
      BY <2>1, <2>3, EntryNextIs
    <3>2. op'[g] = op[g]
      BY <1>2, <3>1
    <3>. QED
      BY <3>1, <3>2, AfterIs
  <2>. QED
    BY <2>2, <2>3
<1>5. Kept
  BY <1>3, <1>4 DEF Kept, EntryKept, Steady, Same
<1>6. Copied'
  <2> SUFFICES ASSUME NEW g \in Hosts, NEW i \in Ids, i = op'[g].id,
                      \/ op'[g].pc = "mark"
                      \/ op'[g].pc \in Writing /\ op'[g].kind \in {"undo", "redo"}
               PROVE  EntryNow(i)'.after = op'[g].entry.after
    BY DEF Copied
  <2>1. CASE g = h
    BY <1>1, <1>4, <2>1
  <2>2. CASE g # h
    BY <1>1, <1>4, <2>2 DEF Copied
  <2>. QED
    BY <2>1, <2>2
<1>. QED
  BY <1>4, <1>5, <1>6

(* The steps that go on with an operation, or end it, and leave the journal. *)
LEMMA LoopKept ==
    ASSUME IInv, RInv, WInv, NEW h \in Hosts,
           \/ \E f \in Files : \/ OpenFile(h, f) \/ RemoveFile(h, f)
                               \/ OpenFails(h, f) \/ RemoveFails(h, f)
           \/ FillFile(h) \/ FilesDone(h)
    PROVE  /\ Kept /\ Copied'
           /\ \/ op'[h].pc = "idle" /\ op[h].entry.touched \subseteq stained'
              \/ /\ op'[h].pc \in Writing /\ op'[h].entry = op[h].entry /\ op'[h].pre = op[h].pre
                 /\ op'[h].kind = op[h].kind \/ (op[h].kind = "apply" /\ op'[h].kind = "abort")
<1>1. /\ op[h] \in Ops /\ op[h].id \in Ids /\ op[h].pc \in {"write", "fill"}
      /\ journal' = journal
  BY FieldsOf DEF OpenFile, RemoveFile, OpenFails, RemoveFails, FillFile, FilesDone
<1>2. Idle.pc = "idle"
  BY DEF Idle
<1>3. /\ op' = [op EXCEPT ![h] = op'[h]]
      /\ \/ op'[h] = Idle /\ op[h].entry.touched \subseteq stained'
         \/ /\ op'[h].pc \in {"write", "fill", "seal"} /\ op'[h].id = op[h].id
            /\ op'[h].entry = op[h].entry /\ op'[h].pre = op[h].pre
            /\ op'[h].kind = op[h].kind \/ (op[h].kind = "apply" /\ op'[h].kind = "abort")
  <2>1. CASE \E f \in Files : OpenFile(h, f)
    <3>1. PICK f \in Files : OpenFile(h, f)
      BY <2>1
    <3>2. PICK todo : op' = [op EXCEPT ![h].pc = "fill", ![h].cur = {f}, ![h].todo = todo]
      BY <3>1 DEF OpenFile
    <3>. QED
      BY <1>1, <3>2 DEF IInv, TypeOK, Ops
  <2>2. CASE \E f \in Files : RemoveFile(h, f) \/ RemoveFails(h, f)
    <3>1. PICK f \in Files : RemoveFile(h, f) \/ RemoveFails(h, f)
      BY <2>2
    <3>2. PICK todo : op' = [op EXCEPT ![h].todo = todo]
      BY <3>1 DEF RemoveFile, RemoveFails
    <3>3. op[h].pc = "write"
      BY <3>1 DEF RemoveFile, RemoveFails
    <3>. QED
      BY <1>1, <3>2, <3>3 DEF IInv, TypeOK, Ops
  <2>3. CASE \E f \in Files : OpenFails(h, f)
    <3>1. CASE op[h].kind = "apply"
      BY <1>1, <2>3, <3>1 DEF OpenFails, IInv, TypeOK, Ops
    <3>2. CASE op[h].kind # "apply"
      BY <1>1, <2>3, <3>2 DEF OpenFails, IInv, TypeOK, Ops
    <3>. QED
      BY <3>1, <3>2
  <2>4. CASE FillFile(h)
    BY <1>1, <2>4 DEF FillFile, IInv, TypeOK, Ops
  <2>5. CASE FilesDone(h)
    BY <1>1, <2>5 DEF FilesDone, IInv, TypeOK, Ops
  <2>. QED
    BY <2>1, <2>2, <2>3, <2>4, <2>5
<1>4. PICK o : o = op'[h]
  OBVIOUS
<1>5. /\ op' = [op EXCEPT ![h] = o]
      /\ \/ o = Idle /\ op[h].entry.touched \subseteq stained'
         \/ /\ o.pc \in {"write", "fill", "seal"} /\ o.id = op[h].id
            /\ o.entry = op[h].entry /\ o.pre = op[h].pre
            /\ o.kind = op[h].kind \/ (op[h].kind = "apply" /\ o.kind = "abort")
  BY <1>3, <1>4
<1>6. o.pc \in Writing /\ o.kind \in {"undo", "redo"} =>
        \A i \in Ids : i = o.id => EntryNow(i).after = o.entry.after
  BY <1>1, <1>2, <1>5 DEF WInv, Copied, Writing
<1>7. o.pc # "mark" /\ op[h].pc # "mark"
  BY <1>1, <1>2, <1>5
<1>8. Kept /\ Copied'
  BY <1>1, <1>5, <1>6, <1>7, QuietKeeps DEF WInv
<1>. QED
  BY <1>2, <1>3, <1>8 DEF Writing

(* Operations that begin, or stop for good, and what is no operation. *)
LEMMA EndsKept ==
    ASSUME IInv, RInv, WInv, "mark" \notin CrashPoints, NEW h \in Hosts,
           \/ \E new \in [plan[h].touched -> Texts] : Stage(h, new)
           \/ \E i \in Ids : StartUndo(h, i) \/ StartRedo(h, i)
           \/ EntryFails(h) \/ Crash(h)
    PROVE  Kept /\ Copied'
<1>1. Idle.pc = "idle"
  BY DEF Idle
<1>2. journal' = journal /\ op[h].pc # "mark"
  BY DEF Stage, StartUndo, StartRedo, EntryFails, Crash
<1>3. /\ op' = [op EXCEPT ![h] = op'[h]] /\ op'[h].pc # "mark"
      /\ op'[h].pc \in Writing =>
           \E i \in Ids : op'[h].id = i /\ Decodable(journal[i]) /\ op'[h].entry = journal[i]
  <2>1. CASE \E new \in [plan[h].touched -> Texts] : Stage(h, new)
    <3>1. op'[h].pc = "reserve" /\ op' = [op EXCEPT ![h] = op'[h]]
      BY <2>1 DEF Stage, IInv, TypeOK, Idle
    <3>. QED
      BY <3>1 DEF Writing
  <2>2. CASE \E i \in Ids : StartUndo(h, i) \/ StartRedo(h, i)
    <3>1. PICK i \in Ids : StartUndo(h, i) \/ StartRedo(h, i)
      BY <2>2
    <3>2. /\ op' = [op EXCEPT ![h] = op'[h]] /\ op'[h].pc = "write"
          /\ op'[h].id = i /\ op'[h].entry = journal[i]
      BY <3>1 DEF StartUndo, StartRedo, IInv, TypeOK
    <3>3. Decodable(journal[i])
      BY <3>1 DEF StartUndo, StartRedo, IsLast, IsRedoCandidate, WithStatus, Decodable
    <3>. QED
      BY <3>2, <3>3
  <2>3. CASE EntryFails(h) \/ Crash(h)
    BY <1>1, <2>3 DEF EntryFails, Crash, IInv, TypeOK, Writing
  <2>. QED
    BY <2>1, <2>2, <2>3
<1>4. PICK o : o = op'[h]
  OBVIOUS
<1>5. o.pc \in Writing => \A i \in Ids : i = o.id => EntryNow(i).after = o.entry.after
  BY <1>3, <1>4, EntryNowIs
<1>6. op' = [op EXCEPT ![h] = o] /\ o.pc # "mark"
  BY <1>3, <1>4
<1>. QED
  BY <1>2, <1>5, <1>6, QuietKeeps DEF WInv

(* A host writes the entry file k; what it holds open, if anything, is k.      *)
LEMMA OthersKept ==
    ASSUME IInv, RInv, Copied, NEW h \in Hosts, NEW k \in Ids, NEW e,
           journal' = [journal EXCEPT ![k] = e],
           \A g \in Hosts \ {h} : op'[g] = op[g],
           op[h].pc = "mark" => op[h].id = k,
           op'[h].pc = "mark" => op'[h].id = k
    PROVE  \A j \in Ids \ {k} : /\ Same(EntryNow(j)', EntryNow(j))
                                /\ EntryNow(j)'.after = EntryNow(j).after
<1> SUFFICES ASSUME NEW j \in Ids \ {k}
             PROVE  /\ Same(EntryNow(j)', EntryNow(j))
                    /\ EntryNow(j)'.after = EntryNow(j).after
  OBVIOUS
<1>1. journal'[j] = journal[j]
  BY DEF IInv, TypeOK
<1>2. Marked(j)' <=> Marked(j)
  BY DEF Marked
<1>3. CASE Decodable(journal[j]) \/ ~Marked(j)
  BY <1>1, <1>2, <1>3, EntryNowIs, EntryNextIs DEF Same
<1>4. CASE ~Decodable(journal[j]) /\ Marked(j)
  <2>1. PICK g \in Hosts : op'[g].pc = "mark" /\ op'[g].id = j /\ EntryNow(j)' = op'[g].entry
    BY <1>1, <1>2, <1>4, EntryNextIs
  <2>2. op'[g] = op[g]
    BY <2>1
  <2>3. EntryNow(j).after = op[g].entry.after
    BY <2>1, <2>2, AfterIs
  <2>4. Same(EntryNow(j), op[g].entry)
    BY <2>1, <2>2 DEF RInv, Held
  <2>. QED
    BY <2>1, <2>2, <2>3, <2>4 DEF Same
<1>. QED
  BY <1>3, <1>4

LEMMA EntryStepKept ==
    ASSUME IInv, RInv, Copied, NEW h \in Hosts, NEW k \in Ids, NEW e,
           journal' = [journal EXCEPT ![k] = e],
           \A g \in Hosts \ {h} : op'[g] = op[g],
           op[h].pc = "mark" => op[h].id = k,
           op'[h].pc = "mark" => op'[h].id = k,
           EntryKept(k),
           \A g \in Hosts : op'[g].pc \in Writing /\ op'[g].id = k =>
             \/ op'[g].pc # "mark" /\ op'[g].kind \in {"apply", "abort"}
             \/ EntryNow(k)'.after = op'[g].entry.after,
           op'[h].pc \in Writing => op'[h].id = k
    PROVE  Kept /\ Copied'
<1>1. \A j \in Ids \ {k} : /\ Same(EntryNow(j)', EntryNow(j))
                           /\ EntryNow(j)'.after = EntryNow(j).after
  BY OthersKept
<1>2. Kept
  BY <1>1 DEF Kept, EntryKept, Same
<1>3. Copied'
  <2> SUFFICES ASSUME NEW g \in Hosts, NEW j \in Ids, j = op'[g].id,
                      \/ op'[g].pc = "mark"
                      \/ op'[g].pc \in Writing /\ op'[g].kind \in {"undo", "redo"}
               PROVE  EntryNow(j)'.after = op'[g].entry.after
    BY DEF Copied
  <2>1. op'[g].pc \in Writing
    BY DEF Writing
  <2>2. CASE j = k
    BY <2>1, <2>2
  <2>3. CASE j # k
    <3>1. g # h
      BY <2>1, <2>3
    <3>. QED
      BY <1>1, <2>3, <3>1 DEF Copied
  <2>. QED
    BY <2>2, <2>3
<1>. QED
  BY <1>2, <1>3

(* The steps of begin: the entry has said nothing yet. *)
LEMMA BeginKept ==
    ASSUME IInv, RInv, Copied, NEW h \in Hosts,
           (\E i \in Ids : Reserve(h, i)) \/ WriteHeader(h) \/ HeaderFails(h)
    PROVE  Kept /\ Copied'
<1>1. PICK k \in Ids :
         /\ \E e : journal' = [journal EXCEPT ![k] = e]
         /\ ~Decodable(journal[k])
         /\ \A g \in Hosts : Active(op[g]) /\ op[g].id = k => g = h
         /\ op[h].pc \in {"reserve", "header"}
         /\ \/ op'[h].pc \in {"header", "idle"}
            \/ op'[h].pc = "write" /\ op'[h].kind = "apply" /\ op'[h].id = k
  <2>1. CASE \E i \in Ids : Reserve(h, i)
    <3>1. PICK i \in Ids : Reserve(h, i)
      BY <2>1
    <3>2. journal' = [journal EXCEPT ![i] = NoEntry("torn")] /\ ~Decodable(journal[i])
          /\ op[h].pc = "reserve" /\ op'[h].pc = "header"
      BY <3>1 DEF Reserve, IsNextId, Decodable, IInv, TypeOK, Ops
    <3>3. \A g \in Hosts : ~(Active(op[g]) /\ op[g].id = i)
      BY <3>1 DEF Reserve, IsNextId, IInv, Owned, Own
    <3>. QED
      BY <3>2, <3>3
  <2>2. CASE WriteHeader(h) \/ HeaderFails(h)
    <3>1. op[h].pc = "header" /\ op[h].id \in Ids /\ op[h].kind = "apply" /\ op[h] \in Ops
      BY <2>2, FieldsOf DEF WriteHeader, HeaderFails, IInv, Owned, Own
    <3>2. ~Decodable(journal[op[h].id])
      BY <3>1 DEF RInv, Held, Decodable
    <3>3. \A g \in Hosts : Active(op[g]) /\ op[g].id = op[h].id => g = h
      BY <3>1 DEF IInv, Alone, Apart, Active, Owner
    <3>4. \/ op'[h].pc = "idle"
          \/ op'[h].pc = "write" /\ op'[h].kind = "apply" /\ op'[h].id = op[h].id
      BY <2>2, <3>1, IdleType DEF WriteHeader, HeaderFails, IInv, TypeOK, Ops
    <3>5. \E e : journal' = [journal EXCEPT ![op[h].id] = e]
      BY <2>2 DEF WriteHeader, HeaderFails
    <3>. QED
      BY <3>1, <3>2, <3>3, <3>4, <3>5
  <2>. QED
    BY <2>1, <2>2
<1>2. \A g \in Hosts \ {h} : op'[g] = op[g]
  BY DEF Reserve, WriteHeader, HeaderFails, IInv, TypeOK
<1>3. ~Marked(k)
  BY <1>1 DEF Marked, Active
<1>4. EntryKept(k)
  BY <1>1, <1>3, EntryNowIs DEF EntryKept, NoEntry
<1>5. \A g \in Hosts \ {h} : ~(op[g].pc \in Writing /\ op[g].id = k)
  BY <1>1 DEF Writing, Active
<1>6. op'[h].pc \in Writing => op'[h].pc = "write" /\ op'[h].kind = "apply" /\ op'[h].id = k
  BY <1>1 DEF Writing
<1>7. op[h].pc # "mark" /\ op'[h].pc # "mark"
  BY <1>1
<1>8. PICK e : journal' = [journal EXCEPT ![k] = e]
  BY <1>1
<1>9. \A g \in Hosts : op'[g].pc \in Writing /\ op'[g].id = k =>
        op'[g].pc # "mark" /\ op'[g].kind \in {"apply", "abort"}
  BY <1>2, <1>5, <1>6
<1>10. op'[h].pc \in Writing => op'[h].id = k
  BY <1>6
<1>. QED
  BY <1>2, <1>4, <1>7, <1>8, <1>9, <1>10, EntryStepKept

(* While the entry's file is cut short its texts are the host's copy, and then *)
(* the file's again: an apply adds its after-texts, an abort drops them.      *)
LEMMA SealKept ==
    ASSUME IInv, RInv, Copied, NEW h \in Hosts, OpenEntry(h) \/ WriteEntry(h)
    PROVE  /\ Kept /\ Copied'
           /\ op[h].kind # "abort" => \A i \in Ids : i = op[h].id =>
                Same(EntryNow(i)', op[h].entry)
                /\ (op[h].kind = "apply" => EntryNow(i)'.after = op[h].entry.after)
<1>k. PICK k \in Ids : k = op[h].id
  BY DEF IInv, TypeOK, Ops
<1>1. op[h] \in Ops /\ Active(op[h]) /\ op[h].pc \in {"seal", "mark"}
  BY DEF OpenEntry, WriteEntry, IInv, TypeOK, Active
<1>2. Same(EntryNow(k), op[h].entry)
  BY <1>k, <1>1 DEF RInv, Held
<1>3. \A g \in Hosts \ {h} : op'[g] = op[g] /\ op[g] \in Ops
  BY DEF OpenEntry, WriteEntry, IInv, TypeOK
<1>4. \A g \in Hosts \ {h} : op[g].pc \in Writing /\ op[g].id = k =>
        /\ ~Owner(op[h])
        /\ EntryNow(k).after = op[g].entry.after
  <2> SUFFICES ASSUME NEW g \in Hosts \ {h}, op[g].pc \in Writing, op[g].id = k
               PROVE  ~Owner(op[h]) /\ EntryNow(k).after = op[g].entry.after
    OBVIOUS
  <2>1. Active(op[g])
    BY DEF Writing, Active
  <2>2. ~Owner(op[h]) /\ ~Owner(op[g])
    BY <1>k, <1>1, <2>1 DEF IInv, Alone, Apart
  <2>3. op[g].kind \in {"undo", "redo"}
    BY <1>3, <2>1, <2>2 DEF Owner, Ops, Kinds
  <2>. QED
    BY <2>2, <2>3 DEF Copied
<1>5. CASE OpenEntry(h)
  <2>1. /\ journal' = [journal EXCEPT ![k] = NoEntry("torn")] /\ op[h].pc = "seal"
        /\ op'[h].pc = "mark" /\ op'[h].id = k /\ op'[h].entry = op[h].entry
    BY <1>k, <1>5 DEF OpenEntry, IInv, TypeOK, Ops
  <2>2. ~Decodable(journal'[k]) /\ Marked(k)'
    BY <2>1 DEF IInv, TypeOK, NoEntry, Decodable, Marked
  <2>3. PICK g \in Hosts : op'[g].pc = "mark" /\ op'[g].id = k /\ EntryNow(k)' = op'[g].entry
    BY <2>2, EntryNextIs
  <2>4. Same(EntryNow(k)', EntryNow(k))
    <3>1. CASE g = h
      BY <1>2, <2>1, <2>3, <3>1 DEF Same
    <3>2. CASE g # h
      BY <1>3, <2>3, <3>2 DEF RInv, Held, Same
    <3>. QED
      BY <3>1, <3>2
  <2>5. CASE Owner(op[h])
    <3>1. g = h
      BY <1>3, <1>4, <2>3, <2>5 DEF Writing
    <3>2. EntryNow(k)'.after = op[h].entry.after
      BY <2>1, <2>3, <3>1
    <3>3. journal[k] = [op[h].entry EXCEPT !.after = Nowhere] /\ journal[k].status = "pending"
      BY <1>k, <1>1, <2>1, <2>5, FieldsOf DEF IInv, Owned, Own, Owner, EntryFiles
    <3>4. EntryNow(k).after = Nowhere /\ EntryNow(k).touched \in SUBSET Files
      BY <3>3, EntryNowIs, FieldsOf DEF Decodable, EntryFiles
    <3>5. EntryKept(k)
      BY <2>4, <3>4 DEF EntryKept, Same, Nowhere
    <3>6. \A i \in Hosts : op'[i].pc \in Writing /\ op'[i].id = k =>
            EntryNow(k)'.after = op'[i].entry.after
      BY <1>3, <1>4, <2>1, <2>5, <3>2
    <3>7. Kept /\ Copied'
      BY <1>3, <2>1, <3>5, <3>6, EntryStepKept
    <3>. QED
      BY <1>k, <1>2, <2>4, <3>2, <3>7 DEF Same
  <2>6. CASE ~Owner(op[h])
    <3>1. op[h].kind \in {"undo", "redo"}
      BY <1>1, <2>6 DEF Owner, Ops, Kinds
    <3>2. EntryNow(k).after = op[h].entry.after
      BY <1>k, <2>1, <3>1 DEF Copied, Writing
    <3>3. EntryNow(k)'.after = EntryNow(k).after
      <4>1. CASE g = h
        BY <2>1, <2>3, <3>2, <4>1
      <4>2. CASE g # h
        BY <1>3, <1>4, <2>3, <4>2 DEF Writing
      <4>. QED
        BY <4>1, <4>2
    <3>4. EntryKept(k)
      BY <2>4, <3>3 DEF EntryKept, Same
    <3>5. \A i \in Hosts : op'[i].pc \in Writing /\ op'[i].id = k =>
            EntryNow(k)'.after = op'[i].entry.after
      BY <1>3, <1>4, <2>1, <3>2, <3>3
    <3>6. Kept /\ Copied'
      BY <1>3, <2>1, <3>4, <3>5, EntryStepKept
    <3>. QED
      BY <1>k, <1>2, <2>4, <3>1, <3>6 DEF Same
  <2>. QED
    BY <2>5, <2>6
<1>6. CASE WriteEntry(h)
  <2>1. /\ journal' = [journal EXCEPT ![k] = Sealed(op[h])] /\ op[h].pc = "mark"
        /\ op'[h].pc = "idle"
        /\ op[h].kind = "abort" => op[h].entry.touched \subseteq stained'
    BY <1>k, <1>6, IdleType DEF WriteEntry, IInv, TypeOK
  <2>2. /\ Decodable(Sealed(op[h])) /\ Same(Sealed(op[h]), op[h].entry)
        /\ op[h].kind # "abort" => Sealed(op[h]).after = op[h].entry.after
    BY <1>1 DEF Sealed, Ops, EntryFiles, Decodable, Same
  <2>3. EntryNow(k)' = Sealed(op[h])
    BY <2>1, <2>2, EntryNextIs DEF IInv, TypeOK
  <2>4. EntryNow(k).after = op[h].entry.after
    BY <1>k, <2>1 DEF Copied
  <2>5. EntryKept(k)
    BY <1>2, <2>1, <2>2, <2>3, <2>4 DEF EntryKept, Same
  <2>6. "idle" \notin Writing
    BY DEF Writing
  <2>7. op[h].kind = "abort" => Owner(op[h])
    BY <1>1 DEF Owner
  <2>8. \A i \in Hosts : op'[i].pc \in Writing /\ op'[i].id = k =>
          EntryNow(k)'.after = op'[i].entry.after
    BY <1>3, <1>4, <2>1, <2>2, <2>3, <2>4, <2>6, <2>7
  <2>9. Kept /\ Copied'
    BY <1>k, <1>3, <2>1, <2>5, <2>6, <2>8, EntryStepKept
  <2>. QED
    BY <1>k, <2>2, <2>3, <2>9 DEF Same
<1>. QED
  BY <1>5, <1>6

(* No operation: nothing of the record moves. *)
LEMMA OutsideKept ==
    ASSUME IInv, RInv, Copied, op' = op, journal' = journal
    PROVE  Kept /\ Copied'
<1>1. \A i \in Ids : EntryNow(i)' = EntryNow(i)
  BY DEF EntryNow
<1>. QED
  BY <1>1 DEF Kept, EntryKept, Copied

(* What an apply under way is to put into its entry stays on record too. *)
Carried ==
    \A g \in Hosts, f \in Files : \A c :
        /\ Underway(g, f) /\ op[g].kind \in {"apply", "abort"} /\ f \notin stained'
        /\ c = op[g].entry.after[f]
        => OnRecord(f, c)'

LEMMA CarriedByOne ==
    ASSUME NEW h \in Hosts, \A g \in Hosts \ {h} : op'[g] = op[g],
           \A f \in Files : \A c :
             /\ Underway(h, f) /\ op[h].kind \in {"apply", "abort"} /\ f \notin stained'
             /\ c = op[h].entry.after[f]
             => OnRecord(f, c)'
    PROVE  Carried
BY DEF Carried, OnRecord, Underway

LEMMA RecordStays ==
    ASSUME Kept, Carried, NEW f \in Files, NEW c, c # Absent, f \notin stained', OnRecord(f, c)
    PROVE  OnRecord(f, c)'
<1>1. CASE \E i \in Ids : /\ f \in EntryNow(i).touched
                          /\ c \in {EntryNow(i).before[f], EntryNow(i).after[f]}
  BY <1>1 DEF Kept, EntryKept, OnRecord
<1>2. CASE \E h \in Hosts : /\ Underway(h, f)
                            /\ op[h].kind \in {"apply", "abort"}
                            /\ c = op[h].entry.after[f]
  BY <1>2 DEF Carried
<1>. QED
  BY <1>1, <1>2 DEF OnRecord

(* Nobody but another program changes what a file holds, and a host looked at *)
(* what its operation found.                                                  *)
Sees(o) ==
    o.pc # "idle" => \A f \in o.entry.touched :
        IF o.kind = "undo" THEN AsText(o.pre[f]) = o.entry.after[f]
        ELSE o.pre[f] = o.entry.before[f]

LEMMA ViewedByOne ==
    ASSUME Viewed, NEW h \in Hosts, \A g \in Hosts \ {h} : op'[g] = op[g], Sees(op'[h])
    PROVE  Viewed'
BY DEF Viewed, Sees

LEMMA SeesOn ==
    ASSUME Viewed, NEW h \in Hosts,
           \/ op'[h].pc = "idle"
           \/ /\ op[h].pc # "idle"
              /\ op'[h].entry = op[h].entry /\ op'[h].pre = op[h].pre
              /\ op'[h].kind = "undo" <=> op[h].kind = "undo"
    PROVE  Sees(op'[h])
BY DEF Viewed, Sees

(* A step of the whole system, as far as the record goes. *)
Follows == Kept /\ Carried /\ Copied' /\ Viewed'

LEMMA LoopFollows ==
    ASSUME IInv, RInv, WInv, NEW h \in Hosts,
           \/ \E f \in Files : \/ OpenFile(h, f) \/ RemoveFile(h, f)
                               \/ OpenFails(h, f) \/ RemoveFails(h, f)
           \/ FillFile(h) \/ FilesDone(h)
    PROVE  Follows
<1>1. /\ Kept /\ Copied'
      /\ \/ op'[h].pc = "idle" /\ op[h].entry.touched \subseteq stained'
         \/ /\ op'[h].pc \in Writing /\ op'[h].entry = op[h].entry /\ op'[h].pre = op[h].pre
            /\ op'[h].kind = op[h].kind \/ (op[h].kind = "apply" /\ op'[h].kind = "abort")
  BY LoopKept
<1>2. /\ \A g \in Hosts \ {h} : op'[g] = op[g]
      /\ op[h].pc # "idle"
  BY DEF OpenFile, RemoveFile, OpenFails, RemoveFails, FillFile, FilesDone, IInv, TypeOK
<1>3. \A f \in Files : \A c :
        /\ Underway(h, f) /\ op[h].kind \in {"apply", "abort"} /\ f \notin stained'
        /\ c = op[h].entry.after[f]
        => OnRecord(f, c)'
  BY <1>1 DEF Underway, OnRecord, Writing
<1>4. Carried
  BY <1>2, <1>3, CarriedByOne
<1>5. Sees(op'[h])
  BY <1>1, <1>2, SeesOn DEF WInv
<1>. QED
  BY <1>1, <1>2, <1>4, <1>5, ViewedByOne DEF Follows, WInv

LEMMA EndsFollow ==
    ASSUME IInv, RInv, WInv, "mark" \notin CrashPoints, NEW h \in Hosts,
           \/ \E new \in [plan[h].touched -> Texts] : Stage(h, new)
           \/ \E i \in Ids : StartUndo(h, i) \/ StartRedo(h, i)
           \/ EntryFails(h) \/ Crash(h)
    PROVE  Follows
<1>1. Kept /\ Copied'
  BY EndsKept
<1>2. \A g \in Hosts \ {h} : op'[g] = op[g]
  BY DEF Stage, StartUndo, StartRedo, EntryFails, Crash, IInv, TypeOK
<1>3. \A f \in Files : Underway(h, f) => f \in stained'
  BY DEF Stage, StartUndo, StartRedo, EntryFails, Crash, Underway
<1>4. Carried
  BY <1>2, <1>3, CarriedByOne
<1>5. Sees(op'[h])
  <2>1. CASE \E new \in [plan[h].touched -> Texts] : Stage(h, new)
    <3>1. PICK new \in [plan[h].touched -> Texts] : Stage(h, new)
      BY <2>1
    <3>2. /\ op'[h].kind = "apply"
          /\ op'[h].entry.before = Only(plan[h].touched, disk)
          /\ op'[h].pre = Only(plan[h].touched, disk)
      BY <3>1 DEF Stage, IInv, TypeOK, Idle
    <3>. QED
      BY <3>2 DEF Sees
  <2>2. CASE \E i \in Ids : StartUndo(h, i)
    <3>1. PICK i \in Ids : StartUndo(h, i)
      BY <2>2
    <3>2. /\ op'[h].kind = "undo" /\ op'[h].entry = journal[i]
          /\ op'[h].pre = Only(journal[i].touched, disk)
      BY <3>1 DEF StartUndo, IInv, TypeOK
    <3>3. journal[i].touched \subseteq Files
      BY DEF IInv, TypeOK, EntryFiles
    <3>4. \A f \in journal[i].touched : AsText(disk[f]) = journal[i].after[f]
      BY <3>1 DEF StartUndo, UndoDrift
    <3>. QED
      BY <3>2, <3>3, <3>4 DEF Sees, Only
  <2>3. CASE \E i \in Ids : StartRedo(h, i)
    <3>1. PICK i \in Ids : StartRedo(h, i)
      BY <2>3
    <3>2. /\ op'[h].kind = "redo" /\ op'[h].entry = journal[i]
          /\ op'[h].pre = Only(journal[i].touched, disk)
      BY <3>1 DEF StartRedo, IInv, TypeOK
    <3>3. journal[i].touched \subseteq Files
      BY DEF IInv, TypeOK, EntryFiles
    <3>4. \A f \in journal[i].touched : disk[f] = journal[i].before[f]
      BY <3>1 DEF StartRedo, RedoDrift
    <3>. QED
      BY <3>2, <3>3, <3>4 DEF Sees, Only
  <2>4. CASE EntryFails(h) \/ Crash(h)
    <3>1. op'[h].pc = "idle"
      BY <2>4, IdleType DEF EntryFails, Crash, IInv, TypeOK
    <3>. QED
      BY <3>1 DEF Sees
  <2>. QED
    BY <2>1, <2>2, <2>3, <2>4
<1>. QED
  BY <1>1, <1>2, <1>4, <1>5, ViewedByOne DEF Follows, WInv

LEMMA BeginFollows ==
    ASSUME IInv, RInv, WInv, NEW h \in Hosts,
           (\E i \in Ids : Reserve(h, i)) \/ WriteHeader(h) \/ HeaderFails(h)
    PROVE  Follows
<1>1. Kept /\ Copied'
  BY BeginKept DEF WInv
<1>2. \A g \in Hosts \ {h} : op'[g] = op[g]
  BY DEF Reserve, WriteHeader, HeaderFails, IInv, TypeOK
<1>3. op[h].pc \in {"reserve", "header"}
  BY DEF Reserve, WriteHeader, HeaderFails
<1>4. Carried
  BY <1>2, <1>3, CarriedByOne DEF Underway
<1>5. \/ op'[h].pc = "idle"
      \/ op'[h].entry = op[h].entry /\ op'[h].pre = op[h].pre /\ op'[h].kind = op[h].kind
  BY IdleType DEF Reserve, WriteHeader, HeaderFails, IInv, TypeOK, Ops
<1>6. Sees(op'[h])
  BY <1>3, <1>5, SeesOn DEF WInv
<1>. QED
  BY <1>1, <1>2, <1>4, <1>6, ViewedByOne DEF Follows, WInv

LEMMA SealFollows ==
    ASSUME IInv, RInv, WInv, NEW h \in Hosts, OpenEntry(h) \/ WriteEntry(h)
    PROVE  Follows
<1>1. /\ Kept /\ Copied'
      /\ op[h].kind # "abort" => \A i \in Ids : i = op[h].id =>
           Same(EntryNow(i)', op[h].entry)
           /\ (op[h].kind = "apply" => EntryNow(i)'.after = op[h].entry.after)
  BY SealKept DEF WInv
<1>2. \A g \in Hosts \ {h} : op'[g] = op[g]
  BY DEF OpenEntry, WriteEntry, IInv, TypeOK
<1>3. op[h].pc \in {"seal", "mark"} /\ op[h].id \in Ids
  BY FieldsOf DEF OpenEntry, WriteEntry
<1>4. \/ /\ op'[h].pc = "mark" /\ op'[h].entry = op[h].entry
         /\ op'[h].pre = op[h].pre /\ op'[h].kind = op[h].kind
      \/ op'[h].pc = "idle" /\ (op[h].kind = "abort" => op[h].entry.touched \subseteq stained')
  BY IdleType DEF OpenEntry, WriteEntry, IInv, TypeOK, Ops
<1>5. \A f \in Files : \A c :
        /\ Underway(h, f) /\ op[h].kind \in {"apply", "abort"} /\ f \notin stained'
        /\ c = op[h].entry.after[f]
        => OnRecord(f, c)'
  <2> SUFFICES ASSUME NEW f \in Files, NEW c, c = op[h].entry.after[f],
                      Underway(h, f), op[h].kind \in {"apply", "abort"}, f \notin stained'
               PROVE  OnRecord(f, c)'
    OBVIOUS
  <2>1. CASE op'[h].pc = "mark"
    BY <1>4, <2>1 DEF Underway, OnRecord
  <2>2. CASE op'[h].pc = "idle"
    <3>1. op[h].kind = "apply"
      BY <1>4, <2>2 DEF Underway
    <3>2. PICK i \in Ids : i = op[h].id
      BY <1>3
    <3>3. f \in EntryNow(i)'.touched /\ EntryNow(i)'.after = op[h].entry.after
      BY <1>1, <3>1, <3>2 DEF Same, Underway
    <3>. QED
      BY <3>3 DEF OnRecord
  <2>. QED
    BY <1>4, <2>1, <2>2
<1>6. Carried
  BY <1>2, <1>5, CarriedByOne
<1>7. Sees(op'[h])
  BY <1>3, <1>4, SeesOn DEF WInv
<1>. QED
  BY <1>1, <1>2, <1>6, <1>7, ViewedByOne DEF Follows, WInv

LEMMA OutsideFollows ==
    ASSUME IInv, RInv, WInv, op' = op, journal' = journal, stained' = stained
    PROVE  Follows
<1>1. Kept /\ Copied'
  BY OutsideKept DEF WInv
<1>2. Carried
  BY DEF Carried, OnRecord, Underway
<1>3. Viewed'
  BY DEF WInv, Viewed
<1>. QED
  BY <1>1, <1>2, <1>3 DEF Follows

(* What a write puts into a file is on record already. *)
LEMMA FillsFromRecord ==
    ASSUME IInv, RInv, Copied, NEW h \in Hosts, FillFile(h), NEW f \in op[h].cur
    PROVE  f \in Files /\ disk'[f] = Image(op[h])[f] /\ OnRecord(f, disk'[f])
<1>1. /\ f \in op[h].entry.touched /\ f \in Files /\ op[h].pc = "fill" /\ op[h] \in Ops
  BY FieldsOf DEF RInv, Held, FillFile
<1>2. disk'[f] = Image(op[h])[f]
  BY <1>1 DEF FillFile
<1>3. PICK k \in Ids : k = op[h].id
  BY FieldsOf
<1>4. Same(EntryNow(k), op[h].entry)
  BY <1>1, <1>3 DEF RInv, Held
<1>5. CASE op[h].kind = "undo"
  BY <1>1, <1>2, <1>4, <1>5 DEF Image, Same, OnRecord
<1>6. CASE op[h].kind = "redo"
  <2>1. EntryNow(k).after = op[h].entry.after
    BY <1>1, <1>3, <1>6 DEF Copied, Writing
  <2>. QED
    BY <1>1, <1>2, <1>4, <1>6, <2>1 DEF Image, Same, OnRecord
<1>7. CASE op[h].kind \in {"apply", "abort"}
  BY <1>1, <1>2, <1>7 DEF Image, Underway, OnRecord
<1>. QED
  BY <1>1, <1>2, <1>5, <1>6, <1>7 DEF Ops, Kinds

LEMMA StepFollows ==
    ASSUME IInv, RInv, WInv, "mark" \notin CrashPoints, [Next]_vars
    PROVE  Follows
<1>1. ASSUME NEW h \in Hosts, ApplySteps(h) PROVE Follows
  <2>1. CASE \E T \in SUBSET Files : MakePlan(h, T)
    <3>1. op' = op /\ journal' = journal /\ stained' = stained
      BY <2>1 DEF MakePlan
    <3>. QED
      BY <3>1, OutsideFollows
  <2>2. CASE \E new \in [plan[h].touched -> Texts] : Stage(h, new)
    BY <2>2, EndsFollow
  <2>3. CASE (\E i \in Ids : Reserve(h, i)) \/ WriteHeader(h) \/ HeaderFails(h)
    BY <2>3, BeginFollows
  <2>. QED
    BY <1>1, <2>1, <2>2, <2>3 DEF ApplySteps
<1>2. ASSUME NEW h \in Hosts, WriteSteps(h) PROVE Follows
  BY <1>2, LoopFollows, SealFollows, EndsFollow DEF WriteSteps
<1>3. ASSUME NEW h \in Hosts, Crash(h) PROVE Follows
  BY <1>3, EndsFollow
<1>4. ASSUME NEW h \in Hosts, NEW i \in Ids, StartUndo(h, i) \/ StartRedo(h, i) PROVE Follows
  BY <1>4, EndsFollow
<1>5. ASSUME (\E f \in Editable, c \in Contents : Edit(f, c)) \/ Tick \/ UNCHANGED vars
      PROVE  Follows
  <2>1. op' = op /\ journal' = journal /\ stained' = stained
    BY <1>5 DEF Edit, Tick, vars
  <2>. QED
    BY <2>1, OutsideFollows
<1>. QED
  BY <1>1, <1>2, <1>3, <1>4, <1>5 DEF Next

(* What a step does to a file, and who did it. *)
LEMMA WhoWrites ==
    ASSUME IInv, [Next]_vars, NEW f \in Files, disk'[f] # disk[f]
    PROVE  \/ \E h \in Hosts : \/ OpenFile(h, f) \/ RemoveFile(h, f)
                               \/ FillFile(h) /\ f \in op[h].cur
           \/ f \in edited' /\ op' = op
<1>1. ASSUME NEW h \in Hosts, NEW d \in Files, OpenFile(h, d) \/ RemoveFile(h, d) PROVE d = f
  BY <1>1 DEF OpenFile, RemoveFile, IInv, TypeOK
<1>2. ASSUME NEW h \in Hosts, FillFile(h) PROVE f \in op[h].cur
  BY <1>2 DEF FillFile
<1>3. ASSUME NEW d \in Editable, NEW c \in Contents, Edit(d, c) PROVE f \in edited' /\ op' = op
  BY <1>3 DEF Edit, IInv, TypeOK
<1>4. ASSUME NEW h \in Hosts, ApplySteps(h) \/ Crash(h) PROVE FALSE
  BY <1>4 DEF ApplySteps, MakePlan, Stage, Reserve, WriteHeader, HeaderFails, Crash
<1>5. ASSUME NEW h \in Hosts, NEW i \in Ids, StartUndo(h, i) \/ StartRedo(h, i) PROVE FALSE
  BY <1>5 DEF StartUndo, StartRedo
<1>6. ASSUME NEW h \in Hosts, NEW d \in Files, OpenFails(h, d) \/ RemoveFails(h, d) PROVE FALSE
  BY <1>6 DEF OpenFails, RemoveFails
<1>7. ASSUME NEW h \in Hosts, FilesDone(h) \/ OpenEntry(h) \/ WriteEntry(h) \/ EntryFails(h)
      PROVE FALSE
  BY <1>7 DEF FilesDone, OpenEntry, WriteEntry, EntryFails
<1>8. ~Tick /\ ~UNCHANGED vars
  BY DEF Tick, vars
<1>9. ASSUME NEW h \in Hosts, WriteSteps(h)
      PROVE  OpenFile(h, f) \/ RemoveFile(h, f) \/ (FillFile(h) /\ f \in op[h].cur)
  BY <1>1, <1>2, <1>6, <1>7, <1>9 DEF WriteSteps
<1>. QED
  BY <1>3, <1>4, <1>5, <1>8, <1>9 DEF Next

LEMMA HistoryGrows ==
    ASSUME IInv, [Next]_vars
    PROVE  edited \subseteq edited' /\ stained \subseteq stained' /\ origin' = origin
<1>1. ASSUME NEW h \in Hosts, ApplySteps(h) \/ Crash(h)
      PROVE  edited \subseteq edited' /\ stained \subseteq stained' /\ origin' = origin
  BY <1>1 DEF ApplySteps, MakePlan, Stage, Reserve, WriteHeader, HeaderFails, Crash
<1>2. ASSUME NEW h \in Hosts, WriteSteps(h)
      PROVE  edited \subseteq edited' /\ stained \subseteq stained' /\ origin' = origin
  BY <1>2 DEF WriteSteps, OpenFile, RemoveFile, OpenFails, RemoveFails, FillFile, FilesDone,
              OpenEntry, WriteEntry, EntryFails
<1>. QED
  BY <1>1, <1>2 DEF Next, StartUndo, StartRedo, Edit, Tick, vars

LEMMA KnownStays ==
    ASSUME IInv, RInv, WInv, "mark" \notin CrashPoints, [Next]_vars
    PROVE  Known'
<1>1. Kept /\ Carried
  BY StepFollows DEF Follows
<1>2. edited \subseteq edited' /\ stained \subseteq stained' /\ origin' = origin
  BY HistoryGrows
<1> SUFFICES ASSUME NEW f \in Files, f \notin edited', f \notin stained'
             PROVE  disk'[f] \in {Absent, Empty, origin'[f]} \/ OnRecord(f, disk[f])'
  BY DEF Known
<1>3. ASSUME NEW c, OnRecord(f, c) PROVE c = Absent \/ OnRecord(f, c)'
  BY <1>1, <1>3, RecordStays
<1>4. CASE disk'[f] = disk[f]
  <2>1. CASE disk[f] \in {Absent, Empty, origin[f]}
    BY <1>2, <1>4, <2>1
  <2>2. CASE disk[f] \notin {Absent, Empty, origin[f]}
    <3>1. PICK c : c = disk[f] /\ c = disk'[f]
      BY <1>4
    <3>2. OnRecord(f, c)
      BY <1>2, <2>2, <3>1 DEF WInv, Known
    <3>3. OnRecord(f, c)'
      BY <1>3, <2>2, <3>1, <3>2
    <3>. QED
      BY <3>1, <3>3 DEF OnRecord
  <2>. QED
    BY <2>1, <2>2
<1>5. CASE disk'[f] # disk[f]
  <2>1. CASE \E h \in Hosts : OpenFile(h, f) \/ RemoveFile(h, f)
    BY <2>1 DEF OpenFile, RemoveFile, IInv, TypeOK
  <2>2. CASE \E h \in Hosts : FillFile(h) /\ f \in op[h].cur
    <3>1. OnRecord(f, disk'[f])
      BY <2>2, FillsFromRecord DEF WInv
    <3>2. PICK c : c = disk'[f]
      OBVIOUS
    <3>3. c = Absent \/ OnRecord(f, c)'
      BY <1>3, <3>1, <3>2
    <3>. QED
      BY <3>2, <3>3 DEF OnRecord
  <2>3. CASE f \in edited'
    BY <2>3
  <2>. QED
    BY <1>5, <2>1, <2>2, <2>3, WhoWrites
<1>. QED
  BY <1>4, <1>5

LEMMA InitWInv == Init => WInv
<1> SUFFICES ASSUME Init PROVE WInv
  OBVIOUS
<1>1. disk = origin /\ \A h \in Hosts : op[h] = Idle
  BY DEF Init
<1>. QED
  BY <1>1, IdleType DEF WInv, Copied, Viewed, Known, Writing

(* The text a host writes over: it looked at it, or it is a text of the record. *)
LEMMA WritesOverRecord ==
    ASSUME IInv, RInv, WInv, NEW h \in Hosts, NEW f \in Files,
           op[h].pc \in Writing, f \in op[h].entry.touched, disk[f] \in Texts \ {Empty},
           f \in edited \cup stained => disk[f] = op[h].pre[f]
    PROVE  OnRecord(f, disk[f])
<1>1. disk[f] # Absent /\ disk[f] # Empty /\ op[h].pc # "idle"
  BY TxnContentAssumption DEF Writing
<1>2. PICK k \in Ids : k = op[h].id
  BY FieldsOf
<1>3. Same(EntryNow(k), op[h].entry)
  BY <1>2 DEF RInv, Held, Writing
<1>4. CASE disk[f] = op[h].pre[f] /\ op[h].kind = "undo"
  <2>1. disk[f] = op[h].entry.after[f]
    BY <1>1, <1>4 DEF WInv, Viewed, AsText
  <2>2. EntryNow(k).after = op[h].entry.after
    BY <1>2, <1>4 DEF WInv, Copied
  <2>. QED
    BY <1>3, <2>1, <2>2 DEF Same, OnRecord
<1>5. CASE disk[f] = op[h].pre[f] /\ op[h].kind # "undo"
  <2>1. disk[f] = op[h].entry.before[f]
    BY <1>1, <1>5 DEF WInv, Viewed
  <2>. QED
    BY <1>3, <2>1 DEF Same, OnRecord
<1>6. CASE f \notin edited \cup stained
  <2>1. CASE disk[f] = origin[f]
    <3>1. Names(k, f)
      BY <1>3 DEF Names, Same
    <3>2. First(f)
      BY <1>6, <3>1 DEF RInv, Traced
    <3>. QED
      BY <2>1, <3>2 DEF First, Names, OnRecord
  <2>2. CASE disk[f] # origin[f]
    BY <1>1, <1>6, <2>2 DEF WInv, Known
  <2>. QED
    BY <2>1, <2>2
<1>. QED
  BY <1>4, <1>5, <1>6

(* For any number of hosts, files and entries, with other programs at work at *)
(* any moment: the text a host writes over is on record, whether the host      *)
(* looked at it or another host put it there since - but for what came since   *)
(* the look into a file that other programs change or that an operation failed *)
(* on. As for Recoverable, no host dies while it rewrites an entry in place,    *)
(* and only one process takes ids where a failing entry may give them back.    *)
THEOREM OverwritesAreOnRecord ==
    ASSUME "mark" \notin CrashPoints, OneWriter
    PROVE  Spec => OverwritesOnRecord
<1> DEFINE Step == \A h \in Hosts, f \in Files :
         /\ op'[h] # op[h] /\ disk'[f] # disk[f]
         /\ disk[f] \in Texts \ {Empty}
         /\ f \in edited \cup stained => disk[f] = op[h].pre[f]
         => OnRecord(f, disk[f])
<1>1. IInv /\ RInv /\ WInv /\ [Next]_vars => WInv'
  BY StepFollows, KnownStays DEF Follows, WInv
<1>2. IInv /\ RInv /\ WInv /\ [Next]_vars => [Step]_vars
  <2> SUFFICES ASSUME IInv, RInv, WInv, [Next]_vars,
                      NEW h \in Hosts, NEW f \in Files,
                      op'[h] # op[h], disk'[f] # disk[f],
                      disk[f] \in Texts \ {Empty},
                      f \in edited \cup stained => disk[f] = op[h].pre[f]
               PROVE  OnRecord(f, disk[f])
    OBVIOUS
  <2>1. PICK g \in Hosts : \/ OpenFile(g, f) \/ RemoveFile(g, f)
                           \/ FillFile(g) /\ f \in op[g].cur
    BY WhoWrites
  <2>2. g = h
    BY <2>1 DEF OpenFile, RemoveFile, FillFile, IInv, TypeOK
  <2>3. op[h].pc \in Writing /\ f \in op[h].todo \cup op[h].cur
    BY <2>1, <2>2 DEF OpenFile, RemoveFile, FillFile, Writing
  <2>4. f \in op[h].entry.touched
    BY <2>3 DEF RInv, Held
  <2>. QED
    BY <2>3, <2>4, WritesOverRecord
<1>3. Spec => [][Step]_vars
  BY <1>1, <1>2, InitWInv, InductiveInvariant, EvidenceIsKept, PTL DEF Spec
<1>. QED
  BY <1>3 DEF OverwritesOnRecord
-----------------------------------------------------------------------------
(* The write path implements UndoHistory.                                   *)
(*                                                                          *)
(* One user: one host, nobody else writes the project's files, a file that   *)
(* is to go can be deleted, and the host does not die with an entry's file   *)
(* cut to nothing.                                                          *)
OneHost == \A g, h \in Hosts : g = h
OneUser == OneHost /\ Editable = {} /\ "delete" \notin Faults /\ "mark" \notin CrashPoints

(* The operation o, over the journal j and the tree d, has done what its program *)
(* point says: it looked at its files before it reserves an id, has written      *)
(* all but those to do, and holds the only copy of the entry it rewrites.        *)
Drafted(o) ==
    /\ o.entry.before = Only(o.entry.touched, o.pre)
    /\ o.entry.after = Only(o.entry.touched, o.entry.after)
    /\ \A f \in o.entry.touched : o.entry.after[f] \in Texts
    /\ \E f \in o.entry.touched : o.entry.after[f] # o.pre[f]

Fits(o, j, d) ==
    /\ o.pc # "idle" => o.entry.touched # {} /\ (o.kind = "apply" => Drafted(o))
    /\ o.pc \in {"reserve", "header"} =>
         o.todo = o.entry.touched /\ \A f \in o.entry.touched : o.pre[f] = d[f]
    /\ o.pc \in Writing /\ o.kind # "abort" =>
         \A f \in o.entry.touched \ (o.todo \cup o.cur) : d[f] = Image(o)[f]
    /\ o.pc \in {"seal", "mark"} => o.todo = {}
    /\ o.pc # "fill" => o.cur = {}
    /\ o.pc \in {"write", "fill", "seal"} /\ o.kind \in {"undo", "redo"} => j[o.id] = o.entry
    /\ o.pc = "mark" => j[o.id].status = "torn"

(* What the user asked for may still happen, as the user sees journal and tree. *)
Due(kind, i) ==
    /\ kind = "apply" => History!Unused(i)
    /\ kind = "undo" => History!UndoTarget(i) /\ History!UndoDrift(i) = {}
    /\ kind = "redo" => History!RedoTarget(i) /\ History!RedoDrift(i) = {}

VInv ==
    /\ \A i \in Ids : Decodable(journal[i]) => journal[i].touched # {}
    /\ \A h \in Hosts : /\ Fits(op[h], journal, disk)
                        /\ op[h].pc \in {"header"} \cup Writing =>
                             \A kind \in Kinds, i \in Ids :
                               kind = op[h].kind /\ i = op[h].id => Due(kind, i)

-----------------------------------------------------------------------------
(* What the user sees of an entry.                                          *)
Counts(e) == e.status \in {"applied", "rolled_back"}

LEMMA OneEntry ==
    ASSUME OneHost, NEW h \in Hosts, NEW i
    PROVE  EntryNow(i) = IF Decodable(journal[i]) THEN journal[i]
                         ELSE IF op[h].pc = "mark" /\ op[h].id = i THEN op[h].entry
                         ELSE NoEntry("free")
  BY EntryNowIs DEF OneHost, Marked

LEMMA OneEntryNext ==
    ASSUME OneHost, NEW h \in Hosts, NEW i
    PROVE  EntryNow(i)' = IF Decodable(journal'[i]) THEN journal'[i]
                          ELSE IF op'[h].pc = "mark" /\ op'[h].id = i THEN op'[h].entry
                          ELSE NoEntry("free")
  BY EntryNextIs DEF OneHost, Marked

LEMMA EntryNowType ==
    ASSUME IInv, OneHost, NEW h \in Hosts, NEW i \in Ids
    PROVE  EntryNow(i) \in EntryFiles
  BY OneEntry, NoEntryType DEF IInv, TypeOK, Ops, Statuses

LEMMA EntryNextType ==
    ASSUME IInv', OneHost, NEW h \in Hosts, NEW i \in Ids
    PROVE  EntryNow(i)' \in EntryFiles
  BY OneEntryNext, NoEntryType DEF IInv, TypeOK, Ops, Statuses

LEMMA LoggedIs ==
    ASSUME NEW e \in EntryFiles
    PROVE  (IF Counts(e) THEN e
            ELSE [e EXCEPT !.status = "none", !.touched = {}, !.before = Nowhere, !.after = Nowhere])
             = IF Counts(e) THEN e ELSE History!NoEntry
<1> DEFINE n == [e EXCEPT !.status = "none", !.touched = {}, !.before = Nowhere, !.after = Nowhere]
<1>1. n \in [status : {"none"}, touched : {{}}, before : {Nowhere}, after : {Nowhere}]
  BY DEF EntryFiles
<1> HIDE DEF n
<1>2. n = [status |-> "none", touched |-> {}, before |-> Nowhere, after |-> Nowhere]
  BY <1>1
<1>3. n = History!NoEntry
  BY <1>2 DEF History!NoEntry, History!Nowhere, Nowhere
<1>. QED
  BY <1>3 DEF n

LEMMA ViewLogIs ==
    ASSUME IInv, OneHost, NEW h \in Hosts
    PROVE  ViewLog = [i \in Ids |-> IF Counts(EntryNow(i)) THEN EntryNow(i) ELSE History!NoEntry]
  BY EntryNowType, LoggedIs DEF ViewLog, Counts

LEMMA ViewDiskIs ==
    ASSUME OneHost, NEW h \in Hosts
    PROVE  ViewDisk = [f \in Files |-> IF Underway(h, f) THEN op[h].pre[f] ELSE disk[f]]
<1>1. ASSUME NEW f \in Files
      PROVE  (IF \E g \in Hosts : Underway(g, f)
                THEN (CHOOSE o \in {op[k] : k \in {g \in Hosts : Underway(g, f)}} : TRUE).pre[f]
                ELSE disk[f]) = IF Underway(h, f) THEN op[h].pre[f] ELSE disk[f]
  <2>1. CASE Underway(h, f)
    <3>1. {op[k] : k \in {g \in Hosts : Underway(g, f)}} = {op[h]}
      BY <2>1 DEF OneHost
    <3>2. (CHOOSE o \in {op[h]} : TRUE) = op[h]
      OBVIOUS
    <3>. QED
      BY <2>1, <3>1, <3>2
  <2>2. CASE ~Underway(h, f)
    <3>1. ~\E g \in Hosts : Underway(g, f)
      BY <2>2 DEF OneHost
    <3>. QED
      BY <2>2, <3>1
  <2>. QED
    BY <2>1, <2>2
<1>. QED
  BY <1>1 DEF ViewDisk

LEMMA ViewDiskNextIs ==
    ASSUME OneHost, NEW h \in Hosts
    PROVE  ViewDisk' = [f \in Files |-> IF Underway(h, f)' THEN op'[h].pre[f] ELSE disk'[f]]
<1>1. (OneHost /\ h \in Hosts =>
        ViewDisk = [f \in Files |-> IF Underway(h, f) THEN op[h].pre[f] ELSE disk[f]])'
  BY ViewDiskIs, PTL
<1>. QED
  BY <1>1 DEF OneHost

(* The journal looks the same if what counts in it stays.                   *)
LEMMA SameLog ==
    ASSUME IInv, IInv', OneHost, NEW h \in Hosts,
           \A i \in Ids : \/ EntryNow(i)' = EntryNow(i)
                          \/ ~Counts(EntryNow(i)) /\ ~Counts(EntryNow(i)')
    PROVE  ViewLog' = ViewLog
<1>1. \A i \in Ids : EntryNow(i)' \in EntryFiles
  BY EntryNextType
<1>2. ViewLog' = [i \in Ids |-> IF Counts(EntryNow(i)') THEN EntryNow(i)' ELSE History!NoEntry]
  BY <1>1, LoggedIs DEF ViewLog, Counts
<1>. QED
  BY <1>2, ViewLogIs

(* A step the user does not see leaves it to happen. *)
LEMMA StillDue ==
    ASSUME ViewLog' = ViewLog, ViewDisk' = ViewDisk, NEW kind, NEW i, Due(kind, i)
    PROVE  Due(kind, i)'
  BY DEF Due, History!Unused, History!UndoTarget, History!UndoDrift, History!RedoTarget,
         History!RedoDrift, History!Applied, History!AsText
(* The host's operation is o from now on. *)
LEMMA OperationFits ==
    ASSUME OneHost, IInv, NEW h \in Hosts, NEW o, op' = [op EXCEPT ![h] = o],
           Fits(o, journal', disk'),
           o.pc \in {"header"} \cup Writing => Due(o.kind, o.id)',
           \A i \in Ids : Decodable(journal'[i]) => journal'[i].touched # {}
    PROVE  VInv'
<1>1. op'[h] = o /\ \A g \in Hosts : g = h
  BY DEF IInv, TypeOK, OneHost
<1>2. \A g \in Hosts : Fits(op'[g], journal', disk')
  BY <1>1
<1>3. \A g \in Hosts : op'[g].pc \in {"header"} \cup Writing =>
        \A kind \in Kinds, i \in Ids : kind = op'[g].kind /\ i = op'[g].id => Due(kind, i)'
  <2>1. o.pc \in {"header"} \cup Writing =>
          \A kind, i : kind = o.kind /\ i = o.id => Due(kind, i)'
    OBVIOUS
  <2>. QED
    BY <1>1, <2>1
<1>. QED
  BY <1>2, <1>3 DEF VInv

(* A step that changes the tree only behind the view of an operation, and the  *)
(* journal only in what does not count, shows the user nothing.               *)
LEMMA HiddenStep ==
    ASSUME OneHost, IInv, IInv', NEW h \in Hosts, NEW o, op' = [op EXCEPT ![h] = o],
           UNCHANGED <<origin, edited, stained>>,
           \A f \in Files : (IF o.pc \in Writing /\ f \in o.entry.touched THEN o.pre[f] ELSE disk'[f])
                              = ViewDisk[f],
           \A i \in Ids : \/ EntryNow(i)' = EntryNow(i)
                          \/ ~Counts(EntryNow(i)) /\ ~Counts(EntryNow(i)')
    PROVE  UNCHANGED History!vars /\ ViewLog' = ViewLog /\ ViewDisk' = ViewDisk
<1>1. op'[h] = o
  BY DEF IInv, TypeOK
<1>2. ViewLog' = ViewLog
  BY SameLog
<1>3. ViewDisk' = [f \in Files |-> IF o.pc \in Writing /\ f \in o.entry.touched THEN o.pre[f] ELSE disk'[f]]
  BY <1>1, ViewDiskNextIs DEF Underway, Writing
<1>4. ViewDisk = [f \in Files |-> ViewDisk[f]]
  BY DEF ViewDisk
<1>5. ViewDisk' = ViewDisk
  BY <1>3, <1>4
<1>. QED
  BY <1>2, <1>5 DEF History!vars

(* The journal as it was, and no entry open. *)
LEMMA QuietEntries ==
    ASSUME OneHost, IInv, NEW h \in Hosts, NEW o, op' = [op EXCEPT ![h] = o],
           journal' = journal, o.pc # "mark", op[h].pc # "mark"
    PROVE  \A i \in Ids : EntryNow(i)' = EntryNow(i)
<1>1. op'[h] = o
  BY DEF IInv, TypeOK
<1>. QED
  BY <1>1, OneEntry, OneEntryNext

(* A hidden step that leaves the journal alone. *)
LEMMA QuietHidden ==
    ASSUME OneHost, IInv, IInv', VInv, NEW h \in Hosts, NEW o, op' = [op EXCEPT ![h] = o],
           UNCHANGED <<journal, origin, edited, stained>>, o.pc # "mark", op[h].pc # "mark",
           \A f \in Files : (IF o.pc \in Writing /\ f \in o.entry.touched THEN o.pre[f] ELSE disk'[f])
                              = ViewDisk[f],
           Fits(o, journal, disk'),
           o.pc \in {"header"} \cup Writing => Due(o.kind, o.id)
    PROVE  VInv' /\ UNCHANGED History!vars
<1>1. \A i \in Ids : EntryNow(i)' = EntryNow(i)
  BY QuietEntries
<1>2. UNCHANGED History!vars /\ ViewLog' = ViewLog /\ ViewDisk' = ViewDisk
  BY <1>1, HiddenStep
<1>3. o.pc \in {"header"} \cup Writing => Due(o.kind, o.id)'
  BY <1>2, StillDue
<1>4. \A i \in Ids : Decodable(journal'[i]) => journal'[i].touched # {}
  BY DEF VInv
<1>. QED
  BY <1>2, <1>3, <1>4, OperationFits

(* What the user sees of a file. *)
LEMMA ViewOf ==
    ASSUME OneHost, NEW h \in Hosts, NEW f \in Files
    PROVE  ViewDisk[f] = IF op[h].pc \in Writing /\ f \in op[h].entry.touched
                           THEN op[h].pre[f] ELSE disk[f]
  BY ViewDiskIs DEF Underway, Writing

LEMMA OnlyTwice ==
    ASSUME NEW T \in SUBSET Files, NEW c
    PROVE  Only(T, Only(T, c)) = Only(T, c) /\ \A f \in T : Only(T, c)[f] = c[f]
  BY DEF Only

LEMMA StageHidden ==
    ASSUME OneHost, IInv, IInv', VInv, NEW h \in Hosts,
           NEW new \in [plan[h].touched -> Texts], Stage(h, new)
    PROVE  VInv' /\ UNCHANGED History!vars
<1> DEFINE T == plan[h].touched
           e == [status |-> "pending", touched |-> T, before |-> Only(T, disk), after |-> Only(T, new)]
           o == [Idle EXCEPT !.pc = "reserve", !.entry = e, !.todo = T, !.pre = Only(T, disk)]
<1>1. op' = [op EXCEPT ![h] = o] /\ op[h].pc = "idle" /\ T # {} /\ \E f \in T : new[f] # disk[f]
  BY DEF Stage
<1>2. o.pc = "reserve" /\ o.kind = "apply" /\ o.entry = e /\ o.todo = T /\ o.cur = {} /\ o.pre = Only(T, disk)
  BY DEF Idle
<1>3. T \in SUBSET Files /\ UNCHANGED <<journal, disk, origin, edited, stained>>
  BY DEF IInv, TypeOK, Plans, Stage
<1> HIDE DEF o
<1>4. /\ Only(T, Only(T, disk)) = Only(T, disk) /\ \A f \in T : Only(T, disk)[f] = disk[f]
      /\ Only(T, Only(T, new)) = Only(T, new) /\ \A f \in T : Only(T, new)[f] = new[f]
  BY <1>3, OnlyTwice
<1>5. Drafted(o)
  BY <1>1, <1>2, <1>4 DEF Drafted
<1>6. Fits(o, journal, disk')
  BY <1>1, <1>2, <1>3, <1>4, <1>5 DEF Fits, Writing
<1>7. \A f \in Files : (IF o.pc \in Writing /\ f \in o.entry.touched THEN o.pre[f] ELSE disk'[f])
                          = ViewDisk[f]
  BY <1>1, <1>2, <1>3, ViewOf DEF Writing
<1>8. ~(o.pc \in {"header"} \cup Writing) /\ o.pc # "mark" /\ op[h].pc # "mark"
  BY <1>1, <1>2 DEF Writing
<1>. QED
  BY <1>1, <1>3, <1>6, <1>7, <1>8, QuietHidden

(* An operation that undoes or redoes has the user's entry, and her reasons. *)
LEMMA StartHidden ==
    ASSUME OneHost, IInv, IInv', VInv, NEW h \in Hosts, NEW i \in Ids,
           StartUndo(h, i) \/ StartRedo(h, i)
    PROVE  VInv' /\ UNCHANGED History!vars
<1>1. op[h].pc = "idle" /\ UNCHANGED <<journal, disk, origin, edited, stained>>
  BY DEF StartUndo, StartRedo
<1>2. PICK k \in {"undo", "redo"} :
        /\ k = "undo" => IsLast(i) /\ UndoDrift(journal[i]) = {}
        /\ k = "redo" => IsRedoCandidate(i) /\ RedoDrift(journal[i]) = {}
        /\ op' = [op EXCEPT ![h] = [pc |-> "write", kind |-> k, id |-> i,
                                    entry |-> journal[i], todo |-> journal[i].touched,
                                    cur |-> {}, pre |-> Only(journal[i].touched, disk)]]
  BY DEF StartUndo, StartRedo
<1> DEFINE o == [pc |-> "write", kind |-> k, id |-> i, entry |-> journal[i],
                 todo |-> journal[i].touched, cur |-> {}, pre |-> Only(journal[i].touched, disk)]
<1>3. /\ o.pc = "write" /\ o.kind = k /\ o.id = i /\ o.entry = journal[i] /\ o.cur = {}
      /\ o.todo = journal[i].touched /\ o.pre = Only(journal[i].touched, disk)
      /\ op' = [op EXCEPT ![h] = o]
  BY <1>2
<1> HIDE DEF o
<1>4. journal[i] \in EntryFiles /\ journal[i].touched \in SUBSET Files /\ Counts(journal[i])
  BY <1>2 DEF IInv, TypeOK, EntryFiles, IsLast, IsRedoCandidate, WithStatus, Counts
<1>5. \A f \in journal[i].touched : Only(journal[i].touched, disk)[f] = disk[f]
  BY <1>4, OnlyTwice
<1>6. Decodable(journal[i]) /\ journal[i].touched # {}
  BY <1>4 DEF Decodable, Counts, VInv
<1>7. Fits(o, journal, disk')
  BY <1>2, <1>3, <1>6 DEF Fits, Writing
<1>8. \A f \in Files : (IF o.pc \in Writing /\ f \in o.entry.touched THEN o.pre[f] ELSE disk'[f])
                          = ViewDisk[f]
  BY <1>1, <1>3, <1>5, ViewOf DEF Writing
<1>9. \A j \in Ids : /\ ViewLog[j] = IF Counts(journal[j]) THEN journal[j] ELSE History!NoEntry
                     /\ \A s \in {"applied", "rolled_back"} :
                          ViewLog[j].status = s <=> journal[j].status = s
  <2>1. \A j \in Ids : EntryNow(j) = IF Decodable(journal[j]) THEN journal[j] ELSE NoEntry("free")
    BY <1>1, OneEntry
  <2>2. \A j \in Ids : ViewLog[j] = IF Counts(EntryNow(j)) THEN EntryNow(j) ELSE History!NoEntry
    BY ViewLogIs
  <2>3. \A j \in Ids : /\ Counts(journal[j]) => Decodable(journal[j])
                       /\ ~Counts(NoEntry("free"))
    BY DEF Counts, Decodable, NoEntry
  <2>4. \A j \in Ids : ViewLog[j] = IF Counts(journal[j]) THEN journal[j] ELSE History!NoEntry
    BY <2>1, <2>2, <2>3
  <2>5. History!NoEntry.status = "none"
    BY DEF History!NoEntry
  <2>6. \A j \in Ids : /\ Counts(journal[j]) => ViewLog[j].status = journal[j].status
                       /\ ~Counts(journal[j]) => ViewLog[j].status = "none"
    BY <2>4, <2>5
  <2>7. \A j \in Ids : \A s \in {"applied", "rolled_back"} :
                          ViewLog[j].status = s <=> journal[j].status = s
    BY <2>6 DEF Counts
  <2>. QED
    BY <2>4, <2>7
<1>10. \A f \in Files : ViewDisk[f] = disk[f]
  BY <1>1, ViewOf DEF Writing
<1>11. History!Applied = WithStatus("applied") /\ ViewLog[i] = journal[i]
  BY <1>4, <1>9 DEF History!Applied, WithStatus, History!Ids, Ids
<1>12. ASSUME k = "undo" PROVE History!UndoTarget(i) /\ History!UndoDrift(i) = {}
  BY <1>2, <1>4, <1>10, <1>11, <1>12
     DEF IsLast, UndoDrift, AsText, History!UndoTarget, History!UndoDrift, History!AsText
<1>13. ASSUME k = "redo" PROVE History!RedoTarget(i) /\ History!RedoDrift(i) = {}
  <2>1. RedoDrift(journal[i]) = {}
    BY <1>2, <1>13
  <2>2. /\ journal[i].status = "rolled_back"
        /\ \A j \in WithStatus("applied") : j < i
        /\ \A j \in WithStatus("rolled_back") :
             (\A m \in WithStatus("applied") : m < j) => i <= j
    BY <1>2, <1>13 DEF IsRedoCandidate, WithStatus
  <2>3. ASSUME NEW j \in Ids, j < i, journal[j].status = "rolled_back"
        PROVE  \E m \in WithStatus("applied") : j <= m
    BY <2>2, <2>3, TxnIdAssumption DEF WithStatus, Ids
  <2>4. History!RedoTarget(i)
    BY <1>9, <1>11, <2>2, <2>3 DEF History!RedoTarget, History!Ids, Ids
  <2>5. History!RedoDrift(i) = {}
    BY <1>4, <1>10, <1>11, <2>1 DEF RedoDrift, History!RedoDrift
  <2>. QED
    BY <2>4, <2>5
<1>14. Due(o.kind, o.id)
  BY <1>2, <1>3, <1>12, <1>13 DEF Due
<1>. QED
  BY <1>1, <1>3, <1>7, <1>8, <1>14, QuietHidden
(* The operation under way is due. *)
LEMMA DueNow ==
    ASSUME IInv, VInv, NEW h \in Hosts, op[h].pc \in {"header"} \cup Writing
    PROVE  Due(op[h].kind, op[h].id)
<1>1. op[h].kind \in Kinds /\ op[h].id \in Ids
  BY DEF IInv, TypeOK, Ops
<1>. QED
  BY <1>1 DEF VInv

(* The id a new entry takes is above all that are taken. *)
LEMMA ReservedIsUnused ==
    ASSUME OneHost, IInv, RInv, NEW h \in Hosts, NEW i \in Ids, Reserve(h, i)
    PROVE  History!Unused(i)
<1>1. op[h].pc = "reserve" /\ clock <= i /\ journal[i].status = "free" /\ clock \in Ids
  BY DEF Reserve, IsNextId, IInv, TypeOK
<1>2. ASSUME NEW k \in Ids, k >= i PROVE ~Counts(EntryNow(k))
  <2>1. k = i \/ i < k
    BY <1>2 DEF Ids
  <2>2. journal[k].status = "free"
    BY <1>1, <2>1 DEF RInv, Packed
  <2>3. EntryNow(k) = NoEntry("free")
    BY <1>1, <2>2, OneEntry DEF Decodable
  <2>. QED
    BY <2>3 DEF Counts, NoEntry
<1>3. \A k \in Ids : k >= i => ViewLog[k] = History!NoEntry
  BY <1>2, ViewLogIs
<1>. QED
  BY <1>3 DEF History!Unused, History!NoEntry, History!Ids, Ids

LEMMA ReserveHidden ==
    ASSUME OneHost, IInv, IInv', RInv, VInv, NEW h \in Hosts, NEW i \in Ids, Reserve(h, i)
    PROVE  VInv' /\ UNCHANGED History!vars
<1>0. PICK o : o = [op[h] EXCEPT !.pc = "header", !.id = i]
  OBVIOUS
<1>1. /\ op[h].pc = "reserve" /\ journal[i].status = "free"
      /\ journal' = [journal EXCEPT ![i] = NoEntry("torn")]
      /\ UNCHANGED <<disk, origin, edited, stained>>
  BY DEF Reserve, IsNextId
<1>2. op[h] \in Ops /\ op[h].kind = "apply" /\ op[h].kind \in Kinds
  BY <1>1 DEF IInv, TypeOK, Owned, Own, Ops
<1>3. op' = [op EXCEPT ![h] = o]
  BY <1>0, <1>2 DEF Reserve, IInv, TypeOK, Ops
<1>4. /\ o.pc = "header" /\ o.id = i /\ o.kind = op[h].kind /\ o.entry = op[h].entry
      /\ o.todo = op[h].todo /\ o.cur = op[h].cur /\ o.pre = op[h].pre
  BY <1>0, <1>2 DEF Ops
<1>5. Fits(op[h], journal, disk)
  BY DEF VInv
<1>6. Drafted(op[h]) /\ op[h].entry.touched # {}
  BY <1>1, <1>2, <1>5 DEF Fits
<1>7. Drafted(o)
  BY <1>4, <1>6 DEF Drafted
<1>8. Fits(o, journal', disk')
  BY <1>1, <1>4, <1>5, <1>6, <1>7 DEF Fits, Writing
<1>9. \A f \in Files : (IF o.pc \in Writing /\ f \in o.entry.touched THEN o.pre[f] ELSE disk'[f])
                          = ViewDisk[f]
  BY <1>1, <1>4, ViewOf DEF Writing
<1>10. /\ journal'[i] = NoEntry("torn") /\ NoEntry("torn").status = "torn"
       /\ NoEntry("free").status = "free"
       /\ \A k \in Ids \ {i} : journal'[k] = journal[k]
  BY <1>1 DEF IInv, TypeOK, NoEntry
<1>11. op'[h] = o
  BY <1>3 DEF IInv, TypeOK
<1>12. \A k \in Ids : \/ EntryNow(k)' = EntryNow(k)
                      \/ ~Counts(EntryNow(k)) /\ ~Counts(EntryNow(k)')
  BY <1>1, <1>4, <1>10, <1>11, OneEntry, OneEntryNext DEF Counts, Decodable
<1>13. UNCHANGED History!vars /\ ViewLog' = ViewLog /\ ViewDisk' = ViewDisk
  BY <1>1, <1>3, <1>9, <1>12, HiddenStep
<1>14. Due("apply", i)
  BY ReservedIsUnused DEF Due
<1>15. Due("apply", i)'
  BY <1>13, <1>14, StillDue
<1>16. Due(o.kind, o.id)'
  BY <1>2, <1>4, <1>15
<1>17. \A k \in Ids : Decodable(journal'[k]) => journal'[k].touched # {}
  BY <1>10 DEF VInv, Decodable
<1>. QED
  BY <1>3, <1>8, <1>13, <1>16, <1>17, OperationFits

(* The entry's first form: it does not count, and the files are as they were. *)
LEMMA WriteHeaderHidden ==
    ASSUME OneHost, IInv, IInv', VInv, NEW h \in Hosts, WriteHeader(h)
    PROVE  VInv' /\ UNCHANGED History!vars
<1>0. PICK o : o = [op[h] EXCEPT !.pc = "write"]
  OBVIOUS
<1> DEFINE e == [op[h].entry EXCEPT !.after = Nowhere]
<1>1. /\ op[h].pc = "header" /\ journal' = [journal EXCEPT ![op[h].id] = e]
      /\ UNCHANGED <<disk, origin, edited, stained>>
  BY DEF WriteHeader
<1>2. /\ op[h] \in Ops /\ op[h].kind = "apply" /\ op[h].entry \in EntryFiles
      /\ op[h].entry.status = "pending" /\ op[h].id \in Ids
      /\ journal[op[h].id].status \in {"torn", "pending"}
  BY <1>1 DEF IInv, TypeOK, Owned, Own, Owner, Active, Ops
<1>3. op' = [op EXCEPT ![h] = o]
  BY <1>0, <1>2 DEF WriteHeader, IInv, TypeOK, Ops
<1>4. /\ o.pc = "write" /\ o.id = op[h].id /\ o.kind = op[h].kind /\ o.entry = op[h].entry
      /\ o.todo = op[h].todo /\ o.cur = op[h].cur /\ o.pre = op[h].pre
      /\ e.status = "pending" /\ e.touched = op[h].entry.touched
  BY <1>0, <1>2 DEF Ops, EntryFiles
<1> HIDE DEF e
<1>5. Fits(op[h], journal, disk)
  BY DEF VInv
<1>6. /\ Drafted(op[h]) /\ op[h].entry.touched # {} /\ op[h].todo = op[h].entry.touched
      /\ \A f \in op[h].entry.touched : op[h].pre[f] = disk[f]
      /\ op[h].cur = {}
  BY <1>1, <1>2, <1>5 DEF Fits
<1>7. Drafted(o)
  BY <1>4, <1>6 DEF Drafted
<1>8. Fits(o, journal', disk')
  BY <1>1, <1>2, <1>4, <1>6, <1>7 DEF Fits, Writing
<1>9. \A f \in Files : (IF o.pc \in Writing /\ f \in o.entry.touched THEN o.pre[f] ELSE disk'[f])
                          = ViewDisk[f]
  BY <1>1, <1>4, <1>6, ViewOf DEF Writing
<1>10. journal'[op[h].id] = e /\ \A k \in Ids \ {op[h].id} : journal'[k] = journal[k]
  BY <1>1, <1>2 DEF IInv, TypeOK
<1>11. op'[h] = o /\ NoEntry("free").status = "free"
  BY <1>3 DEF IInv, TypeOK, NoEntry
<1>12. \A k \in Ids : \/ EntryNow(k)' = EntryNow(k)
                      \/ ~Counts(EntryNow(k)) /\ ~Counts(EntryNow(k)')
  BY <1>1, <1>2, <1>4, <1>10, <1>11, OneEntry, OneEntryNext DEF Counts, Decodable
<1>13. UNCHANGED History!vars /\ ViewLog' = ViewLog /\ ViewDisk' = ViewDisk
  BY <1>1, <1>3, <1>9, <1>12, HiddenStep
<1>14. Due(o.kind, o.id)
  BY <1>1, <1>4, DueNow
<1>15. Due(o.kind, o.id)'
  BY <1>13, <1>14, StillDue
<1>16. \A k \in Ids : Decodable(journal'[k]) => journal'[k].touched # {}
  BY <1>4, <1>6, <1>10 DEF VInv
<1>. QED
  BY <1>3, <1>8, <1>13, <1>15, <1>16, OperationFits

LEMMA IdleFits == ASSUME NEW j, NEW d PROVE Fits(Idle, j, d) /\ Idle.pc = "idle"
  BY DEF Fits, Idle, Writing

LEMMA HeaderFailsHidden ==
    ASSUME OneHost, IInv, IInv', VInv, NEW h \in Hosts, HeaderFails(h)
    PROVE  VInv' /\ UNCHANGED History!vars
<1>1. /\ op[h].pc = "header" /\ journal' = [journal EXCEPT ![op[h].id] = NoEntry("free")]
      /\ op' = [op EXCEPT ![h] = Idle]
      /\ UNCHANGED <<disk, origin, edited, stained>>
  BY DEF HeaderFails
<1>2. op[h].id \in Ids /\ journal[op[h].id].status \in {"torn", "pending"}
  BY <1>1 DEF IInv, TypeOK, Owned, Own, Owner, Active, Ops
<1>3. PICK o : o = Idle
  OBVIOUS
<1>4. o.pc = "idle" /\ Fits(o, journal', disk') /\ op' = [op EXCEPT ![h] = o]
  BY <1>1, <1>3, IdleFits
<1>5. \A f \in Files : (IF o.pc \in Writing /\ f \in o.entry.touched THEN o.pre[f] ELSE disk'[f])
                          = ViewDisk[f]
  BY <1>1, <1>4, ViewOf DEF Writing
<1>6. /\ journal'[op[h].id] = NoEntry("free") /\ NoEntry("free").status = "free"
      /\ \A k \in Ids \ {op[h].id} : journal'[k] = journal[k]
  BY <1>1, <1>2 DEF IInv, TypeOK, NoEntry
<1>7. op'[h] = o
  BY <1>4 DEF IInv, TypeOK
<1>8. \A k \in Ids : \/ EntryNow(k)' = EntryNow(k)
                     \/ ~Counts(EntryNow(k)) /\ ~Counts(EntryNow(k)')
  BY <1>1, <1>2, <1>4, <1>6, <1>7, OneEntry, OneEntryNext DEF Counts, Decodable
<1>9. UNCHANGED History!vars
  BY <1>1, <1>4, <1>5, <1>8, HiddenStep
<1>10. \A k \in Ids : Decodable(journal'[k]) => journal'[k].touched # {}
  BY <1>6 DEF VInv, Decodable
<1>11. ~(o.pc \in {"header"} \cup Writing)
  BY <1>4 DEF Writing
<1>. QED
  BY <1>4, <1>9, <1>10, <1>11, OperationFits

(* The write loops work behind the view: they change files still to be done,  *)
(* and are done with a file that holds what it should.                        *)
LoopStep(h, o) ==
    /\ op' = [op EXCEPT ![h] = o] /\ UNCHANGED <<journal, origin, edited, stained>>
    /\ op[h].pc \in {"write", "fill"} /\ o.pc \in {"write", "fill", "seal"}
    /\ o.id = op[h].id /\ o.entry = op[h].entry /\ o.pre = op[h].pre
    /\ o.kind = op[h].kind \/ (op[h].kind = "apply" /\ o.kind = "abort")
    /\ o.pc # "fill" => o.cur = {}
    /\ o.pc = "seal" => o.todo = {}
    /\ \A g \in Files : disk'[g] # disk[g] => g \in op[h].todo \cup op[h].cur
    /\ o.kind # "abort" => \A g \in op[h].entry.touched \ (o.todo \cup o.cur) :
         \/ disk'[g] = Image(op[h])[g]
         \/ disk'[g] = disk[g] /\ g \notin op[h].todo \cup op[h].cur

LEMMA LoopHidden ==
    ASSUME OneHost, IInv, IInv', RInv, VInv, NEW h \in Hosts, NEW o, LoopStep(h, o)
    PROVE  VInv' /\ UNCHANGED History!vars
<1>0. /\ op' = [op EXCEPT ![h] = o] /\ UNCHANGED <<journal, origin, edited, stained>>
      /\ op[h].pc \in {"write", "fill"} /\ o.pc \in {"write", "fill", "seal"}
      /\ o.id = op[h].id /\ o.entry = op[h].entry /\ o.pre = op[h].pre
      /\ o.kind = op[h].kind \/ (op[h].kind = "apply" /\ o.kind = "abort")
      /\ o.pc # "fill" => o.cur = {}
      /\ o.pc = "seal" => o.todo = {}
      /\ \A g \in Files : disk'[g] # disk[g] => g \in op[h].todo \cup op[h].cur
      /\ o.kind # "abort" => \A g \in op[h].entry.touched \ (o.todo \cup o.cur) :
           \/ disk'[g] = Image(op[h])[g]
           \/ disk'[g] = disk[g] /\ g \notin op[h].todo \cup op[h].cur
  BY DEF LoopStep
<1>1. Fits(op[h], journal, disk)
  BY DEF VInv
<1>2. op[h].todo \cup op[h].cur \subseteq op[h].entry.touched
  BY DEF RInv, Held
<1>3. \A f \in Files : (IF o.pc \in Writing /\ f \in o.entry.touched THEN o.pre[f] ELSE disk'[f])
                          = ViewDisk[f]
  BY <1>0, <1>2, ViewOf DEF Writing
<1>4. o.kind = "apply" => Drafted(o)
  BY <1>0, <1>1 DEF Fits, Drafted
<1>5. o.kind # "abort" => Image(o) = Image(op[h])
  BY <1>0 DEF Image
<1>6. o.kind # "abort" => \A g \in o.entry.touched \ (o.todo \cup o.cur) : disk'[g] = Image(o)[g]
  BY <1>0, <1>1, <1>5 DEF Fits, Writing
<1>7. Fits(o, journal, disk')
  BY <1>0, <1>1, <1>4, <1>6 DEF Fits, Writing
<1>8. Due(o.kind, o.id)
  <2>1. Due(op[h].kind, op[h].id)
    BY <1>0, DueNow DEF Writing
  <2>. QED
    BY <1>0, <2>1 DEF Due
<1>9. o.pc # "mark" /\ op[h].pc # "mark"
  BY <1>0
<1>. QED
  BY <1>0, <1>3, <1>7, <1>8, <1>9, QuietHidden

LEMMA FileStepHidden ==
    ASSUME OneHost, IInv, IInv', RInv, VInv, NEW h \in Hosts, NEW f \in Files,
           \/ OpenFile(h, f) \/ RemoveFile(h, f)
           \/ OpenFails(h, f) /\ op[h].kind = "apply"
    PROVE  VInv' /\ UNCHANGED History!vars
<1>1. /\ op[h] \in Ops /\ disk \in [Files -> Contents] /\ op[h].pc = "write" /\ f \in op[h].todo
      /\ UNCHANGED <<journal, origin, edited, stained>>
  BY DEF IInv, TypeOK, OpenFile, RemoveFile, OpenFails
<1>2. op[h].cur = {}
  BY <1>1 DEF VInv, Fits
<1>3. CASE OpenFile(h, f)
  <2>1. PICK o : o = [op[h] EXCEPT !.pc = "fill", !.cur = {f}, !.todo = op[h].todo \ {f}]
    OBVIOUS
  <2>2. op' = [op EXCEPT ![h] = o]
    BY <1>1, <1>3, <2>1 DEF OpenFile, IInv, TypeOK, Ops
  <2>3. /\ o.pc = "fill" /\ o.id = op[h].id /\ o.kind = op[h].kind /\ o.entry = op[h].entry
        /\ o.pre = op[h].pre /\ o.cur = {f} /\ o.todo = op[h].todo \ {f}
    BY <1>1, <2>1 DEF Ops
  <2>4. \A g \in Files : disk'[g] # disk[g] => g = f
    BY <1>1, <1>3 DEF OpenFile
  <2>5. op[h].entry.touched \in SUBSET Files
    BY FieldsOf
  <2>6. \A g \in op[h].entry.touched \ (o.todo \cup o.cur) :
          disk'[g] = disk[g] /\ g \notin op[h].todo \cup op[h].cur
    BY <1>2, <2>3, <2>4, <2>5
  <2>7. LoopStep(h, o)
    BY <1>1, <2>2, <2>3, <2>4, <2>6 DEF LoopStep
  <2>. QED
    BY <2>7, LoopHidden
<1>4. CASE RemoveFile(h, f)
  <2>1. PICK o : o = [op[h] EXCEPT !.todo = op[h].todo \ {f}]
    OBVIOUS
  <2>2. op' = [op EXCEPT ![h] = o]
    BY <1>1, <1>4, <2>1 DEF RemoveFile, IInv, TypeOK, Ops
  <2>3. /\ o.pc = "write" /\ o.id = op[h].id /\ o.kind = op[h].kind /\ o.entry = op[h].entry
        /\ o.pre = op[h].pre /\ o.cur = {} /\ o.todo = op[h].todo \ {f}
    BY <1>1, <1>2, <2>1 DEF Ops
  <2>4. (\A g \in Files : disk'[g] # disk[g] => g = f) /\ disk'[f] = Image(op[h])[f]
    BY <1>1, <1>4 DEF RemoveFile
  <2>5. op[h].entry.touched \in SUBSET Files
    BY FieldsOf
  <2>6. \A g \in op[h].entry.touched \ (o.todo \cup o.cur) :
          \/ disk'[g] = Image(op[h])[g]
          \/ disk'[g] = disk[g] /\ g \notin op[h].todo \cup op[h].cur
    BY <1>2, <2>3, <2>4, <2>5
  <2>7. LoopStep(h, o)
    BY <1>1, <2>2, <2>3, <2>4, <2>6 DEF LoopStep
  <2>. QED
    BY <2>7, LoopHidden
<1>5. CASE OpenFails(h, f) /\ op[h].kind = "apply"
  <2>1. PICK o : o = [op[h] EXCEPT !.pc = "seal", !.kind = "abort", !.todo = {}]
    OBVIOUS
  <2>2. op' = [op EXCEPT ![h] = o] /\ disk' = disk
    BY <1>1, <1>5, <2>1 DEF OpenFails, IInv, TypeOK, Ops
  <2>3. /\ o.pc = "seal" /\ o.id = op[h].id /\ o.kind = "abort" /\ o.entry = op[h].entry
        /\ o.pre = op[h].pre /\ o.cur = {} /\ o.todo = {}
    BY <1>1, <1>2, <2>1 DEF Ops
  <2>7. LoopStep(h, o)
    BY <1>1, <1>5, <2>2, <2>3 DEF LoopStep
  <2>. QED
    BY <2>7, LoopHidden
<1>. QED
  BY <1>3, <1>4, <1>5 DEF OpenFails

LEMMA FillHidden ==
    ASSUME OneHost, IInv, IInv', RInv, VInv, NEW h \in Hosts, FillFile(h) \/ FilesDone(h)
    PROVE  VInv' /\ UNCHANGED History!vars
<1>1. /\ op[h] \in Ops /\ disk \in [Files -> Contents]
      /\ UNCHANGED <<journal, origin, edited, stained>>
  BY DEF IInv, TypeOK, FillFile, FilesDone
<1>2. op[h].entry.touched \in SUBSET Files
  BY FieldsOf
<1>3. CASE FillFile(h)
  <2>1. PICK o : o = [op[h] EXCEPT !.pc = "write", !.cur = {}]
    OBVIOUS
  <2>2. op' = [op EXCEPT ![h] = o]
    BY <1>1, <1>3, <2>1 DEF FillFile, IInv, TypeOK, Ops
  <2>3. /\ o.pc = "write" /\ o.id = op[h].id /\ o.kind = op[h].kind /\ o.entry = op[h].entry
        /\ o.pre = op[h].pre /\ o.cur = {} /\ o.todo = op[h].todo
    BY <1>1, <2>1 DEF Ops
  <2>4. /\ op[h].pc = "fill"
        /\ \A g \in Files : disk'[g] = IF g \in op[h].cur THEN Image(op[h])[g] ELSE disk[g]
    BY <1>3 DEF FillFile
  <2>5. \A g \in op[h].entry.touched \ (o.todo \cup o.cur) :
          \/ disk'[g] = Image(op[h])[g]
          \/ disk'[g] = disk[g] /\ g \notin op[h].todo \cup op[h].cur
    BY <1>2, <2>3, <2>4
  <2>7. LoopStep(h, o)
    BY <1>1, <2>2, <2>3, <2>4, <2>5 DEF LoopStep
  <2>. QED
    BY <2>7, LoopHidden
<1>4. CASE FilesDone(h)
  <2>1. PICK o : o = [op[h] EXCEPT !.pc = "seal"]
    OBVIOUS
  <2>2. op' = [op EXCEPT ![h] = o] /\ disk' = disk /\ op[h].pc = "write" /\ op[h].todo = {}
    BY <1>1, <1>4, <2>1 DEF FilesDone, IInv, TypeOK, Ops
  <2>3. op[h].cur = {}
    BY <2>2 DEF VInv, Fits
  <2>4. /\ o.pc = "seal" /\ o.id = op[h].id /\ o.kind = op[h].kind /\ o.entry = op[h].entry
        /\ o.pre = op[h].pre /\ o.cur = {} /\ o.todo = {}
    BY <1>1, <2>1, <2>2, <2>3 DEF Ops
  <2>7. LoopStep(h, o)
    BY <1>1, <2>2, <2>3, <2>4 DEF LoopStep
  <2>. QED
    BY <2>7, LoopHidden
<1>. QED
  BY <1>3, <1>4

(* The entry's file is cut to nothing: the host has what the user sees of it. *)
LEMMA OpenEntryHidden ==
    ASSUME OneHost, IInv, IInv', VInv, NEW h \in Hosts, OpenEntry(h)
    PROVE  VInv' /\ UNCHANGED History!vars
<1>0. PICK o : o = [op[h] EXCEPT !.pc = "mark"]
  OBVIOUS
<1>1. /\ op[h].pc = "seal" /\ journal' = [journal EXCEPT ![op[h].id] = NoEntry("torn")]
      /\ UNCHANGED <<disk, origin, edited, stained>>
  BY DEF OpenEntry
<1>2. op[h] \in Ops /\ op[h].id \in Ids /\ op[h].kind \in Kinds
  BY FieldsOf DEF Ops
<1>3. op' = [op EXCEPT ![h] = o]
  BY <1>0, <1>2 DEF OpenEntry, IInv, TypeOK, Ops
<1>4. /\ o.pc = "mark" /\ o.id = op[h].id /\ o.kind = op[h].kind /\ o.entry = op[h].entry
      /\ o.todo = op[h].todo /\ o.cur = op[h].cur /\ o.pre = op[h].pre
  BY <1>0, <1>2 DEF Ops
<1>5. Fits(op[h], journal, disk)
  BY DEF VInv
<1>6. /\ journal'[op[h].id] = NoEntry("torn") /\ NoEntry("torn").status = "torn"
      /\ NoEntry("free").status = "free"
      /\ \A k \in Ids \ {op[h].id} : journal'[k] = journal[k]
  BY <1>1, <1>2 DEF IInv, TypeOK, NoEntry
<1>7. op'[h] = o
  BY <1>3 DEF IInv, TypeOK
<1>8. o.kind = "apply" => Drafted(o)
  BY <1>1, <1>4, <1>5 DEF Fits, Drafted
<1>9. o.kind # "abort" => Image(o) = Image(op[h])
  BY <1>4 DEF Image
<1>10. Fits(o, journal', disk')
  BY <1>1, <1>4, <1>5, <1>6, <1>8, <1>9 DEF Fits, Writing
<1>11. \A f \in Files : (IF o.pc \in Writing /\ f \in o.entry.touched THEN o.pre[f] ELSE disk'[f])
                          = ViewDisk[f]
  BY <1>1, <1>4, ViewOf DEF Writing
<1>12. \/ journal[op[h].id] = op[h].entry
       \/ ~Counts(journal[op[h].id]) /\ ~Counts(op[h].entry)
  <2>1. CASE op[h].kind \in {"undo", "redo"}
    BY <1>1, <1>5, <2>1 DEF Fits
  <2>2. CASE op[h].kind \in {"apply", "abort"}
    BY <1>1, <2>2 DEF IInv, Owned, Own, Owner, Active, Counts
  <2>. QED
    BY <1>2, <2>1, <2>2 DEF Kinds
<1>13. \A k \in Ids : \/ EntryNow(k)' = EntryNow(k)
                      \/ ~Counts(EntryNow(k)) /\ ~Counts(EntryNow(k)')
  <2>1. ASSUME NEW k \in Ids, k # op[h].id PROVE EntryNow(k)' = EntryNow(k)
    BY <1>1, <1>4, <1>6, <1>7, <2>1, OneEntry, OneEntryNext
  <2>2. ASSUME NEW k \in Ids, k = op[h].id
        PROVE  \/ EntryNow(k)' = EntryNow(k)
               \/ ~Counts(EntryNow(k)) /\ ~Counts(EntryNow(k)')
    <3>1. EntryNow(k)' = op[h].entry
      BY <1>4, <1>6, <1>7, <2>2, OneEntryNext DEF Decodable
    <3>2. EntryNow(k) = IF Decodable(journal[k]) THEN journal[k] ELSE NoEntry("free")
      BY <1>1, OneEntry
    <3>. QED
      BY <1>6, <1>12, <2>2, <3>1, <3>2 DEF Counts, Decodable
  <2>. QED
    BY <2>1, <2>2
<1>14. UNCHANGED History!vars /\ ViewLog' = ViewLog /\ ViewDisk' = ViewDisk
  BY <1>1, <1>3, <1>11, <1>13, HiddenStep
<1>15. Due(o.kind, o.id)
  BY <1>1, <1>4, DueNow DEF Writing
<1>16. Due(o.kind, o.id)'
  BY <1>14, <1>15, StillDue
<1>17. \A k \in Ids : Decodable(journal'[k]) => journal'[k].touched # {}
  BY <1>6 DEF VInv, Decodable
<1>. QED
  BY <1>3, <1>10, <1>14, <1>16, <1>17, OperationFits
(* The host has nothing to do any more: the user sees the tree as it is.      *)
LEMMA IdleView ==
    ASSUME IInv, IInv', OneHost, NEW h \in Hosts, op' = [op EXCEPT ![h] = Idle], disk' = disk
    PROVE  ViewDisk' = [f \in Files |-> disk[f]]
<1>1. op'[h] = Idle /\ Idle.pc = "idle"
  BY IdleFits DEF IInv, TypeOK
<1>. QED
  BY <1>1, ViewDiskNextIs DEF Underway

(* An operation that stops half way: its files count as changed by others.    *)
LEMMA StopIsEdit ==
    ASSUME IInv, IInv', OneHost, VInv, NEW h \in Hosts, op' = [op EXCEPT ![h] = Idle],
           UNCHANGED <<disk, edited, origin>>, ViewLog' = ViewLog,
           op[h].pc \in Writing, stained' = stained \cup op[h].entry.touched
    PROVE  History!Next
<1>1. PICK T : T = op[h].entry.touched
  OBVIOUS
<1>2. T \in SUBSET Files /\ T # {} /\ disk \in [Files -> Contents]
  BY <1>1, FieldsOf DEF VInv, Fits, Writing, IInv, TypeOK
<1>3. PICK new \in [T -> Contents] : \A f \in T : new[f] = disk[f]
  <2>1. [f \in T |-> disk[f]] \in [T -> Contents]
    BY <1>2
  <2>. QED
    BY <2>1
<1>4. ViewDisk' = [f \in Files |-> disk[f]]
  BY IdleView
<1>5. \A f \in Files \ T : ViewDisk[f] = disk[f]
  BY <1>1, ViewOf
<1>6. \A f \in Files : (IF f \in T THEN new[f] ELSE ViewDisk[f]) = disk[f]
  BY <1>3, <1>5
<1>7. ViewDisk' = History!Overlay(T, new)
  BY <1>4, <1>6 DEF History!Overlay
<1>8. (edited \cup stained)' = (edited \cup stained) \cup T
  BY <1>1
<1>9. History!Edit(T, new)
  BY <1>2, <1>7, <1>8 DEF History!Edit
<1>. QED
  BY <1>2, <1>3, <1>9 DEF History!Next, History!Contents, Contents

LEMMA IdleKeepsView ==
    ASSUME IInv, OneHost, VInv, NEW h \in Hosts, op' = [op EXCEPT ![h] = Idle],
           \A i \in Ids : Decodable(journal'[i]) => journal'[i].touched # {}
    PROVE  VInv'
<1>1. PICK o : o = Idle
  OBVIOUS
<1>2. Fits(o, journal', disk') /\ ~(o.pc \in {"header"} \cup Writing)
  BY <1>1, IdleFits DEF Writing
<1>. QED
  BY <1>1, <1>2, OperationFits

(* A host that dies, or finds a file it cannot open. *)
LEMMA StopShown ==
    ASSUME OneHost, IInv, IInv', VInv, NEW h \in Hosts, "mark" \notin CrashPoints,
           \/ Crash(h) \/ EntryFails(h)
           \/ \E f \in Files : OpenFails(h, f) /\ op[h].kind # "apply"
    PROVE  VInv' /\ (History!Next \/ UNCHANGED History!vars)
<1>1. /\ op' = [op EXCEPT ![h] = Idle] /\ op[h].pc # "mark"
      /\ UNCHANGED <<disk, journal, edited, origin>>
      /\ IF op[h].pc \in Writing THEN stained' = stained \cup op[h].entry.touched
         ELSE stained' = stained
  BY DEF Crash, EntryFails, OpenFails, Writing
<1>2. PICK o : o = Idle
  OBVIOUS
<1>3. o.pc = "idle" /\ Fits(o, journal, disk') /\ ~(o.pc \in {"header"} \cup Writing)
  BY <1>2, IdleFits DEF Writing
<1>4. VInv'
  <2>1. \A i \in Ids : Decodable(journal'[i]) => journal'[i].touched # {}
    BY <1>1 DEF VInv
  <2>. QED
    BY <1>1, <2>1, IdleKeepsView
<1>5. \A i \in Ids : EntryNow(i)' = EntryNow(i)
  BY <1>1, <1>2, <1>3, QuietEntries
<1>6. ViewLog' = ViewLog
  BY <1>5, SameLog
<1>7. CASE op[h].pc \in Writing
  BY <1>1, <1>4, <1>6, <1>7, StopIsEdit
<1>8. CASE op[h].pc \notin Writing
  <2>1. \A f \in Files : (IF o.pc \in Writing /\ f \in o.entry.touched THEN o.pre[f] ELSE disk'[f])
                            = ViewDisk[f]
    BY <1>1, <1>3, <1>8, ViewOf
  <2>2. UNCHANGED History!vars
    BY <1>1, <1>2, <1>5, <1>8, <2>1, HiddenStep
  <2>. QED
    BY <1>4, <2>2
<1>. QED
  BY <1>7, <1>8

(* What sealing an entry makes of it. *)
LEMMA SealedIs ==
    ASSUME NEW o \in Ops
    PROVE  /\ o.kind = "abort" => ~Counts(Sealed(o)) /\ Sealed(o).touched = o.entry.touched
           /\ o.kind = "undo" => Sealed(o) = [o.entry EXCEPT !.status = "rolled_back"]
           /\ o.kind \in {"apply", "redo"} => Sealed(o) = [o.entry EXCEPT !.status = "applied"]
           /\ o.kind # "abort" => Counts(Sealed(o)) /\ Sealed(o).touched = o.entry.touched
  BY DEF Sealed, Ops, EntryFiles, Counts

(* The entry's new form is on disk: the operation has happened.               *)
LEMMA WriteEntryShown ==
    ASSUME OneHost, IInv, IInv', VInv, NEW h \in Hosts, WriteEntry(h)
    PROVE  VInv' /\ History!Next
<1>1. /\ op[h].pc = "mark" /\ journal' = [journal EXCEPT ![op[h].id] = Sealed(op[h])]
      /\ op' = [op EXCEPT ![h] = Idle] /\ UNCHANGED <<disk, edited, origin>>
      /\ stained' = IF op[h].kind = "abort" THEN stained \cup op[h].entry.touched ELSE stained
  BY DEF WriteEntry
<1>2. PICK o \in Ops : o = op[h]
  BY FieldsOf
<1>3. PICK i \in Ids : i = op[h].id
  BY FieldsOf
<1>4. PICK e : e = Sealed(o)
  OBVIOUS
<1>5. journal'[i] = e /\ \A k \in Ids \ {i} : journal'[k] = journal[k]
  BY <1>1, <1>2, <1>3, <1>4 DEF IInv, TypeOK
<1>6. /\ o.pc = "mark" /\ o.id = i /\ Fits(o, journal, disk) /\ o.todo = {} /\ o.cur = {}
      /\ o.entry.touched # {} /\ o.entry.touched \in SUBSET Files /\ journal[i].status = "torn"
      /\ o.entry \in EntryFiles
  <2>1. Fits(op[h], journal, disk)
    BY DEF VInv
  <2>. QED
    BY <1>1, <1>2, <1>3, <2>1 DEF Fits, Ops, EntryFiles
<1>7. VInv'
  <2>1. e.touched # {}
    BY <1>4, <1>6, SealedIs DEF Ops, Kinds
  <2>2. \A k \in Ids : Decodable(journal'[k]) => journal'[k].touched # {}
    BY <1>5, <2>1 DEF VInv
  <2>. QED
    BY <1>1, <2>2, IdleKeepsView
<1>8. op'[h].pc = "idle" /\ NoEntry("free").status = "free"
  BY <1>1, IdleFits DEF IInv, TypeOK, NoEntry
<1>9. \A k \in Ids \ {i} : EntryNow(k)' = EntryNow(k)
  BY <1>2, <1>5, <1>6, <1>8, OneEntry, OneEntryNext
<1>10. EntryNow(i) = o.entry
  BY <1>2, <1>6, OneEntry DEF Decodable
<1>11. EntryNow(i)' = IF Decodable(e) THEN e ELSE NoEntry("free")
  BY <1>5, <1>8, OneEntryNext
<1>12. CASE o.kind = "abort"
  <2>1. ~Counts(EntryNow(i))
    BY <1>2, <1>10, <1>12 DEF IInv, Owned, Own, Counts
  <2>2. ~Counts(EntryNow(i)')
    BY <1>4, <1>8, <1>11, <1>12, SealedIs DEF Counts
  <2>3. ViewLog' = ViewLog
    BY <1>9, <2>1, <2>2, SameLog
  <2>4. History!Next
    BY <1>1, <1>2, <1>6, <1>12, <2>3, StopIsEdit DEF Writing
  <2>. QED
    BY <1>7, <2>4
<1>13. CASE o.kind # "abort"
  <2>1. Counts(e) /\ Decodable(e) /\ EntryNow(i)' = e
    BY <1>4, <1>11, <1>13, SealedIs DEF Counts, Decodable
  <2>2. ViewLog' = [ViewLog EXCEPT ![i] = e]
    <3>1. \A k \in Ids : EntryNow(k)' \in EntryFiles
      BY EntryNextType
    <3>2. ViewLog' = [k \in Ids |-> IF Counts(EntryNow(k)') THEN EntryNow(k)' ELSE History!NoEntry]
      BY <3>1, LoggedIs DEF ViewLog, Counts
    <3>. QED
      BY <1>9, <2>1, <3>2, ViewLogIs
  <2>3. Counts(o.entry) => ViewLog[i] = o.entry
    BY <1>10, ViewLogIs
  <2>4. \A f \in Files : ViewDisk[f] = IF f \in o.entry.touched THEN o.pre[f] ELSE disk[f]
    BY <1>2, <1>6, ViewOf DEF Writing
  <2>5. \A f \in o.entry.touched : disk[f] = Image(o)[f]
    BY <1>6, <1>13 DEF Fits, Writing
  <2>6. ViewDisk' = [f \in Files |-> disk[f]]
    BY <1>1, IdleView
  <2>7. \A f \in Files : disk[f] = IF f \in o.entry.touched THEN Image(o)[f] ELSE ViewDisk[f]
    BY <2>4, <2>5
  <2>8. ViewDisk' = History!Overlay(o.entry.touched, Image(o))
    BY <2>6, <2>7 DEF History!Overlay
  <2>9. Due(o.kind, i)
    BY <1>2, <1>3, <1>6, DueNow DEF Writing
  <2>10. (edited \cup stained)' = edited \cup stained /\ origin' = origin
    BY <1>1, <1>2, <1>13
  <2>11. CASE o.kind = "undo"
    <3>1. History!UndoTarget(i) /\ History!UndoDrift(i) = {}
      BY <2>9, <2>11 DEF Due
    <3>2. ViewLog[i] = o.entry
      <4>1. ViewLog[i].status = "applied"
        BY <3>1 DEF History!UndoTarget, History!Applied
      <4>2. ViewLog[i] = IF Counts(o.entry) THEN o.entry ELSE History!NoEntry
        BY <1>10, ViewLogIs
      <4>. QED
        BY <4>1, <4>2 DEF History!NoEntry
    <3>3. Image(o) = o.entry.before /\ e = [o.entry EXCEPT !.status = "rolled_back"]
      BY <1>4, <2>11, SealedIs DEF Image
    <3>4. History!Undo(i)
      BY <2>2, <2>8, <2>10, <3>1, <3>2, <3>3 DEF History!Undo
    <3>. QED
      BY <1>7, <3>4 DEF History!Next, History!Ids, Ids
  <2>12. CASE o.kind = "redo"
    <3>1. History!RedoTarget(i) /\ History!RedoDrift(i) = {}
      BY <2>9, <2>12 DEF Due
    <3>2. ViewLog[i] = o.entry
      <4>1. ViewLog[i].status = "rolled_back"
        BY <3>1 DEF History!RedoTarget
      <4>2. ViewLog[i] = IF Counts(o.entry) THEN o.entry ELSE History!NoEntry
        BY <1>10, ViewLogIs
      <4>. QED
        BY <4>1, <4>2 DEF History!NoEntry
    <3>3. Image(o) = o.entry.after /\ e = [o.entry EXCEPT !.status = "applied"]
      BY <1>4, <2>12, SealedIs DEF Image
    <3>4. History!Redo(i)
      BY <2>2, <2>8, <2>10, <3>1, <3>2, <3>3 DEF History!Redo
    <3>. QED
      BY <1>7, <3>4 DEF History!Next, History!Ids, Ids
  <2>13. CASE o.kind = "apply"
    <3>1. History!Unused(i)
      BY <2>9, <2>13 DEF Due
    <3>2. Drafted(o) /\ Image(o) = o.entry.after
      BY <1>6, <2>13 DEF Fits, Image
    <3>3. PICK T \in SUBSET Files : T = o.entry.touched
      BY <1>6
    <3>4. PICK new \in [T -> Texts] : \A f \in T : new[f] = o.entry.after[f]
      <4>1. [f \in T |-> o.entry.after[f]] \in [T -> Texts]
        BY <3>2, <3>3 DEF Drafted
      <4>. QED
        BY <4>1
    <3>5. \E f \in T : new[f] # ViewDisk[f]
      BY <2>4, <3>2, <3>3, <3>4 DEF Drafted
    <3>6. ViewDisk' = History!Overlay(T, new)
      BY <2>8, <3>2, <3>3, <3>4 DEF History!Overlay
    <3>7. /\ o.entry.before = [f \in Files |-> IF f \in T THEN ViewDisk[f] ELSE Absent]
          /\ o.entry.after = [f \in Files |-> IF f \in T THEN new[f] ELSE Absent]
      <4>1. /\ o.entry.before = [f \in Files |-> IF f \in T THEN o.pre[f] ELSE Absent]
            /\ o.entry.after = [f \in Files |-> IF f \in T THEN o.entry.after[f] ELSE Absent]
        BY <3>2, <3>3 DEF Drafted, Only
      <4>2. \A f \in Files : (IF f \in T THEN o.pre[f] ELSE Absent) = IF f \in T THEN ViewDisk[f] ELSE Absent
        BY <2>4, <3>3
      <4>3. \A f \in Files : (IF f \in T THEN o.entry.after[f] ELSE Absent) = IF f \in T THEN new[f] ELSE Absent
        BY <3>4
      <4>. QED
        BY <4>1, <4>2, <4>3
    <3>8. e = [status |-> "applied", touched |-> T, before |-> o.entry.before, after |-> o.entry.after]
      <4>1. e = [o.entry EXCEPT !.status = "applied"]
        BY <1>4, <2>13, SealedIs
      <4>2. e \in [status : {"applied"}, touched : {T}, before : {o.entry.before}, after : {o.entry.after}]
        BY <1>6, <3>3, <4>1 DEF EntryFiles
      <4>. QED
        BY <4>2
    <3>9. History!Apply(i, T, new)
      BY <2>2, <2>10, <3>1, <3>5, <3>6, <3>7, <3>8 DEF History!Apply
    <3>. QED
      BY <1>7, <3>9 DEF History!Next, History!Ids, Ids
  <2>. QED
    BY <1>13, <2>11, <2>12, <2>13 DEF Ops, Kinds
<1>. QED
  BY <1>12, <1>13

LEMMA OutsideHidden ==
    ASSUME OneHost, Editable = {}, IInv, IInv', VInv,
           \/ \E h \in Hosts, T \in SUBSET Files : MakePlan(h, T)
           \/ \E f \in Editable, c \in Contents : Edit(f, c)
           \/ Tick
           \/ UNCHANGED vars
    PROVE  VInv' /\ UNCHANGED History!vars
<1>1. UNCHANGED <<op, journal, disk, origin, edited, stained>>
  BY DEF MakePlan, Tick, vars
<1>2. \A i : EntryNow(i)' = EntryNow(i)
  BY <1>1 DEF EntryNow
<1>3. ViewDisk' = ViewDisk /\ ViewLog' = ViewLog
  <2>1. \A h, f : Underway(h, f)' <=> Underway(h, f)
    BY <1>1 DEF Underway
  <2>2. ViewDisk' = ViewDisk
    <3>1. CASE Hosts = {}
      <4>1. ViewDisk = [f \in Files |-> disk[f]]
        BY <3>1 DEF ViewDisk
      <4>2. ViewDisk' = [f \in Files |-> disk'[f]]
        BY <3>1 DEF ViewDisk
      <4>. QED
        BY <1>1, <4>1, <4>2
    <3>2. ASSUME NEW h \in Hosts
          PROVE  ViewDisk' = ViewDisk
      BY <1>1, <2>1, ViewDiskIs, ViewDiskNextIs
    <3>. QED
      BY <3>1, <3>2
  <2>3. ViewLog' = ViewLog
    BY <1>2 DEF ViewLog
  <2>. QED
    BY <2>2, <2>3
<1>4. \A kind, i : Due(kind, i) => Due(kind, i)'
  BY <1>3, StillDue
<1>5. VInv'
  BY <1>1, <1>4 DEF VInv
<1>. QED
  BY <1>1, <1>3, <1>5 DEF History!vars

LEMMA InitRefines ==
    ASSUME Init, IInv, OneHost
    PROVE  VInv /\ History!Init
<1>1. /\ journal = [i \in Ids |-> NoEntry("free")] /\ origin = disk /\ edited = {} /\ stained = {}
      /\ disk \in [Files -> Contents]
      /\ \A h \in Hosts : op[h] = Idle
  BY DEF Init, IInv, TypeOK
<1>2. NoEntry("free").status = "free" /\ Idle.pc = "idle"
  BY IdleFits DEF NoEntry
<1>3. VInv
  <2>1. \A h \in Hosts : Fits(op[h], journal, disk) /\ op[h].pc \notin {"header"} \cup Writing
    BY <1>1, IdleFits DEF Writing
  <2>. QED
    BY <1>1, <1>2, <2>1 DEF VInv, Decodable
<1>4. ViewDisk = disk
  <2>1. \A h \in Hosts, f \in Files : ~Underway(h, f)
    BY <1>1, <1>2 DEF Underway
  <2>. QED
    BY <1>1, <2>1 DEF ViewDisk
<1>5. ViewLog = [i \in Ids |-> History!NoEntry]
  <2>1. \A i \in Ids : EntryNow(i) = NoEntry("free")
    BY <1>1, <1>2, EntryNowIs DEF Marked, Decodable
  <2>2. NoEntry("free") \in EntryFiles
    BY NoEntryType DEF Statuses
  <2>. QED
    BY <1>2, <2>1, <2>2, LoggedIs DEF ViewLog, Counts
<1>. QED
  BY <1>1, <1>3, <1>4, <1>5 DEF History!Init, History!Contents, History!Ids, Contents, Ids

(* For any number of files and entries, any crash but in the rewrite of an entry *)
(* and any failing open: what one user sees of file writes, truncated files,     *)
(* aborted, failed and interrupted operations is a behaviour of UndoHistory,      *)
(* where every operation is one step and what stopped half way is an edit of its *)
(* files. Whatever UndoHistory promises holds of the write path.                 *)
THEOREM WritesImplementHistory == ASSUME OneUser PROVE Spec => ImplementsHistory
<1>1. OneHost /\ Editable = {} /\ "delete" \notin Faults /\ "mark" \notin CrashPoints /\ OneWriter
  BY DEF OneUser, OneHost, OneWriter
<1>2. IInv /\ IInv' /\ RInv /\ VInv /\ [Next]_vars => VInv' /\ [History!Next]_(History!vars)
  <2> SUFFICES ASSUME IInv, IInv', RInv, VInv, [Next]_vars
               PROVE  VInv' /\ (History!Next \/ UNCHANGED History!vars)
    OBVIOUS
  <2>1. ASSUME NEW h \in Hosts, ApplySteps(h)
        PROVE  VInv' /\ (History!Next \/ UNCHANGED History!vars)
    BY <1>1, <2>1, OutsideHidden, StageHidden, ReserveHidden, WriteHeaderHidden, HeaderFailsHidden
       DEF ApplySteps
  <2>2. ASSUME NEW h \in Hosts, WriteSteps(h)
        PROVE  VInv' /\ (History!Next \/ UNCHANGED History!vars)
    <3>1. ~\E f \in Files : RemoveFails(h, f)
      BY <1>1 DEF RemoveFails
    <3>. QED
      BY <1>1, <2>2, <3>1, FileStepHidden, FillHidden, OpenEntryHidden, StopShown, WriteEntryShown
         DEF WriteSteps
  <2>3. ASSUME NEW h \in Hosts, Crash(h)
        PROVE  VInv' /\ (History!Next \/ UNCHANGED History!vars)
    BY <1>1, <2>3, StopShown
  <2>4. ASSUME NEW h \in Hosts, NEW i \in Ids, StartUndo(h, i) \/ StartRedo(h, i)
        PROVE  VInv' /\ (History!Next \/ UNCHANGED History!vars)
    BY <1>1, <2>4, StartHidden
  <2>. QED
    BY <1>1, <2>1, <2>2, <2>3, <2>4, OutsideHidden DEF Next
<1>3. Init => VInv /\ History!Init
  BY <1>1, InitIInv, InitRefines
<1>4. Spec => []RInv
  BY <1>1, EvidenceIsKept
<1>. QED
  BY <1>2, <1>3, <1>4, InductiveInvariant, PTL DEF Spec, ImplementsHistory, History!Spec
=============================================================================
