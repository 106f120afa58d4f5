----------------------------- MODULE Extraction -----------------------------
(* Parallel extraction (parallel.lua) streaming into the store (store.lua): *)
(* worker processes parse slices of a priority queue, the editor's main loop *)
(* merges each answer as it comes and repaints the browser on a timer, a     *)
(* file the user descends into is extracted at once, a slice whose worker    *)
(* failed is extracted at the end, and then the graph is put in the order of *)
(* the fileset and handed over. Meanwhile files change under the workers.    *)
(*                                                                           *)
(* A callback of the main loop is one step; workers read file by file. A     *)
(* row stands for all a file puts in the graph's lists (nodes, edges, calls, *)
(* extends...), a stamp for what is kept by file (stamps, fn_ranges,         *)
(* mentions...). Left out: audit, relink and the id pass, which make the     *)
(* links from the rows in their order; beans, which are kept by class and    *)
(* not by file; that the extraction of the failed slices may throw;          *)
(* telemetry; the files known to be unparsed by their name; staged moves;    *)
(* the columnar and folding options, off by default.                         *)
EXTENDS Integers, FiniteSets

CONSTANTS
    N,           \* files, numbered in the order of the fileset
    NW,          \* workers
    CountCap,    \* COUNT_CAP: the most files of a slice
    Texts,       \* what a file can hold
    Bundles,     \* those that are taken for a bundle, and not parsed
    Gone,        \* what a file that is not there holds
    Orders,      \* bound: the orders of attention tried
    Initial,     \* bound: what a file may hold at first
    MaxChanges,  \* bound: how often files change
    MaxHolds,    \* bound: how often keystrokes hold a repaint back, MAX_HOLD
    EarlySaves   \* may a refresh run before the first chunk is shown?

Files == 1..N
Lanes == 1..NW
Contents == Texts \cup {Gone}

ASSUME ExtractionAssumption ==
    /\ N \in Nat /\ NW \in 2..N /\ CountCap \in Nat \ {0}
    /\ Bundles \subseteq Texts /\ Gone \notin Texts
    /\ \A o \in Orders : /\ o \in [Files -> Files]
                         /\ \A i, j \in Files : o[i] = o[j] => i = j
                         /\ \A f \in Files : \E i \in Files : o[i] = f
    /\ Initial \subseteq Contents /\ MaxChanges \in Nat
    /\ MaxHolds \in Nat /\ EarlySaves \in BOOLEAN

VARIABLES
    disk,      \* what the files hold
    had,       \* history variable: what they held since the extraction began
    changes,   \* how often they changed
    saved,     \* files the editor wrote, to be refreshed when the timer fires
    order,     \* the queue: the files in the order of the user's attention
    cursor,    \* the position in it of the next slice
    lane,      \* the slice each lane's worker has, and what it read of it
    inflight,  \* the code's count of the workers that run
    failed,    \* files of the slices whose workers failed
    done,      \* files of the slices that were answered
    phase,     \* "starting" the lanes, "parsing", "done"
    acc,       \* the growing graph, and the files that arrived
    shown,     \* how often the store's indexes hold each file
    ing,       \* the store's baseline: the merges its indexes took in
    partial,   \* does the store's graph say it is incomplete?
    dirty, pending, holds   \* repainting: due, its timer set, times held back

queue == <<order, cursor, lane, inflight, failed, done, phase>>
store == <<shown, ing, partial>>
timer == <<dirty, pending, holds>>
world == <<disk, had, changes, saved>>
vars == <<world, queue, acc, store, timer>>

Row(f, t, k, n) == [file |-> f, text |-> t, rank |-> k, turn |-> n]
Idle == [from |-> 1, at |-> 1, past |-> 1, chunk |-> [f \in Files |-> Gone]]
Busy(l) == lane[l].from < lane[l].past
Slice(l) == {order[i] : i \in lane[l].from..(lane[l].past - 1)}

Init ==
    /\ disk \in [Files -> Initial] /\ had = [f \in Files |-> {disk[f]}]
    /\ changes = 0 /\ saved = {} /\ order \in Orders
    /\ cursor = 1 /\ lane = [l \in Lanes |-> Idle] /\ inflight = 0
    /\ failed = {} /\ done = 0 /\ phase = "starting"
    /\ acc = [rows |-> {}, stamps |-> [f \in Files |-> Gone], unparsed |-> {},
              arrived |-> {}, merges |-> 0]
    /\ shown = [f \in Files |-> 0] /\ ing = 0 /\ partial = FALSE
    /\ dirty = FALSE /\ pending = FALSE /\ holds = 0
-----------------------------------------------------------------------------
(* The chunk that ts.extract makes of the files of F, now.                    *)
ChunkOf(F) == [f \in Files |-> IF f \in F THEN disk[f] ELSE Gone]

(* merge_chunk: files that arrived before are skipped, except in the list of  *)
(* those unparsed.                                                            *)
MergeStampingAll(a, c) ==
    LET new == {f \in Files : c[f] \in Texts /\ f \notin a.arrived}
    IN  [rows |-> a.rows \cup {Row(f, c[f], 0, a.merges + 1) : f \in new},
         stamps |-> [f \in Files |-> IF c[f] \in Texts THEN c[f] ELSE a.stamps[f]],
         unparsed |-> a.unparsed \cup {f \in Files : c[f] \in Bundles},
         arrived |-> a.arrived \cup new,
         merges |-> a.merges + 1]
MergeDroppingUnparsed(a, c) ==
    LET new == {f \in Files : c[f] \in Texts /\ f \notin a.arrived}
    IN  [rows |-> a.rows \cup {Row(f, c[f], 0, a.merges + 1) : f \in new},
         stamps |-> [f \in Files |-> IF f \in new THEN c[f] ELSE a.stamps[f]],
         unparsed |-> a.unparsed,
         arrived |-> a.arrived \cup new,
         merges |-> a.merges + 1]
MergeChunk(a, c) ==
    LET new == {f \in Files : c[f] \in Texts /\ f \notin a.arrived}
    IN  [rows |-> a.rows \cup {Row(f, c[f], 0, a.merges + 1) : f \in new},
         stamps |-> [f \in Files |-> IF f \in new THEN c[f] ELSE a.stamps[f]],
         unparsed |-> a.unparsed \cup {f \in Files : c[f] \in Bundles},
         arrived |-> a.arrived \cup new,
         merges |-> a.merges + 1]

(* canonicalize: a stable sort by the fileset.                                *)
LeaveArrivalOrder(a) == a
Canonicalize(a) == [a EXCEPT !.rows = {Row(r.file, r.text, r.file, r.turn) : r \in a.rows}]
Before(r, s) == r.rank < s.rank \/ (r.rank = s.rank /\ r.turn < s.turn)

(* The store: the rows its indexes do not have yet, or all of them anew.      *)
IngestAgain(a) ==
    /\ shown' = [f \in Files |-> shown[f] + Cardinality({r \in a.rows : r.file = f /\ r.turn >= ing})]
    /\ ing' = a.merges
IngestStep(a) ==
    /\ shown' = [f \in Files |-> shown[f] + Cardinality({r \in a.rows : r.file = f /\ r.turn > ing})]
    /\ ing' = a.merges
Ingest(a) ==
    /\ shown' = [f \in Files |-> Cardinality({r \in a.rows : r.file = f})]
    /\ ing' = a.merges
OnChunk(a) == partial' = TRUE /\ IngestStep(a)
-----------------------------------------------------------------------------
(* M.slice ends a slice by the bytes of its files, at the latest at an even   *)
(* share of what is left.                                                     *)
CapOf(remaining) ==
    LET share == (remaining + NW - 1) \div NW
    IN  IF share < CountCap THEN share ELSE CountCap
SliceSkipping == {[from |-> cursor, past |-> cursor + k, next |-> cursor + k + 1] :
                    k \in 1..CapOf(N + 1 - cursor)}
NextSlice == {[from |-> cursor, past |-> cursor + k, next |-> cursor + k] :
                k \in 1..CapOf(N + 1 - cursor)}

(* pull: the next slice to lane l, whose worker ended or never started.       *)
Pull(l) ==
    /\ cursor <= N
    /\ \E b \in NextSlice :
         /\ cursor' = b.next
         /\ lane' = [lane EXCEPT ![l] = [from |-> b.from, at |-> b.from, past |-> b.past,
                                         chunk |-> [f \in Files |-> Gone]]]

(* The loop at the end of M.extract, which no callback interrupts.            *)
StartLane ==
    /\ phase = "starting"
    /\ Pull(inflight + 1)
    /\ inflight' = inflight + 1
    /\ phase' = IF inflight' = NW \/ cursor' > N THEN "parsing" ELSE "starting"
    /\ UNCHANGED <<world, order, failed, done, acc, store, timer>>

(* A worker reads the next file of its slice.                                 *)
Read(l) ==
    /\ Busy(l) /\ lane[l].at < lane[l].past
    /\ LET f == order[lane[l].at]
       IN  lane' = [lane EXCEPT ![l].at = @ + 1, ![l].chunk[f] = disk[f]]
    /\ UNCHANGED <<world, order, cursor, inflight, failed, done, phase, acc, store, timer>>

(* What the callback of a worker's end does last: finish_phase1 when the      *)
(* queue is drained and no other worker runs.                                 *)
LastWhenNoneLeft == cursor > N /\ inflight = 0
IsLast == cursor > N /\ inflight = 1

(* It extracts the failed slices, and hands the graph over. A repaint that    *)
(* was due stays due.                                                         *)
FinishPhase1(a, F) ==
    /\ phase' = "done"
    /\ acc' = Canonicalize(IF F = {} THEN a ELSE MergeChunk(a, ChunkOf(F)))
    /\ Ingest(acc') /\ partial' = FALSE

InflightNow == (inflight - 1) + (IF cursor <= N THEN 1 ELSE 0)

Ended(l, a, F) ==
    /\ phase = "parsing" /\ Busy(l)
    /\ failed' = F
    /\ done' = done + (lane[l].past - lane[l].from)
    /\ inflight' = InflightNow
    /\ dirty' = TRUE /\ pending' = TRUE
    /\ \/ Pull(l)
       \/ cursor > N /\ lane' = [lane EXCEPT ![l] = Idle] /\ UNCHANGED cursor
    /\ \/ IsLast /\ FinishPhase1(a, F)
       \/ ~IsLast /\ acc' = a /\ UNCHANGED <<phase, store>>
    /\ UNCHANGED <<world, order, holds>>

Answer(l) == lane[l].at = lane[l].past /\ Ended(l, MergeChunk(acc, lane[l].chunk), failed)
Fail(l) == Ended(l, acc, failed \cup Slice(l))

(* M.demand: the user descends into a file of a graph that says it streams.   *)
Demand(f) ==
    /\ phase = "parsing" /\ partial /\ f \notin acc.arrived
    /\ acc' = [MergeChunk(acc, ChunkOf({f})) EXCEPT !.arrived = @ \cup {f}]
    /\ OnChunk(acc')
    /\ UNCHANGED <<world, queue, timer>>

(* The repaint timer: a keystroke holds it back, MAX_HOLD at most, and        *)
(* run_progressive does nothing once phase 1 is over.                         *)
Hold ==
    /\ pending /\ dirty /\ holds < MaxHolds
    /\ holds' = holds + 1
    /\ UNCHANGED <<world, queue, acc, store, dirty, pending>>
Repaint ==
    /\ phase # "starting" /\ pending
    /\ holds' = 0
    /\ \/ phase = "parsing" /\ dirty /\ dirty' = FALSE /\ pending' = FALSE /\ OnChunk(acc)
       \/ ~(phase = "parsing" /\ dirty) /\ pending' = dirty /\ UNCHANGED <<dirty, store>>
    /\ UNCHANGED <<world, queue, acc>>
-----------------------------------------------------------------------------
(* Other programs change files; the editor saves one.                         *)
Write(f, c) ==
    /\ changes < MaxChanges /\ changes' = changes + 1
    /\ disk' = [disk EXCEPT ![f] = c]
    /\ had' = [had EXCEPT ![f] = @ \cup {c}]
    /\ UNCHANGED <<queue, acc, store, timer>>
Edit(f, c) == phase # "done" /\ Write(f, c) /\ UNCHANGED saved
Save(f, c) == phase = "parsing" /\ c # Gone /\ Write(f, c) /\ saved' = saved \cup {f}

(* refresh.files, deferred after a save: refused while the graph says that it *)
(* streams, else the file's rows are replaced by new ones, at the end.        *)
Spliced(f) ==
    LET now == {disk[f]} \cap Texts
    IN  [rows |-> {r \in acc.rows : r.file # f} \cup {Row(f, t, N + 1, acc.merges + 1) : t \in now},
         stamps |-> [acc.stamps EXCEPT ![f] = IF now = {} THEN @ ELSE disk[f]],
         unparsed |-> IF phase = "done" THEN (acc.unparsed \ {f}) \cup {g \in {f} : disk[f] \in Bundles}
                      ELSE acc.unparsed,
         arrived |-> acc.arrived,
         merges |-> acc.merges + 1]
Refresh(f) ==
    /\ phase # "starting" /\ f \in saved
    /\ saved' = saved \ {f}
    /\ \/ partial /\ UNCHANGED <<acc, store>>
       \/ /\ ~partial /\ (phase = "done" \/ EarlySaves)
          /\ acc' = Spliced(f)
          /\ Ingest(acc') /\ UNCHANGED partial
    /\ UNCHANGED <<disk, had, changes, queue, timer>>

Next ==
    \/ StartLane
    \/ \E l \in Lanes : Read(l) \/ Answer(l) \/ Fail(l)
    \/ \E f \in Files : Demand(f) \/ Refresh(f)
    \/ Hold \/ Repaint
    \/ \E f \in Files, c \in Contents : Edit(f, c) \/ Save(f, c)

(* A worker ends, with an answer or without; nothing interrupts the loop      *)
(* that starts them.                                                          *)
Work(l) == Read(l) \/ Answer(l) \/ Fail(l)
Fairness == WF_vars(StartLane) /\ \A l \in Lanes : WF_vars(Work(l))
Spec == Init /\ [][Next]_vars /\ Fairness
-----------------------------------------------------------------------------
Rows == [file : Files, text : Texts, rank : 0..(N + 1), turn : Nat]
TypeOK ==
    /\ disk \in [Files -> Contents] /\ had \in [Files -> SUBSET Contents] /\ saved \subseteq Files
    /\ changes \in 0..MaxChanges
    /\ order \in Orders /\ cursor \in 1..(N + 1)
    /\ lane \in [Lanes -> [from : Nat, at : Nat, past : Nat, chunk : [Files -> Contents]]]
    /\ inflight \in 0..NW /\ failed \subseteq Files /\ done \in Nat
    /\ phase \in {"starting", "parsing", "done"}
    /\ acc \in [rows : SUBSET Rows, stamps : [Files -> Contents], unparsed : SUBSET Files,
                arrived : SUBSET Files, merges : Nat]
    /\ shown \in [Files -> Nat] /\ ing \in Nat /\ partial \in BOOLEAN
    /\ dirty \in BOOLEAN /\ pending \in BOOLEAN /\ holds \in 0..MaxHolds

(* A file is in the graph once, whoever read it: "a file lives in exactly one *)
(* batch", and a demanded or refreshed file's copy is not added to it.        *)
OncePerFile == \A r, s \in acc.rows : r.file = s.file => r = s

(* And what is kept by file is from the reading that its rows are from,       *)
(* however often the file was read and changed.                               *)
OneExtraction ==
    /\ OncePerFile
    /\ \A r \in acc.rows : acc.stamps[r.file] = r.text

(* The list of the unparsed files is merged beside the rows, of every copy of *)
(* a file that arrives, and the two "halves of one fact" should not disagree. *)
(* It misses no file whose rows are a bundle's; of a refreshed file the two   *)
(* say the same; and it has no file that never was a bundle. Before a refresh *)
(* they may disagree: a copy that is skipped still puts its file on the list. *)
UnparsedListed ==
    /\ \A r \in acc.rows : r.text \in Bundles => r.file \in acc.unparsed
    /\ \A r \in acc.rows : r.rank > N /\ r.file \in acc.unparsed => r.text \in Bundles
    /\ \A f \in acc.unparsed : Bundles \cap had[f] # {}

(* Every file of the queue is still in it, with one worker, or answered; and  *)
(* no lane is idle while the queue is not empty.                              *)
Positions(l) == lane[l].from..(lane[l].past - 1)
Accounted ==
    /\ inflight = Cardinality({l \in Lanes : Busy(l)})
    /\ \A l, k \in Lanes : l # k => Positions(l) \cap Positions(k) = {}
    /\ done + Cardinality(UNION {Positions(l) : l \in Lanes}) = cursor - 1
    /\ phase = "parsing" /\ cursor <= N => \A l \in Lanes : Busy(l)

(* "Semantics are IDENTICAL to sequential extraction, by construction": what  *)
(* is handed over is every file there was, once, as it was at some moment of  *)
(* the extraction or its refresh since, in the order of the fileset.          *)
SameAsSequential ==
    phase = "done" =>
      /\ \A f \in Files : Gone \in had[f] \/ \E r \in acc.rows : r.file = f
      /\ \A r \in acc.rows : r.text \in had[r.file]
      /\ \A r, s \in acc.rows : r.rank <= N /\ s.rank <= N => (Before(r, s) <=> r.file < s.file)

(* "The indexes match a full ingest of the same accumulator" as of the last   *)
(* step, and a merge they do not show has a repaint coming.                   *)
ShownMatches ==
    /\ \A f \in Files : shown[f] = Cardinality({r \in acc.rows : r.file = f /\ r.turn <= ing})
    /\ ing < acc.merges => dirty /\ pending

(* The graph is complete at last, whichever workers fail.                     *)
Finishes == <>(phase = "done")
=============================================================================
