------------------------- MODULE Extraction_proofs -------------------------
(* Theorems about Extraction, for any number of files and workers, any slices *)
(* of the queue and any order of the answers. What concerns the workers, the  *)
(* queue and what the store shows (WorkInv, Accounted, ShownInv) holds        *)
(* whenever refreshes run; what the graph's rows are (IInv) needs that none   *)
(* runs before the first chunk is shown, and is false without.                *)
EXTENDS Extraction, FiniteSetTheorems, TLAPS

BusyLanes == {l \in Lanes : Busy(l)}

(* What a lane has is a slice of what left the queue, and what its worker     *)
(* read so far the files held at some moment.                                 *)
Slices ==
    /\ \A f \in Files : disk[f] \in had[f]
    /\ \A l \in Lanes :
         /\ 1 <= lane[l].from /\ lane[l].from <= lane[l].at
         /\ lane[l].at <= lane[l].past /\ lane[l].past <= cursor
         /\ \A f \in Files : lane[l].chunk[f] \in Texts => lane[l].chunk[f] \in had[f]
         /\ \A i \in Files : lane[l].from <= i /\ i < lane[l].at => lane[l].chunk[order[i]] \in had[order[i]]

(* The count of the workers is right, and it is the next lane that starts.    *)
Counted ==
    /\ inflight = Cardinality(BusyLanes)
    /\ phase = "starting" => /\ inflight < NW /\ \A l \in Lanes : Busy(l) <=> l <= inflight
                             /\ cursor <= N

(* What left the queue is with a worker, to be done again, or in the graph,   *)
(* if it was there.                                                           *)
With(l, i) == lane[l].from <= i /\ i < lane[l].past
Kept ==
    phase # "done" =>
      \A i \in Files : i < cursor => \/ \E l \in Lanes : With(l, i)
                                     \/ order[i] \in failed \cup acc.arrived
                                     \/ Gone \in had[order[i]]

(* The rows of the graph: before it is put in order, those of the files that  *)
(* arrived.                                                                   *)
RowsKept ==
    /\ \A r \in acc.rows : r.text \in had[r.file]
    /\ \A f \in acc.arrived : Gone \in had[f] \/ \E r \in acc.rows : r.file = f
    /\ phase # "done" => \A r \in acc.rows : r.file \in acc.arrived /\ r.rank = 0
    /\ phase = "done" => \A r \in acc.rows : r.rank = r.file \/ r.rank = N + 1
    /\ phase = "done" => \A f \in Files : Gone \in had[f] \/ \E r \in acc.rows : r.file = f

(* What holds of the workers and the queue whatever happens to the rows, and   *)
(* what holds of all of it as long as no refresh runs before the first chunk   *)
(* is shown.                                                                 *)
WorkInv == TypeOK /\ Slices /\ Counted /\ IsFiniteSet(acc.rows)
IInv == WorkInv /\ Kept /\ RowsKept /\ OneExtraction /\ UnparsedListed
-----------------------------------------------------------------------------
(* Every slice takes a file at least, and no more than are left.              *)
LEMMA ShareIsLess ==
    ASSUME NEW k \in Nat \ {0}, NEW n \in Nat, n >= 2
    PROVE  (k + n - 1) \div n <= k
<1> DEFINE q == (k + n - 1) \div n
<1>1. q \in Int /\ n * q <= k + n - 1
  OBVIOUS
<1>2. ASSUME q >= k + 1 PROVE FALSE
  <2>1. n * q >= n * (k + 1)
    BY <1>1, <1>2
  <2>2. n * (k + 1) = n * k + n /\ n * k >= k
    OBVIOUS
  <2> QED BY <1>1, <2>1, <2>2
<1> QED BY <1>1, <1>2

LEMMA SliceBound ==
    ASSUME cursor \in 1..N, NEW b \in NextSlice
    PROVE  b.from = cursor /\ b.next = b.past /\ b.past \in (cursor + 1)..(N + 1)
<1>1. N \in Nat /\ NW \in Nat /\ NW >= 2 /\ CountCap \in Nat
  BY ExtractionAssumption
<1>2. PICK k \in 1..CapOf(N + 1 - cursor) : b = [from |-> cursor, past |-> cursor + k, next |-> cursor + k]
  BY DEF NextSlice
<1>3. (N + 1 - cursor + NW - 1) \div NW <= N + 1 - cursor
  BY <1>1, ShareIsLess
<1>4. (N + 1 - cursor + NW - 1) \div NW \in Int
  BY <1>1
<1>5. k \in Nat /\ k >= 1 /\ k <= N + 1 - cursor
  BY <1>1, <1>2, <1>3, <1>4 DEF CapOf
<1> QED BY <1>1, <1>2, <1>5
-----------------------------------------------------------------------------
(* What a chunk adds to a growing graph. A graph is good, for what the files  *)
(* held, if it has each file once, from one reading of it, and if its list of *)
(* unparsed files misses none and has none that was none.                     *)
Accs == [rows : SUBSET Rows, stamps : [Files -> Contents], unparsed : SUBSET Files,
         arrived : SUBSET Files, merges : Nat]
Single(a) ==
    /\ \A r, s \in a.rows : r.file = s.file => r = s
    /\ \A r \in a.rows : a.stamps[r.file] = r.text
Listed(a, held) ==
    /\ \A r \in a.rows : r.text \in Bundles => r.file \in a.unparsed
    /\ \A f \in a.unparsed : Bundles \cap held[f] # {}
Good(a, held) ==
    /\ IsFiniteSet(a.rows)
    /\ \A r \in a.rows : r.text \in held[r.file]
    /\ \A f \in a.arrived : Gone \in held[f] \/ \E r \in a.rows : r.file = f
    /\ \A r \in a.rows : r.file \in a.arrived /\ r.rank = 0
    /\ Single(a) /\ Listed(a, held)

LEMMA AccType == ASSUME WorkInv PROVE acc \in Accs /\ IsFiniteSet(acc.rows)
  BY DEF WorkInv, TypeOK, Accs

LEMMA GoodAcc ==
    ASSUME IInv
    PROVE  acc \in Accs /\ (phase # "done" => Good(acc, had)) /\ Single(acc) /\ Listed(acc, had)
  BY DEF IInv, WorkInv, TypeOK, Accs, RowsKept, OneExtraction, OncePerFile, UnparsedListed,
         Good, Single, Listed

LEMMA FilesFinite == IsFiniteSet(Files) /\ IsFiniteSet(Lanes) /\ N \in Nat /\ NW \in Nat
<1>1. N \in Nat /\ NW \in Nat
  BY ExtractionAssumption
<1> QED BY <1>1, FS_Interval DEF Files, Lanes

LEMMA ImageFinite == ASSUME NEW S, IsFiniteSet(S), NEW g PROVE IsFiniteSet({g[x] : x \in S})
<1> DEFINE T == {g[x] : x \in S}
<1>1. [x \in S |-> g[x]] \in Surjection(S, T)
  BY DEF Surjection
<1> QED BY <1>1, FS_Surjection

LEMMA OtherRows ==
    ASSUME NEW a \in Accs, NEW R
    PROVE  LET b == [a EXCEPT !.rows = R]
           IN  /\ b.rows = R /\ b.stamps = a.stamps /\ b.unparsed = a.unparsed
               /\ b.arrived = a.arrived /\ b.merges = a.merges
               /\ R \in SUBSET Rows => b \in Accs
  BY DEF Accs

LEMMA RowOf == ASSUME NEW f \in Files, NEW t \in Texts, NEW k \in 0..(N + 1), NEW n \in Nat
    PROVE  Row(f, t, k, n) \in Rows
  BY FilesFinite DEF Row, Rows

(* A chunk keeps the type of a graph, and its rows are finitely many.          *)
LEMMA MergeAccs ==
    ASSUME NEW a \in Accs, IsFiniteSet(a.rows), NEW c \in [Files -> Contents]
    PROVE  MergeChunk(a, c) \in Accs /\ IsFiniteSet(MergeChunk(a, c).rows)
<1> DEFINE b == MergeChunk(a, c)
           new == {f \in Files : c[f] \in Texts /\ f \notin a.arrived}
           R(f) == Row(f, c[f], 0, a.merges + 1)
           added == {R(f) : f \in new}
<1>1. /\ b.rows = a.rows \cup added
      /\ b.stamps = [f \in Files |-> IF f \in new THEN c[f] ELSE a.stamps[f]]
      /\ b.unparsed = a.unparsed \cup {f \in Files : c[f] \in Bundles}
      /\ b.arrived = a.arrived \cup new /\ b.merges = a.merges + 1
  BY DEF MergeChunk
<1>2. /\ a.rows \subseteq Rows /\ a.stamps \in [Files -> Contents] /\ a.unparsed \subseteq Files
      /\ a.arrived \subseteq Files /\ a.merges \in Nat
  BY DEF Accs
<1>3. b \in Accs
  <2>1. b = [rows |-> b.rows, stamps |-> b.stamps, unparsed |-> b.unparsed, arrived |-> b.arrived, merges |-> b.merges]
    BY DEF MergeChunk
  <2>2. b.rows \in SUBSET Rows
    <3>1. 0 \in 0..(N + 1)
      BY FilesFinite
    <3> QED BY <1>1, <1>2, <3>1, RowOf
  <2>3. b.stamps \in [Files -> Contents]
    BY <1>1, <1>2
  <2>4. b.unparsed \in SUBSET Files /\ b.arrived \in SUBSET Files /\ b.merges \in Nat
    BY <1>1, <1>2
  <2> QED BY <2>1, <2>2, <2>3, <2>4 DEF Accs
<1>4. IsFiniteSet(b.rows)
  <2>1. IsFiniteSet(new)
    BY FilesFinite, FS_Subset
  <2> DEFINE g == [f \in new |-> R(f)]
  <2>2. added = {g[f] : f \in new}
    OBVIOUS
  <2>3. b.rows = a.rows \cup added
    BY <1>1
  <2> HIDE DEF g, new, added, b
  <2>4. IsFiniteSet(added)
    BY <2>1, <2>2, ImageFinite, Zenon
  <2> QED BY <2>3, <2>4, FS_Union
<1> QED BY <1>3, <1>4

LEMMA MergeGood ==
    ASSUME NEW a \in Accs, NEW held, Good(a, held), NEW c \in [Files -> Contents],
           \A f \in Files : c[f] \in Texts => c[f] \in held[f]
    PROVE  LET b == MergeChunk(a, c)
           IN  /\ b \in Accs /\ Good(b, held)
               /\ a.arrived \subseteq b.arrived
               /\ \A f \in Files : c[f] \in Texts => f \in b.arrived
               /\ \A f \in b.arrived : f \in a.arrived \/ c[f] \in Texts
<1> DEFINE b == MergeChunk(a, c)
           new == {f \in Files : c[f] \in Texts /\ f \notin a.arrived}
           R(f) == Row(f, c[f], 0, a.merges + 1)
           added == {R(f) : f \in new}
<1>1. /\ b.rows = a.rows \cup added
      /\ b.stamps = [f \in Files |-> IF f \in new THEN c[f] ELSE a.stamps[f]]
      /\ b.unparsed = a.unparsed \cup {f \in Files : c[f] \in Bundles}
      /\ b.arrived = a.arrived \cup new /\ b.merges = a.merges + 1
  BY DEF MergeChunk
<1>2. /\ a.rows \subseteq Rows /\ a.stamps \in [Files -> Contents] /\ a.unparsed \subseteq Files
      /\ a.arrived \subseteq Files /\ a.merges \in Nat
  BY DEF Accs
<1>3. \A f \in new : R(f) \in Rows /\ R(f).file = f /\ R(f).text = c[f] /\ R(f).rank = 0
  <2>1. 0 \in 0..(N + 1)
    BY FilesFinite
  <2> QED BY <1>2, <2>1, RowOf DEF Row
<1>4. b \in Accs /\ IsFiniteSet(b.rows)
  BY MergeAccs DEF Good
<1>6. \A r \in b.rows : \/ r \in a.rows /\ r.file \in a.arrived
                        \/ r \in added /\ r.file \in new /\ r = R(r.file)
  BY <1>1, <1>3 DEF Good
<1>7. Single(b)
  <2>1. \A r, s \in b.rows : r.file = s.file => r = s
    BY <1>6 DEF Good, Single
  <2>2. ASSUME NEW r \in b.rows PROVE b.stamps[r.file] = r.text
    <3>1. CASE r \in a.rows /\ r.file \in a.arrived
      BY <3>1, <1>1, <1>2 DEF Good, Single, Rows
    <3>2. CASE r \in added /\ r.file \in new /\ r = R(r.file)
      <4>1. r.text = c[r.file]
        BY <3>2, <1>3
      <4> QED BY <3>2, <4>1, <1>1
    <3> QED BY <1>6, <3>1, <3>2
  <2> QED BY <2>1, <2>2 DEF Single
<1>8. \A r \in b.rows : r.text \in held[r.file] /\ r.file \in b.arrived /\ r.rank = 0
  BY <1>1, <1>3, <1>6 DEF Good
<1>9. \A f \in b.arrived : Gone \in held[f] \/ \E r \in b.rows : r.file = f
  BY <1>1, <1>3 DEF Good
<1>10. /\ a.arrived \subseteq b.arrived
       /\ \A f \in Files : c[f] \in Texts => f \in b.arrived
       /\ \A f \in b.arrived : f \in a.arrived \/ c[f] \in Texts
  BY <1>1
<1>11. Listed(b, held)
  <2>1. \A r \in b.rows : r.text \in Bundles => r.file \in b.unparsed
    <3> SUFFICES ASSUME NEW r \in b.rows, r.text \in Bundles PROVE r.file \in b.unparsed
      OBVIOUS
    <3>1. CASE r \in a.rows
      BY <3>1, <1>1 DEF Good, Listed
    <3>2. CASE r.file \in new /\ r = R(r.file)
      <4>1. c[r.file] = r.text
        BY <3>2, <1>3
      <4> QED BY <3>2, <4>1, <1>1
    <3> QED BY <1>6, <3>1, <3>2
  <2>2. \A f \in b.unparsed : Bundles \cap held[f] # {}
    <3>1. Bundles \subseteq Texts
      BY ExtractionAssumption
    <3> QED BY <1>1, <3>1 DEF Good, Listed
  <2> QED BY <2>1, <2>2 DEF Listed
<1>12. Good(b, held)
  BY <1>4, <1>7, <1>8, <1>9, <1>11 DEF Good
<1> QED BY <1>4, <1>10, <1>12

(* Extracting files now gives what they hold now.                             *)
LEMMA ChunkHeld ==
    ASSUME WorkInv, NEW F \in SUBSET Files
    PROVE  /\ ChunkOf(F) \in [Files -> Contents]
           /\ \A f \in Files : ChunkOf(F)[f] \in Texts => ChunkOf(F)[f] \in had[f]
           /\ \A f \in F : ChunkOf(F)[f] \in Texts \/ Gone \in had[f]
<1>1. Gone \notin Texts /\ Contents = Texts \cup {Gone}
  BY ExtractionAssumption DEF Contents
<1>2. disk \in [Files -> Contents] /\ \A f \in Files : disk[f] \in had[f]
  BY DEF WorkInv, TypeOK, Slices
<1> QED BY <1>1, <1>2 DEF ChunkOf

(* A chunk is what the files held when its worker read them.                  *)
LEMMA AnswerHeld ==
    ASSUME WorkInv, NEW l \in Lanes
    PROVE  /\ lane[l].chunk \in [Files -> Contents]
           /\ \A f \in Files : lane[l].chunk[f] \in Texts => lane[l].chunk[f] \in had[f]
  BY DEF WorkInv, TypeOK, Slices

-----------------------------------------------------------------------------
(* Handing the graph over: sorted, its rows are those it had.                 *)
LEMMA SortedAccs ==
    ASSUME NEW a \in Accs, IsFiniteSet(a.rows)
    PROVE  LET b == Canonicalize(a)
           IN  b \in Accs /\ IsFiniteSet(b.rows) /\ b.merges = a.merges
<1> DEFINE b == Canonicalize(a)
           S(r) == Row(r.file, r.text, r.file, r.turn)
<1>1. /\ b.rows = {S(r) : r \in a.rows} /\ b.merges = a.merges
      /\ b.rows \in SUBSET Rows => b \in Accs
  BY OtherRows DEF Canonicalize
<1>2. \A r \in a.rows : S(r) \in Rows
  BY FilesFinite DEF Accs, Rows, Row, Files
<1>3. IsFiniteSet(b.rows)
  <2> DEFINE R == a.rows
             g == [r \in R |-> S(r)]
  <2>1. b.rows = {g[r] : r \in R}
    BY <1>1
  <2> HIDE DEF g, b, R
  <2>2. IsFiniteSet({g[r] : r \in R})
    BY ImageFinite DEF R
  <2> QED BY <2>1, <2>2
<1> QED BY <1>1, <1>2, <1>3

LEMMA SortedRows ==
    ASSUME NEW a \in Accs, Good(a, had)
    PROVE  LET b == Canonicalize(a)
           IN  /\ b \in Accs /\ IsFiniteSet(b.rows) /\ Single(b) /\ Listed(b, had)
               /\ b.arrived = a.arrived
               /\ \A r \in b.rows : r.text \in had[r.file] /\ r.rank = r.file
               /\ \A f \in a.arrived : Gone \in had[f] \/ \E r \in b.rows : r.file = f
<1> DEFINE b == Canonicalize(a)
           S(r) == Row(r.file, r.text, r.file, r.turn)
<1>1. /\ b.rows = {S(r) : r \in a.rows} /\ b.stamps = a.stamps /\ b.unparsed = a.unparsed
      /\ b.arrived = a.arrived /\ b.merges = a.merges
      /\ b.rows \in SUBSET Rows => b \in Accs
  BY OtherRows DEF Canonicalize
<1>2. a.rows \subseteq Rows
  BY DEF Accs
<1>3. \A r \in a.rows : /\ S(r) \in Rows /\ S(r).file = r.file /\ S(r).text = r.text /\ S(r).rank = r.file
                        /\ r.file \in Files
  BY <1>2, FilesFinite DEF Rows, Row, Files
<1>4. b \in Accs /\ IsFiniteSet(b.rows)
  BY SortedAccs DEF Good
<1>6. Single(b) /\ Listed(b, had)
  BY <1>1, <1>3 DEF Good, Single, Listed
<1>7. \A r \in b.rows : r.text \in had[r.file] /\ r.rank = r.file
  BY <1>1, <1>3 DEF Good
<1>8. \A f \in a.arrived : Gone \in had[f] \/ \E r \in b.rows : r.file = f
  BY <1>1, <1>3 DEF Good
<1> QED BY <1>1, <1>4, <1>6, <1>7, <1>8

(* What the store's indexes hold is counted.                                  *)
LEMMA CountsType ==
    ASSUME NEW R, IsFiniteSet(R), NEW f PROVE Cardinality({r \in R : r.file = f}) \in Nat
<1>1. {r \in R : r.file = f} \in SUBSET R
  OBVIOUS
<1> QED BY <1>1, FS_Subset, FS_CardinalityType

LEMMA IngestType ==
    ASSUME TypeOK, NEW a \in Accs, IsFiniteSet(a.rows), Ingest(a) \/ IngestStep(a)
    PROVE  shown' \in [Files -> Nat] /\ ing' \in Nat
<1>1. a.merges \in Nat /\ shown \in [Files -> Nat]
  BY DEF Accs, TypeOK
<1>2. CASE Ingest(a)
  <2>1. \A f \in Files : Cardinality({r \in a.rows : r.file = f}) \in Nat
    BY CountsType, Zenon
  <2> QED BY <1>1, <1>2, <2>1 DEF Ingest
<1>3. CASE IngestStep(a)
  <2> DEFINE C(f) == Cardinality({r \in a.rows : r.file = f /\ r.turn > ing})
  <2>1. ASSUME NEW f \in Files PROVE C(f) \in Nat
    <3>1. {r \in a.rows : r.file = f /\ r.turn > ing} \in SUBSET a.rows
      OBVIOUS
    <3> QED BY <3>1, FS_Subset, FS_CardinalityType
  <2>2. shown' = [f \in Files |-> shown[f] + C(f)] /\ ing' = a.merges
    BY <1>3 DEF IngestStep
  <2> HIDE DEF C
  <2> QED BY <1>1, <2>1, <2>2
<1> QED BY <1>2, <1>3
-----------------------------------------------------------------------------
(* Lanes as Slices has them.                                                  *)
LaneType == [from : Nat, at : Nat, past : Nat, chunk : [Files -> Contents]]
SliceOf(l) ==
    /\ 1 <= lane[l].from /\ lane[l].from <= lane[l].at
    /\ lane[l].at <= lane[l].past /\ lane[l].past <= cursor
    /\ \A f \in Files : lane[l].chunk[f] \in Texts => lane[l].chunk[f] \in had[f]
    /\ \A i \in Files : lane[l].from <= i /\ i < lane[l].at => lane[l].chunk[order[i]] \in had[order[i]]

LEMMA Parameters ==
    /\ N \in Nat /\ NW \in Nat /\ NW >= 2 /\ NW <= N
    /\ Gone \notin Texts /\ Bundles \subseteq Texts /\ Contents = Texts \cup {Gone}
    /\ Gone \in Contents /\ Files = 1..N /\ Lanes = 1..NW
    /\ \A o \in Orders : o \in [Files -> Files] /\ \A f \in Files : \E i \in Files : o[i] = f
<1>1. N \in Nat /\ NW \in 2..N /\ Gone \notin Texts /\ Bundles \subseteq Texts
  BY ExtractionAssumption
<1>2. \A o \in Orders : o \in [Files -> Files]
  BY ExtractionAssumption
<1>3. \A o \in Orders : \A f \in Files : \E i \in Files : o[i] = f
  BY ExtractionAssumption
<1> QED BY <1>1, <1>2, <1>3 DEF Contents, Files, Lanes

LEMMA BusyCount == IsFiniteSet(BusyLanes) /\ Cardinality(BusyLanes) \in 0..NW
<1>1. BusyLanes \in SUBSET Lanes
  BY DEF BusyLanes
<1>2. Cardinality(Lanes) = NW
  BY FilesFinite, Parameters, FS_Interval DEF Lanes
<1>3. IsFiniteSet(BusyLanes) /\ Cardinality(BusyLanes) <= Cardinality(Lanes)
  BY <1>1, FilesFinite, FS_Subset
<1>4. Cardinality(BusyLanes) \in Nat
  BY <1>3, FS_CardinalityType
<1> QED BY <1>2, <1>3, <1>4, Parameters

LEMMA Initially == ASSUME Init PROVE IInv
<1> USE DEF Init
<1>1. TypeOK
  <2>1. Idle \in LaneType
    BY Parameters DEF Idle, LaneType
  <2>2. lane \in [Lanes -> LaneType]
    BY <2>1
  <2>3. acc \in Accs
    BY Parameters DEF Accs
  <2>4. disk \in [Files -> Contents] /\ had \in [Files -> SUBSET Contents]
    BY ExtractionAssumption
  <2>5. /\ changes \in 0..MaxChanges /\ holds \in 0..MaxHolds /\ inflight \in 0..NW
        /\ cursor \in 1..(N + 1)
    BY ExtractionAssumption, Parameters
  <2>6. shown \in [Files -> Nat]
    OBVIOUS
  <2>7. /\ order \in Orders /\ saved \subseteq Files /\ failed \subseteq Files /\ done \in Nat /\ ing \in Nat
        /\ phase \in {"starting", "parsing", "done"}
        /\ partial \in BOOLEAN /\ dirty \in BOOLEAN /\ pending \in BOOLEAN
    OBVIOUS
  <2> HIDE DEF Init
  <2> QED BY <2>2, <2>3, <2>4, <2>5, <2>6, <2>7 DEF TypeOK, LaneType, Accs
<1>2. Slices
  <2>1. \A l \in Lanes : /\ lane[l].from = 1 /\ lane[l].at = 1 /\ lane[l].past = 1
                         /\ \A f \in Files : lane[l].chunk[f] = Gone
    BY DEF Idle
  <2>2. cursor = 1 /\ Gone \notin Texts /\ \A f \in Files : disk[f] \in had[f]
    BY Parameters
  <2>3. \A i \in Files : i \in Int
    BY Parameters
  <2> HIDE DEF Init
  <2> QED BY <2>1, <2>2, <2>3 DEF Slices
<1>3. Counted
  <2>1. BusyLanes = {}
    BY DEF BusyLanes, Busy, Idle
  <2> QED BY <2>1, FS_EmptySet, Parameters DEF Counted, Busy, Idle
<1>4. Kept
  BY Parameters DEF Kept
<1>5. RowsKept /\ OneExtraction /\ UnparsedListed /\ IsFiniteSet(acc.rows)
  BY FS_EmptySet DEF RowsKept, OneExtraction, OncePerFile, UnparsedListed
<1> QED BY <1>1, <1>2, <1>3, <1>4, <1>5 DEF IInv, WorkInv

(* A lane that is given a slice has all that leaves the queue.                *)
LEMMA PullKeeps ==
    ASSUME WorkInv, NEW l \in Lanes, Pull(l), UNCHANGED <<disk, had, order>>
    PROVE  /\ cursor' \in (cursor + 1)..(N + 1) /\ lane' \in [Lanes -> LaneType]
           /\ lane'[l].from = cursor /\ lane'[l].past = cursor'
           /\ \A k \in Lanes \ {l} : lane'[k] = lane[k]
           /\ \A i \in Files : i < cursor' => i < cursor \/ With(l, i)'
           /\ Slices'
<1>1. PICK b \in NextSlice :
        /\ cursor' = b.next
        /\ lane' = [lane EXCEPT ![l] = [from |-> b.from, at |-> b.from, past |-> b.past,
                                        chunk |-> [f \in Files |-> Gone]]]
  BY DEF Pull
<1>2. cursor \in 1..N /\ lane \in [Lanes -> LaneType]
  <2>1. N \in Nat /\ cursor \in 1..(N + 1) /\ cursor <= N
    BY Parameters DEF WorkInv, TypeOK, Pull
  <2> QED BY <2>1 DEF WorkInv, TypeOK, LaneType
<1>3. b.from = cursor /\ b.next = b.past /\ b.past \in (cursor + 1)..(N + 1)
  BY <1>2, SliceBound
<1>4. lane'[l] = [from |-> cursor, at |-> cursor, past |-> cursor', chunk |-> [f \in Files |-> Gone]]
  BY <1>1, <1>2, <1>3
<1>5. cursor' \in (cursor + 1)..(N + 1) /\ cursor' \in Nat
  BY <1>1, <1>2, <1>3, Parameters
<1>6. lane'[l] \in LaneType
  BY <1>2, <1>4, <1>5, Parameters DEF LaneType
<1>7. \A k \in Lanes \ {l} : lane'[k] = lane[k]
  BY <1>1, <1>2
<1>8. lane' \in [Lanes -> LaneType]
  BY <1>1, <1>2, <1>4, <1>6
<1>9. Slices'
  <2>1. \A f \in Files : (disk[f] \in had[f])'
    BY DEF WorkInv, Slices
  <2>2. ASSUME NEW k \in Lanes PROVE SliceOf(k)'
    <3>1. CASE k = l
      BY <3>1, <1>2, <1>4, <1>5, Parameters DEF SliceOf
    <3>2. CASE k # l
      <4>1. SliceOf(k) /\ lane'[k] = lane[k] /\ lane[k].past \in Nat
        BY <3>2, <1>2, <1>7 DEF WorkInv, Slices, SliceOf, LaneType
      <4> QED BY <4>1, <1>2, <1>5 DEF SliceOf
    <3> QED BY <3>1, <3>2
  <2> QED BY <2>1, <2>2 DEF Slices, SliceOf
<1>10. \A i \in Files : i < cursor' => i < cursor \/ With(l, i)'
  BY <1>2, <1>4, <1>5, Parameters DEF With
<1> QED BY <1>4, <1>5, <1>7, <1>8, <1>9, <1>10

LEMMA StartLaneKeeps == ASSUME WorkInv, StartLane PROVE WorkInv' /\ (IInv => IInv')
<1>1. /\ phase = "starting" /\ Pull(inflight + 1) /\ inflight' = inflight + 1
      /\ inflight \in Nat /\ inflight < NW /\ cursor <= N
      /\ phase' = IF inflight' = NW \/ cursor' > N THEN "parsing" ELSE "starting"
      /\ UNCHANGED <<disk, had, changes, saved, order, failed, done, acc, shown, ing, partial, dirty, pending, holds>>
  BY Parameters DEF StartLane, WorkInv, TypeOK, Counted, world, store, timer
<1>2. PICK l \in Lanes : l = inflight + 1
  BY <1>1, Parameters
<1>3. /\ cursor' \in (cursor + 1)..(N + 1) /\ lane' \in [Lanes -> LaneType]
      /\ lane'[l].from = cursor /\ lane'[l].past = cursor'
      /\ \A k \in Lanes \ {l} : lane'[k] = lane[k]
      /\ \A i \in Files : i < cursor' => i < cursor \/ With(l, i)'
      /\ Slices'
  <2>1. Pull(l)
    BY <1>1, <1>2
  <2> QED BY <1>1, <2>1, PullKeeps
<1>4. cursor \in Nat /\ lane \in [Lanes -> LaneType] /\ cursor' \in 1..(N + 1)
  <2>1. N \in Nat /\ cursor \in 1..(N + 1)
    BY Parameters DEF WorkInv, TypeOK
  <2> QED BY <1>3, <2>1 DEF WorkInv, TypeOK, LaneType
<1>5. TypeOK'
  <2>1. inflight' \in 0..NW
    BY <1>1, Parameters
  <2>2. phase' \in {"starting", "parsing", "done"}
    BY <1>1
  <2> QED BY <1>1, <1>3, <1>4, <2>1, <2>2 DEF WorkInv, TypeOK, LaneType
<1>6. Counted'
  <2>1. \A k \in Lanes : Busy(k)' <=> (Busy(k) \/ k = l)
    BY <1>3, <1>4 DEF Busy
  <2>2. \A k \in Lanes : Busy(k) <=> k <= inflight
    BY <1>1 DEF WorkInv, Counted
  <2>3. l \notin BusyLanes /\ BusyLanes' = BusyLanes \cup {l}
    <3>1. ~Busy(l)
      BY <1>1, <1>2, <2>2
    <3> QED BY <1>2, <2>1, <3>1 DEF BusyLanes
  <2>4. Cardinality(BusyLanes') = inflight + 1
    BY <2>3, BusyCount, FS_AddElement DEF WorkInv, Counted
  <2>5. \A k \in Lanes : Busy(k)' <=> k <= inflight'
    <3>1. \A k \in Lanes : k \in Int
      BY Parameters
    <3>2. \A k \in Lanes : (k <= inflight \/ k = l) <=> k <= inflight'
      BY <1>1, <1>2, <3>1
    <3> QED BY <2>1, <2>2, <3>2
  <2>6. phase' = "starting" => inflight' < NW /\ cursor' <= N
    BY <1>1, <1>4, Parameters
  <2> QED BY <1>1, <2>4, <2>5, <2>6 DEF Counted
<1>7. ASSUME IInv PROVE Kept'
  <2>1. \A k \in Lanes, i \in Files : With(k, i) => With(k, i)' \/ k = l
    BY <1>3 DEF With
  <2>2. \A i \in Files : ~With(l, i)
    BY <1>1, <1>2, <1>4, Parameters, SMTT(30) DEF WorkInv, Counted, Busy, With, LaneType
  <2>3. \A i \in Files : i < cursor => \/ \E k \in Lanes : With(k, i)
                                       \/ order[i] \in failed \cup acc.arrived
                                       \/ Gone \in had[order[i]]
    BY <1>1, <1>7 DEF IInv, Kept
  <2>4. ASSUME NEW i \in Files, i < cursor'
        PROVE  \/ \E k \in Lanes : With(k, i)'
               \/ (order[i] \in failed \cup acc.arrived \/ Gone \in had[order[i]])'
    <3>1. CASE With(l, i)'
      BY <3>1
    <3>2. CASE i < cursor
      BY <3>2, <1>1, <2>1, <2>2, <2>3
    <3> QED BY <1>3, <2>4, <3>1, <3>2
  <2> QED BY <2>4 DEF Kept
<1>8. IInv => RowsKept' /\ OneExtraction' /\ UnparsedListed'
  BY <1>1 DEF IInv, RowsKept, OneExtraction, OncePerFile, UnparsedListed
<1>9. IsFiniteSet(acc.rows)'
  BY <1>1 DEF WorkInv
<1> QED BY <1>3, <1>5, <1>6, <1>7, <1>8, <1>9 DEF IInv, WorkInv

LEMMA ReadKeeps == ASSUME WorkInv, NEW l \in Lanes, Read(l) PROVE WorkInv' /\ (IInv => IInv')
<1> DEFINE g == order[lane[l].at]
           now == [lane[l] EXCEPT !.at = @ + 1, !.chunk[g] = disk[g]]
<1>1. /\ Busy(l) /\ lane[l].at < lane[l].past /\ lane' = [lane EXCEPT ![l].at = @ + 1, ![l].chunk[g] = disk[g]]
      /\ UNCHANGED <<disk, had, changes, saved, order, cursor, inflight, failed, done, phase, acc,
                     shown, ing, partial, dirty, pending, holds>>
  BY DEF Read, world, store, timer
<1>2. /\ lane \in [Lanes -> LaneType] /\ lane[l] \in LaneType /\ cursor \in 1..(N + 1)
      /\ disk \in [Files -> Contents] /\ order \in [Files -> Files] /\ SliceOf(l)
      /\ \A f \in Files : disk[f] \in had[f]
  BY Parameters DEF WorkInv, TypeOK, Slices, SliceOf, LaneType
<1>3. lane[l].at \in Files /\ g \in Files /\ disk[g] \in had[g] /\ disk[g] \in Contents
  <2>1. /\ lane[l].at \in Nat /\ lane[l].past \in Nat /\ lane[l].from \in Nat
        /\ 1 <= lane[l].from /\ lane[l].from <= lane[l].at /\ lane[l].past <= cursor
    BY <1>2 DEF SliceOf, LaneType
  <2>2. lane[l].at \in Files
    BY <1>1, <1>2, <2>1, Parameters
  <2> QED BY <1>2, <2>2
<1>4. /\ lane'[l].from = lane[l].from /\ lane'[l].past = lane[l].past /\ lane'[l].at = lane[l].at + 1
      /\ lane'[l].chunk = [lane[l].chunk EXCEPT ![g] = disk[g]]
      /\ \A k \in Lanes \ {l} : lane'[k] = lane[k]
      /\ lane'[l] \in LaneType /\ lane' \in [Lanes -> LaneType]
  <2>1. /\ lane[l].chunk \in [Files -> Contents]
        /\ lane[l] = [from |-> lane[l].from, at |-> lane[l].at, past |-> lane[l].past, chunk |-> lane[l].chunk]
    BY <1>2 DEF LaneType
  <2>2. lane'[l] = [from |-> lane[l].from, at |-> lane[l].at + 1, past |-> lane[l].past,
                    chunk |-> [lane[l].chunk EXCEPT ![g] = disk[g]]]
    BY <1>1, <1>2, <2>1 DEF LaneType
  <2>3. [lane[l].chunk EXCEPT ![g] = disk[g]] \in [Files -> Contents]
    BY <1>3, <2>1
  <2>4. \A k \in Lanes \ {l} : lane'[k] = lane[k]
    BY <1>1, <1>2
  <2>5. lane'[l] \in LaneType
    BY <1>2, <2>2, <2>3 DEF LaneType
  <2>6. lane' \in [Lanes -> LaneType]
    BY <1>1, <1>2, <2>4, <2>5
  <2> QED BY <2>2, <2>4, <2>5, <2>6
<1>5. TypeOK'
  BY <1>1, <1>4 DEF WorkInv, TypeOK, LaneType
<1>6. Slices'
  <2>1. SliceOf(l)'
    <3> DEFINE c == lane[l].chunk
    <3>1. c \in [Files -> Contents] /\ lane[l].at \in Nat /\ lane[l].from \in Nat /\ lane[l].past \in Nat
      BY <1>2 DEF LaneType
    <3>2. /\ lane'[l].chunk[g] = disk[g]
          /\ \A f \in Files \ {g} : lane'[l].chunk[f] = c[f]
      BY <1>3, <1>4, <3>1
    <3>3. \A f \in Files : lane'[l].chunk[f] \in Texts => lane'[l].chunk[f] \in had'[f]
      BY <1>1, <1>2, <1>3, <3>2 DEF SliceOf
    <3>4. ASSUME NEW i \in Files, lane[l].from <= i, i < lane[l].at + 1
          PROVE  lane'[l].chunk[order'[i]] \in had'[order'[i]]
      <4>1. i = lane[l].at \/ i < lane[l].at
        BY <3>1, <3>4, Parameters
      <4>2. order[i] \in Files /\ order' = order /\ had' = had
        BY <1>1, <1>2
      <4>3. i < lane[l].at => c[order[i]] \in had[order[i]]
        BY <1>2, <3>4 DEF SliceOf
      <4> QED BY <1>3, <3>2, <4>1, <4>2, <4>3
    <3>5. /\ 1 <= lane[l].from /\ lane[l].from <= lane[l].at + 1 /\ lane[l].at + 1 <= lane[l].past
          /\ lane[l].past <= cursor
      BY <1>1, <1>2, <3>1 DEF SliceOf
    <3> QED BY <1>1, <1>4, <3>3, <3>4, <3>5 DEF SliceOf
  <2>2. \A k \in Lanes \ {l} : SliceOf(k)'
    BY <1>1, <1>4 DEF WorkInv, Slices, SliceOf
  <2>3. \A f \in Files : (disk[f] \in had[f])'
    BY <1>1 DEF WorkInv, Slices
  <2> QED BY <2>1, <2>2, <2>3 DEF Slices, SliceOf
<1>7. \A k \in Lanes : /\ Busy(k)' <=> Busy(k)
                       /\ \A i \in Files : With(k, i)' <=> With(k, i)
  BY <1>4 DEF Busy, With
<1>8. Counted'
  <2>1. BusyLanes' = BusyLanes
    BY <1>7 DEF BusyLanes
  <2> QED BY <1>1, <1>7, <2>1 DEF WorkInv, Counted
<1>9. IInv => Kept'
  BY <1>1, <1>7 DEF IInv, Kept
<1>10. IInv => RowsKept' /\ OneExtraction' /\ UnparsedListed'
  BY <1>1 DEF IInv, RowsKept, OneExtraction, OncePerFile, UnparsedListed
<1>11. IsFiniteSet(acc.rows)'
  BY <1>1 DEF WorkInv
<1> QED BY <1>5, <1>6, <1>8, <1>9, <1>10, <1>11 DEF IInv, WorkInv
-----------------------------------------------------------------------------
(* The last worker's lane is the only one that has a slice.                   *)
LEMMA OnlyLane ==
    ASSUME WorkInv, inflight = 1, NEW l \in Lanes, Busy(l)
    PROVE  \A k \in Lanes : Busy(k) => k = l
<1>1. IsFiniteSet(BusyLanes) /\ Cardinality(BusyLanes) = 1
  BY BusyCount DEF WorkInv, Counted
<1>2. PICK x : BusyLanes = {x}
  BY <1>1, FS_Singleton
<1> QED BY <1>2 DEF BusyLanes

(* The lanes after a worker's end: its lane has the next slice, or is idle    *)
(* when there is none.                                                        *)
LEMMA NextLanes ==
    ASSUME WorkInv, NEW l \in Lanes, Busy(l), UNCHANGED <<disk, had, order>>,
           \/ Pull(l)
           \/ cursor > N /\ lane' = [lane EXCEPT ![l] = Idle] /\ UNCHANGED cursor
    PROVE  /\ cursor' \in 1..(N + 1) /\ lane' \in [Lanes -> LaneType]
           /\ \A k \in Lanes \ {l} : lane'[k] = lane[k]
           /\ \A i \in Files : i < cursor' => i < cursor \/ With(l, i)'
           /\ Slices'
           /\ Busy(l)' <=> cursor <= N
<1>1. cursor \in 1..(N + 1) /\ lane \in [Lanes -> LaneType] /\ N \in Nat
  BY Parameters DEF WorkInv, TypeOK, LaneType
<1>2. CASE Pull(l)
  <2>1. /\ cursor' \in (cursor + 1)..(N + 1) /\ lane' \in [Lanes -> LaneType]
        /\ lane'[l].from = cursor /\ lane'[l].past = cursor'
        /\ \A k \in Lanes \ {l} : lane'[k] = lane[k]
        /\ \A i \in Files : i < cursor' => i < cursor \/ With(l, i)'
        /\ Slices'
    BY <1>2, PullKeeps
  <2>2. cursor <= N
    BY <1>2 DEF Pull
  <2>3. Busy(l)' /\ cursor' \in 1..(N + 1)
    BY <1>1, <2>1 DEF Busy
  <2> QED BY <2>1, <2>2, <2>3
<1>3. CASE cursor > N /\ lane' = [lane EXCEPT ![l] = Idle] /\ UNCHANGED cursor
  <2>1. /\ Idle \in LaneType /\ Idle.from = 1 /\ Idle.at = 1 /\ Idle.past = 1
        /\ \A f \in Files : Idle.chunk[f] = Gone
    BY Parameters DEF Idle, LaneType
  <2>2. lane'[l] = Idle /\ \A k \in Lanes \ {l} : lane'[k] = lane[k]
    BY <1>1, <1>3
  <2>3. lane' \in [Lanes -> LaneType]
    BY <1>1, <1>3, <2>1
  <2>4. Slices'
    <3>1. \A f \in Files : (disk[f] \in had[f])'
      BY DEF WorkInv, Slices
    <3>2. ASSUME NEW k \in Lanes PROVE SliceOf(k)'
      <4>1. CASE k = l
        <5>1. \A i \in Files : ~(1 <= i /\ i < 1)
          BY Parameters
        <5>2. 1 <= cursor'
          BY <1>1, <1>3
        <5> QED BY <4>1, <2>1, <2>2, <5>1, <5>2, Parameters DEF SliceOf
      <4>2. CASE k # l
        <5>1. SliceOf(k) /\ lane'[k] = lane[k]
          BY <4>2, <2>2 DEF WorkInv, Slices, SliceOf
        <5> QED BY <5>1, <1>3 DEF SliceOf
      <4> QED BY <4>1, <4>2
    <3> QED BY <3>1, <3>2 DEF Slices, SliceOf
  <2>5. ~Busy(l)' /\ ~(cursor <= N)
    BY <1>1, <1>3, <2>1, <2>2 DEF Busy
  <2> QED BY <1>1, <1>3, <2>2, <2>3, <2>4, <2>5
<1> QED BY <1>2, <1>3

(* The end of a worker, whatever it brings.                                   *)
LEMMA EndedWorks ==
    ASSUME WorkInv, NEW l \in Lanes, NEW a \in Accs, IsFiniteSet(a.rows), NEW F \in SUBSET Files,
           Ended(l, a, F)
    PROVE  WorkInv'
<1>1. /\ phase = "parsing" /\ Busy(l) /\ failed' = F /\ dirty' = TRUE /\ pending' = TRUE
      /\ done' = done + (lane[l].past - lane[l].from)
      /\ inflight' = (inflight - 1) + (IF cursor <= N THEN 1 ELSE 0)
      /\ \/ Pull(l)
         \/ cursor > N /\ lane' = [lane EXCEPT ![l] = Idle] /\ UNCHANGED cursor
      /\ UNCHANGED <<disk, had, changes, saved, order, holds>>
  BY DEF Ended, InflightNow, world
<1>2. /\ cursor' \in 1..(N + 1) /\ lane' \in [Lanes -> LaneType]
      /\ \A k \in Lanes \ {l} : lane'[k] = lane[k]
      /\ Slices'
      /\ Busy(l)' <=> cursor <= N
  BY <1>1, NextLanes
<1>3. \/ IsLast /\ FinishPhase1(a, F)
      \/ ~IsLast /\ acc' = a /\ UNCHANGED <<phase, shown, ing, partial>>
  BY DEF Ended, store
<1>4. /\ inflight' = Cardinality(BusyLanes') /\ inflight' \in 0..NW
  <2>1. l \in BusyLanes /\ IsFiniteSet(BusyLanes) /\ Cardinality(BusyLanes) \in 0..NW
    BY <1>1, BusyCount DEF BusyLanes
  <2>2. Cardinality(BusyLanes \ {l}) = Cardinality(BusyLanes) - 1 /\ Cardinality(BusyLanes) # 0
    BY <2>1, FS_RemoveElement, FS_EmptySet
  <2>3. \A k \in Lanes \ {l} : Busy(k)' <=> Busy(k)
    BY <1>2 DEF Busy
  <2>4. BusyLanes' = IF cursor <= N THEN BusyLanes ELSE BusyLanes \ {l}
    BY <1>1, <1>2, <2>3 DEF BusyLanes
  <2>5. inflight = Cardinality(BusyLanes) /\ NW \in Nat
    BY Parameters DEF WorkInv, Counted
  <2> QED BY <1>1, <2>1, <2>2, <2>4, <2>5
<1>5. done' \in Nat
  <2>1. /\ lane[l].past \in Nat /\ lane[l].from \in Nat /\ lane[l].from < lane[l].past /\ done \in Nat
    BY <1>1 DEF WorkInv, TypeOK, Busy
  <2> QED BY <1>1, <2>1
<1>6. CASE ~IsLast /\ acc' = a /\ UNCHANGED <<phase, shown, ing, partial>>
  <2>1. TypeOK'
    BY <1>1, <1>2, <1>4, <1>5, <1>6 DEF WorkInv, TypeOK, LaneType, Accs
  <2>2. Counted'
    BY <1>1, <1>4, <1>6 DEF Counted
  <2> QED BY <1>2, <1>6, <2>1, <2>2 DEF WorkInv
<1>7. CASE IsLast /\ FinishPhase1(a, F)
  <2> DEFINE b == IF F = {} THEN a ELSE MergeChunk(a, ChunkOf(F))
  <2>1. acc' = Canonicalize(b) /\ phase' = "done" /\ Ingest(acc') /\ partial' = FALSE
    BY <1>7 DEF FinishPhase1
  <2>2. b \in Accs /\ IsFiniteSet(b.rows)
    <3>1. PICK c \in [Files -> Contents] : c = ChunkOf(F)
      BY ChunkHeld
    <3>2. MergeChunk(a, c) \in Accs /\ IsFiniteSet(MergeChunk(a, c).rows)
      BY MergeAccs
    <3> QED BY <3>1, <3>2
  <2> HIDE DEF b
  <2>3. PICK d \in Accs : d = Canonicalize(b) /\ IsFiniteSet(d.rows)
    BY <2>2, SortedAccs
  <2>4. acc' = d /\ Ingest(d)
    BY <2>1, <2>3
  <2>5. shown' \in [Files -> Nat] /\ ing' \in Nat
    BY <2>3, <2>4, IngestType DEF WorkInv
  <2>6. TypeOK'
    BY <1>1, <1>2, <1>4, <1>5, <2>1, <2>4, <2>5 DEF WorkInv, TypeOK, LaneType, Accs
  <2>7. Counted'
    BY <1>4, <2>1 DEF Counted
  <2> QED BY <1>2, <2>3, <2>4, <2>6, <2>7 DEF WorkInv
<1> QED BY <1>3, <1>6, <1>7

LEMMA EndedKeeps ==
    ASSUME IInv, NEW l \in Lanes, NEW a \in Accs, NEW F \in SUBSET Files,
           Good(a, had), acc.arrived \subseteq a.arrived, failed \subseteq F,
           \A i \in Files : With(l, i) => order[i] \in F \cup a.arrived \/ Gone \in had[order[i]],
           Ended(l, a, F)
    PROVE  IInv'
<1>1. /\ phase = "parsing" /\ Busy(l) /\ failed' = F /\ dirty' = TRUE /\ pending' = TRUE
      /\ done' = done + (lane[l].past - lane[l].from)
      /\ inflight' = (inflight - 1) + (IF cursor <= N THEN 1 ELSE 0)
      /\ \/ Pull(l)
         \/ cursor > N /\ lane' = [lane EXCEPT ![l] = Idle] /\ UNCHANGED cursor
      /\ UNCHANGED <<disk, had, changes, saved, order, holds>>
  BY DEF Ended, InflightNow, world
<1>2. /\ cursor' \in 1..(N + 1) /\ lane' \in [Lanes -> LaneType]
      /\ \A k \in Lanes \ {l} : lane'[k] = lane[k]
      /\ \A i \in Files : i < cursor' => i < cursor \/ With(l, i)'
      /\ Slices'
      /\ Busy(l)' <=> cursor <= N
  BY <1>1, NextLanes DEF IInv
<1>3. \/ IsLast /\ FinishPhase1(a, F)
      \/ ~IsLast /\ acc' = a /\ UNCHANGED <<phase, shown, ing, partial>>
  BY DEF Ended, store
<1>4. WorkInv'
  BY EndedWorks DEF IInv, Good
<1>6. \A i \in Files : i < cursor => \/ \E k \in Lanes \ {l} : With(k, i)
                                     \/ order[i] \in F \cup a.arrived
                                     \/ Gone \in had[order[i]]
  BY <1>1 DEF IInv, Kept
<1>7. CASE ~IsLast /\ acc' = a /\ UNCHANGED <<phase, shown, ing, partial>>
  <2>3. Kept'
    <3>1. \A k \in Lanes \ {l}, i \in Files : With(k, i) => With(k, i)'
      BY <1>2 DEF With
    <3> QED BY <1>1, <1>2, <1>6, <1>7, <3>1 DEF Kept
  <2>4. RowsKept' /\ OneExtraction' /\ UnparsedListed'
    BY <1>1, <1>7, FilesFinite
       DEF RowsKept, OneExtraction, OncePerFile, UnparsedListed, Good, Single, Listed
  <2> QED BY <1>4, <2>3, <2>4 DEF IInv
<1>8. CASE IsLast /\ FinishPhase1(a, F)
  <2> DEFINE b == IF F = {} THEN a ELSE MergeChunk(a, ChunkOf(F))
  <2>1. acc' = Canonicalize(b) /\ phase' = "done" /\ Ingest(acc') /\ partial' = FALSE
    BY <1>8 DEF FinishPhase1
  <2>2. /\ b \in Accs /\ Good(b, had) /\ a.arrived \subseteq b.arrived
        /\ \A f \in F : f \in b.arrived \/ Gone \in had[f]
    <3>1. CASE F = {}
      BY <3>1
    <3>2. CASE F # {}
      <4>1. PICK c \in [Files -> Contents] : c = ChunkOf(F)
        BY ChunkHeld DEF IInv
      <4>2. /\ \A f \in Files : c[f] \in Texts => c[f] \in had[f]
            /\ \A f \in F : c[f] \in Texts \/ Gone \in had[f]
        BY <4>1, ChunkHeld DEF IInv
      <4>3. b = MergeChunk(a, c)
        BY <3>2, <4>1
      <4>4. /\ MergeChunk(a, c) \in Accs /\ Good(MergeChunk(a, c), had)
            /\ a.arrived \subseteq MergeChunk(a, c).arrived
            /\ \A f \in Files : c[f] \in Texts => f \in MergeChunk(a, c).arrived
        BY <4>2, MergeGood
      <4> HIDE DEF b
      <4> QED BY <4>2, <4>3, <4>4
    <3> QED BY <3>1, <3>2
  <2> HIDE DEF b
  <2>3. \A f \in Files : f \in b.arrived \/ Gone \in had[f]
    <3>1. ASSUME NEW i \in Files PROVE order[i] \in b.arrived \/ Gone \in had[order[i]]
      <4>1. i < cursor
        BY <1>8, Parameters DEF IsLast, IInv, WorkInv, TypeOK
      <4>2. ASSUME NEW k \in Lanes \ {l} PROVE ~With(k, i)
        <5>1. ~Busy(k)
          BY <1>1, <1>8, OnlyLane DEF IsLast, IInv
        <5>2. lane[k].from \in Nat /\ lane[k].past \in Nat
          BY DEF IInv, WorkInv, TypeOK
        <5> QED BY <5>1, <5>2, Parameters DEF Busy, With
      <4> QED BY <1>6, <2>2, <4>1, <4>2
    <3>2. order \in Orders
      BY DEF IInv, WorkInv, TypeOK
    <3>3. \A f \in Files : \E i \in Files : order[i] = f
      BY <3>2, Parameters
    <3> QED BY <3>1, <3>3
  <2>4. PICK d \in Accs : d = Canonicalize(b)
    BY <2>2, SortedRows
  <2>5. /\ Single(d) /\ Listed(d, had) /\ d.arrived = b.arrived
        /\ \A r \in d.rows : r.text \in had[r.file] /\ r.rank = r.file
        /\ \A f \in b.arrived : Gone \in had[f] \/ \E r \in d.rows : r.file = f
    BY <2>2, <2>4, SortedRows
  <2>6. acc' = d
    BY <2>1, <2>4
  <2>8. Kept'
    BY <2>1 DEF Kept
  <2>9. RowsKept'
    BY <1>1, <2>1, <2>3, <2>5, <2>6 DEF RowsKept
  <2>10. OneExtraction' /\ UnparsedListed'
    <3>1. \A r \in d.rows : ~(r.rank > N)
      BY <2>5, FilesFinite DEF Accs, Rows, Files
    <3> QED
      BY <1>1, <2>5, <2>6, <3>1 DEF OneExtraction, OncePerFile, UnparsedListed, Single, Listed
  <2> QED BY <1>4, <2>8, <2>9, <2>10 DEF IInv
<1> QED BY <1>3, <1>7, <1>8

LEMMA AnswerWorks == ASSUME WorkInv, NEW l \in Lanes, Answer(l) PROVE WorkInv'
<1>1. PICK c \in [Files -> Contents] : c = lane[l].chunk
  BY AnswerHeld
<1>2. PICK a \in Accs : a = MergeChunk(acc, c) /\ IsFiniteSet(a.rows)
  BY AccType, MergeAccs
<1>3. PICK F \in SUBSET Files : F = failed
  BY DEF WorkInv, TypeOK
<1>4. Ended(l, a, F)
  BY <1>1, <1>2, <1>3 DEF Answer
<1> QED BY <1>2, <1>4, EndedWorks

LEMMA AnswerKeeps == ASSUME IInv, NEW l \in Lanes, Answer(l) PROVE IInv'
<1>1. phase = "parsing" /\ lane[l].at = lane[l].past /\ Ended(l, MergeChunk(acc, lane[l].chunk), failed)
  BY DEF Answer, Ended
<1>2. acc \in Accs /\ Good(acc, had)
  BY <1>1, GoodAcc
<1>3. PICK c \in [Files -> Contents] : c = lane[l].chunk
  BY AnswerHeld DEF IInv
<1>4. \A f \in Files : c[f] \in Texts => c[f] \in had[f]
  BY <1>3, AnswerHeld DEF IInv
<1>5. /\ MergeChunk(acc, c) \in Accs /\ Good(MergeChunk(acc, c), had)
      /\ acc.arrived \subseteq MergeChunk(acc, c).arrived
      /\ \A f \in Files : c[f] \in Texts => f \in MergeChunk(acc, c).arrived
  BY <1>2, <1>4, MergeGood
<1>6. PICK a \in Accs : a = MergeChunk(acc, c)
  BY <1>5
<1>7. ASSUME NEW i \in Files, With(l, i) PROVE order[i] \in a.arrived \/ Gone \in had[order[i]]
  <2>1. c[order[i]] \in had[order[i]] /\ order[i] \in Files
    <3>1. lane[l].from <= i /\ i < lane[l].at
      BY <1>1, <1>7 DEF With
    <3>2. order \in [Files -> Files]
      BY Parameters DEF IInv, WorkInv, TypeOK
    <3> QED BY <1>3, <3>1, <3>2 DEF IInv, WorkInv, Slices
  <2>2. c[order[i]] \in Texts \/ c[order[i]] = Gone
    BY <1>3, <2>1, Parameters
  <2> QED BY <1>5, <1>6, <2>1, <2>2
<1>8. failed \in SUBSET Files
  BY DEF IInv, WorkInv, TypeOK
<1>9. PICK F \in SUBSET Files : F = failed
  BY <1>8
<1>10. Ended(l, a, F)
  BY <1>1, <1>3, <1>6, <1>9
<1> QED BY <1>5, <1>6, <1>7, <1>9, <1>10, EndedKeeps

LEMMA SliceType == ASSUME WorkInv, NEW l \in Lanes PROVE failed \cup Slice(l) \in SUBSET Files
<1>1. \A i \in lane[l].from..(lane[l].past - 1) : i \in Files
  <2>1. /\ lane[l].from \in Nat /\ lane[l].past \in Nat /\ 1 <= lane[l].from
        /\ lane[l].past <= cursor /\ cursor \in 1..(N + 1)
    BY DEF WorkInv, TypeOK, Slices
  <2> QED BY <2>1, Parameters
<1>2. order \in [Files -> Files]
  BY Parameters DEF WorkInv, TypeOK
<1> QED BY <1>1, <1>2 DEF WorkInv, TypeOK, Slice

LEMMA FailWorks == ASSUME WorkInv, NEW l \in Lanes, Fail(l) PROVE WorkInv'
<1>1. PICK a \in Accs : a = acc /\ IsFiniteSet(a.rows)
  BY AccType
<1>2. PICK F \in SUBSET Files : F = failed \cup Slice(l)
  BY SliceType
<1>3. Ended(l, a, F)
  BY <1>1, <1>2 DEF Fail
<1> QED BY <1>1, <1>3, EndedWorks

LEMMA FailKeeps == ASSUME IInv, NEW l \in Lanes, Fail(l) PROVE IInv'
<1>1. phase = "parsing" /\ Ended(l, acc, failed \cup Slice(l))
  BY DEF Fail, Ended
<1>2. acc \in Accs /\ Good(acc, had)
  BY <1>1, GoodAcc
<1>3. PICK a \in Accs : a = acc
  BY <1>2
<1>4. failed \cup Slice(l) \in SUBSET Files
  BY SliceType DEF IInv
<1>5. PICK F \in SUBSET Files : F = failed \cup Slice(l)
  BY <1>4
<1>6. \A i \in Files : With(l, i) => order[i] \in F
  <2>1. lane[l].from \in Nat /\ lane[l].past \in Nat
    BY DEF IInv, WorkInv, TypeOK
  <2> QED BY <1>5, <2>1, Parameters DEF With, Slice
<1>7. Ended(l, a, F)
  BY <1>1, <1>3, <1>5
<1> QED BY <1>2, <1>3, <1>5, <1>6, <1>7, EndedKeeps
-----------------------------------------------------------------------------
(* A file that is extracted out of turn.                                      *)
LEMMA Arrives ==
    ASSUME NEW a \in Accs, NEW held, Good(a, held), NEW f \in Files, f \in a.arrived \/ Gone \in held[f]
    PROVE  LET b == [a EXCEPT !.arrived = @ \cup {f}]
           IN  b \in Accs /\ Good(b, held) /\ a.arrived \subseteq b.arrived
<1> DEFINE b == [a EXCEPT !.arrived = @ \cup {f}]
<1>1. /\ b.rows = a.rows /\ b.stamps = a.stamps /\ b.unparsed = a.unparsed
      /\ b.arrived = a.arrived \cup {f} /\ b.merges = a.merges
      /\ b \in Accs
  BY DEF Accs
<1> HIDE DEF b
<1>2. Good(b, held)
  BY <1>1 DEF Good, Single, Listed
<1> QED BY <1>1, <1>2 DEF b

LEMMA DemandWorks == ASSUME WorkInv, NEW f \in Files, Demand(f) PROVE WorkInv'
<1>1. /\ phase = "parsing"
      /\ acc' = [MergeChunk(acc, ChunkOf({f})) EXCEPT !.arrived = @ \cup {f}]
      /\ partial' = TRUE /\ IngestStep(acc')
      /\ UNCHANGED <<disk, had, changes, saved, order, cursor, lane, inflight, failed, done, phase,
                     dirty, pending, holds>>
  BY DEF Demand, OnChunk, world, queue, timer
<1>2. PICK c \in [Files -> Contents] : c = ChunkOf({f})
  BY ChunkHeld
<1>3. PICK a \in Accs : a = MergeChunk(acc, c) /\ IsFiniteSet(a.rows)
  BY AccType, MergeAccs
<1>4. PICK b \in Accs : b = [a EXCEPT !.arrived = @ \cup {f}] /\ b.rows = a.rows
  <2> DEFINE b == [a EXCEPT !.arrived = @ \cup {f}]
  <2>1. b \in Accs /\ b.rows = a.rows
    BY DEF Accs
  <2> QED BY <2>1
<1>5. acc' = b /\ IsFiniteSet(b.rows) /\ IngestStep(b)
  BY <1>1, <1>2, <1>3, <1>4
<1>6. shown' \in [Files -> Nat] /\ ing' \in Nat
  BY <1>5, IngestType DEF WorkInv
<1>7. TypeOK'
  BY <1>1, <1>5, <1>6 DEF WorkInv, TypeOK, Accs
<1>8. Slices' /\ Counted'
  BY <1>1 DEF WorkInv, Slices, Counted, BusyLanes, Busy
<1> QED BY <1>5, <1>7, <1>8 DEF WorkInv

LEMMA DemandKeeps == ASSUME IInv, NEW f \in Files, Demand(f) PROVE IInv'
<1>1. /\ phase = "parsing"
      /\ acc' = [MergeChunk(acc, ChunkOf({f})) EXCEPT !.arrived = @ \cup {f}]
      /\ partial' = TRUE /\ IngestStep(acc')
      /\ UNCHANGED <<disk, had, changes, saved, order, cursor, lane, inflight, failed, done, phase,
                     dirty, pending, holds>>
  BY DEF Demand, OnChunk, world, queue, timer
<1>2. acc \in Accs /\ Good(acc, had)
  BY <1>1, GoodAcc
<1>3. PICK c \in [Files -> Contents] : c = ChunkOf({f})
  BY ChunkHeld DEF IInv
<1>4. (\A g \in Files : c[g] \in Texts => c[g] \in had[g]) /\ (c[f] \in Texts \/ Gone \in had[f])
  BY <1>3, ChunkHeld DEF IInv
<1>5. PICK a \in Accs : a = MergeChunk(acc, c)
  BY <1>2, <1>4, MergeGood
<1>6. Good(a, had) /\ acc.arrived \subseteq a.arrived /\ (f \in a.arrived \/ Gone \in had[f])
  BY <1>2, <1>4, <1>5, MergeGood
<1>7. PICK b \in Accs : b = [a EXCEPT !.arrived = @ \cup {f}]
  BY <1>6, Arrives
<1>8. Good(b, had) /\ acc.arrived \subseteq b.arrived
  BY <1>6, <1>7, Arrives
<1>9. acc' = b
  BY <1>1, <1>3, <1>5, <1>7
<1>10. WorkInv'
  BY DemandWorks DEF IInv
<1>12. Kept'
  BY <1>1, <1>8, <1>9 DEF IInv, Kept, With
<1>13. RowsKept' /\ OneExtraction'
  BY <1>1, <1>8, <1>9 DEF RowsKept, OneExtraction, OncePerFile, Good, Single
<1>14. UnparsedListed'
  <2>1. \A r \in b.rows : ~(r.rank > N)
    BY <1>8, FilesFinite DEF Good
  <2> QED BY <1>1, <1>8, <1>9, <2>1 DEF UnparsedListed, Good, Listed
<1> QED BY <1>10, <1>12, <1>13, <1>14 DEF IInv

(* The timer changes only what is shown.                                      *)
LEMMA TimerKeeps == ASSUME WorkInv, Hold \/ Repaint PROVE WorkInv' /\ (IInv => IInv')
<1>1. /\ UNCHANGED <<disk, had, changes, saved, order, cursor, lane, inflight, failed, done, phase, acc>>
      /\ \/ UNCHANGED <<shown, ing, partial>>
         \/ partial' = TRUE /\ IngestStep(acc)
      /\ dirty' \in BOOLEAN /\ pending' \in BOOLEAN /\ holds' \in 0..MaxHolds
  <2>1. MaxHolds \in Nat /\ holds \in 0..MaxHolds /\ dirty \in BOOLEAN /\ pending \in BOOLEAN
    BY ExtractionAssumption DEF WorkInv, TypeOK
  <2>2. CASE Hold
    BY <2>1, <2>2 DEF Hold, world, queue, store
  <2>3. CASE Repaint
    <3>1. /\ UNCHANGED <<disk, had, changes, saved, order, cursor, lane, inflight, failed, done, phase, acc>>
          /\ holds' \in 0..MaxHolds
      BY <2>1, <2>3 DEF Repaint, world, queue
    <3>2. CASE dirty' = FALSE /\ pending' = FALSE /\ OnChunk(acc)
      BY <3>1, <3>2 DEF OnChunk
    <3>3. CASE pending' = dirty /\ UNCHANGED <<dirty, store>>
      BY <2>1, <3>1, <3>3 DEF store
    <3> QED BY <2>3, <3>2, <3>3 DEF Repaint
  <2> QED BY <2>2, <2>3
<1>2. shown' \in [Files -> Nat] /\ ing' \in Nat /\ partial' \in BOOLEAN
  <2>1. PICK a \in Accs : a = acc
    BY AccType
  <2>2. IsFiniteSet(a.rows)
    BY <2>1, AccType
  <2>3. CASE UNCHANGED <<shown, ing, partial>>
    BY <2>3 DEF WorkInv, TypeOK
  <2>4. CASE partial' = TRUE /\ IngestStep(acc)
    BY <2>1, <2>2, <2>4, IngestType DEF WorkInv
  <2> QED BY <1>1, <2>3, <2>4
<1>3. TypeOK'
  BY <1>1, <1>2 DEF WorkInv, TypeOK
<1>4. Slices' /\ Counted' /\ IsFiniteSet(acc.rows)'
  BY <1>1 DEF WorkInv, Slices, Counted, BusyLanes, Busy
<1>5. IInv => Kept' /\ RowsKept' /\ OneExtraction' /\ UnparsedListed'
  BY <1>1 DEF IInv, Kept, With, RowsKept, OneExtraction, OncePerFile, UnparsedListed
<1> QED BY <1>3, <1>4, <1>5 DEF IInv, WorkInv

(* What a file held once, it held.                                            *)
LEMMA WriteKeeps ==
    ASSUME WorkInv, NEW f \in Files, NEW c \in Contents, Edit(f, c) \/ Save(f, c)
    PROVE  WorkInv' /\ (IInv => IInv')
<1>1. /\ changes < MaxChanges /\ changes' = changes + 1
      /\ disk' = [disk EXCEPT ![f] = c] /\ had' = [had EXCEPT ![f] = @ \cup {c}]
      /\ saved' \in {saved, saved \cup {f}}
      /\ UNCHANGED <<order, cursor, lane, inflight, failed, done, phase, acc, shown, ing, partial,
                     dirty, pending, holds>>
  BY DEF Edit, Save, Write, queue, store, timer
<1>2. disk \in [Files -> Contents] /\ had \in [Files -> SUBSET Contents] /\ \A g \in Files : disk[g] \in had[g]
  BY DEF WorkInv, TypeOK, Slices
<1>3. /\ disk' \in [Files -> Contents] /\ had' \in [Files -> SUBSET Contents]
      /\ \A g \in Files : had[g] \subseteq had'[g] /\ disk'[g] \in had'[g]
  BY <1>1, <1>2
<1>4. TypeOK'
  <2>1. changes' \in 0..MaxChanges
    BY <1>1, ExtractionAssumption DEF WorkInv, TypeOK
  <2> QED BY <1>1, <1>3, <2>1 DEF WorkInv, TypeOK
<1>5. order \in [Files -> Files] /\ acc.arrived \subseteq Files /\ \A r \in acc.rows : r.file \in Files
  BY Parameters DEF WorkInv, TypeOK, Rows
<1>6. Slices'
  BY <1>1, <1>3, <1>5 DEF WorkInv, Slices
<1>7. Counted'
  BY <1>1 DEF WorkInv, Counted, BusyLanes, Busy
<1>8. IInv => Kept'
  BY <1>1, <1>3, <1>5 DEF IInv, Kept, With
<1>9. IInv => RowsKept'
  BY <1>1, <1>3, <1>5 DEF IInv, RowsKept
<1>10. IInv => OneExtraction' /\ UnparsedListed'
  <2>1. acc.unparsed \subseteq Files
    BY DEF WorkInv, TypeOK
  <2> QED BY <1>1, <1>3, <2>1 DEF IInv, OneExtraction, OncePerFile, UnparsedListed
<1>11. IsFiniteSet(acc.rows)'
  BY <1>1 DEF WorkInv
<1> QED BY <1>4, <1>6, <1>7, <1>8, <1>9, <1>10, <1>11 DEF IInv, WorkInv

(* A refresh of any graph: the row of the file gives way to one at the end.   *)
LEMMA SplicedAcc ==
    ASSUME WorkInv, NEW f \in Files
    PROVE  Spliced(f) \in Accs /\ IsFiniteSet(Spliced(f).rows)
<1> DEFINE b == Spliced(f)
           now == {disk[f]} \cap Texts
           R(t) == Row(f, t, N + 1, acc.merges + 1)
           left == {r \in acc.rows : r.file # f}
           added == {R(t) : t \in now}
<1>1. /\ acc \in Accs /\ disk[f] \in Contents
      /\ acc.rows \subseteq Rows /\ acc.stamps \in [Files -> Contents] /\ acc.merges \in Nat
      /\ acc.unparsed \subseteq Files /\ IsFiniteSet(acc.rows)
  BY DEF WorkInv, TypeOK, Accs
<1>2. /\ b.rows = left \cup added
      /\ b.stamps = [acc.stamps EXCEPT ![f] = IF now = {} THEN @ ELSE disk[f]]
      /\ b.unparsed \in {acc.unparsed, (acc.unparsed \ {f}) \cup {g \in {f} : disk[f] \in Bundles}}
      /\ b.arrived = acc.arrived /\ b.merges = acc.merges + 1
      /\ b = [rows |-> b.rows, stamps |-> b.stamps, unparsed |-> b.unparsed, arrived |-> b.arrived, merges |-> b.merges]
  BY DEF Spliced
<1>3. \A t \in now : R(t) \in Rows /\ t = disk[f]
  <2>1. N + 1 \in 0..(N + 1) /\ acc.merges + 1 \in Nat
    BY <1>1, Parameters
  <2> QED BY <2>1, RowOf
<1>4. b \in Accs
  <2>1. b.stamps \in [Files -> Contents]
    BY <1>1, <1>2
  <2>2. b.rows \in SUBSET Rows /\ b.unparsed \in SUBSET Files
    BY <1>1, <1>2, <1>3
  <2>3. b.merges \in Nat /\ b.arrived \in SUBSET Files
    BY <1>1, <1>2 DEF Accs
  <2> HIDE DEF b
  <2> QED BY <1>2, <2>1, <2>2, <2>3 DEF Accs
<1>5. IsFiniteSet(b.rows)
  <2>1. IsFiniteSet(left)
    BY <1>1, FS_Subset
  <2>2. added = {} \/ added = {R(disk[f])}
    BY <1>3
  <2>3. IsFiniteSet(added)
    <3> HIDE DEF R, added
    <3> QED BY <2>2, FS_EmptySet, FS_Singleton
  <2>4. b.rows = left \cup added
    BY <1>2
  <2> HIDE DEF b, left, added
  <2> QED BY <2>1, <2>3, <2>4, FS_Union
<1> QED BY <1>4, <1>5

(* A refresh of the finished graph replaces the file's row by one at the end. *)
LEMMA SplicedGraph ==
    ASSUME IInv, phase = "done", NEW f \in Files
    PROVE  LET b == Spliced(f)
           IN  /\ b \in Accs /\ IsFiniteSet(b.rows) /\ Single(b) /\ b.arrived = acc.arrived
               /\ Listed(b, had)
               /\ \A r \in b.rows : r.rank > N /\ r.file \in b.unparsed => r.text \in Bundles
               /\ \A r \in b.rows : r.text \in had[r.file] /\ (r.rank = r.file \/ r.rank = N + 1)
               /\ \A g \in Files : Gone \in had[g] \/ \E r \in b.rows : r.file = g
<1> DEFINE b == Spliced(f)
           now == {disk[f]} \cap Texts
           R(t) == Row(f, t, N + 1, acc.merges + 1)
           left == {r \in acc.rows : r.file # f}
           added == {R(t) : t \in now}
<1>1. /\ acc \in Accs /\ Single(acc) /\ Listed(acc, had) /\ disk[f] \in Contents /\ disk[f] \in had[f]
      /\ acc.rows \subseteq Rows /\ acc.stamps \in [Files -> Contents] /\ acc.merges \in Nat
      /\ acc.unparsed \subseteq Files
  BY GoodAcc DEF IInv, WorkInv, TypeOK, Slices, Accs
<1>2. /\ b.rows = left \cup added
      /\ b.stamps = [acc.stamps EXCEPT ![f] = IF now = {} THEN @ ELSE disk[f]]
      /\ b.unparsed = (acc.unparsed \ {f}) \cup {g \in {f} : disk[f] \in Bundles}
      /\ b.arrived = acc.arrived /\ b.merges = acc.merges + 1
      /\ b = [rows |-> b.rows, stamps |-> b.stamps, unparsed |-> b.unparsed, arrived |-> b.arrived, merges |-> b.merges]
  BY <1>1 DEF Spliced
<1>3. \A t \in now : /\ R(t) \in Rows /\ R(t).file = f /\ R(t).text = t /\ R(t).rank = N + 1
                     /\ t = disk[f]
  <2>1. N + 1 \in 0..(N + 1) /\ acc.merges + 1 \in Nat
    BY <1>1, Parameters
  <2> QED BY <2>1, RowOf DEF Row
<1>4. \A r \in b.rows : \/ r \in acc.rows /\ r.file # f
                        \/ now # {} /\ r = R(disk[f])
  BY <1>2, <1>3
<1>5. b \in Accs /\ IsFiniteSet(b.rows)
  BY SplicedAcc DEF IInv
<1>7. Single(b)
  <2>1. \A r, s \in b.rows : r.file = s.file => r = s
    BY <1>1, <1>3, <1>4 DEF Single
  <2>2. ASSUME NEW r \in b.rows PROVE b.stamps[r.file] = r.text
    <3>1. CASE r \in acc.rows /\ r.file # f
      <4>1. r.file \in Files /\ b.stamps[r.file] = acc.stamps[r.file]
        BY <3>1, <1>1, <1>2 DEF Rows
      <4> QED BY <3>1, <4>1, <1>1, <1>2 DEF Single
    <3>2. CASE now # {} /\ r = R(disk[f])
      <4>1. r.file = f /\ r.text = disk[f]
        BY <3>2, <1>3
      <4>2. b.stamps[f] = disk[f]
        BY <3>2, <1>1, <1>2
      <4> QED BY <4>1, <4>2, <1>2
    <3> QED BY <1>4, <3>1, <3>2
  <2> QED BY <2>1, <2>2 DEF Single
<1>8. \A r \in b.rows : r.text \in had[r.file] /\ (r.rank = r.file \/ r.rank = N + 1)
  BY <1>1, <1>3, <1>4 DEF IInv, RowsKept
<1>9. ASSUME NEW g \in Files PROVE Gone \in had[g] \/ \E r \in b.rows : r.file = g
  <2>1. CASE g # f
    BY <2>1, <1>2 DEF IInv, RowsKept
  <2>2. CASE g = f
    <3>1. disk[f] = Gone \/ disk[f] \in Texts
      BY <1>1, Parameters
    <3>2. CASE disk[f] \in Texts
      BY <3>2, <2>2, <1>2, <1>3
    <3> QED BY <1>1, <2>2, <3>1, <3>2
  <2> QED BY <2>1, <2>2
<1>10. Listed(b, had) /\ \A r \in b.rows : r.rank > N /\ r.file \in b.unparsed => r.text \in Bundles
  <2>1. \A r \in acc.rows : r.rank > N /\ r.file \in acc.unparsed => r.text \in Bundles
    BY DEF IInv, UnparsedListed
  <2>2. \A r \in acc.rows : r.text \in Bundles => r.file \in acc.unparsed
    BY <1>1 DEF Listed
  <2>3. \A g : g # f => (g \in b.unparsed <=> g \in acc.unparsed)
    BY <1>2
  <2>4. f \in b.unparsed <=> disk[f] \in Bundles
    BY <1>2
  <2>5. \A r \in b.rows : (r \in acc.rows /\ r.file # f) \/ (r.file = f /\ r.text = disk[f])
    BY <1>3, <1>4
  <2> HIDE DEF b
  <2>6. ASSUME NEW r \in b.rows
        PROVE  /\ r.text \in Bundles => r.file \in b.unparsed
               /\ r.rank > N /\ r.file \in b.unparsed => r.text \in Bundles
    <3>1. CASE r \in acc.rows /\ r.file # f
      BY <3>1, <2>1, <2>2, <2>3
    <3>2. CASE r.file = f /\ r.text = disk[f]
      BY <3>2, <2>4
    <3> QED BY <2>5, <3>1, <3>2
  <2>7. \A g \in b.unparsed : g \in acc.unparsed \/ (g = f /\ disk[f] \in Bundles)
    BY <2>3, <2>4
  <2>8. \A g \in b.unparsed : Bundles \cap had[g] # {}
    BY <1>1, <2>7 DEF Listed
  <2> QED BY <2>6, <2>8 DEF Listed
<1> QED BY <1>2, <1>5, <1>7, <1>8, <1>9, <1>10

LEMMA RefreshWorks == ASSUME WorkInv, NEW f \in Files, Refresh(f) PROVE WorkInv'
<1>1. /\ saved' = saved \ {f}
      /\ UNCHANGED <<disk, had, changes, order, cursor, lane, inflight, failed, done, phase, dirty, pending, holds>>
      /\ \/ UNCHANGED <<acc, shown, ing, partial>>
         \/ acc' = Spliced(f) /\ Ingest(acc') /\ UNCHANGED partial
  BY DEF Refresh, queue, store, timer
<1>2. Slices' /\ Counted'
  BY <1>1 DEF WorkInv, Slices, Counted, BusyLanes, Busy
<1>3. CASE UNCHANGED <<acc, shown, ing, partial>>
  BY <1>1, <1>2, <1>3 DEF WorkInv, TypeOK
<1>4. CASE acc' = Spliced(f) /\ Ingest(acc') /\ UNCHANGED partial
  <2>1. PICK b \in Accs : b = Spliced(f) /\ IsFiniteSet(b.rows)
    BY SplicedAcc
  <2>2. acc' = b /\ Ingest(b)
    BY <1>4, <2>1
  <2>3. shown' \in [Files -> Nat] /\ ing' \in Nat
    BY <2>1, <2>2, IngestType DEF WorkInv
  <2>4. TypeOK'
    BY <1>1, <1>4, <2>2, <2>3 DEF WorkInv, TypeOK, Accs
  <2> QED BY <1>2, <2>1, <2>2, <2>4 DEF WorkInv
<1> QED BY <1>1, <1>3, <1>4

LEMMA RefreshKeeps == ASSUME IInv, EarlySaves = FALSE, NEW f \in Files, Refresh(f) PROVE IInv'
<1>1. /\ saved' = saved \ {f}
      /\ UNCHANGED <<disk, had, changes, order, cursor, lane, inflight, failed, done, phase, dirty, pending, holds>>
      /\ \/ UNCHANGED <<acc, shown, ing, partial>>
         \/ phase = "done" /\ acc' = Spliced(f) /\ Ingest(acc') /\ UNCHANGED partial
  BY DEF Refresh, queue, store, timer
<1>2. WorkInv'
  BY RefreshWorks DEF IInv
<1>3. CASE UNCHANGED <<acc, shown, ing, partial>>
  <2>2. Kept' /\ RowsKept' /\ OneExtraction' /\ UnparsedListed'
    BY <1>1, <1>3 DEF IInv, Kept, With, RowsKept, OneExtraction, OncePerFile, UnparsedListed
  <2> QED BY <1>2, <2>2 DEF IInv
<1>4. CASE phase = "done" /\ acc' = Spliced(f) /\ Ingest(acc') /\ UNCHANGED partial
  <2>1. PICK b \in Accs : b = Spliced(f)
    BY <1>4, SplicedGraph
  <2>2. /\ IsFiniteSet(b.rows) /\ Single(b) /\ Listed(b, had) /\ b.arrived = acc.arrived
        /\ \A r \in b.rows : r.rank > N /\ r.file \in b.unparsed => r.text \in Bundles
        /\ \A r \in b.rows : r.text \in had[r.file] /\ (r.rank = r.file \/ r.rank = N + 1)
        /\ \A g \in Files : Gone \in had[g] \/ \E r \in b.rows : r.file = g
    BY <1>4, <2>1, SplicedGraph
  <2>3. acc' = b /\ Ingest(b)
    BY <1>4, <2>1
  <2>6. Kept'
    BY <1>1, <1>4 DEF Kept
  <2>7. RowsKept'
    <3>1. b.arrived \subseteq Files
      BY DEF Accs
    <3> QED BY <1>1, <1>4, <2>2, <2>3, <3>1 DEF RowsKept
  <2>8. OneExtraction' /\ UnparsedListed'
    BY <1>1, <2>2, <2>3 DEF OneExtraction, OncePerFile, UnparsedListed, Single, Listed
  <2> QED BY <1>2, <2>6, <2>7, <2>8 DEF IInv
<1> QED BY <1>1, <1>3, <1>4

LEMMA StutterKeeps == ASSUME WorkInv, UNCHANGED vars PROVE WorkInv' /\ (IInv => IInv')
<1>1. WorkInv'
  BY DEF vars, world, queue, store, timer, WorkInv, TypeOK, Slices, Counted, BusyLanes, Busy
<1>2. IInv => Kept' /\ RowsKept' /\ OneExtraction' /\ UnparsedListed'
  BY DEF vars, world, queue, store, IInv, Kept, With, RowsKept, OneExtraction, OncePerFile, UnparsedListed
<1> QED BY <1>1, <1>2 DEF IInv

(* The workers and the queue keep their invariant, refreshes at any time or not. *)
THEOREM WorkersInvariant == Spec => []WorkInv
<1>1. Init => WorkInv
  BY Initially DEF IInv
<1>2. WorkInv /\ [Next]_vars => WorkInv'
  <2> SUFFICES ASSUME WorkInv, [Next]_vars PROVE WorkInv'
    OBVIOUS
  <2>1. CASE StartLane
    BY <2>1, StartLaneKeeps
  <2>2. CASE \E l \in Lanes : Read(l) \/ Answer(l) \/ Fail(l)
    BY <2>2, ReadKeeps, AnswerWorks, FailWorks
  <2>3. CASE \E f \in Files : Demand(f) \/ Refresh(f)
    BY <2>3, DemandWorks, RefreshWorks
  <2>4. CASE Hold \/ Repaint
    BY <2>4, TimerKeeps
  <2>5. CASE \E f \in Files, c \in Contents : Edit(f, c) \/ Save(f, c)
    BY <2>5, WriteKeeps
  <2>6. CASE UNCHANGED vars
    BY <2>6, StutterKeeps
  <2> QED BY <2>1, <2>2, <2>3, <2>4, <2>5, <2>6 DEF Next
<1> QED BY <1>1, <1>2, PTL DEF Spec

(* What the rows are, as long as no refresh runs before the first chunk is shown. *)
THEOREM Inductive == ASSUME EarlySaves = FALSE PROVE Spec => []IInv
<1>1. Init => IInv
  BY Initially
<1>2. IInv /\ [Next]_vars => IInv'
  <2> SUFFICES ASSUME IInv, [Next]_vars PROVE IInv'
    OBVIOUS
  <2> WorkInv
    BY DEF IInv
  <2>1. CASE StartLane
    BY <2>1, StartLaneKeeps
  <2>2. CASE \E l \in Lanes : Read(l) \/ Answer(l) \/ Fail(l)
    BY <2>2, ReadKeeps, AnswerKeeps, FailKeeps
  <2>3. CASE \E f \in Files : Demand(f) \/ Refresh(f)
    BY <2>3, DemandKeeps, RefreshKeeps
  <2>4. CASE Hold \/ Repaint
    BY <2>4, TimerKeeps
  <2>5. CASE \E f \in Files, c \in Contents : Edit(f, c) \/ Save(f, c)
    BY <2>5, WriteKeeps
  <2>6. CASE UNCHANGED vars
    BY <2>6, StutterKeeps
  <2> QED BY <2>1, <2>2, <2>3, <2>4, <2>5, <2>6 DEF Next
<1> QED BY <1>1, <1>2, PTL DEF Spec

(* The graph, the queue, the lanes and the store stay well-formed, and the    *)
(* count of the workers within their number.                                  *)
THEOREM TypeCorrect == Spec => []TypeOK
<1>1. WorkInv => TypeOK
  BY DEF WorkInv
<1> QED BY <1>1, WorkersInvariant, PTL

(* Whatever is read twice - demanded, saved, failed and done again - is in    *)
(* the graph once, and what is kept of it by file is from the reading its     *)
(* rows are from.                                                             *)
THEOREM AlwaysOneExtraction == ASSUME EarlySaves = FALSE PROVE Spec => []OneExtraction
<1>1. IInv => OneExtraction
  BY DEF IInv
<1> QED BY <1>1, Inductive, PTL

(* The list of unparsed files misses none whose rows are a bundle's, says of a *)
(* refreshed file what its rows say, and has none that never was a bundle.    *)
THEOREM AlwaysUnparsedListed == ASSUME EarlySaves = FALSE PROVE Spec => []UnparsedListed
<1>1. IInv => UnparsedListed
  BY DEF IInv
<1> QED BY <1>1, Inductive, PTL

(* The graph that is handed over lacks no file, holds nothing that a file did *)
(* not hold, and is in the order of the fileset.                              *)
THEOREM AlwaysSameAsSequential == ASSUME EarlySaves = FALSE PROVE Spec => []SameAsSequential
<1>1. IInv => SameAsSequential
  <2> SUFFICES ASSUME IInv, phase = "done" PROVE SameAsSequential
    BY DEF SameAsSequential
  <2>1. /\ \A f \in Files : Gone \in had[f] \/ \E r \in acc.rows : r.file = f
        /\ \A r \in acc.rows : r.text \in had[r.file]
    BY DEF IInv, RowsKept
  <2>2. ASSUME NEW r \in acc.rows, NEW s \in acc.rows, r.rank <= N, s.rank <= N
        PROVE  Before(r, s) <=> r.file < s.file
    <3>1. r \in Rows /\ s \in Rows
      BY DEF IInv, WorkInv, TypeOK
    <3>2. /\ r.turn \in Nat /\ s.turn \in Nat /\ r.file \in 1..N /\ s.file \in 1..N
          /\ r.rank \in Nat /\ s.rank \in Nat /\ N \in Nat
      BY <3>1, Parameters DEF Rows
    <3>3. r.rank = r.file /\ s.rank = s.file
      BY <2>2, <3>2 DEF IInv, RowsKept
    <3>4. r.file = s.file => r = s
      BY DEF IInv, OneExtraction, OncePerFile
    <3> QED BY <3>2, <3>3, <3>4 DEF Before
  <2> QED BY <2>1, <2>2 DEF SameAsSequential
<1> QED BY <1>1, Inductive, PTL
-----------------------------------------------------------------------------
(* Every file of the queue is accounted for. Accounted is inductive once the  *)
(* lanes are slices of what left the queue: what a lane is given lies beyond   *)
(* what any lane has.                                                         *)
Held == UNION {Positions(l) : l \in Lanes}

LEMMA Reslice ==
    ASSUME NEW H, IsFiniteSet(H), NEW P \in SUBSET H, NEW S, IsFiniteSet(S), H \cap S = {}
    PROVE  Cardinality((H \ P) \cup S) = Cardinality(H) - Cardinality(P) + Cardinality(S)
<1> DEFINE R == H \ P
<1>1. IsFiniteSet(R) /\ Cardinality(R) = Cardinality(H) - Cardinality(H \cap P)
  BY FS_Difference
<1>2. H \cap P = P /\ R \cap S = {}
  OBVIOUS
<1> HIDE DEF R
<1>3. Cardinality(R \cup S) = Cardinality(R) + Cardinality(S) - Cardinality(R \cap S)
  BY <1>1, FS_Union
<1>4. Cardinality(R \cap S) = 0
  BY <1>2, FS_EmptySet
<1>5. /\ Cardinality(R) \in Nat /\ Cardinality(S) \in Nat /\ Cardinality(H) \in Nat
      /\ Cardinality(P) \in Nat
  BY <1>1, FS_Subset, FS_CardinalityType
<1>6. Cardinality(R \cup S) = Cardinality(H) - Cardinality(P) + Cardinality(S)
  <2>1. PICK h \in Nat : h = Cardinality(H)
    BY <1>5
  <2>2. PICK q \in Nat : q = Cardinality(P)
    BY <1>5
  <2>3. PICK n \in Nat : n = Cardinality(S)
    BY <1>5
  <2>4. Cardinality(H \cap P) = q
    BY <1>2, <2>2
  <2>5. Cardinality(R) = h - q
    BY <1>1, <2>1, <2>4
  <2>6. Cardinality(R \cup S) = (h - q) + n - 0
    BY <1>3, <1>4, <2>3, <2>5
  <2> QED BY <2>1, <2>2, <2>3, <2>6
<1> QED BY <1>6 DEF R

LEMMA SpanCount ==
    ASSUME NEW a \in Nat, NEW b \in Nat, a <= b
    PROVE  IsFiniteSet(a..(b - 1)) /\ Cardinality(a..(b - 1)) = b - a
<1>1. PICK c \in Int : c = b - 1
  OBVIOUS
<1>2. IsFiniteSet(a..c) /\ Cardinality(a..c) = IF a > c THEN 0 ELSE c - a + 1
  BY FS_Interval
<1> QED BY <1>1, <1>2

(* The positions the lanes have lie in the part of the queue that is gone.    *)
LEMMA HeldBelow ==
    ASSUME WorkInv
    PROVE  /\ IsFiniteSet(Held) /\ Held \subseteq 1..(cursor - 1)
           /\ \A l \in Lanes : /\ Positions(l) \subseteq Held
                               /\ Cardinality(Positions(l)) = lane[l].past - lane[l].from
<1>1. \A l \in Lanes : /\ lane[l].from \in Nat /\ lane[l].past \in Nat /\ 1 <= lane[l].from
                       /\ lane[l].from <= lane[l].past /\ lane[l].past <= cursor
  BY DEF WorkInv, TypeOK, Slices
<1>2. cursor \in Nat
  BY Parameters DEF WorkInv, TypeOK
<1>3. \A l \in Lanes : Positions(l) \subseteq 1..(cursor - 1)
  BY <1>1, <1>2 DEF Positions
<1>4. Held \in SUBSET (1..(cursor - 1))
  BY <1>3 DEF Held
<1>5. IsFiniteSet(1..(cursor - 1))
  BY <1>2, FS_Interval
<1>6. IsFiniteSet(Held)
  BY <1>4, <1>5, FS_Subset
<1>7. \A l \in Lanes : Cardinality(Positions(l)) = lane[l].past - lane[l].from
  BY <1>1, SpanCount DEF Positions
<1>8. \A l \in Lanes : Positions(l) \subseteq Held
  BY DEF Held
<1> QED BY <1>4, <1>6, <1>7, <1>8

(* The lane l gives up what it had and takes the positions up to the cursor.  *)
LEMMA LaneTakes ==
    ASSUME WorkInv, Accounted, NEW l \in Lanes, cursor' \in Nat, cursor <= cursor',
           Positions(l)' = cursor..(cursor' - 1),
           \A k \in Lanes \ {l} : Positions(k)' = Positions(k)
    PROVE  /\ \A k, m \in Lanes : k # m => Positions(k)' \cap Positions(m)' = {}
           /\ Cardinality(Held') = Cardinality(Held) - (lane[l].past - lane[l].from) + (cursor' - cursor)
<1>1. cursor \in Nat
  BY Parameters DEF WorkInv, TypeOK
<1>2. /\ IsFiniteSet(Held) /\ Held \subseteq 1..(cursor - 1) /\ Positions(l) \subseteq Held
      /\ \A k \in Lanes : Positions(k) \subseteq Held
      /\ Cardinality(Positions(l)) = lane[l].past - lane[l].from
  BY HeldBelow
<1>3. PICK S : S = cursor..(cursor' - 1)
  OBVIOUS
<1>4. IsFiniteSet(S) /\ Cardinality(S) = cursor' - cursor
  BY <1>1, <1>3, SpanCount
<1>5. Held \cap S = {}
  <2>1. ASSUME NEW x \in Held, x \in S PROVE FALSE
    <3>1. x \in 1..(cursor - 1)
      BY <1>2
    <3> QED BY <1>1, <1>3, <2>1, <3>1
  <2> QED BY <2>1
<1>6. \A k, m \in Lanes : k # m => Positions(k) \cap Positions(m) = {}
  BY DEF Accounted
<1>7. \A k, m \in Lanes : k # m => Positions(k)' \cap Positions(m)' = {}
  <2>1. \A k \in Lanes : Positions(k) \cap S = {}
    BY <1>2, <1>5
  <2>2. Positions(l)' = S
    BY <1>3
  <2> QED BY <1>6, <2>1, <2>2
<1>8. Held' = (Held \ Positions(l)) \cup S
  <2>1. \A x : x \in Held <=> \E k \in Lanes : x \in Positions(k)
    BY DEF Held
  <2>2. \A x : x \in Held' <=> \E k \in Lanes : x \in Positions(k)'
    BY DEF Held
  <2>3. Positions(l)' = S
    BY <1>3
  <2> QED BY <1>6, <2>1, <2>2, <2>3
<1>9. Cardinality((Held \ Positions(l)) \cup S)
        = Cardinality(Held) - Cardinality(Positions(l)) + Cardinality(S)
  BY <1>2, <1>4, <1>5, Reslice
<1> QED BY <1>2, <1>4, <1>7, <1>8, <1>9

LEMMA StartAccounted == ASSUME WorkInv, WorkInv', Accounted, StartLane PROVE Accounted'
<1>1. /\ phase = "starting" /\ inflight' = inflight + 1 /\ inflight \in Nat /\ inflight < NW
      /\ phase' = IF inflight' = NW \/ cursor' > N THEN "parsing" ELSE "starting"
      /\ done' = done /\ UNCHANGED <<disk, had, order>>
      /\ \A k \in Lanes : Busy(k) <=> k <= inflight
  BY Parameters DEF StartLane, WorkInv, TypeOK, Counted, world
<1>2. PICK l \in Lanes : l = inflight + 1 /\ Pull(l)
  BY <1>1, Parameters DEF StartLane
<1>3. /\ cursor' \in (cursor + 1)..(N + 1)
      /\ lane'[l].from = cursor /\ lane'[l].past = cursor'
      /\ \A k \in Lanes \ {l} : lane'[k] = lane[k]
  BY <1>1, <1>2, PullKeeps
<1>4. cursor \in Nat /\ cursor' \in Nat /\ cursor <= cursor'
  BY <1>3, Parameters DEF WorkInv, TypeOK
<1>5. /\ \A k, m \in Lanes : k # m => Positions(k)' \cap Positions(m)' = {}
      /\ Cardinality(Held') = Cardinality(Held) - (lane[l].past - lane[l].from) + (cursor' - cursor)
  BY <1>3, <1>4, LaneTakes DEF Positions
<1>6. lane[l].past = lane[l].from
  <2>1. lane[l].past \in Nat /\ lane[l].from \in Nat /\ lane[l].from <= lane[l].past
    BY DEF WorkInv, TypeOK, Slices
  <2>2. ~Busy(l)
    BY <1>1, <1>2
  <2> QED BY <2>1, <2>2 DEF Busy
<1>7. done + Cardinality(Held) = cursor - 1 /\ done \in Nat /\ Cardinality(Held) \in Nat
  BY HeldBelow, FS_CardinalityType DEF Accounted, Held, WorkInv, TypeOK
<1>8. done' + Cardinality(Held') = cursor' - 1
  <2>1. lane[l].past \in Nat
    BY DEF WorkInv, TypeOK
  <2> QED BY <1>1, <1>4, <1>5, <1>6, <1>7, <2>1
<1>9. ASSUME phase' = "parsing", cursor' <= N, NEW k \in Lanes PROVE Busy(k)'
  <2>1. inflight' = NW /\ inflight = NW - 1
    BY <1>1, <1>3, <1>4, <1>9, Parameters
  <2>2. k <= inflight \/ k = l
    BY <1>2, <2>1, Parameters
  <2>3. CASE k = l
    BY <1>3, <1>4, <2>3, Parameters DEF Busy
  <2>4. CASE k # l
    BY <1>1, <1>3, <2>2, <2>4 DEF Busy
  <2> QED BY <2>3, <2>4
<1>10. (inflight = Cardinality({k \in Lanes : Busy(k)}))'
  BY DEF WorkInv, Counted, BusyLanes
<1> QED BY <1>5, <1>8, <1>9, <1>10 DEF Accounted, Held

LEMMA EndedAccounted ==
    ASSUME WorkInv, WorkInv', Accounted, NEW l \in Lanes, NEW a, NEW F, Ended(l, a, F)
    PROVE  Accounted'
<1>1. /\ phase = "parsing" /\ Busy(l) /\ UNCHANGED <<disk, had, order>>
      /\ done' = done + (lane[l].past - lane[l].from)
      /\ \/ Pull(l)
         \/ cursor > N /\ lane' = [lane EXCEPT ![l] = Idle] /\ UNCHANGED cursor
      /\ phase' \in {"parsing", "done"}
  BY DEF Ended, FinishPhase1, world
<1>2. /\ \A k \in Lanes \ {l} : lane'[k] = lane[k]
      /\ Busy(l)' <=> cursor <= N
  BY <1>1, NextLanes
<1>3. cursor \in 1..(N + 1) /\ N \in Nat
  BY Parameters DEF WorkInv, TypeOK
<1>4. cursor' \in Nat /\ cursor <= cursor' /\ Positions(l)' = cursor..(cursor' - 1)
  <2>1. CASE Pull(l)
    <3>1. cursor' \in (cursor + 1)..(N + 1) /\ lane'[l].from = cursor /\ lane'[l].past = cursor'
      BY <1>1, <2>1, PullKeeps
    <3> QED BY <1>3, <3>1 DEF Positions
  <2>2. CASE cursor > N /\ lane' = [lane EXCEPT ![l] = Idle] /\ UNCHANGED cursor
    <3>1. lane'[l].from = 1 /\ lane'[l].past = 1
      BY <2>2 DEF WorkInv, TypeOK, Idle
    <3>2. Positions(l)' = {} /\ cursor..(cursor - 1) = {}
      BY <1>3, <3>1 DEF Positions
    <3> QED BY <1>3, <2>2, <3>2
  <2> QED BY <1>1, <2>1, <2>2
<1>5. /\ \A k, m \in Lanes : k # m => Positions(k)' \cap Positions(m)' = {}
      /\ Cardinality(Held') = Cardinality(Held) - (lane[l].past - lane[l].from) + (cursor' - cursor)
  BY <1>2, <1>4, LaneTakes DEF Positions
<1>6. done + Cardinality(Held) = cursor - 1 /\ done \in Nat /\ Cardinality(Held) \in Nat
  BY HeldBelow, FS_CardinalityType DEF Accounted, Held, WorkInv, TypeOK
<1>7. done' + Cardinality(Held') = cursor' - 1
  <2>1. PICK d \in Int : d = lane[l].past - lane[l].from
    BY DEF WorkInv, TypeOK
  <2>2. PICK n \in Nat : n = Cardinality(Held)
    BY <1>6
  <2>3. cursor \in Nat /\ cursor' \in Nat
    BY <1>3, <1>4
  <2>4. PICK m \in Int : m = n - d + (cursor' - cursor)
    <3>1. n - d + (cursor' - cursor) \in Int
      BY <2>3
    <3> QED BY <3>1
  <2>5. done' = done + d /\ Cardinality(Held') = m
    BY <1>1, <1>5, <2>1, <2>2, <2>4
  <2>6. done + n = cursor - 1 /\ done \in Nat
    BY <1>6, <2>2
  <2>7. (done + d) + m = cursor' - 1
    BY <2>3, <2>4, <2>6
  <2> QED BY <2>5, <2>7
<1>8. ASSUME phase' = "parsing", cursor' <= N, NEW k \in Lanes PROVE Busy(k)'
  <2>1. cursor <= N
    BY <1>3, <1>4, <1>8
  <2>2. Busy(k)
    BY <1>1, <2>1 DEF Accounted
  <2> QED BY <1>2, <2>1, <2>2 DEF Busy
<1>9. (inflight = Cardinality({k \in Lanes : Busy(k)}))'
  BY DEF WorkInv, Counted, BusyLanes
<1> QED BY <1>5, <1>7, <1>8, <1>9 DEF Accounted, Held

(* A step that moves no slice. *)
LEMMA SlicesStay ==
    ASSUME Accounted, UNCHANGED <<cursor, inflight, done, phase>>,
           \A l \in Lanes : lane'[l].from = lane[l].from /\ lane'[l].past = lane[l].past
    PROVE  Accounted'
<1>1. \A l \in Lanes : Positions(l)' = Positions(l) /\ Busy(l)' = Busy(l)
  BY DEF Positions, Busy
<1>2. Held' = Held /\ {l \in Lanes : Busy(l)}' = {l \in Lanes : Busy(l)}
  BY <1>1 DEF Held
<1> QED BY <1>1, <1>2 DEF Accounted, Held

LEMMA ReadAccounted == ASSUME WorkInv, Accounted, NEW l \in Lanes, Read(l) PROVE Accounted'
<1>1. UNCHANGED <<cursor, inflight, done, phase>>
  BY DEF Read
<1>2. PICK g : lane' = [lane EXCEPT ![l].at = @ + 1, ![l].chunk[g] = disk[g]]
  BY DEF Read
<1>3. \A k \in Lanes : lane'[k].from = lane[k].from /\ lane'[k].past = lane[k].past
  BY <1>2 DEF WorkInv, TypeOK
<1> QED BY <1>1, <1>3, SlicesStay

LEMMA InitAccounted == ASSUME Init PROVE Accounted
<1>1. \A l \in Lanes : lane[l].from = 1 /\ lane[l].past = 1
  BY DEF Init, Idle
<1>2. \A l \in Lanes : Positions(l) = {} /\ ~Busy(l)
  BY <1>1 DEF Positions, Busy
<1>3. Held = {} /\ {l \in Lanes : Busy(l)} = {}
  BY <1>2 DEF Held
<1>4. Cardinality({}) = 0
  BY FS_EmptySet
<1>5. done = 0 /\ cursor = 1 /\ inflight = 0 /\ phase = "starting"
  BY DEF Init
<1>6. done + Cardinality(Held) = cursor - 1
  BY <1>3, <1>4, <1>5
<1> QED BY <1>2, <1>3, <1>4, <1>5, <1>6 DEF Accounted, Held

(* For any number of files and workers and any cuts of the queue: no file of   *)
(* the queue is lost or with two workers, the code's count of workers is that  *)
(* of the lanes that have a slice, and no lane is idle while slices are left.  *)
THEOREM AlwaysAccounted == Spec => []Accounted
<1>1. WorkInv /\ WorkInv' /\ Accounted /\ [Next]_vars => Accounted'
  <2> SUFFICES ASSUME WorkInv, WorkInv', Accounted, [Next]_vars PROVE Accounted'
    OBVIOUS
  <2>1. CASE \E l \in Lanes : Answer(l) \/ Fail(l)
    BY <2>1, EndedAccounted DEF Answer, Fail
  <2>2. CASE UNCHANGED queue
    BY <2>2, SlicesStay DEF queue
  <2>3. (\E f \in Files : Demand(f) \/ Refresh(f)) => UNCHANGED queue
    BY DEF Demand, Refresh
  <2>4. (\E f \in Files, c \in Contents : Edit(f, c) \/ Save(f, c)) => UNCHANGED queue
    BY DEF Edit, Save, Write
  <2>5. Hold \/ Repaint \/ UNCHANGED vars => UNCHANGED queue
    BY DEF Hold, Repaint, vars
  <2> QED BY <2>1, <2>2, <2>3, <2>4, <2>5, StartAccounted, ReadAccounted DEF Next
<1>2. Init => Accounted
  BY InitAccounted
<1> QED BY <1>1, <1>2, WorkersInvariant, PTL DEF Spec
-----------------------------------------------------------------------------
(* What the store shows. A merge numbers its rows by its turn, past all the    *)
(* turns before, so that the turn of the last ingest splits the rows into      *)
(* those the indexes hold and those they lack (Turned).                        *)
Turned(a) == \A r \in a.rows : r.turn <= a.merges
Seen(R, g, f) == {r \in R : r.file = f /\ r.turn <= g}
ShownInv == ShownMatches /\ Turned(acc) /\ ing <= acc.merges

(* A chunk's rows are none that is shown already.                             *)
LEMMA MergeTurns ==
    ASSUME NEW a \in Accs, Turned(a), NEW c, NEW g \in Nat, g <= a.merges
    PROVE  LET b == MergeChunk(a, c)
           IN  /\ Turned(b) /\ b.merges = a.merges + 1
               /\ \A f \in Files : Seen(b.rows, g, f) = Seen(a.rows, g, f)
<1> DEFINE b == MergeChunk(a, c)
           new == {f \in Files : c[f] \in Texts /\ f \notin a.arrived}
<1>1. /\ b.rows = a.rows \cup {Row(f, c[f], 0, a.merges + 1) : f \in new}
      /\ b.merges = a.merges + 1
  BY DEF MergeChunk
<1>2. a.merges \in Nat /\ \A r \in a.rows : r.turn \in Nat
  BY DEF Accs, Rows
<1>3. \A r \in b.rows : r \in a.rows \/ r.turn = a.merges + 1
  BY <1>1 DEF Row
<1>4. \A r \in a.rows : r \in b.rows
  BY <1>1
<1> HIDE DEF b, new
<1>5. Turned(b)
  BY <1>1, <1>2, <1>3 DEF Turned
<1>6. ASSUME NEW f \in Files PROVE Seen(b.rows, g, f) = Seen(a.rows, g, f)
  <2>1. ~(a.merges + 1 <= g)
    BY <1>2
  <2> QED BY <1>3, <1>4, <2>1 DEF Seen
<1> QED BY <1>1, <1>5, <1>6 DEF b

(* A step of the indexes counts the rows they lack, all of them those that    *)
(* are there; either way they hold the graph after it.                        *)
LEMMA StepShows ==
    ASSUME TypeOK, NEW a \in Accs, IsFiniteSet(a.rows), Turned(a),
           \A f \in Files : shown[f] = Cardinality(Seen(a.rows, ing, f)),
           IngestStep(a)
    PROVE  ing' = a.merges /\ \A f \in Files : shown'[f] = Cardinality(Seen(a.rows, a.merges, f))
<1> DEFINE lacks(f) == {r \in a.rows : r.file = f /\ r.turn > ing}
<1>1. ing' = a.merges /\ \A f \in Files : shown'[f] = shown[f] + Cardinality(lacks(f))
  BY DEF IngestStep
<1>2. ing \in Nat /\ \A r \in a.rows : r.turn \in Nat
  BY DEF TypeOK, Accs, Rows
<1>3. ASSUME NEW f \in Files PROVE shown'[f] = Cardinality(Seen(a.rows, a.merges, f))
  <2>1. PICK S : S = Seen(a.rows, ing, f)
    OBVIOUS
  <2>2. PICK L : L = lacks(f)
    OBVIOUS
  <2>3. S \in SUBSET a.rows /\ L \in SUBSET a.rows
    BY <2>1, <2>2 DEF Seen
  <2>4. S \cap L = {} /\ S \cup L = Seen(a.rows, a.merges, f)
    BY <1>2, <2>1, <2>2 DEF Seen, Turned
  <2>5. IsFiniteSet(S) /\ IsFiniteSet(L)
    BY <2>3, FS_Subset
  <2>6. Cardinality(S \cup L) = Cardinality(S) + Cardinality(L) - Cardinality(S \cap L)
    BY <2>5, FS_Union
  <2>7. PICK s \in Nat : s = Cardinality(S)
    BY <2>5, FS_CardinalityType
  <2>8. PICK n \in Nat : n = Cardinality(L)
    BY <2>5, FS_CardinalityType
  <2>9. Cardinality(S \cap L) = 0
    BY <2>4, FS_EmptySet
  <2>10. shown'[f] = s + n
    BY <1>1, <2>1, <2>2, <2>7, <2>8
  <2>11. Cardinality(S \cup L) = s + n
    BY <2>6, <2>7, <2>8, <2>9
  <2> QED BY <2>4, <2>10, <2>11
<1> QED BY <1>1, <1>3

LEMMA AllShows ==
    ASSUME NEW a \in Accs, Turned(a), Ingest(a)
    PROVE  ing' = a.merges /\ \A f \in Files : shown'[f] = Cardinality(Seen(a.rows, a.merges, f))
<1>1. ing' = a.merges /\ \A f \in Files : shown'[f] = Cardinality({r \in a.rows : r.file = f})
  BY DEF Ingest
<1>2. \A f \in Files : {r \in a.rows : r.file = f} = Seen(a.rows, a.merges, f)
  BY DEF Seen, Turned
<1> QED BY <1>1, <1>2

(* After a step that ingests the graph there is nothing to repaint for.       *)
LEMMA AfterIngest ==
    ASSUME NEW a \in Accs, Turned(a), acc' = a, ing' = a.merges,
           \A f \in Files : shown'[f] = Cardinality(Seen(a.rows, a.merges, f))
    PROVE  ShownInv'
<1>1. a.merges \in Nat
  BY DEF Accs
<1>2. Turned(acc)' /\ acc'.merges = a.merges /\ acc'.rows = a.rows
  BY DEF Turned
<1>3. (\A f \in Files : shown[f] = Cardinality({r \in acc.rows : r.file = f /\ r.turn <= ing}))'
  BY DEF Seen
<1> QED BY <1>1, <1>2, <1>3 DEF ShownInv, ShownMatches

(* After one that only adds rows the repaint must be due.                     *)
LEMMA AfterMerge ==
    ASSUME ShownInv, NEW a \in Accs, Turned(a), acc' = a, UNCHANGED <<shown, ing>>,
           ing <= a.merges, dirty' /\ pending',
           \A f \in Files : Seen(a.rows, ing, f) = Seen(acc.rows, ing, f)
    PROVE  ShownInv'
<1>1. Turned(acc)' /\ acc'.merges = a.merges /\ acc'.rows = a.rows
  BY DEF Turned
<1>2. \A f \in Files : shown[f] = Cardinality(Seen(acc.rows, ing, f))
  BY DEF ShownInv, ShownMatches, Seen
<1>3. \A f \in Files : shown[f] = Cardinality(Seen(a.rows, ing, f))
  BY <1>2
<1>4. (\A f \in Files : shown[f] = Cardinality({r \in acc.rows : r.file = f /\ r.turn <= ing}))'
  BY <1>3 DEF Seen
<1> QED BY <1>1, <1>4 DEF ShownInv, ShownMatches

LEMMA EndedShown ==
    ASSUME WorkInv, WorkInv', ShownInv, NEW l \in Lanes, NEW a \in Accs, NEW F \in SUBSET Files,
           Turned(a), ing <= a.merges,
           \A f \in Files : Seen(a.rows, ing, f) = Seen(acc.rows, ing, f),
           Ended(l, a, F)
    PROVE  ShownInv'
<1>1. /\ dirty' = TRUE /\ pending' = TRUE
      /\ \/ FinishPhase1(a, F)
         \/ acc' = a /\ UNCHANGED <<shown, ing>>
  BY DEF Ended, store
<1>2. CASE acc' = a /\ UNCHANGED <<shown, ing>>
  BY <1>1, <1>2, AfterMerge
<1>3. CASE FinishPhase1(a, F)
  <2>1. PICK b : b = IF F = {} THEN a ELSE MergeChunk(a, ChunkOf(F))
    OBVIOUS
  <2>2. acc' = Canonicalize(b) /\ Ingest(acc')
    BY <1>3, <2>1 DEF FinishPhase1
  <2>3. PICK d \in Accs : d = acc'
    <3>1. acc' \in Accs
      BY DEF WorkInv, TypeOK, Accs
    <3> QED BY <3>1
  <2>4. Turned(b)
    <3>1. CASE F = {}
      BY <2>1, <3>1
    <3>2. CASE F # {}
      <4>1. ing \in Nat
        BY DEF WorkInv, TypeOK
      <4>2. Turned(MergeChunk(a, ChunkOf(F)))
        BY <4>1, MergeTurns
      <4> QED BY <2>1, <3>2, <4>2
    <3> QED BY <3>1, <3>2
  <2>5. d.merges = b.merges /\ \A r \in d.rows : \E s \in b.rows : r.turn = s.turn
    <3>1. CASE F = {}
      <4>1. b \in Accs
        BY <2>1, <3>1
      <4>2. d.rows = {Row(r.file, r.text, r.file, r.turn) : r \in b.rows} /\ d.merges = b.merges
        BY <2>2, <2>3, <4>1, OtherRows DEF Canonicalize
      <4> QED BY <4>2 DEF Row
    <3>2. CASE F # {}
      <4>1. PICK R, s, u, w, m : b = [rows |-> R, stamps |-> s, unparsed |-> u, arrived |-> w, merges |-> m]
        BY <2>1, <3>2 DEF MergeChunk
      <4>2. d.rows = {Row(r.file, r.text, r.file, r.turn) : r \in b.rows} /\ d.merges = b.merges
        BY <2>2, <2>3, <4>1 DEF Canonicalize
      <4> QED BY <4>2 DEF Row
    <3> QED BY <3>1, <3>2
  <2>6. Turned(d)
    BY <2>4, <2>5 DEF Turned
  <2>7. Ingest(d)
    BY <2>2, <2>3
  <2> QED BY <2>3, <2>6, <2>7, AllShows, AfterIngest
<1> QED BY <1>1, <1>2, <1>3

LEMMA AnswerShown == ASSUME WorkInv, WorkInv', ShownInv, NEW l \in Lanes, Answer(l) PROVE ShownInv'
<1>1. acc \in Accs /\ Turned(acc) /\ ing \in Nat /\ ing <= acc.merges /\ failed \in SUBSET Files
      /\ IsFiniteSet(acc.rows) /\ acc.merges \in Nat
  BY AccType DEF WorkInv, TypeOK, ShownInv, Answer, Ended
<1>2. PICK c \in [Files -> Contents] : c = lane[l].chunk
  BY AnswerHeld
<1>4. PICK a \in Accs : a = MergeChunk(acc, c)
  BY <1>1, MergeAccs
<1>5. /\ Turned(a) /\ a.merges = acc.merges + 1
      /\ \A f \in Files : Seen(a.rows, ing, f) = Seen(acc.rows, ing, f)
  BY <1>1, <1>4, MergeTurns
<1>6. ing <= a.merges
  BY <1>1, <1>5
<1>7. Ended(l, a, failed)
  BY <1>2, <1>4 DEF Answer
<1> QED BY <1>1, <1>5, <1>6, <1>7, EndedShown

LEMMA FailShown == ASSUME WorkInv, WorkInv', ShownInv, NEW l \in Lanes, Fail(l) PROVE ShownInv'
<1>1. PICK a \in Accs : a = acc
  BY AccType
<1>2. PICK F : F = failed \cup Slice(l)
  OBVIOUS
<1>3. Ended(l, a, F) /\ failed' = F
  BY <1>1, <1>2 DEF Fail, Ended
<1>4. F \in SUBSET Files
  BY <1>3 DEF WorkInv, TypeOK
<1>5. Turned(a) /\ ing <= a.merges
  BY <1>1 DEF ShownInv
<1> QED BY <1>1, <1>3, <1>4, <1>5, EndedShown

LEMMA DemandShown == ASSUME WorkInv, WorkInv', ShownInv, NEW f \in Files, Demand(f) PROVE ShownInv'
<1>1. /\ phase = "parsing"
      /\ acc' = [MergeChunk(acc, ChunkOf({f})) EXCEPT !.arrived = @ \cup {f}]
      /\ IngestStep(acc')
  BY DEF Demand, OnChunk
<1>2. /\ acc \in Accs /\ Turned(acc) /\ ing \in Nat /\ ing <= acc.merges
      /\ \A g \in Files : shown[g] = Cardinality(Seen(acc.rows, ing, g))
  BY AccType DEF WorkInv, TypeOK, ShownInv, ShownMatches, Seen
<1>3. PICK a : a = MergeChunk(acc, ChunkOf({f}))
  OBVIOUS
<1>4. Turned(a) /\ \A g \in Files : Seen(a.rows, ing, g) = Seen(acc.rows, ing, g)
  BY <1>2, <1>3, MergeTurns
<1>5. PICK b \in Accs : b = acc'
  <2>1. acc' \in Accs
    BY DEF WorkInv, TypeOK, Accs
  <2> QED BY <2>1
<1>6. b.rows = a.rows /\ b.merges = a.merges
  BY <1>1, <1>3, <1>5 DEF MergeChunk
<1>7. /\ Turned(b) /\ IngestStep(b)
      /\ \A g \in Files : shown[g] = Cardinality(Seen(b.rows, ing, g))
  BY <1>1, <1>2, <1>4, <1>5, <1>6 DEF Turned
<1>8. IsFiniteSet(b.rows)
  BY <1>5 DEF WorkInv
<1>9. ing' = b.merges /\ \A g \in Files : shown'[g] = Cardinality(Seen(b.rows, b.merges, g))
  BY <1>7, <1>8, StepShows DEF WorkInv
<1> QED BY <1>5, <1>7, <1>9, AfterIngest

LEMMA RepaintShown == ASSUME WorkInv, ShownInv, Repaint PROVE ShownInv'
<1>1. CASE dirty' = FALSE /\ OnChunk(acc)
  <2>1. /\ acc \in Accs /\ Turned(acc) /\ IsFiniteSet(acc.rows) /\ acc' = acc /\ IngestStep(acc)
        /\ \A g \in Files : shown[g] = Cardinality(Seen(acc.rows, ing, g))
    BY <1>1, AccType DEF WorkInv, ShownInv, ShownMatches, Seen, Repaint, OnChunk
  <2>2. PICK a \in Accs : a = acc
    BY <2>1
  <2>3. ing' = a.merges /\ \A g \in Files : shown'[g] = Cardinality(Seen(a.rows, a.merges, g))
    BY <2>1, <2>2, StepShows DEF WorkInv
  <2> QED BY <2>1, <2>2, <2>3, AfterIngest
<1>2. CASE pending' = dirty /\ UNCHANGED <<dirty, store>>
  <2>1. acc' = acc
    BY DEF Repaint
  <2> QED BY <1>2, <2>1 DEF ShownInv, ShownMatches, Turned, store
<1> QED BY <1>1, <1>2 DEF Repaint

LEMMA RefreshShown ==
    ASSUME WorkInv, WorkInv', ShownInv, NEW f \in Files, Refresh(f)
    PROVE  ShownInv'
<1>1. /\ UNCHANGED <<dirty, pending>>
      /\ \/ UNCHANGED <<acc, shown, ing>>
         \/ acc' = Spliced(f) /\ Ingest(acc')
  BY DEF Refresh, timer, store
<1>2. CASE UNCHANGED <<acc, shown, ing>>
  BY <1>1, <1>2 DEF ShownInv, ShownMatches, Turned
<1>3. CASE acc' = Spliced(f) /\ Ingest(acc')
  <2>1. PICK b \in Accs : b = acc'
    <3>1. acc' \in Accs
      BY DEF WorkInv, TypeOK, Accs
    <3> QED BY <3>1
  <2>2. b.merges = acc.merges + 1 /\ \A r \in b.rows : r \in acc.rows \/ r.turn = acc.merges + 1
    BY <1>3, <2>1 DEF Spliced, Row
  <2>3. /\ Turned(acc) /\ acc.merges \in Nat /\ \A r \in acc.rows : r.turn \in Nat
    BY DEF ShownInv, WorkInv, TypeOK, Rows
  <2>4. Turned(b)
    BY <2>2, <2>3 DEF Turned
  <2>5. Ingest(b)
    BY <1>3, <2>1
  <2> QED BY <2>1, <2>4, <2>5, AllShows, AfterIngest
<1> QED BY <1>1, <1>2, <1>3

LEMMA InitShown == ASSUME Init PROVE ShownInv
<1>1. acc.rows = {} /\ acc.merges = 0 /\ ing = 0 /\ \A f \in Files : shown[f] = 0
  BY DEF Init
<1>2. \A f \in Files : {r \in acc.rows : r.file = f /\ r.turn <= ing} = {}
  BY <1>1
<1> QED BY <1>1, <1>2, FS_EmptySet DEF ShownInv, ShownMatches, Turned

(* Whatever is demanded, repainted and held back: after every step the indexes *)
(* hold of every file the rows a full ingest would, up to the last merge they  *)
(* took in, and a merge they lack has a repaint due and its timer set.         *)
THEOREM AlwaysShownMatches == Spec => []ShownMatches
<1>1. WorkInv /\ WorkInv' /\ ShownInv /\ [Next]_vars => ShownInv'
  <2> SUFFICES ASSUME WorkInv, WorkInv', ShownInv, [Next]_vars PROVE ShownInv'
    OBVIOUS
  <2>1. CASE UNCHANGED <<acc, shown, ing, dirty, pending>>
    BY <2>1 DEF ShownInv, ShownMatches, Turned
  <2>2. StartLane \/ (\E l \in Lanes : Read(l)) \/ UNCHANGED vars
          => UNCHANGED <<acc, shown, ing, dirty, pending>>
    BY DEF StartLane, Read, vars, store, timer
  <2>3. Hold \/ (\E f \in Files, c \in Contents : Edit(f, c) \/ Save(f, c))
          => UNCHANGED <<acc, shown, ing, dirty, pending>>
    BY DEF Hold, Edit, Save, Write, store, timer
  <2> QED BY <2>1, <2>2, <2>3, AnswerShown, FailShown, DemandShown, RefreshShown, RepaintShown DEF Next
<1>2. Init => ShownInv
  BY InitShown
<1>3. ShownInv => ShownMatches
  BY DEF ShownInv
<1> QED BY <1>1, <1>2, <1>3, WorkersInvariant, PTL DEF Spec
=============================================================================
