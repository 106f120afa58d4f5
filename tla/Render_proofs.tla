---------------------------- MODULE Render_proofs ----------------------------
(* Proofs about helmprov's executor, for every chart and every bound. The     *)
(* inductive invariant (IInv) says of the frames of the stack what each       *)
(* expects of the state its list is walked in (Runs, against the state of     *)
(* the frame's caller), that each stands at the node the next one came from   *)
(* (Stands), who is inside an arm or an include (Inside), that the spans tile *)
(* the output that counts, which an arm or an include sets aside (Tiling),    *)
(* and that an arm leaves nothing in the recorder that is not an arm's        *)
(* (Unnoted). Every lemma ...Good is that one step keeps it, every lemma      *)
(* Plain... that one step is seen from outside of arms as the same step of a  *)
(* render that does not explore.                                              *)
EXTENDS RenderOuter, SequenceTheorems, FiniteSetTheorems, FunctionTheorems, TLAPS

(***************************************************************************)
(* The elements of a sequence at some of its positions.                    *)
(***************************************************************************)
Rank(I, i) == Cardinality({k \in I : k <= i})

LEMMA RankType ==
  ASSUME NEW n \in Nat, NEW I \in SUBSET (1..n)
  PROVE  /\ IsFiniteSet(I)
         /\ Cardinality(I) \in Nat
         /\ \A i : IsFiniteSet({k \in I : k <= i})
         /\ \A i \in I : Rank(I, i) \in Nat /\ Rank(I, i) \in 1..Cardinality(I)
<1>1. IsFiniteSet(1..n)
  BY FS_Interval
<1>2. IsFiniteSet(I)
  BY <1>1, FS_Subset
<1>3. ASSUME NEW i
      PROVE  /\ IsFiniteSet({k \in I : k <= i})
             /\ Cardinality({k \in I : k <= i}) \in Nat
             /\ Cardinality({k \in I : k <= i}) <= Cardinality(I)
  <2>1. {k \in I : k <= i} \in SUBSET I
    OBVIOUS
  <2>. QED
    BY <1>2, <2>1, FS_Subset, FS_CardinalityType
<1>4. ASSUME NEW i \in I
      PROVE  Rank(I, i) # 0
  <2>1. i \in {k \in I : k <= i}
    OBVIOUS
  <2>. QED
    BY <1>3, <2>1, FS_EmptySet DEF Rank
<1>5. Cardinality(I) \in Nat
  BY <1>2, FS_CardinalityType
<1>6. \A i \in I : Rank(I, i) \in Nat /\ Rank(I, i) \in 1..Cardinality(I)
  <2>. TAKE i \in I
  <2>1. Rank(I, i) \in Nat /\ Rank(I, i) <= Cardinality(I) /\ Rank(I, i) # 0
    BY <1>3, <1>4 DEF Rank
  <2>. QED
    BY <2>1, <1>5
<1>. QED
  BY <1>2, <1>3, <1>5, <1>6

LEMMA RankMonotonic ==
  ASSUME NEW n \in Nat, NEW I \in SUBSET (1..n), NEW i \in I, NEW k \in I, i < k
  PROVE  Rank(I, i) < Rank(I, k)
<1>. DEFINE A == {m \in I : m <= i}
            B == {m \in I : m <= k}
<1>1. IsFiniteSet(B) /\ A \in SUBSET B /\ A # B
  <2>1. IsFiniteSet(B)
    BY RankType
  <2>2. i \in Nat /\ k \in Nat /\ \A m \in I : m \in Nat
    OBVIOUS
  <2>3. k \in B /\ k \notin A
    BY <2>2
  <2>4. A \in SUBSET B
    <3>1. ASSUME NEW m \in I, m <= i  PROVE  m <= k
      BY <2>2, <3>1
    <3>. QED
      BY <3>1
  <2>. QED
    BY <2>1, <2>3, <2>4
<1>2. Cardinality(A) <= Cardinality(B) /\ Cardinality(A) # Cardinality(B)
  BY <1>1, FS_Subset
<1>3. Cardinality(A) \in Nat /\ Cardinality(B) \in Nat
  BY <1>1, FS_Subset, FS_CardinalityType
<1>. QED
  BY <1>2, <1>3 DEF Rank

(* Every rank is that of one position. *)
LEMMA RankOnto ==
  ASSUME NEW n \in Nat, NEW I \in SUBSET (1..n), NEW j \in 1..Cardinality(I)
  PROVE  \E i \in I : Rank(I, i) = j
<1>. DEFINE r == [i \in I |-> Rank(I, i)]
            J == 1..Cardinality(I)
<1>1. /\ IsFiniteSet(I) /\ Cardinality(I) \in Nat
      /\ \A i \in I : Rank(I, i) \in J /\ Rank(I, i) \in Nat
  BY RankType
<1>0. r \in [I -> J]
  BY <1>1
<1>2. \A i, k \in I : r[i] = r[k] => i = k
  <2>1. SUFFICES ASSUME NEW i \in I, NEW k \in I, i # k
                 PROVE  Rank(I, i) # Rank(I, k)
    OBVIOUS
  <2>0. i \in Nat /\ k \in Nat
    OBVIOUS
  <2>2. CASE i < k
    <3>1. Rank(I, i) < Rank(I, k)
      BY <2>2, RankMonotonic
    <3>2. Rank(I, i) \in Nat /\ Rank(I, k) \in Nat
      BY <1>1
    <3>. QED
      BY <3>1, <3>2
  <2>3. CASE k < i
    <3>1. Rank(I, k) < Rank(I, i)
      BY <2>3, RankMonotonic
    <3>2. Rank(I, i) \in Nat /\ Rank(I, k) \in Nat
      BY <1>1
    <3>. QED
      BY <3>1, <3>2
  <2>. QED
    BY <2>0, <2>1, <2>2, <2>3
<1>3. r \in Injection(I, J)
  BY <1>0, <1>2, Fun_IsInj
<1>4. IsFiniteSet(J) /\ Cardinality(J) = Cardinality(I)
  BY <1>1, FS_Interval
<1>5. r \in Surjection(I, J)
  BY <1>1, <1>3, <1>4, FS_Injection
<1>6. \A t \in J : \E i \in I : r[i] = t
  BY <1>5 DEF Surjection
<1>. QED
  BY <1>6

LEMMA PickAt ==
  ASSUME NEW n \in Nat, NEW I \in SUBSET (1..n), NEW seq
  PROVE  \A i \in I : Pick(seq, I)[Rank(I, i)] = seq[i]
<1>. TAKE i \in I
<1>1. Rank(I, i) \in 1..Cardinality(I)
  BY RankType
<1>2. ASSUME NEW k \in I, Rank(I, k) = Rank(I, i)
      PROVE  k = i
  <2>1. k \in Nat /\ i \in Nat
    OBVIOUS
  <2>2. Rank(I, i) \in Nat
    BY RankType
  <2>3. ~(k < i)
    <3>1. SUFFICES ASSUME k < i  PROVE FALSE
      OBVIOUS
    <3>2. Rank(I, k) < Rank(I, i)
      BY <3>1, RankMonotonic
    <3>. QED
      BY <1>2, <2>2, <3>2
  <2>4. ~(i < k)
    <3>1. SUFFICES ASSUME i < k  PROVE FALSE
      OBVIOUS
    <3>2. Rank(I, i) < Rank(I, k)
      BY <3>1, RankMonotonic
    <3>. QED
      BY <1>2, <2>2, <3>2
  <2>. QED
    BY <2>1, <2>3, <2>4
<1>3. (CHOOSE k \in I : Rank(I, k) = Rank(I, i)) = i
  BY <1>2
<1>4. Pick(seq, I)[Rank(I, i)] = seq[CHOOSE k \in I : Rank(I, k) = Rank(I, i)]
  BY <1>1 DEF Pick, Rank
<1>. QED
  BY <1>3, <1>4

LEMMA PickUnique ==
  ASSUME NEW n \in Nat, NEW I \in SUBSET (1..n), NEW S, NEW seq, NEW out \in Seq(S),
         Len(out) = Cardinality(I),
         \A i \in I : out[Rank(I, i)] = seq[i]
  PROVE  out = Pick(seq, I)
<1>. DEFINE p == Pick(seq, I)
<1>1. p = [j \in 1..Cardinality(I) |-> p[j]]
  BY DEF Pick
<1>2. ASSUME NEW j \in 1..Cardinality(I)
      PROVE  out[j] = p[j]
  <2>1. PICK i \in I : Rank(I, i) = j
    BY RankOnto
  <2>2. p[Rank(I, i)] = seq[i]
    BY PickAt
  <2>. QED
    BY <2>1, <2>2
<1>. HIDE DEF p
<1>3. out \in [1..Cardinality(I) -> S]
  OBVIOUS
<1>4. out = [j \in 1..Cardinality(I) |-> out[j]]
  BY <1>3
<1>5. out = p
  BY <1>1, <1>2, <1>4
<1>. QED
  BY <1>5 DEF p

LEMMA PickType ==
  ASSUME NEW S, NEW seq \in Seq(S), NEW I \in SUBSET (1..Len(seq))
  PROVE  /\ Cardinality(I) \in Nat
         /\ Pick(seq, I) \in Seq(S)
         /\ Len(Pick(seq, I)) = Cardinality(I)
         /\ \A i \in I : Pick(seq, I)[Rank(I, i)] = seq[i]
<1>. DEFINE p == Pick(seq, I)
<1>0. Len(seq) \in Nat
  OBVIOUS
<1>1. Cardinality(I) \in Nat
  BY <1>0, RankType
<1>6. \A i \in I : p[Rank(I, i)] = seq[i]
  BY <1>0, PickAt
<1>2. ASSUME NEW j \in 1..Cardinality(I)
      PROVE  p[j] \in S
  <2>1. PICK i \in I : Rank(I, i) = j
    BY <1>0, RankOnto
  <2>. QED
    BY <1>6, <2>1
<1>3. p = [j \in 1..Cardinality(I) |-> p[j]]
  BY DEF Pick
<1>. HIDE DEF p
<1>4. p \in [1..Cardinality(I) -> S]
  BY <1>2, <1>3
<1>5. p \in Seq(S) /\ Len(p) = Cardinality(I)
  BY <1>1, <1>4
<1>. QED
  BY <1>1, <1>5, <1>6 DEF p

(* What is picked when the sequence grows. *)
LEMMA PickLeaves ==
  ASSUME NEW S, NEW seq \in Seq(S), NEW e \in S, NEW I \in SUBSET (1..Len(seq))
  PROVE  Pick(Append(seq, e), I) = Pick(seq, I)
<1>. DEFINE p == Pick(seq, I)
            bigger == Append(seq, e)
<1>1. Len(seq) \in Nat /\ \A i \in I : bigger[i] = seq[i]
  OBVIOUS
<1>2. p \in Seq(S) /\ Len(p) = Cardinality(I) /\ \A i \in I : p[Rank(I, i)] = seq[i]
  BY PickType
<1>3. \A i \in I : p[Rank(I, i)] = bigger[i]
  BY <1>1, <1>2
<1>. HIDE DEF p, bigger
<1>4. p = Pick(bigger, I)
  BY <1>1, <1>2, <1>3, PickUnique
<1>. QED
  BY <1>4 DEF p, bigger

LEMMA PickTakes ==
  ASSUME NEW S, NEW seq \in Seq(S), NEW e \in S, NEW I \in SUBSET (1..Len(seq))
  PROVE  Pick(Append(seq, e), I \cup {Len(seq) + 1}) = Append(Pick(seq, I), e)
<1>. DEFINE p == Pick(seq, I)
            last == Len(seq) + 1
            more == I \cup {last}
            bigger == Append(seq, e)
            out == Append(p, e)
<1>a. Len(seq) \in Nat /\ last \in Nat /\ \A i \in I : i \in 1..Len(seq)
  OBVIOUS
<1>b. bigger[last] = e /\ \A i \in 1..Len(seq) : bigger[i] = seq[i]
  OBVIOUS
<1>1. /\ Len(seq) \in Nat /\ last \in Nat
      /\ \A i \in I : i \in 1..Len(seq)
      /\ \A i \in I : bigger[i] = seq[i]
      /\ bigger[last] = e
  BY <1>a, <1>b
<1>2. /\ p \in Seq(S) /\ Len(p) = Cardinality(I) /\ Cardinality(I) \in Nat
      /\ \A i \in I : p[Rank(I, i)] = seq[i]
  BY PickType
<1>3. IsFiniteSet(I) /\ \A i \in I : Rank(I, i) \in 1..Cardinality(I)
  BY <1>1, RankType
<1>4. last \notin I /\ \A i \in more : i \in 1..last
  <2>1. ASSUME NEW n \in Nat, NEW J \in SUBSET (1..n)
        PROVE  n + 1 \notin J /\ \A i \in J \cup {n + 1} : i \in 1..(n + 1)
    OBVIOUS
  <2>. QED
    BY <1>1, <2>1
<1>5. Cardinality(more) = Cardinality(I) + 1
  BY <1>3, <1>4, FS_AddElement
<1>. HIDE DEF p
<1>6. /\ out \in Seq(S) /\ Len(out) = Cardinality(more)
      /\ \A j \in 1..Cardinality(I) : out[j] = p[j]
      /\ out[Cardinality(I) + 1] = e
  BY <1>2, <1>5
<1>. HIDE DEF out, bigger
<1>7. ASSUME NEW i \in I
      PROVE  out[Rank(more, i)] = bigger[i]
  <2>1. {k \in more : k <= i} = {k \in I : k <= i}
    <3>1. i <= Len(seq) /\ ~(last <= i)
      BY <1>1
    <3>. QED
      BY <3>1
  <2>2. Rank(more, i) = Rank(I, i)
    BY <2>1 DEF Rank
  <2>. QED
    BY <1>1, <1>2, <1>3, <1>6, <2>2
<1>8. out[Rank(more, last)] = bigger[last]
  <2>0. \A k \in more : k <= last
    BY <1>4, <1>1
  <2>1. {k \in more : k <= last} = more
    BY <2>0
  <2>2. Rank(more, last) = Cardinality(I) + 1
    BY <1>5, <2>1 DEF Rank
  <2>. QED
    BY <1>1, <1>6, <2>2
<1>9. \A i \in more : out[Rank(more, i)] = bigger[i]
  BY <1>7, <1>8
<1>10. more \in SUBSET (1..last)
  BY <1>4
<1>. HIDE DEF more, last
<1>11. out = Pick(bigger, more)
  <2>1. last \in Nat /\ more \in SUBSET (1..last) /\ out \in Seq(S) /\ Len(out) = Cardinality(more)
        /\ \A i \in more : out[Rank(more, i)] = bigger[i]
    BY <1>1, <1>6, <1>9, <1>10
  <2>. QED
    BY <2>1, PickUnique
<1>. QED
  BY <1>11 DEF p, bigger, out, more, last

(***************************************************************************)
(* The removal of "<no value>".                                            *)
(***************************************************************************)
LEMMA CardinalityOfParts ==
  ASSUME NEW A, NEW B, IsFiniteSet(A), IsFiniteSet(B), A \cap B = {}
  PROVE  IsFiniteSet(A \cup B) /\ Cardinality(A \cup B) = Cardinality(A) + Cardinality(B)
<1>1. /\ IsFiniteSet(A \cup B) /\ IsFiniteSet(A \cap B)
      /\ Cardinality(A \cup B) = Cardinality(A) + Cardinality(B) - Cardinality(A \cap B)
  BY FS_Union, FS_EmptySet
<1>2. Cardinality(A \cap B) = 0
  BY FS_EmptySet
<1>3. Cardinality(A) \in Nat /\ Cardinality(B) \in Nat
  BY FS_CardinalityType
<1>. QED
  BY <1>1, <1>2, <1>3

Counted(raw, x) == UNION {{c} \X (1..Overlap(x, c)) : c \in Cuts(raw)}
Removed(raw, x) == {i \in 1..x : i \notin Kept(raw)}

LEMMA CutsApart ==
  ASSUME NEW raw, NEW c \in Cuts(raw), NEW d \in Cuts(raw), c # d
  PROVE  c + 1 # d + 2
<1>1. c \in Int /\ d \in Int /\ raw[c + 1] = "<no" /\ raw[d + 2] = "value>"
  BY DEF Cuts
<1>. QED
  BY <1>1

(* Each byte removed before x is counted once: it is the first or the second *)
(* of one cut.                                                               *)
LEMMA CountedOnce ==
  ASSUME NEW raw \in Seq(Bytes), NEW x \in 0..Len(raw)
  PROVE  ExistsBijection(Counted(raw, x), Removed(raw, x))
<1>. DEFINE D == Counted(raw, x)
            R == Removed(raw, x)
            f == [d \in D |-> d[1] + d[2]]
<1>0. Len(raw) \in Nat /\ x \in Nat /\ x <= Len(raw) /\ DOMAIN raw = 1..Len(raw)
  OBVIOUS
<1>1. ASSUME NEW d \in D
      PROVE  /\ d[1] \in Cuts(raw) /\ d[2] \in 1..Overlap(x, d[1]) /\ d = <<d[1], d[2]>>
             /\ d[1] \in Nat /\ d[2] \in {1, 2} /\ d[1] + d[2] <= x
  <2>1. PICK c \in Cuts(raw) : d \in {c} \X (1..Overlap(x, c))
    BY DEF Counted
  <2>2. d[1] = c /\ d[2] \in 1..Overlap(x, c) /\ d = <<d[1], d[2]>>
    BY <2>1
  <2>3. c \in Nat
    BY DEF Cuts
  <2>4. d[2] \in {1, 2} /\ c + d[2] <= x
    BY <1>0, <2>2, <2>3 DEF Overlap
  <2>. QED
    BY <2>1, <2>2, <2>3, <2>4
<1>2. ASSUME NEW d \in D
      PROVE  f[d] \in R
  <2>1. /\ d[1] \in Cuts(raw) /\ d[1] \in Nat /\ d[2] \in {1, 2} /\ d[1] + d[2] <= x
    BY <1>1
  <2>2. d[1] + d[2] \in 1..x
    BY <1>0, <2>1
  <2>3. d[1] + d[2] \in {d[1] + 1, d[1] + 2}
    BY <2>1
  <2>4. d[1] + d[2] \notin Kept(raw)
    BY <2>1, <2>3 DEF Kept
  <2>. QED
    BY <2>2, <2>4 DEF Removed
<1>3. ASSUME NEW d \in D, NEW e \in D, f[d] = f[e]
      PROVE  d = e
  <2>1. /\ d[1] \in Cuts(raw) /\ d[1] \in Nat /\ d[2] \in {1, 2} /\ d = <<d[1], d[2]>>
        /\ e[1] \in Cuts(raw) /\ e[1] \in Nat /\ e[2] \in {1, 2} /\ e = <<e[1], e[2]>>
    BY <1>1
  <2>2. d[1] + d[2] = e[1] + e[2]
    BY <1>3
  <2>3. d[1] = e[1]
    <3>1. SUFFICES ASSUME d[1] # e[1]  PROVE FALSE
      OBVIOUS
    <3>2. d[1] + 1 # e[1] + 2 /\ e[1] + 1 # d[1] + 2
      BY <2>1, <3>1, CutsApart
    <3>. QED
      BY <2>1, <2>2, <3>1, <3>2
  <2>4. d[2] = e[2]
    BY <2>1, <2>2, <2>3
  <2>. QED
    BY <2>1, <2>3, <2>4
<1>4. ASSUME NEW r \in R
      PROVE  \E d \in D : f[d] = r
  <2>1. r \in Nat /\ r \in 1..x /\ r \in DOMAIN raw /\ r \notin Kept(raw)
    BY <1>0 DEF Removed
  <2>2. PICK c \in Cuts(raw) : r \in {c + 1, c + 2}
    BY <2>1 DEF Kept
  <2>3. c \in Nat
    BY DEF Cuts
  <2>4. r - c \in 1..Overlap(x, c)
    BY <1>0, <2>1, <2>2, <2>3 DEF Overlap
  <2>5. <<c, r - c>> \in D
    BY <2>4 DEF Counted
  <2>6. f[<<c, r - c>>] = r
    BY <2>1, <2>3, <2>5
  <2>. QED
    BY <2>5, <2>6
<1>5. f \in [D -> R]
  BY <1>2
<1>6. f \in Bijection(D, R)
  <2>1. f \in Injection(D, R)
    BY <1>3, <1>5, Fun_IsInj
  <2>2. f \in Surjection(D, R)
    BY <1>4, <1>5, Fun_IsSurj
  <2>. QED
    BY <2>1, <2>2 DEF Bijection
<1>. QED
  BY <1>6 DEF ExistsBijection

LEMMA ShiftCounts ==
  ASSUME NEW raw \in Seq(Bytes), NEW x \in 0..Len(raw)
  PROVE  /\ IsFiniteSet(Kept(raw) \cap (1..x))
         /\ Cardinality(Kept(raw) \cap (1..x)) \in Nat
         /\ Shift(raw, x) = Cardinality(Kept(raw) \cap (1..x))
<1>. DEFINE R == Removed(raw, x)
            K == Kept(raw) \cap (1..x)
<1>1. IsFiniteSet(1..x) /\ Cardinality(1..x) = x /\ x \in Nat
  <2>1. x \in Nat /\ Len(raw) \in Nat
    OBVIOUS
  <2>2. IsFiniteSet(1..x) /\ Cardinality(1..x) = IF 1 > x THEN 0 ELSE x - 1 + 1
    BY <2>1, FS_Interval
  <2>. QED
    BY <2>1, <2>2
<1>2. R \cup K = 1..x /\ R \cap K = {} /\ R \in SUBSET (1..x) /\ K \in SUBSET (1..x)
  BY DEF Removed
<1>3. IsFiniteSet(R) /\ IsFiniteSet(K)
  BY <1>1, <1>2, FS_Subset
<1>4. x = Cardinality(R) + Cardinality(K) /\ Cardinality(R) \in Nat /\ Cardinality(K) \in Nat
  BY <1>1, <1>2, <1>3, CardinalityOfParts, FS_CardinalityType
<1>5. Cardinality(Counted(raw, x)) = Cardinality(R)
  BY <1>3, CountedOnce, FS_Bijection, Fun_ExistsBijSymmetric
<1>6. Shift(raw, x) = x - Cardinality(R)
  BY <1>5 DEF Shift, Counted
<1>. QED
  BY <1>1, <1>3, <1>4, <1>6

(* What is left of the bytes of a span is the text at the offsets it moves    *)
(* to.                                                                        *)
LEMMA ShiftKeepsBytes ==
  ASSUME NEW raw \in Seq(Bytes), NEW a \in Nat, NEW b \in Nat, a <= b, b <= Len(raw)
  PROVE  /\ Shift(raw, b) <= Len(Strip(raw))
         /\ SubSeq(Strip(raw), Shift(raw, a) + 1, Shift(raw, b))
              = Pick(raw, Kept(raw) \cap ((a + 1)..b))
<1>. DEFINE K == Kept(raw)
            n == Len(raw)
            A == K \cap (1..a)
            I == K \cap ((a + 1)..b)
            p == Shift(raw, a)
            q == Shift(raw, b)
            text == Strip(raw)
            out == SubSeq(text, p + 1, q)
<1>0. n \in Nat /\ K \in SUBSET (1..n) /\ I \in SUBSET (1..n) /\ a \in 0..n /\ b \in 0..n
  <2>1. n \in Nat /\ DOMAIN raw = 1..n
    OBVIOUS
  <2>2. K \in SUBSET (1..n)
    BY <2>1 DEF Kept
  <2>. QED
    BY <2>1, <2>2
<1>1. /\ p = Cardinality(A) /\ q = Cardinality(K \cap (1..b)) /\ p \in Nat /\ q \in Nat
      /\ IsFiniteSet(A) /\ IsFiniteSet(K \cap (1..b))
  BY <1>0, ShiftCounts
<1>2. /\ text \in Seq(Bytes) /\ Len(text) = Cardinality(K) /\ Cardinality(K) \in Nat
      /\ \A i \in K : text[Rank(K, i)] = raw[i]
  BY <1>0, PickType DEF Strip
<1>3. IsFiniteSet(K) /\ IsFiniteSet(I) /\ Cardinality(I) \in Nat
  BY <1>0, RankType
<1>4. q <= Cardinality(K)
  <2>1. K \cap (1..b) \in SUBSET K
    OBVIOUS
  <2>. QED
    BY <1>1, <1>3, <2>1, FS_Subset
<1>5. q = p + Cardinality(I)
  <2>1. A \cap I = {} /\ A \cup I = K \cap (1..b)
    <3>1. \A i \in K : i \in Int
      BY <1>0
    <3>. QED
      BY <3>1
  <2>. QED
    BY <1>1, <1>3, <2>1, CardinalityOfParts
<1>6. ASSUME NEW i \in I
      PROVE  Rank(K, i) = p + Rank(I, i) /\ Rank(I, i) \in 1..Cardinality(I)
  <2>1. {k \in K : k <= i} = A \cup {k \in I : k <= i} /\ A \cap {k \in I : k <= i} = {}
    <3>1. \A k \in K : k \in Int /\ 1 <= k
      BY <1>0
    <3>2. i \in Int /\ a < i /\ i <= b /\ \A k \in I : a < k /\ k <= b /\ k \in K
      BY <1>0
    <3>3. \A k \in K : k <= i <=> (k \in 1..a \/ (k \in (a + 1)..b /\ k <= i))
      BY <3>1, <3>2
    <3>4. \A k \in A : k \notin I
      BY <3>1
    <3>5. \A k \in K : k <= i <=> (k \in A \/ (k \in I /\ k <= i))
      BY <3>3
    <3>6. \A k \in A : k \in K
      OBVIOUS
    <3>7. \A k \in I : k \in K
      OBVIOUS
    <3>. HIDE DEF A, I, K
    <3>. QED
      BY <3>4, <3>5, <3>6, <3>7
  <2>2. IsFiniteSet({k \in I : k <= i}) /\ Rank(I, i) \in 1..Cardinality(I)
    BY <1>0, RankType
  <2>3. Cardinality({k \in K : k <= i}) = Cardinality(A) + Cardinality({k \in I : k <= i})
    BY <1>1, <2>1, <2>2, CardinalityOfParts
  <2>. QED
    BY <1>1, <2>2, <2>3 DEF Rank
<1>. HIDE DEF p, q, text, K, I, n
<1>7. out \in Seq(Bytes) /\ Len(out) = Cardinality(I)
      /\ \A j \in 1..Cardinality(I) : out[j] = text[p + j]
  <2>0. p + 1 \in Int /\ q \in Int /\ p + 1 >= 1 /\ q <= Len(text)
    BY <1>1, <1>2, <1>4
  <2>1. \A i \in (p + 1)..q : text[i] \in Bytes
    BY <1>2, <2>0
  <2>2. /\ out \in Seq(Bytes)
        /\ Len(out) = IF p + 1 <= q THEN q - (p + 1) + 1 ELSE 0
        /\ \A j \in 1..(q - (p + 1) + 1) : out[j] = text[p + 1 + j - 1]
    BY <2>0, <2>1, SubSeqProperties
  <2>3. q - (p + 1) + 1 = Cardinality(I)
    BY <1>1, <1>3, <1>5
  <2>4. \A j \in 1..Cardinality(I) : p + 1 + j - 1 = p + j
    BY <1>1, <1>3
  <2>5. Len(out) = Cardinality(I)
    BY <1>1, <1>3, <1>5, <2>2
  <2>6. \A j \in 1..Cardinality(I) : out[j] = text[p + 1 + j - 1]
    BY <2>2, <2>3
  <2>7. \A j \in 1..Cardinality(I) : out[j] = text[p + j]
    BY <2>4, <2>6
  <2>. HIDE DEF out
  <2>. QED
    BY <2>2, <2>5, <2>7
<1>8. ASSUME NEW i \in I
      PROVE  out[Rank(I, i)] = raw[i]
  <2>1. i \in K
    BY DEF I
  <2>. QED
    BY <1>2, <1>6, <1>7, <2>1
<1>. HIDE DEF out
<1>9. \A i \in I : out[Rank(I, i)] = raw[i]
  BY <1>8
<1>10. n \in Nat /\ I \in SUBSET (1..n) /\ out \in Seq(Bytes) /\ Len(out) = Cardinality(I)
  BY <1>0, <1>7
<1>11. out = Pick(raw, I)
  BY <1>9, <1>10, PickUnique
<1>. QED
  BY <1>2, <1>4, <1>11 DEF out, p, q, text, K, I

(***************************************************************************)
(* The states of an execution, and what the operations change of them.     *)
(***************************************************************************)
LEMMA Parsed ==
  ASSUME NEW n \in AllNodes
  PROVE  /\ n.kind \in Writers \cup Jumps \cup {"text", "if", "range", "template", "include"}
         /\ n.at \in STRING
         /\ n.kind \in Writers \cup Jumps \cup {"if", "range"} => n.path \in Paths
         /\ n.kind = "text" => n.text \in Seq(Bytes)
         /\ n.kind = "if" => n.arms["then"] \in Seq(AllNodes) /\ n.arms["else"] \in Seq(AllNodes)
         /\ n.kind = "range" => n.arms["body"] \in Seq(AllNodes) /\ n.arms["else"] \in Seq(AllNodes)
         /\ n \in Nodes => /\ n.kind \notin Jumps
                           /\ n.kind = "if" => n.arms["then"] \in Seq(Nodes) /\ n.arms["else"] \in Seq(Nodes)
                           /\ n.kind = "range" => n.arms["else"] \in Seq(Nodes)
<1>1. Nodes \subseteq AllNodes /\ Seq(Nodes) \subseteq Seq(AllNodes)
  BY SeqMonotonic DEF AllNodes
<1>2. n.kind \in Writers \cup Jumps \cup {"text", "if", "range", "template", "include"}
  BY RenderAssumption
<1>3. CASE n \in Nodes
  <2>1. n.kind \notin Jumps /\ WellFormed(n, Nodes)
    BY <1>3, RenderAssumption
  <2>. QED
    BY <1>1, <1>2, <2>1 DEF WellFormed
<1>4. CASE n \in LoopNodes /\ n \notin Nodes
  <2>1. WellFormed(n, AllNodes)
    BY <1>4, RenderAssumption
  <2>. QED
    BY <1>2, <1>4, <2>1 DEF WellFormed
<1>. QED
  BY <1>3, <1>4 DEF AllNodes

Context(w) == <<w.counting, w.depth, w.calls, w.guards>>

LEMMA ContextIs ==
  ASSUME NEW w, NEW x
  PROVE  Context(x) = Context(w) <=> /\ x.counting = w.counting /\ x.depth = w.depth
                                     /\ x.calls = w.calls /\ x.guards = w.guards
BY DEF Context

Span == [start : Nat, end : Nat, at : STRING]
Read == [path : Paths, at : STRING, guard : Guards \cup {NoGuard}]
TakenArms == {"then", "else", "none", "unknown", "body", "empty"}
ArmNote == [at : STRING, taken : TakenArms, untaken : BOOLEAN]
Explored == [guard : Guards, text : Seq(Bytes), hole : BOOLEAN]

LEMMA Fields ==
  ASSUME NEW w \in State
  PROVE  /\ w.out \in Seq(Bytes) /\ w.counting \in BOOLEAN /\ w.vars \in Seq(Syms) /\ w.vars # <<>>
         /\ w.depth \in Nat /\ w.calls \in [Names -> Nat] /\ w.data \in [Paths -> Syms]
         /\ w.panic \in {"none", "error"} \cup Jumps
         /\ w.spans \in Seq(Span) /\ w.reads \in Seq(Read) /\ w.arms \in Seq(ArmNote)
         /\ w.explored \in Seq(Explored) /\ w.guards \in Seq(Guards)
BY DEF State, Span, Read, ArmNote, TakenArms, Explored

NewRead(w, n) == [path |-> n.path, at |-> n.at,
                  guard |-> IF w.guards = <<>> THEN NoGuard ELSE w.guards[Len(w.guards)]]

LEMMA GuardIsGuard ==
  ASSUME NEW g \in Guards
  PROVE  g # NoGuard /\ g[2] \in {"then", "else", "body", "symbolic"}
<1>1. g[2] \in {"then", "else", "body", "symbolic"} /\ DOMAIN g = 1..2
  BY DEF Guards
<1>2. DOMAIN NoGuard = {}
  BY DEF NoGuard
<1>3. 1 \in DOMAIN g
  BY <1>1
<1>. QED
  BY <1>1, <1>2, <1>3

LEMMA RecordReadState ==
  ASSUME NEW w \in State, NEW n, n.path \in Paths, n.at \in STRING
  PROVE  /\ RecordRead(w, n) \in State
         /\ Context(RecordRead(w, n)) = Context(w) /\ RecordRead(w, n).out = w.out
         /\ RecordRead(w, n).vars = w.vars /\ RecordRead(w, n).data = w.data
         /\ RecordRead(w, n).panic = w.panic /\ RecordRead(w, n).spans = w.spans
         /\ RecordRead(w, n).arms = w.arms /\ RecordRead(w, n).explored = w.explored
         /\ RecordRead(w, n).reads = Append(w.reads, NewRead(w, n))
         /\ NewRead(w, n) \in Read
         /\ w.guards = <<>> <=> NewRead(w, n).guard = NoGuard
<1>. DEFINE read == NewRead(w, n)
            reads == Append(w.reads, read)
<1>0. w.guards \in Seq(Guards) /\ w.reads \in Seq(Read)
  BY Fields
<1>1. w.guards # <<>> => w.guards[Len(w.guards)] \in Guards
  BY <1>0
<1>2. read \in Read
  BY <1>1 DEF Read, NewRead
<1>7. w.guards = <<>> <=> read.guard = NoGuard
  BY <1>1, GuardIsGuard DEF NewRead
<1>. HIDE DEF read
<1>3. reads \in Seq(Read)
  BY <1>0, <1>2
<1>4. RecordRead(w, n) = [w EXCEPT !.reads = reads]
  BY DEF RecordRead, read, NewRead
<1>. HIDE DEF reads
<1>5. [w EXCEPT !.reads = reads] \in State
  BY <1>3 DEF State, Read
<1>6. RecordRead(w, n).reads = reads
  BY <1>4 DEF State
<1>. DEFINE x == RecordRead(w, n)
<1>8. /\ x.out = w.out /\ x.counting = w.counting /\ x.depth = w.depth /\ x.calls = w.calls
      /\ x.guards = w.guards /\ x.vars = w.vars /\ x.data = w.data /\ x.panic = w.panic
      /\ x.spans = w.spans /\ x.arms = w.arms /\ x.explored = w.explored
  BY <1>4 DEF State
<1>. HIDE DEF x
<1>9. Context(x) = Context(w)
  BY <1>8, ContextIs
<1>. QED
  BY <1>2, <1>4, <1>5, <1>6, <1>7, <1>8, <1>9 DEF reads, read, x

NewSpan(w, n, bytes) == [start |-> Len(w.out), end |-> Len(w.out) + Len(bytes), at |-> n.at]

LEMMA EmitState ==
  ASSUME NEW w \in State, NEW n, n.at \in STRING, NEW bytes \in Seq(Bytes)
  PROVE  /\ Emit(w, n, bytes) \in State
         /\ Emit(w, n, bytes).out = w.out \o bytes /\ Context(Emit(w, n, bytes)) = Context(w)
         /\ Emit(w, n, bytes).vars = w.vars /\ Emit(w, n, bytes).data = w.data
         /\ Emit(w, n, bytes).panic = w.panic /\ Emit(w, n, bytes).reads = w.reads
         /\ Emit(w, n, bytes).arms = w.arms /\ Emit(w, n, bytes).explored = w.explored
         /\ ~w.counting => Emit(w, n, bytes).spans = w.spans
         /\ w.counting => Emit(w, n, bytes).spans = Append(w.spans, NewSpan(w, n, bytes))
<1>. DEFINE span == NewSpan(w, n, bytes)
            spans == IF ~w.counting THEN w.spans ELSE Append(w.spans, span)
            out == w.out \o bytes
<1>0. w.out \in Seq(Bytes) /\ w.spans \in Seq(Span) /\ w.counting \in BOOLEAN
  BY Fields
<1>1. out \in Seq(Bytes) /\ Len(w.out) \in Nat /\ Len(bytes) \in Nat
  BY <1>0
<1>2. span \in Span
  BY <1>1 DEF Span, NewSpan
<1>. HIDE DEF span
<1>3. spans \in Seq(Span)
  BY <1>0, <1>2
<1>4. Emit(w, n, bytes) = [w EXCEPT !.out = out, !.spans = spans]
  BY DEF Emit, span, NewSpan
<1>. HIDE DEF out, spans
<1>5. [w EXCEPT !.out = out, !.spans = spans] \in State
  BY <1>1, <1>3 DEF State, Span
<1>6. Emit(w, n, bytes).spans = spans
  BY <1>4 DEF State
<1>. DEFINE x == Emit(w, n, bytes)
<1>7. /\ x.out = out /\ x.counting = w.counting /\ x.depth = w.depth /\ x.calls = w.calls
      /\ x.guards = w.guards /\ x.vars = w.vars /\ x.data = w.data /\ x.panic = w.panic
      /\ x.reads = w.reads /\ x.arms = w.arms /\ x.explored = w.explored
  BY <1>4 DEF State
<1>. HIDE DEF x
<1>8. Context(x) = Context(w)
  BY <1>7, ContextIs
<1>. QED
  BY <1>4, <1>5, <1>6, <1>7, <1>8 DEF out, spans, span, x

(***************************************************************************)
(* What main keeps of the recorder.                                        *)
(***************************************************************************)
PlainReads(reads) == Pick(reads, {i \in DOMAIN reads : IsTaken(reads[i])})
PlainArms(arms) == Pick(arms, {i \in DOMAIN arms : ~arms[i].untaken})
PlainExplored(explored) == Pick(explored, {i \in DOMAIN explored : explored[i].guard[2] = "symbolic"})

LEMMA PlainReadsAppend ==
  ASSUME NEW reads \in Seq(Read), NEW r \in Read
  PROVE  /\ PlainReads(reads) \in Seq(Read)
         /\ r.guard = NoGuard => PlainReads(Append(reads, r)) = Append(PlainReads(reads), r)
         /\ r.guard # NoGuard => PlainReads(Append(reads, r)) = PlainReads(reads)
<1>. DEFINE I == {i \in DOMAIN reads : IsTaken(reads[i])}
            more == Append(reads, r)
            last == Len(reads) + 1
            J == {i \in DOMAIN more : IsTaken(more[i])}
<1>1. I \in SUBSET (1..Len(reads))
  OBVIOUS
<1>2. /\ DOMAIN more = (1..Len(reads)) \cup {last} /\ DOMAIN reads = 1..Len(reads)
      /\ more[last] = r /\ \A i \in 1..Len(reads) : more[i] = reads[i]
  <2>1. more \in Seq(Read) /\ Len(more) = last /\ Len(reads) \in Nat
    OBVIOUS
  <2>2. DOMAIN more = 1..last /\ DOMAIN reads = 1..Len(reads)
    BY <2>1
  <2>3. more[last] = r /\ \A i \in 1..Len(reads) : more[i] = reads[i]
    OBVIOUS
  <2>. QED
    BY <2>1, <2>2, <2>3
<1>3. ASSUME r.guard = NoGuard  PROVE J = I \cup {last}
  BY <1>2, <1>3 DEF IsTaken
<1>4. ASSUME r.guard # NoGuard  PROVE J = I
  BY <1>2, <1>4 DEF IsTaken
<1>5. Pick(more, I) = Pick(reads, I) /\ Pick(more, I \cup {last}) = Append(Pick(reads, I), r)
  BY <1>1, PickLeaves, PickTakes
<1>6. Pick(reads, I) \in Seq(Read)
  BY <1>1, PickType
<1>. QED
  BY <1>3, <1>4, <1>5, <1>6 DEF PlainReads

LEMMA PlainArmsAppend ==
  ASSUME NEW arms \in Seq(ArmNote), NEW r \in ArmNote
  PROVE  /\ PlainArms(arms) \in Seq(ArmNote)
         /\ ~r.untaken => PlainArms(Append(arms, r)) = Append(PlainArms(arms), r)
         /\ r.untaken => PlainArms(Append(arms, r)) = PlainArms(arms)
<1>. DEFINE I == {i \in DOMAIN arms : ~arms[i].untaken}
            more == Append(arms, r)
            last == Len(arms) + 1
            J == {i \in DOMAIN more : ~more[i].untaken}
<1>1. I \in SUBSET (1..Len(arms))
  OBVIOUS
<1>2. /\ DOMAIN more = (1..Len(arms)) \cup {last} /\ DOMAIN arms = 1..Len(arms)
      /\ more[last] = r /\ \A i \in 1..Len(arms) : more[i] = arms[i]
  <2>1. more \in Seq(ArmNote) /\ Len(more) = last /\ Len(arms) \in Nat
    OBVIOUS
  <2>2. DOMAIN more = 1..last /\ DOMAIN arms = 1..Len(arms)
    BY <2>1
  <2>3. more[last] = r /\ \A i \in 1..Len(arms) : more[i] = arms[i]
    OBVIOUS
  <2>. QED
    BY <2>1, <2>2, <2>3
<1>3. ASSUME ~r.untaken  PROVE J = I \cup {last}
  BY <1>2, <1>3
<1>4. ASSUME r.untaken  PROVE J = I
  BY <1>2, <1>4
<1>5. Pick(more, I) = Pick(arms, I) /\ Pick(more, I \cup {last}) = Append(Pick(arms, I), r)
  BY <1>1, PickLeaves, PickTakes
<1>6. Pick(arms, I) \in Seq(ArmNote)
  BY <1>1, PickType
<1>. QED
  BY <1>3, <1>4, <1>5, <1>6 DEF PlainArms

LEMMA PlainExploredAppend ==
  ASSUME NEW explored \in Seq(Explored), NEW r \in Explored
  PROVE  /\ PlainExplored(explored) \in Seq(Explored)
         /\ r.guard[2] = "symbolic" => PlainExplored(Append(explored, r)) = Append(PlainExplored(explored), r)
         /\ r.guard[2] # "symbolic" => PlainExplored(Append(explored, r)) = PlainExplored(explored)
<1>. DEFINE I == {i \in DOMAIN explored : explored[i].guard[2] = "symbolic"}
            more == Append(explored, r)
            last == Len(explored) + 1
            J == {i \in DOMAIN more : more[i].guard[2] = "symbolic"}
<1>1. I \in SUBSET (1..Len(explored))
  OBVIOUS
<1>2. /\ DOMAIN more = (1..Len(explored)) \cup {last} /\ DOMAIN explored = 1..Len(explored)
      /\ more[last] = r /\ \A i \in 1..Len(explored) : more[i] = explored[i]
  <2>1. more \in Seq(Explored) /\ Len(more) = last /\ Len(explored) \in Nat
    OBVIOUS
  <2>2. DOMAIN more = 1..last /\ DOMAIN explored = 1..Len(explored)
    BY <2>1
  <2>3. more[last] = r /\ \A i \in 1..Len(explored) : more[i] = explored[i]
    OBVIOUS
  <2>. QED
    BY <2>1, <2>2, <2>3
<1>3. ASSUME r.guard[2] = "symbolic"  PROVE J = I \cup {last}
  BY <1>2, <1>3
<1>4. ASSUME r.guard[2] # "symbolic"  PROVE J = I
  BY <1>2, <1>4
<1>5. Pick(more, I) = Pick(explored, I) /\ Pick(more, I \cup {last}) = Append(Pick(explored, I), r)
  BY <1>1, PickLeaves, PickTakes
<1>6. Pick(explored, I) \in Seq(Explored)
  BY <1>1, PickType
<1>. QED
  BY <1>3, <1>4, <1>5, <1>6 DEF PlainExplored

(***************************************************************************)
(* The spans tile an output.                                               *)
(***************************************************************************)
By(spans, i) == {k \in DOMAIN spans : spans[k].start < i /\ i <= spans[k].end}
Tiled(out, spans) ==
    /\ \A k \in DOMAIN spans : spans[k].start <= spans[k].end /\ spans[k].end <= Len(out)
    /\ \A i \in DOMAIN out :
          Cardinality(By(spans, i)) = 1 \/ (By(spans, i) = {} /\ out[i] = "error")

LEMMA TiledEmit ==
  ASSUME NEW out \in Seq(Bytes), NEW spans \in Seq(Span), NEW bytes \in Seq(Bytes), NEW at \in STRING,
         Tiled(out, spans)
  PROVE  Tiled(out \o bytes, Append(spans, [start |-> Len(out), end |-> Len(out) + Len(bytes), at |-> at]))
<1>. DEFINE span == [start |-> Len(out), end |-> Len(out) + Len(bytes), at |-> at]
            more == Append(spans, span)
            last == Len(spans) + 1
            all == out \o bytes
<1>1. /\ Len(out) \in Nat /\ Len(bytes) \in Nat /\ Len(spans) \in Nat /\ DOMAIN out = 1..Len(out)
      /\ DOMAIN spans = 1..Len(spans)
  OBVIOUS
<1>2. /\ span \in Span /\ span.start = Len(out) /\ span.end = Len(out) + Len(bytes)
      /\ \A k \in DOMAIN spans : spans[k] \in Span /\ spans[k].start \in Nat /\ spans[k].end \in Nat
  <2>1. span \in Span /\ span.start = Len(out) /\ span.end = Len(out) + Len(bytes)
    BY <1>1 DEF Span
  <2>2. \A k \in DOMAIN spans : spans[k] \in Span
    OBVIOUS
  <2>3. \A k \in DOMAIN spans : spans[k].start \in Nat /\ spans[k].end \in Nat
    BY <2>2 DEF Span
  <2>. QED
    BY <2>1, <2>2, <2>3
<1>. HIDE DEF span
<1>3. /\ Len(all) = Len(out) + Len(bytes) /\ DOMAIN all = 1..(Len(out) + Len(bytes))
      /\ \A i \in 1..Len(out) : all[i] = out[i]
  OBVIOUS
<1>4. Len(more) = last /\ DOMAIN more = 1..last /\ more[last] = span
      /\ \A k \in 1..Len(spans) : more[k] = spans[k]
  BY <1>1, <1>2
<1>. HIDE DEF more, all
<1>5. ASSUME NEW k \in DOMAIN more
      PROVE  more[k].start <= more[k].end /\ more[k].end <= Len(all)
  <2>1. CASE k = last
    BY <1>1, <1>2, <1>3, <1>4, <2>1
  <2>2. CASE k \in 1..Len(spans)
    <3>1. spans[k].start <= spans[k].end /\ spans[k].end <= Len(out)
      BY <1>1, <2>2 DEF Tiled
    <3>. QED
      BY <1>1, <1>2, <1>3, <1>4, <2>2, <3>1
  <2>. QED
    BY <1>1, <1>4, <2>1, <2>2
<1>6. ASSUME NEW i \in DOMAIN all
      PROVE  Cardinality(By(more, i)) = 1 \/ (By(more, i) = {} /\ all[i] = "error")
  <2>0. i \in Nat /\ i <= Len(out) + Len(bytes) /\ 1 <= i
    BY <1>1, <1>3
  <2>1. CASE i <= Len(out)
    <3>1. By(more, i) = By(spans, i)
      <4>1. ~(span.start < i)
        BY <1>1, <1>2, <2>0, <2>1
      <4>. QED
        BY <1>1, <1>4, <4>1 DEF By
    <3>2. i \in DOMAIN out /\ all[i] = out[i]
      BY <1>1, <1>3, <2>0, <2>1
    <3>. QED
      BY <3>1, <3>2 DEF Tiled
  <2>2. CASE ~(i <= Len(out))
    <3>1. \A k \in 1..Len(spans) : ~(i <= more[k].end)
      <4>. TAKE k \in 1..Len(spans)
      <4>1. spans[k].end <= Len(out) /\ spans[k].end \in Nat
        BY <1>1, <1>2 DEF Tiled
      <4>. QED
        BY <1>1, <1>4, <2>0, <2>2, <4>1
    <3>2. span.start < i /\ i <= span.end
      BY <1>1, <1>2, <2>0, <2>2
    <3>3. By(more, i) = {last}
      BY <1>1, <1>4, <3>1, <3>2 DEF By
    <3>. QED
      BY <3>3, FS_Singleton
  <2>. QED
    BY <2>1, <2>2
<1>. QED
  BY <1>5, <1>6 DEF Tiled, more, all, span

(* The marker of a hole is no node's. *)
LEMMA TiledHole ==
  ASSUME NEW out \in Seq(Bytes), NEW spans \in Seq(Span), Tiled(out, spans)
  PROVE  Tiled(Append(out, "error"), spans)
<1>. DEFINE all == Append(out, "error")
            last == Len(out) + 1
<1>1. Len(out) \in Nat /\ DOMAIN out = 1..Len(out)
  OBVIOUS
<1>2. Len(all) = last /\ DOMAIN all = 1..last /\ all[last] = "error" /\ \A i \in 1..Len(out) : all[i] = out[i]
  BY <1>1
<1>. HIDE DEF all
<1>3. \A k \in DOMAIN spans : /\ spans[k].start \in Nat /\ spans[k].end \in Nat
                             /\ spans[k].start <= spans[k].end /\ spans[k].end <= Len(out)
  <2>1. \A k \in DOMAIN spans : spans[k] \in Span
    OBVIOUS
  <2>2. \A k \in DOMAIN spans : spans[k].start \in Nat /\ spans[k].end \in Nat
    BY <2>1 DEF Span
  <2>. QED
    BY <2>2 DEF Tiled
<1>4. \A k \in DOMAIN spans : spans[k].end <= Len(all)
  BY <1>1, <1>2, <1>3
<1>5. By(spans, last) = {}
  BY <1>1, <1>3 DEF By
<1>6. ASSUME NEW i \in DOMAIN all
      PROVE  Cardinality(By(spans, i)) = 1 \/ (By(spans, i) = {} /\ all[i] = "error")
  <2>1. CASE i = last
    BY <1>2, <1>5, <2>1
  <2>2. CASE i \in 1..Len(out)
    BY <1>1, <1>2, <2>2 DEF Tiled
  <2>. QED
    BY <1>1, <1>2, <2>1, <2>2
<1>. QED
  BY <1>3, <1>4, <1>6 DEF Tiled, all

(***************************************************************************)
(* What walking a node does to a state: x goes on from w.                  *)
(***************************************************************************)
Noted(w) == <<w.spans, PlainReads(w.reads), PlainArms(w.arms), PlainExplored(w.explored)>>
Keeps(w, x) ==
    /\ w.counting /\ Tiled(w.out, w.spans) => Tiled(x.out, x.spans)
    /\ ~w.counting => x.spans = w.spans
    /\ w.guards # <<>> /\ ~w.counting => Noted(x) = Noted(w)
Continues(w, x) ==
    /\ x \in State
    /\ Context(x) = Context(w)
    /\ Len(x.vars) >= Len(w.vars)
    /\ Keeps(w, x)

LEMMA NotedIs ==
  ASSUME NEW w, NEW x
  PROVE  Noted(x) = Noted(w) <=> /\ x.spans = w.spans
                                 /\ PlainReads(x.reads) = PlainReads(w.reads)
                                 /\ PlainArms(x.arms) = PlainArms(w.arms)
                                 /\ PlainExplored(x.explored) = PlainExplored(w.explored)
BY DEF Noted

LEMMA ContinuesTransitive ==
  ASSUME NEW w \in State, NEW x, NEW y, Continues(w, x), Continues(x, y)
  PROVE  Continues(w, y)
<1>1. /\ x \in State /\ y \in State /\ Context(y) = Context(x) /\ Context(x) = Context(w)
      /\ Keeps(w, x) /\ Keeps(x, y)
      /\ Len(x.vars) >= Len(w.vars) /\ Len(y.vars) >= Len(x.vars)
  BY DEF Continues
<1>2. x.counting = w.counting /\ x.guards = w.guards
  BY <1>1, ContextIs
<1>3. Keeps(w, y)
  BY <1>1, <1>2 DEF Keeps
<1>4. Len(w.vars) \in Nat /\ Len(x.vars) \in Nat /\ Len(y.vars) \in Nat
  BY <1>1, Fields
<1>. QED
  BY <1>1, <1>3, <1>4 DEF Continues

(* Only variables, data or a panic change. *)
LEMMA ContinuesQuietly ==
  ASSUME NEW w \in State, NEW x \in State, Context(x) = Context(w), Len(x.vars) >= Len(w.vars),
         x.out = w.out, Noted(x) = Noted(w)
  PROVE  Continues(w, x)
<1>1. x.spans = w.spans
  BY NotedIs
<1>. QED
  BY <1>1 DEF Continues, Keeps

LEMMA SetVarsContinues ==
  ASSUME NEW w \in State, NEW vs \in Seq(Syms), Len(vs) >= Len(w.vars)
  PROVE  Continues(w, [w EXCEPT !.vars = vs])
<1>. DEFINE x == [w EXCEPT !.vars = vs]
<1>1. vs # <<>>
  <2>1. w.vars \in Seq(Syms) /\ w.vars # <<>>
    BY Fields
  <2>2. Len(w.vars) \in Nat /\ Len(w.vars) # 0
    BY <2>1
  <2>. QED
    BY <2>2
<1>2. x \in State
  BY <1>1 DEF State
<1>3. /\ x.vars = vs /\ x.counting = w.counting /\ x.depth = w.depth /\ x.calls = w.calls
      /\ x.guards = w.guards /\ x.out = w.out /\ x.spans = w.spans /\ x.reads = w.reads
      /\ x.arms = w.arms /\ x.explored = w.explored
  BY DEF State
<1>. HIDE DEF x
<1>4. Context(x) = Context(w) /\ Noted(x) = Noted(w)
  BY <1>3, ContextIs, NotedIs
<1>5. Continues(w, x)
  BY <1>2, <1>3, <1>4, ContinuesQuietly
<1>. QED
  BY <1>5 DEF x

LEMMA SetDataContinues ==
  ASSUME NEW w \in State, NEW d \in [Paths -> Syms]
  PROVE  Continues(w, [w EXCEPT !.data = d])
<1>. DEFINE x == [w EXCEPT !.data = d]
<1>2. x \in State
  BY DEF State
<1>3. /\ x.vars = w.vars /\ x.counting = w.counting /\ x.depth = w.depth /\ x.calls = w.calls
      /\ x.guards = w.guards /\ x.out = w.out /\ x.spans = w.spans /\ x.reads = w.reads
      /\ x.arms = w.arms /\ x.explored = w.explored
  BY DEF State
<1>. HIDE DEF x
<1>4. Context(x) = Context(w) /\ Noted(x) = Noted(w)
  BY <1>3, ContextIs, NotedIs
<1>5. Len(x.vars) >= Len(w.vars)
  <2>1. w.vars \in Seq(Syms)
    BY Fields
  <2>2. Len(w.vars) \in Nat
    BY <2>1
  <2>. QED
    BY <1>3, <2>2
<1>6. Continues(w, x)
  BY <1>2, <1>3, <1>4, <1>5, ContinuesQuietly
<1>. QED
  BY <1>6 DEF x

LEMMA PanicContinues ==
  ASSUME NEW w \in State, NEW p \in {"none", "error"} \cup Jumps
  PROVE  Continues(w, [w EXCEPT !.panic = p])
<1>. DEFINE x == [w EXCEPT !.panic = p]
<1>2. x \in State
  BY DEF State
<1>3. /\ x.vars = w.vars /\ x.counting = w.counting /\ x.depth = w.depth /\ x.calls = w.calls
      /\ x.guards = w.guards /\ x.out = w.out /\ x.spans = w.spans /\ x.reads = w.reads
      /\ x.arms = w.arms /\ x.explored = w.explored
  BY DEF State
<1>. HIDE DEF x
<1>4. Context(x) = Context(w) /\ Noted(x) = Noted(w)
  BY <1>3, ContextIs, NotedIs
<1>5. Len(x.vars) >= Len(w.vars)
  <2>1. w.vars \in Seq(Syms)
    BY Fields
  <2>2. Len(w.vars) \in Nat
    BY <2>1
  <2>. QED
    BY <1>3, <2>2
<1>6. Continues(w, x)
  BY <1>2, <1>3, <1>4, <1>5, ContinuesQuietly
<1>. QED
  BY <1>6 DEF x

LEMMA EmitContinues ==
  ASSUME NEW w \in State, NEW n, n.at \in STRING, NEW bytes \in Seq(Bytes)
  PROVE  Continues(w, Emit(w, n, bytes)) /\ Emit(w, n, bytes).panic = w.panic
<1>. DEFINE x == Emit(w, n, bytes)
            span == NewSpan(w, n, bytes)
<1>1. /\ x \in State
      /\ ~w.counting => x.spans = w.spans
      /\ w.counting => x.spans = Append(w.spans, span)
  BY EmitState
<1>2. /\ x.out = w.out \o bytes /\ Context(x) = Context(w)
      /\ x.vars = w.vars /\ x.reads = w.reads /\ x.arms = w.arms /\ x.explored = w.explored
      /\ x.panic = w.panic
  BY EmitState
<1>3. x.counting = w.counting
  BY <1>2, ContextIs
<1>. HIDE DEF x, span
<1>4. w.out \in Seq(Bytes) /\ w.spans \in Seq(Span) /\ w.vars \in Seq(Syms)
  BY Fields
<1>5. Tiled(w.out, w.spans) => Tiled(w.out \o bytes, Append(w.spans, span))
  BY <1>4, TiledEmit DEF span, NewSpan
<1>6. Len(x.vars) >= Len(w.vars)
  <2>1. Len(w.vars) \in Nat
    BY <1>4
  <2>. QED
    BY <1>2, <2>1
<1>7. w.counting /\ Tiled(w.out, w.spans) => Tiled(x.out, x.spans)
  BY <1>1, <1>2, <1>5
<1>8. ~w.counting => Noted(x) = Noted(w)
  BY <1>1, <1>2, NotedIs
<1>. QED
  BY <1>1, <1>2, <1>3, <1>6, <1>7, <1>8 DEF Continues, Keeps, x

LEMMA LengthOfVars ==
  ASSUME NEW w \in State
  PROVE  Len(w.vars) \in Nat /\ Len(w.vars) >= 1 /\ \A k \in 1..Len(w.vars) : w.vars[k] \in Syms
<1>1. w.vars \in Seq(Syms) /\ w.vars # <<>>
  BY Fields
<1>2. Len(w.vars) \in Nat /\ Len(w.vars) # 0 /\ \A k \in 1..Len(w.vars) : w.vars[k] \in Syms
  BY <1>1
<1>. QED
  BY <1>2

LEMMA RecordReadContinues ==
  ASSUME NEW w \in State, NEW n, n.path \in Paths, n.at \in STRING
  PROVE  Continues(w, RecordRead(w, n))
<1>. DEFINE x == RecordRead(w, n)
<1>1. /\ x \in State /\ Context(x) = Context(w) /\ x.out = w.out /\ x.vars = w.vars /\ x.spans = w.spans
      /\ x.arms = w.arms /\ x.explored = w.explored /\ x.reads = Append(w.reads, NewRead(w, n))
      /\ NewRead(w, n) \in Read
      /\ w.guards = <<>> <=> NewRead(w, n).guard = NoGuard
  BY RecordReadState
<1>2. w.reads \in Seq(Read)
  BY Fields
<1>. HIDE DEF x
<1>3. w.guards # <<>> => PlainReads(x.reads) = PlainReads(w.reads)
  BY <1>1, <1>2, PlainReadsAppend
<1>4. w.guards # <<>> => Noted(x) = Noted(w)
  BY <1>1, <1>3, NotedIs
<1>5. Len(x.vars) >= Len(w.vars)
  BY <1>1, LengthOfVars
<1>. QED
  BY <1>1, <1>4, <1>5 DEF Continues, Keeps, x

NewArm(w, n, taken) == [at |-> n.at, taken |-> taken, untaken |-> w.guards # <<>>]

LEMMA ArmState ==
  ASSUME NEW w \in State, NEW n, n.at \in STRING,
         NEW taken \in TakenArms
  PROVE  /\ Arm(w, n, taken) \in State
         /\ Context(Arm(w, n, taken)) = Context(w) /\ Arm(w, n, taken).out = w.out
         /\ Arm(w, n, taken).vars = w.vars /\ Arm(w, n, taken).data = w.data
         /\ Arm(w, n, taken).panic = w.panic /\ Arm(w, n, taken).spans = w.spans
         /\ Arm(w, n, taken).reads = w.reads /\ Arm(w, n, taken).explored = w.explored
         /\ ~Branches => Arm(w, n, taken).arms = w.arms
         /\ Branches => Arm(w, n, taken).arms = Append(w.arms, NewArm(w, n, taken))
         /\ NewArm(w, n, taken) \in ArmNote
         /\ NewArm(w, n, taken).untaken <=> w.guards # <<>>
<1>. DEFINE x == Arm(w, n, taken)
            r == NewArm(w, n, taken)
            arms == Append(w.arms, r)
<1>0. /\ r \in ArmNote
      /\ r.untaken <=> w.guards # <<>>
  BY DEF ArmNote, NewArm
<1>1. CASE ~Branches
  <2>1. x = w
    BY <1>1 DEF Arm
  <2>. QED
    BY <1>0, <1>1, <2>1 DEF Context
<1>2. CASE Branches
  <2>2. w.arms \in Seq(ArmNote)
    BY Fields
  <2>. HIDE DEF r
  <2>3. arms \in Seq(ArmNote)
    BY <1>0, <2>2
  <2>4. x = [w EXCEPT !.arms = arms]
    BY <1>2 DEF Arm, r, NewArm
  <2>. HIDE DEF arms
  <2>5. [w EXCEPT !.arms = arms] \in State
    BY <2>3 DEF State, ArmNote, TakenArms
  <2>6. /\ x.out = w.out /\ x.counting = w.counting /\ x.depth = w.depth /\ x.calls = w.calls
        /\ x.guards = w.guards /\ x.vars = w.vars /\ x.data = w.data /\ x.panic = w.panic
        /\ x.spans = w.spans /\ x.reads = w.reads /\ x.explored = w.explored /\ x.arms = arms
    BY <2>4 DEF State
  <2>7. x \in State
    BY <2>4, <2>5
  <2>. HIDE DEF x
  <2>8. Context(x) = Context(w)
    BY <2>6, ContextIs
  <2>. QED
    BY <1>0, <1>2, <2>6, <2>7, <2>8 DEF x, arms, r
<1>. QED
  BY <1>1, <1>2

LEMMA ArmContinues ==
  ASSUME NEW w \in State, NEW n, n.at \in STRING,
         NEW taken \in TakenArms
  PROVE  Continues(w, Arm(w, n, taken))
<1>. DEFINE x == Arm(w, n, taken)
            r == NewArm(w, n, taken)
<1>1. /\ x \in State /\ Context(x) = Context(w) /\ x.out = w.out /\ x.vars = w.vars /\ x.spans = w.spans
      /\ x.reads = w.reads /\ x.explored = w.explored
      /\ ~Branches => x.arms = w.arms
      /\ Branches => x.arms = Append(w.arms, r)
      /\ r \in ArmNote
      /\ r.untaken <=> w.guards # <<>>
  <2>1. /\ x \in State /\ Context(x) = Context(w) /\ x.out = w.out /\ x.vars = w.vars /\ x.spans = w.spans
        /\ x.reads = w.reads /\ x.explored = w.explored
    <3>1. x \in State /\ Context(x) = Context(w) /\ x.out = w.out
      BY ArmState
    <3>2. x.vars = w.vars /\ x.spans = w.spans
      BY ArmState
    <3>3. x.reads = w.reads /\ x.explored = w.explored
      BY ArmState
    <3>. HIDE DEF x
    <3>. QED
      BY <3>1, <3>2, <3>3
  <2>2. ~Branches => x.arms = w.arms
    BY ArmState
  <2>3. Branches => x.arms = Append(w.arms, r)
    BY ArmState
  <2>4. /\ r \in ArmNote
        /\ r.untaken <=> w.guards # <<>>
    BY ArmState
  <2>. HIDE DEF x, r
  <2>. QED
    BY <2>1, <2>2, <2>3, <2>4
<1>3. w.arms \in Seq(ArmNote)
  BY Fields
<1>. HIDE DEF x, r
<1>4. w.guards # <<>> => PlainArms(x.arms) = PlainArms(w.arms)
  BY <1>1, <1>3, PlainArmsAppend
<1>5. w.guards # <<>> => Noted(x) = Noted(w)
  BY <1>1, <1>4, NotedIs
<1>6. Len(x.vars) >= Len(w.vars)
  BY <1>1, LengthOfVars
<1>. QED
  BY <1>1, <1>5, <1>6 DEF Continues, Keeps, x

LEMMA EmitAfter ==
  ASSUME NEW w \in State, NEW x, Continues(w, x), NEW n, n.at \in STRING, NEW bytes \in Seq(Bytes)
  PROVE  Continues(w, Emit(x, n, bytes)) /\ Emit(x, n, bytes).panic = x.panic
<1>1. x \in State
  BY DEF Continues
<1>2. Continues(x, Emit(x, n, bytes)) /\ Emit(x, n, bytes).panic = x.panic
  BY <1>1, EmitContinues
<1>. QED
  BY <1>2, ContinuesTransitive

LEMMA ShownIs ==
  ASSUME NEW z \in Syms
  PROVE  Shown(z) \in Seq(Bytes)
<1>1. {"<no", "value>", "unknown", "1", "2", "error"} \subseteq Bytes
  BY RenderAssumption
<1>2. <<"<no", "value>">> \in Seq(Bytes) /\ <<"unknown">> \in Seq(Bytes)
  BY <1>1
<1>3. <<"1">> \in Seq(Bytes) /\ <<"2">> \in Seq(Bytes)
  BY <1>1
<1>4. z \in {Absent, Unknown, 1, 2}
  BY DEF Syms, Values
<1>. QED
  BY <1>2, <1>3, <1>4 DEF Shown, Absent, Unknown, NoValue

LEMMA ActionContinues ==
  ASSUME NEW w \in State, NEW n \in AllNodes, n.kind \in Writers
  PROVE  /\ Continues(w, Action(n, w))
         /\ Action(n, w).panic \in {w.panic, "error"}
<1>. DEFINE r == RecordRead(w, n)
            v == w.data[n.path]
<1>1. n.path \in Paths /\ n.at \in STRING
  BY Parsed
<1>2. /\ r \in State /\ Continues(w, r) /\ r.vars = w.vars /\ r.panic = w.panic
  BY <1>1, RecordReadState, RecordReadContinues
<1>3. w.data \in [Paths -> Syms] /\ w.vars \in Seq(Syms)
  BY Fields
<1>4. v \in Syms
  BY <1>1, <1>3
<1>5. \A z \in Syms : Shown(z) \in Seq(Bytes)
  BY ShownIs
<1>6. <<>> \in Seq(Bytes)
  OBVIOUS
<1>7. /\ Len(w.vars) \in Nat /\ Len(w.vars) >= 1 /\ \A k \in 1..Len(w.vars) : w.vars[k] \in Syms
  BY LengthOfVars
<1>14. \A x : Continues(r, x) => Continues(w, x)
  BY <1>2, ContinuesTransitive
<1>. HIDE DEF r, v
<1>8. CASE n.kind = "print"
  <2>1. Action(n, w) = Emit(r, n, Shown(v))
    BY <1>8 DEF Action, r, v
  <2>. QED
    BY <1>1, <1>2, <1>4, <1>5, <2>1, EmitAfter
<1>9. CASE n.kind = "deref"
  <2>1. Action(n, w) = IF v = Absent THEN Fail(r) ELSE Emit(r, n, Shown(v))
    BY <1>9 DEF Action, r, v
  <2>2. Continues(r, Fail(r)) /\ Fail(r).panic = "error"
    <3>1. Continues(r, [r EXCEPT !.panic = "error"])
      BY <1>2, PanicContinues
    <3>2. [r EXCEPT !.panic = "error"].panic = "error"
      BY <1>2 DEF State
    <3>. QED
      BY <3>1, <3>2 DEF Fail
  <2>. QED
    BY <1>1, <1>2, <1>4, <1>5, <1>14, <2>1, <2>2, EmitAfter
<1>10. CASE n.kind = "let"
  <2>. DEFINE vs == Append(w.vars, v)
              x == [r EXCEPT !.vars = vs]
  <2>1. Action(n, w) = Emit(x, n, <<>>)
    BY <1>2, <1>10 DEF Action, r, v
  <2>2. vs \in Seq(Syms) /\ Len(vs) = Len(w.vars) + 1
    BY <1>3, <1>4
  <2>. HIDE DEF vs
  <2>5. Len(vs) >= Len(r.vars)
    BY <1>2, <1>7, <2>2
  <2>3. Continues(r, x)
    BY <1>2, <2>2, <2>5, SetVarsContinues
  <2>4. x.panic = w.panic /\ x \in State
    BY <1>2, <2>3 DEF State, Continues
  <2>. HIDE DEF x
  <2>6. Continues(w, x)
    BY <1>14, <2>3
  <2>7. Continues(w, Emit(x, n, <<>>)) /\ Emit(x, n, <<>>).panic = x.panic
    BY <1>1, <1>6, <2>6, EmitAfter
  <2>. QED
    BY <2>1, <2>4, <2>7
<1>11. CASE n.kind = "assign"
  <2>. DEFINE vs == [w.vars EXCEPT ![Len(w.vars)] = v]
              x == [r EXCEPT !.vars = vs]
  <2>1. Action(n, w) = Emit(x, n, <<>>)
    <3>1. Action(n, w) = Emit([r EXCEPT !.vars[Len(w.vars)] = v], n, <<>>)
      BY <1>11 DEF Action, r, v
    <3>2. [r EXCEPT !.vars[Len(w.vars)] = v] = x
      BY <1>2
    <3>. QED
      BY <3>1, <3>2
  <2>2. vs \in Seq(Syms) /\ Len(vs) = Len(w.vars)
    BY <1>3, <1>4, <1>7, ExceptSeq
  <2>. HIDE DEF vs
  <2>5. Len(vs) >= Len(r.vars)
    BY <1>2, <1>7, <2>2
  <2>3. Continues(r, x)
    BY <1>2, <2>2, <2>5, SetVarsContinues
  <2>4. x.panic = w.panic /\ x \in State
    BY <1>2, <2>3 DEF State, Continues
  <2>. HIDE DEF x
  <2>6. Continues(w, x)
    BY <1>14, <2>3
  <2>7. Continues(w, Emit(x, n, <<>>)) /\ Emit(x, n, <<>>).panic = x.panic
    BY <1>1, <1>6, <2>6, EmitAfter
  <2>. QED
    BY <2>1, <2>4, <2>7
<1>12. CASE n.kind = "set"
  <2>. DEFINE d == [w.data EXCEPT ![n.path] = IF Symbolic THEN @ ELSE 1]
              x == [w EXCEPT !.data = d]
  <2>1. Action(n, w) = Emit(x, n, <<>>)
    BY <1>12 DEF Action
  <2>2. d \in [Paths -> Syms]
    BY <1>1, <1>3 DEF Syms, Values
  <2>. HIDE DEF d
  <2>3. Continues(w, x)
    BY <2>2, SetDataContinues
  <2>4. x.panic = w.panic /\ x \in State
    BY <2>3 DEF State, Continues
  <2>. HIDE DEF x
  <2>7. Continues(w, Emit(x, n, <<>>)) /\ Emit(x, n, <<>>).panic = x.panic
    BY <1>1, <1>6, <2>3, EmitAfter
  <2>. QED
    BY <2>1, <2>4, <2>7
<1>13. CASE n.kind = "show"
  <2>1. Action(n, w) = Emit(w, n, Shown(w.vars[Len(w.vars)]))
    BY <1>13 DEF Action
  <2>2. w.vars[Len(w.vars)] \in Syms
    BY <1>7
  <2>3. Shown(w.vars[Len(w.vars)]) \in Seq(Bytes)
    BY <1>5, <2>2
  <2>. QED
    BY <1>1, <2>1, <2>3, EmitContinues
<1>. QED
  BY <1>8, <1>9, <1>10, <1>11, <1>12, <1>13 DEF Writers

HoleNoted(w, at) ==
    [w EXCEPT !.panic = "none", !.out = Append(@, "error"),
              !.explored = Append(@, [guard |-> <<at, "symbolic">>, text |-> <<>>, hole |-> TRUE])]

LEMMA HoleContinues ==
  ASSUME NEW w \in State, NEW at \in STRING, w.guards = <<>>
  PROVE  Continues(w, HoleNoted(w, at)) /\ HoleNoted(w, at).panic = "none"
<1>. DEFINE note == [guard |-> <<at, "symbolic">>, text |-> <<>>, hole |-> TRUE]
            explored == Append(w.explored, note)
            out == Append(w.out, "error")
            x == [w EXCEPT !.panic = "none", !.out = out, !.explored = explored]
<1>1. /\ w.explored \in Seq(Explored) /\ w.out \in Seq(Bytes) /\ w.spans \in Seq(Span)
  BY Fields
<1>2. note \in Explored
  BY DEF Explored, Guards
<1>. HIDE DEF note
<1>3. explored \in Seq(Explored) /\ out \in Seq(Bytes)
  <2>1. explored \in Seq(Explored)
    BY <1>1, <1>2
  <2>2. out \in Seq(Bytes)
    <3>1. "error" \in Bytes
      BY RenderAssumption
    <3>. QED
      BY <1>1, <3>1
  <2>. QED
    BY <2>1, <2>2
<1>4. HoleNoted(w, at) = x
  BY DEF HoleNoted, note
<1>5. Tiled(w.out, w.spans) => Tiled(out, w.spans)
  BY <1>1, TiledHole
<1>. HIDE DEF explored, out
<1>6. x \in State
  BY <1>3 DEF State, Explored
<1>7. /\ x.out = out /\ x.counting = w.counting /\ x.depth = w.depth /\ x.calls = w.calls
      /\ x.guards = w.guards /\ x.vars = w.vars /\ x.panic = "none" /\ x.spans = w.spans
  BY DEF State
<1>. HIDE DEF x
<1>8. Context(x) = Context(w)
  BY <1>7, ContextIs
<1>9. Len(x.vars) >= Len(w.vars)
  BY <1>7, LengthOfVars
<1>. QED
  BY <1>4, <1>5, <1>6, <1>7, <1>8, <1>9 DEF Continues, Keeps

(***************************************************************************)
(* The inductive invariant: the frames of the stack.                       *)
(***************************************************************************)
Kinds == {"main", "if", "range", "empty", "arm", "template", "include"}
Frames == [kind : Kinds, node : AllNodes \cup {File}, list : Seq(AllNodes), i : Nat \ {0},
           left : Int, caller : State]

(* A frame by itself: where it stands in its list, and what the list is.     *)
FrameOK(f) ==
    /\ f.i <= Len(f.list) + 1
    /\ f.caller.panic = "none"
    /\ f.kind \in {"if", "range", "empty", "arm"} => f.node \in AllNodes
    /\ f.kind = "if" => f.node.kind = "if"
    /\ f.kind \in {"range", "empty"} => f.node.kind = "range"
    /\ f.kind \in {"if", "empty"} /\ f.node \in Nodes => f.list \in Seq(Nodes)
    /\ f.kind \in {"main", "template", "include"} => f.list \in Seq(Nodes)
    /\ f.kind = "include" => f.node.name \in Names
    /\ f.kind = "range" => LET v == f.caller.data[f.node.path] IN
                              \/ v = Unknown /\ f.left = 1
                              \/ v \in {1, 2} /\ f.left \in 1..v

(* The state x in which a frame's list is walked, against that of its caller. *)
Runs(f, x) ==
    /\ f.kind = "main" => x.guards = <<>> /\ x.counting /\ x.depth = 0 /\ \A t \in Names : x.calls[t] = 0
    /\ f.kind \in {"if", "range", "empty"} => Len(x.vars) >= Len(f.caller.vars)
    /\ f.kind \in {"if", "range", "empty", "template"} => x.counting = f.caller.counting
    /\ f.kind \in {"if", "range", "empty", "template", "include"} => x.guards = f.caller.guards
    /\ f.kind \in {"if", "range", "empty", "arm"} => x.depth = f.caller.depth
    /\ f.kind \in {"if", "range", "empty", "arm", "template"} => x.calls = f.caller.calls
    /\ f.kind = "include" => x.calls = [f.caller.calls EXCEPT ![f.node.name] = @ + 1]
    /\ f.kind \in {"arm", "include"} => ~x.counting
    /\ f.kind = "arm" => x.guards # <<>> /\ x.guards[Len(x.guards)][2] # "symbolic"

(* A node's list is walked from the node; an arm is left to the node after.   *)
Stands(st, j) ==
    j > 1 /\ st[j].kind # "arm" => /\ st[j - 1].i <= Len(st[j - 1].list)
                                   /\ st[j].node = st[j - 1].list[st[j - 1].i]

Ran(st, w, j) == IF j = Len(st) THEN w ELSE st[j + 1].caller
Chain(st, w) ==
    \A j \in DOMAIN st :
       /\ FrameOK(st[j])
       /\ Runs(st[j], Ran(st, w, j))
       /\ st[j].kind = "main" <=> j = 1
       /\ Stands(st, j)

(* Who is inside an include or an arm does not count, who is inside an arm    *)
(* has guards, and who has guards is inside an arm entered without.           *)
Inside(st, w) ==
    /\ \A j \in DOMAIN st : st[j].kind \in {"arm", "include"} =>
          ~w.counting /\ \A k \in DOMAIN st : k > j => ~st[k].caller.counting
    /\ \A j \in DOMAIN st : st[j].kind = "arm" =>
          w.guards # <<>> /\ \A k \in DOMAIN st : k > j => st[k].caller.guards # <<>>
    /\ w.guards # <<>> => \E j \in DOMAIN st : st[j].kind = "arm" /\ st[j].caller.guards = <<>>

(* The spans tile the output that counts, which an arm or an include sets     *)
(* aside.                                                                     *)
Tiling(st, w) ==
    /\ w.counting => Tiled(w.out, w.spans)
    /\ \A j \in DOMAIN st : st[j].kind \in {"arm", "include"} /\ st[j].caller.counting =>
          Tiled(st[j].caller.out, w.spans)

(* An arm leaves nothing in the recorder that is not an arm's.                *)
Unnoted(st, w) ==
    \A j \in DOMAIN st : st[j].kind = "arm" /\ st[j].caller.guards = <<>> =>
        Noted(w) = Noted(st[j].caller)

Good(st, w) ==
    /\ w \in State /\ st \in Seq(Frames) /\ st # <<>>
    /\ Chain(st, w) /\ Inside(st, w) /\ Tiling(st, w) /\ Unnoted(st, w)

LEMMA Below ==
  ASSUME NEW n \in Nat, n > 1
  PROVE  /\ n - 1 \in Nat /\ n - 1 >= 1 /\ n - 1 \in 1..(n - 1) /\ n - 1 + 1 = n /\ n - 1 \in 1..n
         /\ \A j \in 1..(n - 1) : j \in 1..n /\ j # n /\ j < n
         /\ \A j \in 1..n : j = n \/ j \in 1..(n - 1)
         /\ \A j \in 1..(n - 1) : j # n - 1 => j + 1 \in 1..(n - 1)
OBVIOUS

LEMMA NextIn ==
  ASSUME NEW n \in Nat, NEW j \in 1..n, j # n
  PROVE  j + 1 \in 1..n
OBVIOUS

LEMMA FrameFields ==
  ASSUME NEW f \in Frames
  PROVE  /\ f.kind \in Kinds /\ f.list \in Seq(AllNodes) /\ f.i \in Nat \ {0} /\ f.left \in Int
         /\ f.caller \in State
BY DEF Frames

LEMMA StackOf ==
  ASSUME NEW st \in Seq(Frames), st # <<>>
  PROVE  /\ Len(st) \in Nat /\ Len(st) >= 1 /\ DOMAIN st = 1..Len(st)
         /\ \A j \in DOMAIN st : st[j] \in Frames /\ st[j].caller \in State
<1>1. Len(st) \in Nat /\ Len(st) # 0 /\ DOMAIN st = 1..Len(st)
  OBVIOUS
<1>2. \A j \in DOMAIN st : st[j] \in Frames
  OBVIOUS
<1>. QED
  BY <1>1, <1>2, FrameFields

LEMMA RunsOn ==
  ASSUME NEW f \in Frames, NEW w \in State, NEW x \in State, Runs(f, w),
         Context(x) = Context(w), Len(x.vars) >= Len(w.vars)
  PROVE  Runs(f, x)
<1>1. x.counting = w.counting /\ x.depth = w.depth /\ x.calls = w.calls /\ x.guards = w.guards
  BY ContextIs
<1>2. f.kind \in {"if", "range", "empty"} => Len(x.vars) >= Len(f.caller.vars)
  <2>1. Len(f.caller.vars) \in Nat /\ Len(w.vars) \in Nat /\ Len(x.vars) \in Nat
    BY FrameFields, LengthOfVars
  <2>. QED
    BY <2>1 DEF Runs
<1>. QED
  BY <1>1, <1>2 DEF Runs

LEMMA GoodKeeps ==
  ASSUME NEW st, NEW w, NEW x \in State, Good(st, w), Context(x) = Context(w), Keeps(w, x),
         Runs(st[Len(st)], x)
  PROVE  Good(st, x)
<1>1. w \in State /\ st \in Seq(Frames) /\ st # <<>>
  BY DEF Good
<1>2. x.counting = w.counting /\ x.guards = w.guards
  BY <1>1, ContextIs
<1>3. Len(st) \in Nat /\ DOMAIN st = 1..Len(st) /\ \A j \in DOMAIN st : st[j] \in Frames
  BY <1>1, StackOf
<1>4. w.guards # <<>> => ~w.counting
  BY DEF Good, Inside
<1>5. ASSUME NEW j \in DOMAIN st
      PROVE  Runs(st[j], Ran(st, x, j))
  <2>1. Runs(st[j], Ran(st, w, j))
    BY DEF Good, Chain
  <2>2. CASE j = Len(st)
    BY <2>2 DEF Ran
  <2>3. CASE j # Len(st)
    BY <2>1, <2>3 DEF Ran
  <2>. QED
    BY <2>2, <2>3
<1>6. Chain(st, x)
  BY <1>5 DEF Good, Chain
<1>7. Inside(st, x)
  BY <1>2 DEF Good, Inside
<1>8. Tiling(st, x)
  <2>1. ASSUME x.counting  PROVE Tiled(x.out, x.spans)
    BY <1>2, <2>1 DEF Good, Tiling, Keeps
  <2>2. ASSUME NEW j \in DOMAIN st, st[j].kind \in {"arm", "include"}, st[j].caller.counting
        PROVE  Tiled(st[j].caller.out, x.spans)
    <3>1. ~w.counting
      BY <2>2 DEF Good, Inside
    <3>2. x.spans = w.spans
      BY <1>1, <3>1 DEF Keeps
    <3>. QED
      BY <2>2, <3>2 DEF Good, Tiling
  <2>. QED
    BY <2>1, <2>2 DEF Tiling
<1>9. Unnoted(st, x)
  <2>1. ASSUME NEW j \in DOMAIN st, st[j].kind = "arm", st[j].caller.guards = <<>>
        PROVE  Noted(x) = Noted(st[j].caller)
    <3>1. w.guards # <<>>
      BY <2>1 DEF Good, Inside
    <3>2. Noted(x) = Noted(w)
      BY <1>1, <1>4, <3>1 DEF Keeps
    <3>. QED
      BY <2>1, <3>2 DEF Good, Unnoted
  <2>. QED
    BY <2>1 DEF Unnoted
<1>. QED
  BY <1>1, <1>6, <1>7, <1>8, <1>9 DEF Good

LEMMA GoodContinues ==
  ASSUME NEW st, NEW w, NEW x, Good(st, w), Continues(w, x)
  PROVE  Good(st, x)
<1>1. /\ w \in State /\ x \in State /\ Context(x) = Context(w) /\ Len(x.vars) >= Len(w.vars)
      /\ Keeps(w, x) /\ st \in Seq(Frames) /\ st # <<>>
  BY DEF Good, Continues
<1>2. Len(st) \in DOMAIN st /\ st[Len(st)] \in Frames
  BY <1>1, StackOf
<1>3. Runs(st[Len(st)], w)
  BY <1>2 DEF Good, Chain, Ran
<1>4. Runs(st[Len(st)], x)
  BY <1>1, <1>2, <1>3, RunsOn
<1>. QED
  BY <1>1, <1>4, GoodKeeps

(* The top frame moves in its list.                                          *)
LEMMA GoodTop ==
  ASSUME NEW st, NEW w, Good(st, w), NEW f \in Frames, FrameOK(f),
         f.kind = st[Len(st)].kind, f.node = st[Len(st)].node, f.caller = st[Len(st)].caller
  PROVE  Good([st EXCEPT ![Len(st)] = f], w)
<1>. DEFINE n == Len(st)
            so == [st EXCEPT ![n] = f]
<1>1. w \in State /\ st \in Seq(Frames) /\ st # <<>>
  BY DEF Good
<1>2. n \in Nat /\ n >= 1 /\ DOMAIN st = 1..n
  BY <1>1, StackOf
<1>3. /\ so \in Seq(Frames) /\ Len(so) = n /\ DOMAIN so = 1..n
      /\ so[n] = f /\ \A j \in 1..n : j # n => so[j] = st[j]
  <2>1. n \in 1..Len(st)
    BY <1>2
  <2>2. so \in Seq(Frames) /\ Len(so) = n
    BY <1>1, <2>1, ExceptSeq
  <2>3. DOMAIN so = 1..n
    BY <1>2
  <2>4. \A j \in 1..n : so[j] = IF j = n THEN f ELSE st[j]
    BY <1>1, <2>1, ExceptSeq
  <2>. HIDE DEF so
  <2>. QED
    BY <2>1, <2>2, <2>3, <2>4
<1>. HIDE DEF so
<1>4. so # <<>>
  <2>1. Len(so) >= 1
    BY <1>2, <1>3
  <2>. QED
    BY <2>1
<1>5. \A j \in 1..n : so[j].kind = st[j].kind /\ so[j].node = st[j].node /\ so[j].caller = st[j].caller
  BY <1>3
<1>6. \A j \in 1..n : Ran(so, w, j) = Ran(st, w, j)
  <2>. TAKE j \in 1..n
  <2>1. CASE j = n
    BY <1>3, <2>1 DEF Ran
  <2>2. CASE j # n
    <3>0. n \in Int /\ j \in Int /\ j <= n /\ 1 <= j
      BY <1>2
    <3>1. j + 1 \in 1..n
      BY <2>2, <3>0
    <3>. QED
      BY <1>3, <1>5, <2>2, <3>1 DEF Ran
  <2>. QED
    BY <2>1, <2>2
<1>7. \A j \in 1..n : Runs(so[j], Ran(so, w, j))
  <2>. TAKE j \in 1..n
  <2>1. Runs(st[j], Ran(st, w, j))
    BY <1>2 DEF Good, Chain
  <2>. QED
    BY <1>5, <1>6, <2>1 DEF Runs
<1>8. \A j \in 1..n : FrameOK(so[j]) /\ (so[j].kind = "main" <=> j = 1)
  <2>. TAKE j \in 1..n
  <2>1. FrameOK(st[j]) /\ (st[j].kind = "main" <=> j = 1)
    BY <1>2 DEF Good, Chain
  <2>. QED
    BY <1>3, <1>5, <2>1
<1>9. \A j \in 1..n : Stands(so, j)
  <2>. TAKE j \in 1..n
  <2>1. Stands(st, j)
    BY <1>2 DEF Good, Chain
  <2>2. j > 1 => j - 1 \in 1..n /\ j - 1 # n
    BY <1>2
  <2>. QED
    BY <1>3, <1>5, <2>1, <2>2 DEF Stands
<1>10. Chain(so, w)
  BY <1>3, <1>7, <1>8, <1>9 DEF Chain
<1>11. Inside(so, w)
  BY <1>2, <1>3, <1>5 DEF Good, Inside
<1>12. Tiling(so, w)
  BY <1>2, <1>3, <1>5 DEF Good, Tiling
<1>13. Unnoted(so, w)
  <2>1. ASSUME NEW j \in DOMAIN so, so[j].kind = "arm", so[j].caller.guards = <<>>
        PROVE  Noted(w) = Noted(so[j].caller)
    <3>1. so[j].caller = st[j].caller /\ so[j].kind = st[j].kind /\ j \in DOMAIN st
      BY <1>2, <1>3, <1>5
    <3>. QED
      BY <2>1, <3>1 DEF Good, Unnoted
  <2>. QED
    BY <2>1 DEF Unnoted
<1>. QED
  BY <1>1, <1>3, <1>4, <1>10, <1>11, <1>12, <1>13 DEF Good, so

(* A list of nodes is entered, from w, which its frame keeps.                *)
LEMMA GoodPush ==
  ASSUME NEW st, NEW w, Good(st, w), NEW f \in Frames, FrameOK(f), f.caller = w, f.kind # "main",
         f.kind # "arm" => /\ st[Len(st)].i <= Len(st[Len(st)].list)
                           /\ f.node = st[Len(st)].list[st[Len(st)].i],
         NEW x \in State, Runs(f, x),
         x.counting => w.counting /\ (Tiled(w.out, w.spans) => Tiled(x.out, x.spans)),
         ~x.counting => x.spans = w.spans,
         w.guards # <<>> => x.guards # <<>>,
         w.guards # <<>> \/ f.kind = "arm" => Noted(x) = Noted(w)
  PROVE  Good(Append(st, f), x)
<1>. DEFINE n == Len(st)
            last == n + 1
            so == Append(st, f)
<1>1. w \in State /\ st \in Seq(Frames) /\ st # <<>>
  BY DEF Good
<1>2. n \in Nat /\ n >= 1 /\ DOMAIN st = 1..n
  BY <1>1, StackOf
<1>3. /\ so \in Seq(Frames) /\ Len(so) = last /\ DOMAIN so = 1..last
      /\ so[last] = f
      /\ \A j \in 1..n : so[j] = st[j]
  <2>1. so \in Seq(Frames) /\ Len(so) = last
    BY <1>1
  <2>2. so[last] = f /\ \A j \in 1..n : so[j] = st[j]
    BY <1>1
  <2>3. DOMAIN so = 1..last
    BY <1>2, <2>1
  <2>. QED
    BY <2>1, <2>2, <2>3
<1>. HIDE DEF so
<1>4. so # <<>>
  <2>1. Len(so) >= 1
    BY <1>2, <1>3
  <2>. QED
    BY <2>1
<1>5. \A j \in 1..last : j = last \/ (j \in 1..n /\ j # last)
  BY <1>2
<1>a. last \in 1..last /\ last # 1 /\ last - 1 = n /\ last > 1 /\ \A j \in 1..n : j \in 1..last /\ last > j
  BY <1>2
<1>6. \A j \in 1..n : Ran(so, x, j) = Ran(st, w, j)
  <2>. TAKE j \in 1..n
  <2>0. j # last /\ j \in Int
    BY <1>a
  <2>1. CASE j = n
    BY <1>3, <1>a, <2>0, <2>1 DEF Ran
  <2>2. CASE j # n
    <3>1. j + 1 \in 1..n
      BY <1>2, <2>2, NextIn
    <3>. QED
      BY <1>3, <2>0, <2>2, <3>1 DEF Ran
  <2>. QED
    BY <2>1, <2>2
<1>7. \A j \in 1..last : Runs(so[j], Ran(so, x, j))
  <2>. TAKE j \in 1..last
  <2>1. CASE j = last
    BY <1>3, <2>1 DEF Ran
  <2>2. CASE j \in 1..n
    <3>1. Runs(st[j], Ran(st, w, j))
      BY <1>2, <2>2 DEF Good, Chain
    <3>. QED
      BY <1>3, <1>6, <2>2, <3>1
  <2>. QED
    BY <1>5, <2>1, <2>2
<1>8. \A j \in 1..last : FrameOK(so[j]) /\ (so[j].kind = "main" <=> j = 1)
  <2>. TAKE j \in 1..last
  <2>1. CASE j = last
    BY <1>3, <1>a, <2>1
  <2>2. CASE j \in 1..n
    BY <1>2, <1>3, <2>2 DEF Good, Chain
  <2>. QED
    BY <1>5, <2>1, <2>2
<1>9. \A j \in 1..last : Stands(so, j)
  <2>. TAKE j \in 1..last
  <2>1. CASE j = last
    <3>1. n \in 1..n
      BY <1>2
    <3>2. so[n] = st[n]
      BY <1>3, <3>1
    <3>. QED
      BY <1>3, <1>a, <2>1, <3>2 DEF Stands
  <2>2. CASE j \in 1..n
    <3>1. Stands(st, j)
      BY <1>2, <2>2 DEF Good, Chain
    <3>2. j > 1 => j - 1 \in 1..n
      BY <1>2, <2>2
    <3>. QED
      BY <1>3, <2>2, <3>1, <3>2 DEF Stands
  <2>. QED
    BY <1>5, <2>1, <2>2
<1>10. Chain(so, x)
  BY <1>3, <1>7, <1>8, <1>9 DEF Chain
<1>b. f.kind \in {"if", "range", "empty", "arm", "template", "include"}
  BY FrameFields DEF Kinds
<1>11. Inside(so, x)
  <2>1. ASSUME NEW j \in 1..last, so[j].kind \in {"arm", "include"}
        PROVE  ~x.counting /\ \A k \in 1..last : k > j => ~so[k].caller.counting
    <3>1. CASE j = last
      <4>1. ~x.counting
        BY <1>3, <2>1, <3>1 DEF Runs
      <4>2. \A k \in 1..last : ~(k > j)
        BY <1>2, <3>1
      <4>. QED
        BY <4>1, <4>2
    <3>2. CASE j \in 1..n
      <4>1. ~w.counting /\ \A k \in 1..n : k > j => ~st[k].caller.counting
        BY <1>2, <1>3, <2>1, <3>2 DEF Good, Inside
      <4>. QED
        BY <1>3, <1>5, <4>1
    <3>. QED
      BY <1>5, <3>1, <3>2
  <2>2. ASSUME NEW j \in 1..last, so[j].kind = "arm"
        PROVE  x.guards # <<>> /\ \A k \in 1..last : k > j => so[k].caller.guards # <<>>
    <3>1. CASE j = last
      <4>1. x.guards # <<>>
        BY <1>3, <2>2, <3>1 DEF Runs
      <4>2. \A k \in 1..last : ~(k > j)
        BY <1>2, <3>1
      <4>. QED
        BY <4>1, <4>2
    <3>2. CASE j \in 1..n
      <4>1. w.guards # <<>> /\ \A k \in 1..n : k > j => st[k].caller.guards # <<>>
        BY <1>2, <1>3, <2>2, <3>2 DEF Good, Inside
      <4>. QED
        BY <1>3, <1>5, <4>1
    <3>. QED
      BY <1>5, <3>1, <3>2
  <2>3. ASSUME x.guards # <<>>
        PROVE  \E j \in 1..last : so[j].kind = "arm" /\ so[j].caller.guards = <<>>
    <3>1. CASE w.guards = <<>>
      <4>1. f.kind = "arm"
        BY <1>b, <2>3, <3>1 DEF Runs
      <4>. QED
        BY <1>3, <1>a, <3>1, <4>1
    <3>2. CASE w.guards # <<>>
      <4>1. PICK j \in 1..n : st[j].kind = "arm" /\ st[j].caller.guards = <<>>
        BY <1>2, <3>2 DEF Good, Inside
      <4>2. j \in 1..last /\ so[j] = st[j]
        BY <1>3, <1>a
      <4>. QED
        BY <4>1, <4>2
    <3>. QED
      BY <3>1, <3>2
  <2>. QED
    BY <1>3, <2>1, <2>2, <2>3 DEF Inside
<1>12. Tiling(so, x)
  <2>1. ASSUME x.counting  PROVE Tiled(x.out, x.spans)
    BY <2>1 DEF Good, Tiling
  <2>2. ASSUME NEW j \in 1..last, so[j].kind \in {"arm", "include"}, so[j].caller.counting
        PROVE  Tiled(so[j].caller.out, x.spans)
    <3>1. CASE j = last
      <4>1. ~x.counting
        BY <1>3, <2>2, <3>1 DEF Runs
      <4>2. x.spans = w.spans
        BY <4>1
      <4>3. Tiled(w.out, w.spans)
        BY <1>3, <2>2, <3>1 DEF Good, Tiling
      <4>. QED
        BY <1>3, <3>1, <4>2, <4>3
    <3>2. CASE j \in 1..n
      <4>1. ~w.counting
        BY <1>2, <1>3, <2>2, <3>2 DEF Good, Inside
      <4>2. x.spans = w.spans
        BY <4>1
      <4>3. Tiled(st[j].caller.out, w.spans)
        BY <1>2, <1>3, <2>2, <3>2 DEF Good, Tiling
      <4>. QED
        BY <1>3, <3>2, <4>2, <4>3
    <3>. QED
      BY <1>5, <3>1, <3>2
  <2>. QED
    BY <1>3, <2>1, <2>2 DEF Tiling
<1>13. Unnoted(so, x)
  <2>1. ASSUME NEW j \in 1..last, so[j].kind = "arm", so[j].caller.guards = <<>>
        PROVE  Noted(x) = Noted(so[j].caller)
    <3>1. CASE j = last
      BY <1>3, <2>1, <3>1
    <3>2. CASE j \in 1..n
      <4>1. w.guards # <<>>
        BY <1>2, <1>3, <2>1, <3>2 DEF Good, Inside
      <4>2. Noted(w) = Noted(st[j].caller)
        BY <1>2, <1>3, <2>1, <3>2 DEF Good, Unnoted
      <4>. QED
        BY <1>3, <3>2, <4>1, <4>2
    <3>. QED
      BY <1>5, <3>1, <3>2
  <2>. QED
    BY <1>3, <2>1 DEF Unnoted
<1>. QED
  BY <1>3, <1>4, <1>10, <1>11, <1>12, <1>13 DEF Good, so

Popped(st) == SubSeq(st, 1, Len(st) - 1)

LEMMA PoppedIs ==
  ASSUME NEW S, NEW st \in Seq(S), Len(st) > 1
  PROVE  /\ Popped(st) \in Seq(S)
         /\ Len(Popped(st)) = Len(st) - 1
         /\ DOMAIN Popped(st) = 1..(Len(st) - 1)
         /\ \A j \in 1..(Len(st) - 1) : Popped(st)[j] = st[j]
<1>1. Len(st) \in Nat
  OBVIOUS
<1>2. ASSUME NEW m \in Nat, m < Len(st)
      PROVE  /\ SubSeq(st, 1, m) \in Seq(S)
             /\ Len(SubSeq(st, 1, m)) = m
             /\ \A j \in 1..m : SubSeq(st, 1, m)[j] = st[j]
  BY <1>1, <1>2
<1>3. Len(st) - 1 \in Nat /\ Len(st) - 1 < Len(st)
  BY <1>1
<1>4. /\ Popped(st) \in Seq(S)
      /\ Len(Popped(st)) = Len(st) - 1
      /\ \A j \in 1..(Len(st) - 1) : Popped(st)[j] = st[j]
  BY <1>2, <1>3 DEF Popped
<1>5. DOMAIN Popped(st) = 1..(Len(st) - 1)
  BY <1>4
<1>. QED
  BY <1>4, <1>5

(* A list of nodes is left, for x, in which what its frame kept is restored.  *)
LEMMA GoodPop ==
  ASSUME NEW st, NEW w, Good(st, w), st[Len(st)].kind # "main", NEW x \in State,
         Context(x) = Context(st[Len(st)].caller),
         Len(x.vars) >= Len(st[Len(st)].caller.vars),
         x.out = IF st[Len(st)].kind \in {"arm", "include"} THEN st[Len(st)].caller.out ELSE w.out,
         Noted(x) = Noted(w)
  PROVE  /\ Good(Popped(st), x)
         /\ Len(st) > 1 /\ Len(Popped(st)) = Len(st) - 1
         /\ \A j \in 1..(Len(st) - 1) : Popped(st)[j] = st[j]
<1>. DEFINE n == Len(st)
            f == st[n]
            c == f.caller
            last == n - 1
            so == Popped(st)
<1>1. w \in State /\ st \in Seq(Frames) /\ st # <<>>
  BY DEF Good
<1>2. /\ n \in Nat /\ n >= 1 /\ DOMAIN st = 1..n /\ n \in 1..n
      /\ \A j \in 1..n : st[j] \in Frames /\ st[j].caller \in State
  BY <1>1, StackOf
<1>3. /\ n > 1 /\ last \in Nat /\ last >= 1 /\ last \in 1..last /\ last + 1 = n /\ last \in 1..n
      /\ \A j \in 1..last : j \in 1..n /\ j # n /\ j < n
      /\ \A j \in 1..n : j = n \/ j \in 1..last
      /\ \A j \in 1..last : j # last => j + 1 \in 1..last
  <2>1. n # 1
    BY <1>2 DEF Good, Chain
  <2>2. n > 1
    BY <1>2, <2>1
  <2>. QED
    BY <1>2, <2>2, Below
<1>4. /\ so \in Seq(Frames) /\ Len(so) = last /\ DOMAIN so = 1..last
      /\ \A j \in 1..last : so[j] = st[j]
  BY <1>1, <1>3, PoppedIs
<1>5. c \in State /\ f \in Frames
  BY <1>2
<1>6. x.counting = c.counting /\ x.guards = c.guards /\ x.spans = w.spans
  BY ContextIs, NotedIs
<1>7. f.kind \in {"if", "range", "empty", "arm", "template", "include"} /\ Runs(f, w)
  <2>1. Runs(f, Ran(st, w, n))
    BY <1>2 DEF Good, Chain
  <2>. QED
    BY <1>5, <2>1, FrameFields DEF Kinds, Ran
<1>. HIDE DEF so
<1>8. so # <<>>
  <2>1. Len(so) >= 1
    BY <1>3, <1>4
  <2>. QED
    BY <2>1
<1>9. \A j \in 1..last : Runs(so[j], Ran(so, x, j))
  <2>. TAKE j \in 1..last
  <2>1. Runs(st[j], Ran(st, w, j)) /\ j # n
    BY <1>2, <1>3 DEF Good, Chain
  <2>2. CASE j = last
    <3>1. Ran(st, w, j) = c
      BY <1>3, <2>1, <2>2 DEF Ran
    <3>2. Runs(st[j], x)
      BY <1>2, <1>3, <1>5, <2>1, <3>1, RunsOn
    <3>. QED
      BY <1>4, <2>2, <3>2 DEF Ran
  <2>3. CASE j # last
    <3>1. j + 1 \in 1..last
      BY <1>3, <2>3
    <3>. QED
      BY <1>4, <2>1, <2>3, <3>1 DEF Ran
  <2>. QED
    BY <2>2, <2>3
<1>10. \A j \in 1..last : FrameOK(so[j]) /\ (so[j].kind = "main" <=> j = 1)
  BY <1>2, <1>3, <1>4 DEF Good, Chain
<1>11. \A j \in 1..last : Stands(so, j)
  <2>. TAKE j \in 1..last
  <2>1. Stands(st, j)
    BY <1>2, <1>3 DEF Good, Chain
  <2>2. j > 1 => j - 1 \in 1..last
    <3>1. ASSUME NEW m \in Nat, NEW k \in 1..m, k > 1
          PROVE  k - 1 \in 1..m
      BY <3>1
    <3>. QED
      BY <1>3, <3>1
  <2>. QED
    BY <1>4, <2>1, <2>2 DEF Stands
<1>12. Chain(so, x)
  BY <1>4, <1>9, <1>10, <1>11 DEF Chain
<1>13. Inside(so, x)
  <2>1. ASSUME NEW j \in 1..last, so[j].kind \in {"arm", "include"}
        PROVE  ~x.counting /\ \A k \in 1..last : k > j => ~so[k].caller.counting
    <3>1. \A k \in 1..n : k > j => ~st[k].caller.counting
      BY <1>2, <1>3, <1>4, <2>1 DEF Good, Inside
    <3>2. ~c.counting
      BY <1>2, <1>3, <3>1
    <3>. QED
      BY <1>3, <1>4, <1>6, <3>1, <3>2
  <2>2. ASSUME NEW j \in 1..last, so[j].kind = "arm"
        PROVE  x.guards # <<>> /\ \A k \in 1..last : k > j => so[k].caller.guards # <<>>
    <3>1. \A k \in 1..n : k > j => st[k].caller.guards # <<>>
      BY <1>2, <1>3, <1>4, <2>2 DEF Good, Inside
    <3>2. c.guards # <<>>
      BY <1>2, <1>3, <3>1
    <3>. QED
      BY <1>3, <1>4, <1>6, <3>1, <3>2
  <2>3. ASSUME x.guards # <<>>
        PROVE  \E j \in 1..last : so[j].kind = "arm" /\ so[j].caller.guards = <<>>
    <3>1. c.guards # <<>>
      BY <1>6, <2>3
    <3>2. w.guards # <<>>
      BY <1>7, <3>1 DEF Runs
    <3>3. PICK j \in 1..n : st[j].kind = "arm" /\ st[j].caller.guards = <<>>
      BY <1>2, <3>2 DEF Good, Inside
    <3>4. j # n
      BY <3>1, <3>3
    <3>. QED
      BY <1>3, <1>4, <3>3, <3>4
  <2>. QED
    BY <1>4, <2>1, <2>2, <2>3 DEF Inside
<1>14. Tiling(so, x)
  <2>1. ASSUME x.counting  PROVE Tiled(x.out, x.spans)
    <3>0. c.counting
      BY <1>6, <2>1
    <3>1. CASE f.kind \in {"arm", "include"}
      <4>1. Tiled(c.out, w.spans)
        BY <1>2, <3>0, <3>1 DEF Good, Tiling
      <4>. QED
        BY <1>6, <3>1, <4>1
    <3>2. CASE f.kind \notin {"arm", "include"}
      <4>1. w.counting
        BY <1>7, <3>0, <3>2 DEF Runs
      <4>2. Tiled(w.out, w.spans)
        BY <4>1 DEF Good, Tiling
      <4>. QED
        BY <1>6, <3>2, <4>2
    <3>. QED
      BY <3>1, <3>2
  <2>2. ASSUME NEW j \in 1..last, so[j].kind \in {"arm", "include"}, so[j].caller.counting
        PROVE  Tiled(so[j].caller.out, x.spans)
    <3>1. Tiled(st[j].caller.out, w.spans)
      BY <1>2, <1>3, <1>4, <2>2 DEF Good, Tiling
    <3>. QED
      BY <1>4, <1>6, <3>1
  <2>. QED
    BY <1>4, <2>1, <2>2 DEF Tiling
<1>15. Unnoted(so, x)
  <2>1. ASSUME NEW j \in 1..last, so[j].kind = "arm", so[j].caller.guards = <<>>
        PROVE  Noted(x) = Noted(so[j].caller)
    <3>1. Noted(w) = Noted(st[j].caller)
      BY <1>2, <1>3, <1>4, <2>1 DEF Good, Unnoted
    <3>. QED
      BY <1>4, <3>1
  <2>. QED
    BY <1>4, <2>1 DEF Unnoted
<1>16. Good(so, x)
  BY <1>4, <1>8, <1>12, <1>13, <1>14, <1>15 DEF Good
<1>. QED
  BY <1>3, <1>4, <1>16 DEF so

LEMMA TopOf ==
  ASSUME NEW st, NEW w, Good(st, w)
  PROVE  /\ Len(st) \in Nat /\ Len(st) >= 1 /\ Len(st) \in DOMAIN st /\ DOMAIN st = 1..Len(st)
         /\ st[Len(st)] \in Frames /\ FrameOK(st[Len(st)]) /\ Runs(st[Len(st)], w)
         /\ st[Len(st)].caller \in State
         /\ Stands(st, Len(st)) /\ (st[Len(st)].kind = "main" <=> Len(st) = 1)
         /\ w \in State
<1>1. w \in State /\ st \in Seq(Frames) /\ st # <<>>
  BY DEF Good
<1>2. /\ Len(st) \in Nat /\ Len(st) >= 1 /\ Len(st) \in DOMAIN st /\ DOMAIN st = 1..Len(st)
      /\ st[Len(st)] \in Frames /\ st[Len(st)].caller \in State
  BY <1>1, StackOf
<1>3. Ran(st, w, Len(st)) = w
  BY DEF Ran
<1>4. /\ FrameOK(st[Len(st)]) /\ Runs(st[Len(st)], Ran(st, w, Len(st)))
      /\ Stands(st, Len(st)) /\ (st[Len(st)].kind = "main" <=> Len(st) = 1)
  BY <1>2 DEF Good, Chain
<1>. QED
  BY <1>1, <1>2, <1>3, <1>4

LEMMA GoodAdvance ==
  ASSUME NEW st, NEW w, Good(st, w), st[Len(st)].i <= Len(st[Len(st)].list)
  PROVE  /\ Good(Advance(st), w)
         /\ Len(Advance(st)) = Len(st)
         /\ \A j \in 1..Len(st) : j # Len(st) => Advance(st)[j] = st[j]
<1>. DEFINE n == Len(st)
            f == st[n]
            g == [f EXCEPT !.i = @ + 1]
<1>1. /\ n \in Nat /\ n >= 1 /\ n \in DOMAIN st /\ DOMAIN st = 1..n
      /\ f \in Frames /\ FrameOK(f)
  BY TopOf
<1>2. st \in Seq(Frames)
  BY DEF Good
<1>3. f.i \in Nat \ {0} /\ f.list \in Seq(AllNodes)
  BY <1>1, FrameFields
<1>4. Len(f.list) \in Nat
  BY <1>3
<1>. HIDE DEF f, n
<1>5. g \in Frames
  BY <1>1, <1>3 DEF Frames
<1>6. g.kind = f.kind /\ g.node = f.node /\ g.list = f.list /\ g.left = f.left /\ g.caller = f.caller
      /\ g.i = f.i + 1
  BY <1>1 DEF Frames
<1>7. FrameOK(g)
  <2>1. g.i <= Len(g.list) + 1
    BY <1>3, <1>4, <1>6 DEF f, n
  <2>. HIDE DEF g
  <2>. QED
    BY <1>1, <1>6, <2>1 DEF FrameOK
<1>8. Advance(st) = [st EXCEPT ![n] = g]
  BY <1>1, <1>2 DEF Advance, n, f
<1>. HIDE DEF g
<1>9. Good([st EXCEPT ![n] = g], w)
  BY <1>5, <1>6, <1>7, GoodTop DEF f, n
<1>10. /\ Len([st EXCEPT ![n] = g]) = n
       /\ \A j \in 1..n : j # n => [st EXCEPT ![n] = g][j] = st[j]
  BY <1>1, <1>2, <1>5, ExceptSeq DEF n
<1>. QED
  BY <1>8, <1>9, <1>10 DEF n

LEMMA FrameIs ==
  ASSUME NEW kind \in Kinds, NEW n \in AllNodes \cup {File}, NEW list \in Seq(AllNodes), NEW left \in Int,
         NEW c \in State
  PROVE  LET f == Frame(kind, n, list, left, c) IN
         /\ f \in Frames /\ f.kind = kind /\ f.node = n /\ f.list = list /\ f.i = 1 /\ f.left = left
         /\ f.caller = c /\ f.i <= Len(f.list) + 1
<1>1. Len(list) \in Nat
  OBVIOUS
<1>2. 1 <= Len(list) + 1
  BY <1>1
<1>. QED
  BY <1>2 DEF Frame, Frames

(* Where a panic is: in a node of the list, and a break or a continue not in  *)
(* a node that may stand anywhere.                                            *)
Where(st, w) ==
    /\ w.panic # "none" => st[Len(st)].i <= Len(st[Len(st)].list)
    /\ w.panic \in Jumps => st[Len(st)].list[st[Len(st)].i] \notin Nodes

LEMMA NoPanic ==
  ASSUME NEW st, NEW w, w.panic = "none"
  PROVE  Where(st, w)
BY DEF Where, Jumps

LEMMA AtNodeIs ==
  ASSUME Good(stack, s), NEW kinds, AtNode(kinds)
  PROVE  /\ Running /\ s.panic = "none" /\ s \in State /\ Top.i <= Len(Top.list)
         /\ Node \in AllNodes /\ Node.kind \in kinds /\ Node = Top.list[Top.i]
         /\ stack[Len(stack)].i <= Len(stack[Len(stack)].list)
         /\ Node = stack[Len(stack)].list[stack[Len(stack)].i]
<1>1. Running /\ s.panic = "none" /\ Top.i <= Len(Top.list) /\ Node.kind \in kinds
  BY DEF AtNode
<1>2. Top \in Frames /\ s \in State
  BY TopOf DEF Top
<1>3. Top.list \in Seq(AllNodes) /\ Top.i \in Nat \ {0}
  BY <1>2, FrameFields
<1>4. Top.list[Top.i] \in AllNodes
  BY <1>1, <1>3
<1>. QED
  BY <1>1, <1>2, <1>4 DEF Node, Top

(***************************************************************************)
(* The steps of the executor keep the invariant: walking a node.           *)
(***************************************************************************)
LEMMA WalkTextGood ==
  ASSUME Good(stack, s), WalkText
  PROVE  Good(stack', s') /\ Where(stack', s')
<1>1. AtNode({"text"}) /\ s' = Emit(s, Node, Node.text) /\ stack' = Advance(stack)
  BY DEF WalkText
<1>2. /\ s.panic = "none" /\ s \in State /\ Node \in AllNodes /\ Node.kind = "text"
      /\ stack[Len(stack)].i <= Len(stack[Len(stack)].list)
  BY <1>1, AtNodeIs
<1>3. Node.at \in STRING /\ Node.text \in Seq(Bytes)
  BY <1>2, Parsed
<1>4. Continues(s, s') /\ s'.panic = "none"
  BY <1>1, <1>2, <1>3, EmitContinues
<1>5. Good(stack, s')
  BY <1>4, GoodContinues
<1>. QED
  BY <1>1, <1>2, <1>4, <1>5, GoodAdvance, NoPanic

LEMMA WalkJumpGood ==
  ASSUME Good(stack, s), WalkJump
  PROVE  Good(stack', s') /\ Where(stack', s')
<1>1. AtNode(Jumps) /\ s' = [s EXCEPT !.panic = Node.kind] /\ stack' = stack
  BY DEF WalkJump
<1>2. /\ s.panic = "none" /\ s \in State /\ Node \in AllNodes /\ Node.kind \in Jumps
      /\ stack[Len(stack)].i <= Len(stack[Len(stack)].list)
      /\ Node = stack[Len(stack)].list[stack[Len(stack)].i]
  BY <1>1, AtNodeIs
<1>3. Node \notin Nodes
  BY <1>2, Parsed
<1>4. Continues(s, s')
  BY <1>1, <1>2, PanicContinues
<1>5. Good(stack, s')
  BY <1>4, GoodContinues
<1>. QED
  BY <1>1, <1>2, <1>3, <1>5 DEF Where

LEMMA WalkActionGood ==
  ASSUME Good(stack, s), WalkAction
  PROVE  Good(stack', s') /\ Where(stack', s')
<1>1. /\ AtNode(Writers) /\ s' = Action(Node, s)
      /\ stack' = IF s'.panic = "none" THEN Advance(stack) ELSE stack
  BY DEF WalkAction
<1>2. /\ s.panic = "none" /\ s \in State /\ Node \in AllNodes /\ Node.kind \in Writers
      /\ stack[Len(stack)].i <= Len(stack[Len(stack)].list)
  BY <1>1, AtNodeIs
<1>3. Continues(s, s') /\ s'.panic \in {"none", "error"}
  BY <1>1, <1>2, ActionContinues
<1>4. Good(stack, s')
  BY <1>3, GoodContinues
<1>5. CASE s'.panic = "none"
  BY <1>1, <1>2, <1>4, <1>5, GoodAdvance, NoPanic
<1>6. CASE s'.panic = "error"
  BY <1>1, <1>2, <1>4, <1>6 DEF Where, Jumps
<1>. QED
  BY <1>3, <1>5, <1>6

(* A list entered in the state of its node, or one that goes on from it.     *)
LEMMA GoodEnter ==
  ASSUME Good(stack, s), NEW kind \in {"if", "range", "empty", "template", "include"},
         NEW list \in Seq(AllNodes), NEW left \in Int,
         s.panic = "none", Node \in AllNodes, Top.i <= Len(Top.list),
         NEW x \in State, x.panic = "none",
         FrameOK(Frame(kind, Node, list, left, s)), Runs(Frame(kind, Node, list, left, s), x),
         x.counting => s.counting /\ (Tiled(s.out, s.spans) => Tiled(x.out, x.spans)),
         ~x.counting => x.spans = s.spans,
         s.guards # <<>> => x.guards # <<>>,
         s.guards # <<>> => Noted(x) = Noted(s)
  PROVE  Good(Append(stack, Frame(kind, Node, list, left, s)), x)
<1>. DEFINE f == Frame(kind, Node, list, left, s)
<1>1. s \in State
  BY TopOf
<1>2. kind \in Kinds
  BY DEF Kinds
<1>3. f \in Frames /\ f.kind = kind /\ f.node = Node /\ f.caller = s
  BY <1>1, <1>2, FrameIs
<1>4. FrameOK(f) /\ Runs(f, x)
  OBVIOUS
<1>5. /\ stack[Len(stack)].i <= Len(stack[Len(stack)].list)
      /\ f.node = stack[Len(stack)].list[stack[Len(stack)].i]
  BY <1>3 DEF Node, Top
<1>6. f.kind # "main" /\ f.kind # "arm"
  BY <1>3
<1>. HIDE DEF f
<1>7. Good(Append(stack, f), x)
  BY <1>3, <1>4, <1>5, <1>6, GoodPush
<1>. QED
  BY <1>7 DEF f

LEMMA WalkIfGood ==
  ASSUME Good(stack, s), WalkIf
  PROVE  Good(stack', s') /\ Where(stack', s')
<1>. DEFINE r == RecordRead(s, Node)
            which == Taken(Node, s)
            list == Node.arms[which]
            f == Frame("if", Node, list, 0, s)
<1>1. AtNode({"if"}) /\ s' = Arm(r, Node, Report(Node, s)) /\ stack' = Append(stack, f)
  BY DEF WalkIf, Push
<1>2. /\ s.panic = "none" /\ s \in State /\ Node \in AllNodes /\ Node.kind = "if" /\ Top.i <= Len(Top.list)
  BY <1>1, AtNodeIs
<1>3. /\ Node.at \in STRING /\ Node.path \in Paths
      /\ Node.arms["then"] \in Seq(AllNodes) /\ Node.arms["else"] \in Seq(AllNodes)
      /\ Node \in Nodes => Node.arms["then"] \in Seq(Nodes) /\ Node.arms["else"] \in Seq(Nodes)
  BY <1>2, Parsed
<1>4. which \in {"then", "else"} /\ Report(Node, s) \in TakenArms
  BY DEF Taken, Report, TakenArms
<1>5. list \in Seq(AllNodes) /\ (Node \in Nodes => list \in Seq(Nodes))
  BY <1>3, <1>4
<1>6. r \in State /\ Continues(s, r) /\ r.panic = "none"
  BY <1>2, <1>3, RecordReadState, RecordReadContinues
<1>. HIDE DEF r
<1>7. s' \in State /\ s'.panic = "none" /\ Continues(r, s')
  <2>1. s' \in State
    BY <1>1, <1>3, <1>4, <1>6, ArmState
  <2>2. s'.panic = "none"
    BY <1>1, <1>3, <1>4, <1>6, ArmState
  <2>. QED
    BY <1>1, <1>3, <1>4, <1>6, <2>1, <2>2, ArmContinues
<1>8. Continues(s, s')
  BY <1>2, <1>6, <1>7, ContinuesTransitive
<1>9. s'.counting = s.counting /\ s'.depth = s.depth /\ s'.calls = s.calls /\ s'.guards = s.guards
  BY <1>8, ContextIs DEF Continues
<1>10. s.guards # <<>> => ~s.counting
  BY DEF Good, Inside
<1>. HIDE DEF list
<1>11. f.kind = "if" /\ f.node = Node /\ f.list = list /\ f.caller = s /\ f.i <= Len(f.list) + 1
  BY <1>2, <1>5, FrameIs DEF Kinds
<1>. HIDE DEF f
<1>12. FrameOK(f)
  BY <1>2, <1>5, <1>11 DEF FrameOK
<1>13. Runs(f, s')
  BY <1>8, <1>9, <1>11 DEF Runs, Continues
<1>14. Good(Append(stack, f), s')
  BY <1>2, <1>5, <1>7, <1>8, <1>9, <1>10, <1>12, <1>13, GoodEnter DEF Continues, Keeps, f
<1>. QED
  BY <1>1, <1>7, <1>14, NoPanic

LEMMA WalkRangeGood ==
  ASSUME Good(stack, s), WalkRange
  PROVE  Good(stack', s') /\ Where(stack', s')
<1>. DEFINE r == RecordRead(s, Node)
            v == s.data[Node.path]
            left == IF v = Unknown THEN 1 ELSE v
            e == IF v = Absent THEN v ELSE Element(v, left)
            vs == Append(s.vars, e)
            none == Node.arms["else"]
            empty == Frame("empty", Node, none, 0, s)
            body == Frame("range", Node, Node.arms["body"], left, s)
<1>1. AtNode({"range"})
  BY DEF WalkRange
<1>2. /\ s.panic = "none" /\ s \in State /\ Node \in AllNodes /\ Node.kind = "range" /\ Top.i <= Len(Top.list)
  BY <1>1, AtNodeIs
<1>3. /\ Node.at \in STRING /\ Node.path \in Paths
      /\ Node.arms["body"] \in Seq(AllNodes) /\ Node.arms["else"] \in Seq(AllNodes)
      /\ Node \in Nodes => Node.arms["else"] \in Seq(Nodes)
  BY <1>2, Parsed
<1>4. r \in State /\ Continues(s, r) /\ r.panic = "none" /\ r.vars = s.vars
  BY <1>2, <1>3, RecordReadState, RecordReadContinues
<1>5. /\ s' = [r EXCEPT !.vars = vs]
      /\ stack' = IF v = Absent THEN Append(stack, empty) ELSE Append(stack, body)
  <2>1. s' = [r EXCEPT !.vars = Append(@, e)]
    BY DEF WalkRange
  <2>2. stack' = IF v = Absent THEN Append(stack, empty) ELSE Append(stack, body)
    BY DEF WalkRange, Push
  <2>3. [r EXCEPT !.vars = Append(@, e)] = [r EXCEPT !.vars = vs]
    BY <1>4
  <2>. HIDE DEF r, e, vs
  <2>. QED
    BY <2>1, <2>2, <2>3
<1>6. v \in {Absent, Unknown, 1, 2} /\ left \in Int /\ e \in Syms
  <2>1. s.data \in [Paths -> Syms]
    BY <1>2, Fields
  <2>2. v \in {Absent, Unknown, 1, 2}
    BY <1>3, <2>1 DEF Syms, Values
  <2>3. left \in Int
    BY <2>2 DEF Absent, Unknown
  <2>4. e \in Syms
    BY <2>2 DEF Element, Syms, Values, Absent, Unknown
  <2>. QED
    BY <2>2, <2>3, <2>4
<1>. HIDE DEF e, r
<1>7. vs \in Seq(Syms) /\ Len(vs) >= Len(r.vars)
  <2>1. s.vars \in Seq(Syms) /\ Len(s.vars) \in Nat
    BY <1>2, Fields, LengthOfVars
  <2>2. vs \in Seq(Syms) /\ Len(vs) = Len(s.vars) + 1
    BY <1>6, <2>1
  <2>. QED
    BY <1>4, <2>1, <2>2
<1>. HIDE DEF vs
<1>8. Continues(r, s') /\ s'.panic = "none"
  <2>1. Continues(r, s')
    BY <1>4, <1>5, <1>7, SetVarsContinues
  <2>2. s'.panic = "none"
    BY <1>4, <1>5 DEF State
  <2>. QED
    BY <2>1, <2>2
<1>9. Continues(s, s') /\ s' \in State
  BY <1>2, <1>4, <1>8, ContinuesTransitive DEF Continues
<1>10. s'.counting = s.counting /\ s'.depth = s.depth /\ s'.calls = s.calls /\ s'.guards = s.guards
  BY <1>9, ContextIs DEF Continues
<1>11. s.guards # <<>> => ~s.counting
  BY DEF Good, Inside
<1>12. ASSUME NEW kind \in {"range", "empty"}, NEW list \in Seq(AllNodes), NEW l \in Int,
              FrameOK(Frame(kind, Node, list, l, s))
       PROVE  Good(Append(stack, Frame(kind, Node, list, l, s)), s')
  <2>. DEFINE f == Frame(kind, Node, list, l, s)
  <2>1. kind \in {"if", "range", "empty", "template", "include"}
    OBVIOUS
  <2>2. f.kind = kind /\ f.caller = s
    <3>1. kind \in Kinds /\ Node \in AllNodes \cup {File}
      BY <1>2 DEF Kinds
    <3>. QED
      BY <1>2, <3>1, FrameIs
  <2>3. Runs(f, s')
    <3>. HIDE DEF f
    <3>1. f.kind \in {"range", "empty"} /\ f.kind \notin {"main", "arm", "include", "template", "if"}
      BY <2>2
    <3>. QED
      BY <1>9, <1>10, <2>2, <3>1 DEF Runs, Continues
  <2>. QED
    BY <1>2, <1>8, <1>9, <1>10, <1>11, <1>12, <2>1, <2>3, GoodEnter DEF Continues, Keeps
<1>13. CASE v = Absent
  <2>1. /\ empty.kind = "empty" /\ empty.node = Node /\ empty.list = none /\ empty.caller = s
        /\ empty.i <= Len(empty.list) + 1
    <3>1. none \in Seq(AllNodes) /\ Node \in AllNodes \cup {File} /\ "empty" \in Kinds /\ 0 \in Int
      BY <1>2, <1>3 DEF Kinds
    <3>. HIDE DEF none
    <3>. QED
      BY <1>2, <3>1, FrameIs
  <2>2. FrameOK(empty)
    <3>. HIDE DEF empty
    <3>. QED
      BY <1>2, <1>3, <2>1 DEF FrameOK
  <2>3. Good(Append(stack, empty), s')
    BY <1>3, <1>12, <2>2
  <2>. QED
    BY <1>5, <1>8, <1>13, <2>3, NoPanic
<1>14. CASE v # Absent
  <2>1. /\ body.kind = "range" /\ body.node = Node /\ body.list = Node.arms["body"] /\ body.caller = s
        /\ body.left = left /\ body.i <= Len(body.list) + 1
    BY <1>2, <1>3, <1>6, FrameIs DEF Kinds
  <2>2. FrameOK(body)
    <3>1. \/ v = Unknown /\ left = 1
          \/ v \in {1, 2} /\ left \in 1..v
      BY <1>6, <1>14 DEF Unknown
    <3>. HIDE DEF body, left
    <3>. QED
      BY <1>2, <1>3, <2>1, <3>1 DEF FrameOK
  <2>3. Good(Append(stack, body), s')
    BY <1>3, <1>6, <1>12, <2>2
  <2>. QED
    BY <1>5, <1>8, <1>14, <2>3, NoPanic
<1>. QED
  BY <1>13, <1>14

LEMMA CalledList ==
  ASSUME chart.templates \in Templates, NEW name \in Names
  PROVE  chart.templates[name] \in Seq(Nodes) /\ chart.templates[name] \in Seq(AllNodes)
<1>1. chart.templates \in [Names -> Seq(Nodes)]
  BY RenderAssumption
<1>2. Nodes \subseteq AllNodes
  BY DEF AllNodes
<1>3. Seq(Nodes) \subseteq Seq(AllNodes)
  BY <1>2, SeqMonotonic
<1>. QED
  BY <1>1, <1>3

LEMMA FailGood ==
  ASSUME Good(stack, s), NEW kinds, AtNode(kinds), s' = Fail(s), stack' = stack
  PROVE  Good(stack', s') /\ Where(stack', s')
<1>1. s \in State /\ stack[Len(stack)].i <= Len(stack[Len(stack)].list)
  BY AtNodeIs
<1>2. Continues(s, s') /\ s'.panic = "error"
  <2>1. s' = [s EXCEPT !.panic = "error"]
    BY DEF Fail
  <2>2. s'.panic = "error"
    BY <1>1, <2>1 DEF State
  <2>3. "error" \in {"none", "error"} \cup Jumps
    OBVIOUS
  <2>. QED
    BY <1>1, <2>1, <2>2, <2>3, PanicContinues
<1>3. Good(stack, s')
  BY <1>2, GoodContinues
<1>. QED
  BY <1>1, <1>2, <1>3 DEF Where, Jumps

LEMMA WalkTemplateGood ==
  ASSUME Good(stack, s), chart.templates \in Templates, WalkTemplate
  PROVE  Good(stack', s') /\ Where(stack', s')
<1>1. AtNode({"template"})
  BY DEF WalkTemplate
<1>2. /\ s.panic = "none" /\ s \in State /\ Node \in AllNodes /\ Top.i <= Len(Top.list)
  BY <1>1, AtNodeIs
<1>3. CASE Node.name \notin Names \/ s.depth = MaxDepth
  BY <1>1, <1>3, FailGood DEF WalkTemplate
<1>4. CASE ~(Node.name \notin Names \/ s.depth = MaxDepth)
  <2>. DEFINE list == chart.templates[Node.name]
              f == Frame("template", Node, list, 0, s)
  <2>1. s' = [s EXCEPT !.vars = <<Absent>>, !.depth = @ + 1] /\ stack' = Append(stack, f)
    BY <1>4 DEF WalkTemplate, Push
  <2>2. list \in Seq(Nodes) /\ list \in Seq(AllNodes)
    BY <1>4, CalledList
  <2>3. <<Absent>> \in Seq(Syms) \ {<<>>} /\ s.depth + 1 \in Nat
    <3>1. Absent \in Syms
      BY DEF Syms, Values
    <3>2. s.depth \in Nat
      BY <1>2, Fields
    <3>. QED
      BY <3>1, <3>2
  <2>4. s' \in State
    BY <1>2, <2>1, <2>3 DEF State
  <2>5. /\ s'.panic = "none" /\ s'.counting = s.counting /\ s'.guards = s.guards /\ s'.calls = s.calls
        /\ s'.out = s.out /\ s'.spans = s.spans /\ s'.reads = s.reads /\ s'.arms = s.arms
        /\ s'.explored = s.explored
    BY <1>2, <2>1 DEF State
  <2>6. Noted(s') = Noted(s)
    BY <2>5, NotedIs
  <2>. HIDE DEF list
  <2>7. f.kind = "template" /\ f.list = list /\ f.caller = s /\ f.i <= Len(f.list) + 1
    <3>1. Node \in AllNodes \cup {File} /\ "template" \in Kinds /\ 0 \in Int /\ s \in State
      BY <1>2 DEF Kinds
    <3>2. list \in Seq(AllNodes)
      BY <2>2
    <3>. QED
      BY <3>1, <3>2, FrameIs
  <2>. HIDE DEF f
  <2>8. FrameOK(f)
    BY <1>2, <2>2, <2>7 DEF FrameOK
  <2>9. Runs(f, s')
    BY <2>5, <2>7 DEF Runs
  <2>10. Good(Append(stack, f), s')
    BY <1>2, <2>2, <2>4, <2>5, <2>6, <2>8, <2>9, GoodEnter DEF f
  <2>. QED
    BY <2>1, <2>5, <2>10, NoPanic
<1>. QED
  BY <1>3, <1>4

LEMMA EnterIncludeState ==
  ASSUME NEW w \in State, NEW n, n.name \in Names
  PROVE  LET x == EnterInclude(n, w) IN
         /\ x \in State /\ ~x.counting /\ x.guards = w.guards /\ x.panic = w.panic
         /\ x.calls = [w.calls EXCEPT ![n.name] = @ + 1]
         /\ x.spans = w.spans /\ Noted(x) = Noted(w)
<1>. DEFINE calls == [w.calls EXCEPT ![n.name] = @ + 1]
            x == [w EXCEPT !.out = <<>>, !.counting = FALSE, !.vars = <<Absent>>, !.depth = 0, !.calls = calls]
<1>1. calls \in [Names -> Nat]
  <2>1. w.calls \in [Names -> Nat]
    BY Fields
  <2>. QED
    BY <2>1
<1>2. EnterInclude(n, w) = x
  BY DEF EnterInclude, State
<1>3. <<Absent>> \in Seq(Syms) \ {<<>>} /\ <<>> \in Seq(Bytes)
  <2>1. Absent \in Syms
    BY DEF Syms, Values
  <2>. QED
    BY <2>1
<1>. HIDE DEF calls
<1>4. x \in State
  BY <1>1, <1>3 DEF State
<1>5. /\ x.counting = FALSE /\ x.guards = w.guards /\ x.panic = w.panic /\ x.calls = calls
      /\ x.spans = w.spans /\ x.reads = w.reads /\ x.arms = w.arms /\ x.explored = w.explored
  BY DEF State
<1>. HIDE DEF x
<1>6. Noted(x) = Noted(w)
  BY <1>5, NotedIs
<1>. QED
  BY <1>2, <1>4, <1>5, <1>6 DEF calls

LEMMA WalkIncludeGood ==
  ASSUME Good(stack, s), chart.templates \in Templates, WalkInclude
  PROVE  Good(stack', s') /\ Where(stack', s')
<1>1. AtNode({"include"})
  BY DEF WalkInclude
<1>2. /\ s.panic = "none" /\ s \in State /\ Node \in AllNodes /\ Top.i <= Len(Top.list)
  BY <1>1, AtNodeIs
<1>3. CASE Node.name \notin Names \/ s.calls[Node.name] > MaxIncludes
  BY <1>1, <1>3, FailGood DEF WalkInclude
<1>4. CASE ~(Node.name \notin Names \/ s.calls[Node.name] > MaxIncludes)
  <2>. DEFINE list == chart.templates[Node.name]
              f == Frame("include", Node, list, 0, s)
  <2>1. s' = EnterInclude(Node, s) /\ stack' = Append(stack, f)
    BY <1>4 DEF WalkInclude, Push
  <2>2. Node.name \in Names /\ list \in Seq(Nodes) /\ list \in Seq(AllNodes)
    BY <1>4, CalledList
  <2>3. /\ s' \in State /\ ~s'.counting /\ s'.guards = s.guards /\ s'.panic = "none"
        /\ s'.calls = [s.calls EXCEPT ![Node.name] = @ + 1]
        /\ s'.spans = s.spans /\ Noted(s') = Noted(s)
    BY <1>2, <2>1, <2>2, EnterIncludeState
  <2>. HIDE DEF list
  <2>7. f.kind = "include" /\ f.node = Node /\ f.list = list /\ f.caller = s /\ f.i <= Len(f.list) + 1
    BY <1>2, <2>2, FrameIs DEF Kinds
  <2>. HIDE DEF f
  <2>8. FrameOK(f)
    BY <1>2, <2>2, <2>7 DEF FrameOK
  <2>9. Runs(f, s')
    BY <2>3, <2>7 DEF Runs
  <2>10. Good(Append(stack, f), s')
    BY <1>2, <2>2, <2>3, <2>8, <2>9, GoodEnter DEF f
  <2>. QED
    BY <2>1, <2>3, <2>10, NoPanic
<1>. QED
  BY <1>3, <1>4

(***************************************************************************)
(* The steps of the executor keep the invariant: leaving a list.           *)
(***************************************************************************)
LEMMA PopVarsState ==
  ASSUME NEW w \in State, NEW mark \in Nat, 1 <= mark, mark <= Len(w.vars)
  PROVE  /\ PopVars(w, mark) \in State
         /\ Len(PopVars(w, mark).vars) = mark /\ Context(PopVars(w, mark)) = Context(w)
         /\ Noted(PopVars(w, mark)) = Noted(w)
         /\ PopVars(w, mark).out = w.out /\ PopVars(w, mark).panic = w.panic
<1>. DEFINE vs == SubSeq(w.vars, 1, mark)
            x == [w EXCEPT !.vars = vs]
<1>1. w.vars \in Seq(Syms)
  BY Fields
<1>2. vs \in Seq(Syms) /\ Len(vs) = mark
  BY <1>1
<1>. HIDE DEF vs
<1>3. vs # <<>>
  BY <1>2
<1>4. x \in State
  BY <1>2, <1>3 DEF State
<1>5. /\ x.vars = vs /\ x.counting = w.counting /\ x.depth = w.depth /\ x.calls = w.calls
      /\ x.guards = w.guards /\ x.out = w.out /\ x.spans = w.spans /\ x.reads = w.reads
      /\ x.arms = w.arms /\ x.explored = w.explored /\ x.panic = w.panic
  BY DEF State
<1>6. PopVars(w, mark) = x
  BY DEF PopVars, vs
<1>. HIDE DEF x
<1>7. Context(x) = Context(w) /\ Noted(x) = Noted(w)
  BY <1>5, ContextIs, NotedIs
<1>. QED
  BY <1>2, <1>4, <1>5, <1>6, <1>7

LEMMA CalmState ==
  ASSUME NEW w \in State
  PROVE  LET x == [w EXCEPT !.panic = "none"] IN
         /\ x \in State /\ x.panic = "none" /\ x.vars = w.vars /\ Context(x) = Context(w)
         /\ Noted(x) = Noted(w) /\ x.out = w.out /\ x.spans = w.spans
<1>. DEFINE x == [w EXCEPT !.panic = "none"]
<1>1. x \in State
  BY DEF State
<1>2. /\ x.vars = w.vars /\ x.counting = w.counting /\ x.depth = w.depth /\ x.calls = w.calls
      /\ x.guards = w.guards /\ x.out = w.out /\ x.spans = w.spans /\ x.reads = w.reads
      /\ x.arms = w.arms /\ x.explored = w.explored /\ x.panic = "none"
  BY DEF State
<1>. HIDE DEF x
<1>3. Context(x) = Context(w) /\ Noted(x) = Noted(w)
  BY <1>2, ContextIs, NotedIs
<1>. QED
  BY <1>1, <1>2, <1>3 DEF x

(* The list a node's list is walked from.                                    *)
LEMMA Beneath ==
  ASSUME Good(stack, s), Top.kind \notin {"main", "arm"}
  PROVE  LET below == stack[Len(stack) - 1] IN
         /\ Len(stack) > 1 /\ below \in Frames /\ Len(stack) - 1 \in 1..(Len(stack) - 1)
         /\ below.i <= Len(below.list) /\ Top.node = below.list[below.i]
         /\ below.list \in Seq(AllNodes)
         /\ Top.node \in AllNodes
<1>. DEFINE n == Len(stack)
            below == stack[n - 1]
<1>1. /\ n \in Nat /\ n >= 1 /\ DOMAIN stack = 1..n /\ Stands(stack, n)
      /\ Top.kind = "main" <=> n = 1
  BY TopOf DEF Top
<1>2. n > 1
  BY <1>1
<1>3. n - 1 \in 1..(n - 1) /\ n - 1 \in 1..n
  BY <1>1, <1>2, Below
<1>4. below.i <= Len(below.list) /\ Top.node = below.list[below.i]
  BY <1>1, <1>2 DEF Stands, Top
<1>5. stack \in Seq(Frames) /\ stack # <<>>
  BY DEF Good
<1>6. below \in Frames
  BY <1>1, <1>3, <1>5, StackOf
<1>7. below.list \in Seq(AllNodes) /\ below.i \in Nat \ {0}
  BY <1>6, FrameFields
<1>. HIDE DEF below
<1>8. Top.node \in AllNodes
  BY <1>4, <1>7
<1>. QED
  BY <1>2, <1>3, <1>4, <1>6, <1>7, <1>8 DEF below

LEMMA GoodReturn ==
  ASSUME Good(stack, s), Top.kind \notin {"main", "arm"}, NEW x \in State,
         Context(x) = Context(Top.caller), Len(x.vars) >= Len(Top.caller.vars),
         x.out = IF Top.kind = "include" THEN Top.caller.out ELSE s.out,
         Noted(x) = Noted(s)
  PROVE  /\ Good(Return, x)
         /\ Good(Pop, x) /\ Len(Pop) = Len(stack) - 1 /\ Pop[Len(stack) - 1] = stack[Len(stack) - 1]
<1>. DEFINE n == Len(stack)
<1>1. stack[n].kind # "main" /\ Context(x) = Context(stack[n].caller)
      /\ Len(x.vars) >= Len(stack[n].caller.vars)
      /\ x.out = IF stack[n].kind \in {"arm", "include"} THEN stack[n].caller.out ELSE s.out
  BY DEF Top
<1>2. /\ Good(Popped(stack), x)
      /\ Len(Popped(stack)) = n - 1
      /\ \A j \in 1..(n - 1) : Popped(stack)[j] = stack[j]
  BY <1>1, GoodPop
<1>3. n - 1 \in 1..(n - 1) /\ stack[n - 1].i <= Len(stack[n - 1].list)
  BY Beneath
<1>4. Pop = Popped(stack)
  BY DEF Pop, Popped
<1>5. Good(Pop, x) /\ Len(Pop) = n - 1 /\ Pop[n - 1] = stack[n - 1]
  BY <1>2, <1>3, <1>4
<1>6. Good(Advance(Pop), x)
  BY <1>3, <1>5, GoodAdvance
<1>. QED
  BY <1>5, <1>6 DEF Return

LEMMA EnterArmState ==
  ASSUME NEW w \in State, NEW g \in Guards, NEW pre \in Seq(Syms)
  PROVE  LET x == EnterArm(g, pre, w) IN
         /\ x \in State /\ ~x.counting /\ x.guards # <<>> /\ x.guards[Len(x.guards)] = g
         /\ x.depth = w.depth /\ x.calls = w.calls /\ x.panic = w.panic
         /\ Noted(x) = Noted(w) /\ x.spans = w.spans
<1>. DEFINE vs == w.vars \o pre
            guards == Append(w.guards, g)
            x == [w EXCEPT !.out = <<>>, !.counting = FALSE, !.vars = vs, !.guards = guards]
<1>1. w.vars \in Seq(Syms) /\ w.vars # <<>> /\ w.guards \in Seq(Guards)
  BY Fields
<1>2. vs \in Seq(Syms) /\ vs # <<>>
  <2>1. vs \in Seq(Syms) /\ Len(vs) = Len(w.vars) + Len(pre)
    BY <1>1
  <2>2. Len(w.vars) \in Nat /\ Len(w.vars) # 0 /\ Len(pre) \in Nat
    BY <1>1
  <2>3. Len(vs) # 0
    BY <2>1, <2>2
  <2>. QED
    BY <2>1, <2>3
<1>3. guards \in Seq(Guards) /\ guards # <<>> /\ guards[Len(guards)] = g
  <2>1. guards \in Seq(Guards) /\ Len(guards) = Len(w.guards) + 1 /\ guards[Len(w.guards) + 1] = g
    BY <1>1
  <2>2. Len(w.guards) \in Nat
    BY <1>1
  <2>. HIDE DEF guards
  <2>. QED
    BY <2>1, <2>2
<1>4. EnterArm(g, pre, w) = x
  BY DEF EnterArm
<1>. HIDE DEF vs, guards
<1>5. x \in State
  <2>1. <<>> \in Seq(Bytes)
    OBVIOUS
  <2>. QED
    BY <1>2, <1>3, <2>1 DEF State
<1>6. /\ x.counting = FALSE /\ x.depth = w.depth /\ x.calls = w.calls
      /\ x.guards = guards /\ x.spans = w.spans /\ x.reads = w.reads
      /\ x.arms = w.arms /\ x.explored = w.explored /\ x.panic = w.panic
  BY DEF State
<1>. HIDE DEF x
<1>7. Noted(x) = Noted(w)
  BY <1>6, NotedIs
<1>. QED
  BY <1>3, <1>4, <1>5, <1>6, <1>7

LEMMA ExploreGood ==
  ASSUME NEW c, Good(Return, c), c.panic = "none",
         NEW w \in State, Context(w) = Context(c), Noted(w) = Noted(c), w.panic = "none",
         NEW n \in AllNodes, NEW which \in {"then", "else", "body"}, n.arms[which] \in Seq(AllNodes),
         NEW pre \in Seq(Syms), Explore(n, which, pre, w, c)
  PROVE  Good(stack', s') /\ Where(stack', s')
<1>. DEFINE g == <<n.at, which>>
            list == n.arms[which]
            f == Frame("arm", n, list, 0, c)
<1>1. CASE ~Explores(n, which, w)
  <2>1. s' = c /\ stack' = Return
    BY <1>1 DEF Explore
  <2>. QED
    BY <2>1, NoPanic
<1>2. CASE Explores(n, which, w)
  <2>1. s' = EnterArm(g, pre, w) /\ stack' = Append(Return, f)
    BY <1>2 DEF Explore
  <2>2. c \in State
    BY TopOf
  <2>3. g \in Guards /\ g[2] # "symbolic"
    <3>1. n.at \in STRING
      BY Parsed
    <3>. QED
      BY <3>1 DEF Guards
  <2>. HIDE DEF list, g
  <2>4. f \in Frames /\ f.kind = "arm" /\ f.node = n /\ f.list = list /\ f.caller = c /\ f.i <= Len(f.list) + 1
    BY <2>2, FrameIs DEF Kinds, list
  <2>5. /\ s' \in State /\ ~s'.counting /\ s'.guards # <<>> /\ s'.guards[Len(s'.guards)] = g
        /\ s'.depth = w.depth /\ s'.calls = w.calls /\ s'.panic = "none"
        /\ Noted(s') = Noted(w) /\ s'.spans = w.spans
    BY <2>1, <2>3, EnterArmState
  <2>6. w.depth = c.depth /\ w.calls = c.calls /\ w.spans = c.spans
    BY ContextIs, NotedIs
  <2>. HIDE DEF f
  <2>7. FrameOK(f)
    BY <2>4 DEF FrameOK
  <2>8. Runs(f, s')
    BY <2>3, <2>4, <2>5, <2>6 DEF Runs
  <2>9. Good(Append(Return, f), s')
    BY <2>2, <2>4, <2>5, <2>6, <2>7, <2>8, GoodPush
  <2>. QED
    BY <2>1, <2>5, <2>9, NoPanic
<1>. QED
  BY <1>1, <1>2

LEMMA TopRuns ==
  ASSUME Good(stack, s)
  PROVE  /\ s \in State /\ Top \in Frames /\ Top.caller \in State /\ FrameOK(Top) /\ Runs(Top, s)
         /\ Top.caller.panic = "none" /\ Len(Top.caller.vars) \in Nat /\ 1 <= Len(Top.caller.vars)
<1>1. s \in State /\ Top \in Frames /\ Top.caller \in State /\ FrameOK(Top) /\ Runs(Top, s)
  BY TopOf DEF Top
<1>2. Top.caller.panic = "none"
  BY <1>1 DEF FrameOK
<1>. QED
  BY <1>1, <1>2, LengthOfVars

(* An if or a range drops what it declared. *)
LEMMA DropGood ==
  ASSUME Good(stack, s), Top.kind \in {"if", "range", "empty"}
  PROVE  LET x == PopVars(s, Len(Top.caller.vars)) IN
         /\ x \in State /\ Context(x) = Context(s) /\ Context(x) = Context(Top.caller)
         /\ Noted(x) = Noted(s) /\ x.out = s.out /\ x.panic = s.panic
         /\ Len(x.vars) >= Len(Top.caller.vars)
         /\ Top.node \in AllNodes
<1>. DEFINE mark == Len(Top.caller.vars)
            x == PopVars(s, mark)
<1>1. /\ s \in State /\ Top.caller \in State /\ mark \in Nat /\ 1 <= mark
      /\ FrameOK(Top) /\ Runs(Top, s)
  BY TopRuns
<1>2. mark <= Len(s.vars)
  BY <1>1, LengthOfVars DEF Runs
<1>. HIDE DEF mark
<1>3. /\ x \in State /\ Len(x.vars) = mark /\ Context(x) = Context(s) /\ Noted(x) = Noted(s)
      /\ x.out = s.out /\ x.panic = s.panic
  BY <1>1, <1>2, PopVarsState
<1>4. /\ s.counting = Top.caller.counting /\ s.guards = Top.caller.guards
      /\ s.depth = Top.caller.depth /\ s.calls = Top.caller.calls
  BY <1>1 DEF Runs
<1>5. Context(s) = Context(Top.caller)
  BY <1>4, ContextIs
<1>6. Top.node \in AllNodes
  BY <1>1 DEF FrameOK
<1>7. mark >= mark
  BY <1>1
<1>. HIDE DEF x
<1>8. Context(x) = Context(Top.caller) /\ Len(x.vars) >= mark
  BY <1>3, <1>5, <1>7
<1>. QED
  BY <1>3, <1>6, <1>8 DEF x, mark

LEMMA EndIfGood ==
  ASSUME Good(stack, s), EndIf
  PROVE  Good(stack', s') /\ Where(stack', s')
<1>. DEFINE c == PopVars(s, Len(Top.caller.vars))
            which == Other(Taken(Top.node, Top.caller))
<1>1. /\ s.panic = "none" /\ Top.kind = "if" /\ Explore(Top.node, which, <<>>, s, c)
  BY DEF EndIf, AtEnd
<1>2. /\ c \in State /\ Context(c) = Context(s) /\ Context(c) = Context(Top.caller)
      /\ Noted(c) = Noted(s) /\ c.out = s.out /\ c.panic = s.panic
      /\ Len(c.vars) >= Len(Top.caller.vars)
      /\ Top.node \in AllNodes
  BY <1>1, DropGood
<1>. HIDE DEF c
<1>3. Good(Return, c)
  BY <1>1, <1>2, GoodReturn
<1>4. Top.node.kind = "if" /\ s \in State
  BY <1>1, TopRuns DEF FrameOK
<1>5. Top.node.arms["then"] \in Seq(AllNodes) /\ Top.node.arms["else"] \in Seq(AllNodes)
  BY <1>2, <1>4, Parsed
<1>6. which \in {"then", "else"}
  BY DEF Other, Taken
<1>7. which \in {"then", "else", "body"} /\ Top.node.arms[which] \in Seq(AllNodes) /\ <<>> \in Seq(Syms)
  BY <1>5, <1>6
<1>. HIDE DEF which
<1>. QED
  BY <1>1, <1>2, <1>3, <1>4, <1>7, ExploreGood

LEMMA EndRangeGood ==
  ASSUME Good(stack, s), EndRange
  PROVE  Good(stack', s') /\ Where(stack', s')
<1>. DEFINE p == PopVars(s, Len(Top.caller.vars))
            w == [p EXCEPT !.panic = "none"]
            ran == Top.kind = "range"
            taken == IF ran THEN "body" ELSE "empty"
            c == Arm(w, Top.node, taken)
<1>1. Top.kind \in {"range", "empty"} /\ ExploreRange(Top.node, c, ran)
  BY DEF EndRange, AtEnd, Iterated
<1>2. /\ p \in State /\ Context(p) = Context(s) /\ Context(p) = Context(Top.caller)
      /\ Noted(p) = Noted(s) /\ p.out = s.out
      /\ Len(p.vars) >= Len(Top.caller.vars)
      /\ Top.node \in AllNodes
  BY <1>1, DropGood
<1>. HIDE DEF p
<1>3. /\ w \in State /\ w.panic = "none" /\ w.vars = p.vars /\ Context(w) = Context(p)
      /\ Noted(w) = Noted(p) /\ w.out = p.out
  BY <1>2, CalmState
<1>. HIDE DEF w
<1>4. Good(Return, w)
  BY <1>1, <1>2, <1>3, GoodReturn
<1>5. Top.node.kind = "range"
  BY <1>1, TopRuns DEF FrameOK
<1>6. /\ Top.node.at \in STRING
      /\ Top.node.arms["body"] \in Seq(AllNodes) /\ Top.node.arms["else"] \in Seq(AllNodes)
  BY <1>2, <1>5, Parsed
<1>7. taken \in TakenArms
  BY DEF TakenArms
<1>. HIDE DEF taken
<1>8. Continues(w, c)
  BY <1>3, <1>6, <1>7, ArmContinues
<1>9. c.panic = "none" /\ c \in State
  <2>1. w \in State /\ Top.node.at \in STRING
    BY <1>3, <1>6
  <2>2. Arm(w, Top.node, taken).panic = w.panic
    BY <1>7, <2>1, ArmState
  <2>. QED
    BY <1>3, <1>8, <2>2 DEF Continues
<1>. HIDE DEF c
<1>10. Good(Return, c)
  BY <1>4, <1>8, GoodContinues
<1>11. <<>> \in Seq(Syms) /\ <<Absent>> \in Seq(Syms)
  <2>1. Absent \in Syms
    BY DEF Syms, Values
  <2>. QED
    BY <2>1
<1>12. CASE ran
  <2>1. Explore(Top.node, "else", <<>>, c, c)
    BY <1>1, <1>12 DEF ExploreRange
  <2>. QED
    BY <1>2, <1>6, <1>9, <1>10, <1>11, <2>1, ExploreGood
<1>13. CASE ~ran
  <2>1. Explore(Top.node, "body", <<Absent>>, c, c)
    BY <1>1, <1>13 DEF ExploreRange
  <2>. QED
    BY <1>2, <1>6, <1>9, <1>10, <1>11, <2>1, ExploreGood
<1>. QED
  BY <1>12, <1>13

LEMMA EndTemplateGood ==
  ASSUME Good(stack, s), EndTemplate
  PROVE  Good(stack', s') /\ Where(stack', s')
<1>. DEFINE c == Top.caller
            x == LeaveTemplate(s, c)
<1>1. s.panic = "none" /\ Top.kind = "template" /\ s' = x /\ stack' = Return
  BY DEF EndTemplate, AtEnd
<1>2. s \in State /\ c \in State /\ Runs(Top, s) /\ Len(c.vars) \in Nat
  BY TopRuns
<1>3. c.vars \in Seq(Syms) /\ c.vars # <<>> /\ c.depth \in Nat
  BY <1>2, Fields
<1>. HIDE DEF c
<1>4. x \in State
  BY <1>2, <1>3 DEF State, LeaveTemplate
<1>5. /\ x.vars = c.vars /\ x.counting = s.counting /\ x.depth = c.depth /\ x.calls = s.calls
      /\ x.guards = s.guards /\ x.out = s.out /\ x.spans = s.spans /\ x.reads = s.reads
      /\ x.arms = s.arms /\ x.explored = s.explored /\ x.panic = s.panic
  BY <1>2 DEF LeaveTemplate, State
<1>. HIDE DEF x
<1>6. s.counting = c.counting /\ s.guards = c.guards /\ s.calls = c.calls
  BY <1>1, <1>2 DEF Runs, c
<1>7. Context(x) = Context(c) /\ Noted(x) = Noted(s) /\ Len(x.vars) >= Len(c.vars)
  BY <1>2, <1>5, <1>6, ContextIs, NotedIs
<1>8. Good(Return, x)
  BY <1>1, <1>4, <1>5, <1>7, GoodReturn DEF c
<1>. QED
  BY <1>1, <1>5, <1>8, NoPanic

LEMMA LeaveIncludeState ==
  ASSUME Good(stack, s), Top.kind = "include"
  PROVE  LET x == LeaveInclude(s, Top) IN
         /\ x \in State /\ Context(x) = Context(Top.caller) /\ Noted(x) = Noted(s)
         /\ x.vars = Top.caller.vars /\ x.out = Top.caller.out /\ x.panic = s.panic
         /\ Len(x.vars) >= Len(Top.caller.vars)
<1>. DEFINE c == Top.caller
            name == Top.node.name
            x == LeaveInclude(s, Top)
<1>1. s \in State /\ c \in State /\ FrameOK(Top) /\ Runs(Top, s) /\ Len(c.vars) \in Nat
  BY TopRuns
<1>2. name \in Names /\ s.guards = c.guards /\ s.calls = [c.calls EXCEPT ![name] = @ + 1]
  BY <1>1 DEF FrameOK, Runs
<1>3. /\ c.vars \in Seq(Syms) /\ c.vars # <<>> /\ c.depth \in Nat /\ c.out \in Seq(Bytes)
      /\ c.counting \in BOOLEAN /\ c.calls \in [Names -> Nat]
  BY <1>1, Fields
<1>4. [s.calls EXCEPT ![name] = @ - 1] = c.calls
  BY <1>2, <1>3
<1>5. x = [s EXCEPT !.out = c.out, !.counting = c.counting, !.vars = c.vars, !.depth = c.depth,
                    !.calls = c.calls]
  <2>1. x = [s EXCEPT !.out = c.out, !.counting = c.counting, !.vars = c.vars, !.depth = c.depth,
                      !.calls = [s.calls EXCEPT ![name] = @ - 1]]
    BY <1>1 DEF LeaveInclude, State
  <2>. QED
    BY <1>4, <2>1
<1>. HIDE DEF c, x
<1>6. x \in State
  BY <1>1, <1>3, <1>5 DEF State
<1>7. /\ x.vars = c.vars /\ x.counting = c.counting /\ x.depth = c.depth /\ x.calls = c.calls
      /\ x.guards = s.guards /\ x.out = c.out /\ x.spans = s.spans /\ x.reads = s.reads
      /\ x.arms = s.arms /\ x.explored = s.explored /\ x.panic = s.panic
  BY <1>1, <1>5 DEF State
<1>8. Context(x) = Context(c) /\ Noted(x) = Noted(s) /\ Len(x.vars) >= Len(c.vars)
  BY <1>1, <1>2, <1>7, ContextIs, NotedIs
<1>. QED
  BY <1>6, <1>7, <1>8 DEF x, c

LEMMA EndIncludeGood ==
  ASSUME Good(stack, s), EndInclude
  PROVE  Good(stack', s') /\ Where(stack', s')
<1>. DEFINE x == LeaveInclude(s, Top)
<1>1. /\ s.panic = "none" /\ Top.kind = "include" /\ s' = Emit(x, Top.node, s.out) /\ stack' = Return
  BY DEF EndInclude, AtEnd
<1>2. /\ x \in State /\ Context(x) = Context(Top.caller) /\ Noted(x) = Noted(s)
      /\ x.vars = Top.caller.vars /\ x.out = Top.caller.out /\ x.panic = s.panic
      /\ Len(x.vars) >= Len(Top.caller.vars)
  BY <1>1, LeaveIncludeState
<1>. HIDE DEF x
<1>3. Good(Return, x)
  BY <1>1, <1>2, GoodReturn
<1>4. Top.node \in AllNodes
  BY <1>1, Beneath
<1>5. Top.node.at \in STRING /\ s.out \in Seq(Bytes)
  BY <1>4, Parsed, TopRuns, Fields
<1>6. Continues(x, s') /\ s'.panic = x.panic
  BY <1>1, <1>2, <1>5, EmitContinues
<1>7. Good(Return, s')
  BY <1>3, <1>6, GoodContinues
<1>. QED
  BY <1>1, <1>2, <1>6, <1>7, NoPanic

LEMMA EndIterationGood ==
  ASSUME Good(stack, s), EndIteration
  PROVE  Good(stack', s') /\ Where(stack', s')
<1>. DEFINE n == Len(stack)
            c == Top.caller
            v == c.data[Top.node.path]
            e == Element(v, Top.left - 1)
            kept == SubSeq(s.vars, 1, Len(c.vars))
            vs == Append(kept, e)
            x == [s EXCEPT !.panic = "none", !.vars = vs]
            f == [Top EXCEPT !.i = 1, !.left = @ - 1]
<1>1. Top.kind = "range" /\ Top.left > 1
  BY DEF EndIteration, Iterated, AtEnd
<1>2. /\ s \in State /\ Top \in Frames /\ c \in State /\ FrameOK(Top) /\ Runs(Top, s)
      /\ Len(c.vars) \in Nat /\ 1 <= Len(c.vars)
  BY TopRuns
<1>3. v = 2 /\ Top.left = 2
  <2>1. \/ v = Unknown /\ Top.left = 1
        \/ v \in {1, 2} /\ Top.left \in 1..v
    BY <1>1, <1>2 DEF FrameOK
  <2>. HIDE DEF v
  <2>. QED
    BY <1>1, <2>1
<1>4. e \in Syms
  BY <1>3 DEF Element, Syms, Values, Unknown
<1>5. s' = x /\ stack' = [stack EXCEPT ![n] = f]
  <2>1. s' = x
    BY DEF EndIteration
  <2>2. stack' = [stack EXCEPT ![n].i = 1, ![n].left = @ - 1]
    BY DEF EndIteration
  <2>3. n \in DOMAIN stack /\ stack \in Seq(Frames)
    BY TopOf DEF Good
  <2>4. [stack EXCEPT ![n].i = 1, ![n].left = @ - 1] = [stack EXCEPT ![n] = f]
    BY <1>2, <2>3 DEF Top, Frames
  <2>. QED
    BY <2>1, <2>2, <2>4
<1>6. vs \in Seq(Syms) /\ vs # <<>> /\ Len(vs) >= Len(c.vars)
  <2>1. s.vars \in Seq(Syms) /\ Len(c.vars) <= Len(s.vars) /\ Len(s.vars) \in Nat
    BY <1>1, <1>2, Fields, LengthOfVars DEF Runs
  <2>2. ASSUME NEW m \in Nat, m <= Len(s.vars)
        PROVE  SubSeq(s.vars, 1, m) \in Seq(Syms) /\ Len(SubSeq(s.vars, 1, m)) = m
    BY <2>1, <2>2
  <2>3. kept \in Seq(Syms) /\ Len(kept) = Len(c.vars)
    BY <1>2, <2>1, <2>2
  <2>. HIDE DEF kept, e
  <2>4. vs \in Seq(Syms) /\ Len(vs) = Len(kept) + 1
    BY <1>4, <2>3
  <2>. HIDE DEF vs
  <2>5. Len(vs) >= Len(c.vars) /\ Len(vs) # 0
    BY <1>2, <2>3, <2>4
  <2>. QED
    BY <2>4, <2>5
<1>. HIDE DEF vs, e
<1>7. x \in State
  BY <1>2, <1>6 DEF State
<1>8. /\ x.vars = vs /\ x.counting = s.counting /\ x.depth = s.depth /\ x.calls = s.calls
      /\ x.guards = s.guards /\ x.out = s.out /\ x.spans = s.spans /\ x.reads = s.reads
      /\ x.arms = s.arms /\ x.explored = s.explored /\ x.panic = "none"
  BY <1>2 DEF State
<1>. HIDE DEF x
<1>9. Context(x) = Context(s) /\ Noted(x) = Noted(s)
  BY <1>8, ContextIs, NotedIs
<1>10. Keeps(s, x)
  BY <1>8, <1>9 DEF Keeps
<1>11. /\ f.kind = Top.kind /\ f.node = Top.node /\ f.caller = c /\ f.list = Top.list /\ f.i = 1
       /\ f.left = Top.left - 1
  BY <1>2 DEF Frames
<1>12. f \in Frames
  <2>1. Top.left - 1 \in Int /\ 1 \in Nat \ {0}
    BY <1>3
  <2>. DEFINE fewer == Top.left - 1
  <2>2. f = [Top EXCEPT !.i = 1, !.left = fewer]
    OBVIOUS
  <2>. HIDE DEF fewer, f
  <2>3. fewer \in Int
    BY <2>1 DEF fewer
  <2>. QED
    BY <1>2, <2>1, <2>2, <2>3 DEF Frames
<1>. HIDE DEF f
<1>13. FrameOK(f)
  <2>1. 1 <= Len(Top.list) + 1
    <3>1. Len(Top.list) \in Nat
      BY <1>2, FrameFields
    <3>. QED
      BY <3>1
  <2>2. v = 2 /\ f.left = 1 /\ f.left \in 1..2
    BY <1>3, <1>11
  <2>. QED
    BY <1>1, <1>2, <1>11, <2>1, <2>2 DEF FrameOK
<1>14. Good([stack EXCEPT ![n] = f], s)
  BY <1>11, <1>12, <1>13, GoodTop DEF Top
<1>. DEFINE so == [stack EXCEPT ![n] = f]
<1>15. so[Len(so)] = f
  <2>1. n \in DOMAIN stack /\ stack \in Seq(Frames) /\ n \in 1..Len(stack)
    BY TopOf DEF Good
  <2>2. Len(so) = n /\ so[n] = f
    BY <1>12, <2>1, ExceptSeq
  <2>. QED
    BY <2>2
<1>16. Runs(f, x)
  BY <1>1, <1>2, <1>6, <1>8, <1>11 DEF Runs
<1>17. Good(so, x)
  <2>. HIDE DEF so
  <2>1. Good(so, s)
    BY <1>14 DEF so
  <2>. QED
    BY <1>7, <1>9, <1>10, <1>15, <1>16, <2>1, GoodKeeps
<1>. QED
  BY <1>5, <1>8, <1>17, NoPanic

(* What an arm leaves: EndArm.                                               *)
ArmLeft(w, c, hole) ==
    [LeaveArm(w, c) EXCEPT !.explored = Append(@,
        [guard |-> w.guards[Len(w.guards)], text |-> Strip(w.out), hole |-> hole])]

LEMMA LeaveArmState ==
  ASSUME NEW w \in State, NEW c \in State, w.guards # <<>>, w.guards[Len(w.guards)][2] # "symbolic",
         NEW hole \in BOOLEAN
  PROVE  LET x == ArmLeft(w, c, hole)
         IN  /\ x \in State /\ x.out = c.out /\ x.counting = c.counting /\ x.vars = c.vars
             /\ x.guards = c.guards /\ x.panic = "none" /\ x.depth = w.depth /\ x.calls = w.calls
             /\ x.data = w.data /\ Noted(x) = Noted(w)
<1>. DEFINE text == Strip(w.out)
            guard == w.guards[Len(w.guards)]
            note == [guard |-> guard, text |-> text, hole |-> hole]
            explored == Append(w.explored, note)
            x == [w EXCEPT !.out = c.out, !.counting = c.counting, !.vars = c.vars,
                           !.guards = c.guards, !.panic = "none", !.explored = explored]
<1>1. /\ w.out \in Seq(Bytes) /\ w.guards \in Seq(Guards) /\ w.explored \in Seq(Explored)
      /\ c.out \in Seq(Bytes) /\ c.counting \in BOOLEAN /\ c.vars \in Seq(Syms) /\ c.vars # <<>>
      /\ c.guards \in Seq(Guards)
  BY Fields
<1>2. text \in Seq(Bytes)
  <2>1. Kept(w.out) \in SUBSET (1..Len(w.out))
    BY <1>1 DEF Kept
  <2>. QED
    BY <1>1, <2>1, PickType DEF Strip
<1>3. guard \in Guards /\ guard[2] # "symbolic"
  BY <1>1
<1>4. ArmLeft(w, c, hole) = x
  <2>1. [LeaveArm(w, c) EXCEPT !.explored = Append(@, note)] = x
    BY DEF LeaveArm, State
  <2>. QED
    BY <2>1 DEF ArmLeft
<1>. HIDE DEF text, guard
<1>5. note \in Explored /\ note.guard[2] # "symbolic"
  BY <1>2, <1>3 DEF Explored
<1>. HIDE DEF note
<1>6. explored \in Seq(Explored) /\ PlainExplored(explored) = PlainExplored(w.explored)
  BY <1>1, <1>5, PlainExploredAppend
<1>. HIDE DEF explored
<1>7. x \in State
  BY <1>1, <1>6 DEF State, Explored
<1>8. /\ x.out = c.out /\ x.counting = c.counting /\ x.vars = c.vars
      /\ x.guards = c.guards /\ x.panic = "none" /\ x.depth = w.depth /\ x.calls = w.calls
      /\ x.data = w.data /\ x.spans = w.spans /\ x.reads = w.reads /\ x.arms = w.arms
      /\ x.explored = explored
  BY DEF State
<1>. HIDE DEF x
<1>9. Noted(x) = Noted(w)
  BY <1>6, <1>8, NotedIs
<1>. QED
  BY <1>4, <1>7, <1>8, <1>9

LEMMA EndArmGood ==
  ASSUME Good(stack, s), EndArm
  PROVE  Good(stack', s') /\ Where(stack', s')
<1>. DEFINE c == Top.caller
            hole == s.panic = "error"
<1>1. /\ Top.kind = "arm" /\ stack' = Popped(stack)
      /\ s' = ArmLeft(s, c, hole)
  BY DEF EndArm, AtEnd, Pop, Popped, ArmLeft
<1>2. s \in State /\ c \in State /\ Runs(Top, s) /\ Len(c.vars) \in Nat
  BY TopRuns
<1>3. /\ s.guards # <<>> /\ s.guards[Len(s.guards)][2] # "symbolic" /\ s.depth = c.depth
      /\ s.calls = c.calls
  BY <1>1, <1>2 DEF Runs
<1>4. hole \in BOOLEAN
  OBVIOUS
<1>. HIDE DEF c, hole
<1>5. /\ s' \in State /\ s'.out = c.out /\ s'.counting = c.counting /\ s'.vars = c.vars
      /\ s'.guards = c.guards /\ s'.panic = "none" /\ s'.depth = s.depth /\ s'.calls = s.calls
      /\ Noted(s') = Noted(s)
  BY <1>1, <1>2, <1>3, <1>4, LeaveArmState
<1>6. Context(s') = Context(c) /\ Len(s'.vars) >= Len(c.vars)
  BY <1>2, <1>3, <1>5, ContextIs
<1>. DEFINE f == stack[Len(stack)]
<1>8. f.kind = "arm" /\ f.caller = c
  BY <1>1 DEF c, Top
<1>9. f.kind # "main" /\ f.kind \in {"arm", "include"}
  BY <1>8
<1>10. /\ Context(s') = Context(f.caller) /\ Len(s'.vars) >= Len(f.caller.vars)
       /\ s'.out = IF f.kind \in {"arm", "include"} THEN f.caller.out ELSE s.out
  BY <1>5, <1>6, <1>8, <1>9
<1>7. Good(Popped(stack), s')
  BY <1>5, <1>9, <1>10, GoodPop
<1>. QED
  BY <1>1, <1>5, <1>7, NoPanic

(* Where a panic is, there is a node. *)
LEMMA PanicAt ==
  ASSUME Good(stack, s), Where(stack, s), s.panic # "none"
  PROVE  Node \in AllNodes /\ Top.i <= Len(Top.list)
<1>1. Top \in Frames
  BY TopOf DEF Top
<1>2. Top.list \in Seq(AllNodes) /\ Top.i \in Nat \ {0}
  BY <1>1, FrameFields
<1>3. Top.i <= Len(Top.list)
  BY DEF Where, Top
<1>4. Top.list[Top.i] \in AllNodes
  BY <1>2, <1>3
<1>. QED
  BY <1>3, <1>4 DEF Node

LEMMA HoleGood ==
  ASSUME Good(stack, s), Where(stack, s), Hole
  PROVE  Good(stack', s') /\ Where(stack', s')
<1>1. s.panic = "error" /\ s.guards = <<>> /\ s' = HoleNoted(s, Node.at) /\ stack' = Advance(stack)
  BY DEF Hole, IsHole, HoleNoted
<1>2. Node \in AllNodes /\ stack[Len(stack)].i <= Len(stack[Len(stack)].list)
  BY <1>1, PanicAt DEF Top
<1>3. Node.at \in STRING
  BY <1>2, Parsed
<1>4. s \in State
  BY TopOf
<1>5. Continues(s, s') /\ s'.panic = "none"
  BY <1>1, <1>3, <1>4, HoleContinues
<1>6. Good(stack, s')
  BY <1>5, GoodContinues
<1>. QED
  BY <1>1, <1>2, <1>5, <1>6, GoodAdvance, NoPanic

LEMMA UnwindGood ==
  ASSUME Good(stack, s), Where(stack, s), Unwind
  PROVE  Good(stack', s') /\ Where(stack', s')
<1>1. /\ Top.kind \in {"if", "range", "empty", "template", "include"}
      /\ s.panic # "none"
      /\ s.panic \in Jumps => Top.kind \in {"if", "empty"}
      /\ stack' = Pop
  BY DEF Unwind, Panicking, Jumps
<1>2. s' = CASE Top.kind = "template" -> LeaveTemplate(s, Top.caller)
             [] Top.kind = "include" -> LeaveInclude(s, Top)
             [] OTHER -> PopVars(s, Len(Top.caller.vars))
  BY DEF Unwind
<1>3. /\ s' \in State /\ s'.panic = s.panic
      /\ Context(s') = Context(Top.caller) /\ Len(s'.vars) >= Len(Top.caller.vars)
      /\ s'.out = IF Top.kind = "include" THEN Top.caller.out ELSE s.out
      /\ Noted(s') = Noted(s)
  <2>1. CASE Top.kind = "include"
    <3>1. s' = LeaveInclude(s, Top)
      BY <1>2, <2>1
    <3>. QED
      BY <2>1, <3>1, LeaveIncludeState
  <2>2. CASE Top.kind \in {"if", "range", "empty"}
    <3>1. s' = PopVars(s, Len(Top.caller.vars))
      BY <1>2, <2>2
    <3>. QED
      BY <2>2, <3>1, DropGood
  <2>3. CASE Top.kind = "template"
    <3>. DEFINE c == Top.caller
    <3>1. s' = LeaveTemplate(s, c)
      BY <1>2, <2>3
    <3>2. s \in State /\ c \in State /\ Runs(Top, s) /\ Len(c.vars) \in Nat
      BY TopRuns
    <3>3. c.vars \in Seq(Syms) /\ c.vars # <<>> /\ c.depth \in Nat
      BY <3>2, Fields
    <3>. HIDE DEF c
    <3>4. s' \in State
      BY <3>1, <3>2, <3>3 DEF State, LeaveTemplate
    <3>5. /\ s'.vars = c.vars /\ s'.counting = s.counting /\ s'.depth = c.depth /\ s'.calls = s.calls
          /\ s'.guards = s.guards /\ s'.out = s.out /\ s'.spans = s.spans /\ s'.reads = s.reads
          /\ s'.arms = s.arms /\ s'.explored = s.explored /\ s'.panic = s.panic
      BY <3>1, <3>2 DEF LeaveTemplate, State
    <3>6. s.counting = c.counting /\ s.guards = c.guards /\ s.calls = c.calls
      BY <2>3, <3>2 DEF Runs, c
    <3>7. Context(s') = Context(c) /\ Noted(s') = Noted(s) /\ Len(s'.vars) >= Len(c.vars)
      BY <3>2, <3>5, <3>6, ContextIs, NotedIs
    <3>. QED
      BY <2>3, <3>4, <3>5, <3>7 DEF c
  <2>. QED
    BY <1>1, <2>1, <2>2, <2>3
<1>4. Good(Pop, s') /\ Len(Pop) = Len(stack) - 1 /\ Pop[Len(stack) - 1] = stack[Len(stack) - 1]
  BY <1>1, <1>3, GoodReturn
<1>. DEFINE below == stack[Len(stack) - 1]
<1>5. below.i <= Len(below.list) /\ Top.node = below.list[below.i]
  BY <1>1, Beneath
<1>6. ASSUME s.panic \in Jumps  PROVE Top.node \notin Nodes
  <2>1. Top \in Frames /\ FrameOK(Top) /\ Top.kind \in {"if", "empty"}
    BY <1>1, <1>6, TopRuns
  <2>2. Top.i <= Len(Top.list) /\ Top.list[Top.i] \notin Nodes
    BY <1>1, <1>6 DEF Where, Top
  <2>3. Top.list \notin Seq(Nodes)
    <3>1. Top.i \in Nat \ {0}
      BY <2>1, FrameFields
    <3>. QED
      BY <2>2, <3>1
  <2>. QED
    BY <2>1, <2>3 DEF FrameOK
<1>7. Where(stack', s')
  BY <1>1, <1>3, <1>4, <1>5, <1>6 DEF Where
<1>. QED
  BY <1>1, <1>4, <1>7

(***************************************************************************)
(* Where a render starts and ends.                                         *)
(***************************************************************************)
LEMMA StartGood ==
  ASSUME Start, chart.templates \in Templates, chart.data \in [Paths -> Values]
  PROVE  Good(stack', s') /\ Where(stack', s') /\ s' \in State
<1>. DEFINE data == IF Symbolic THEN [p \in Paths |-> Unknown] ELSE chart.data
            w == Execution(chart.templates, data)
            list == chart.templates["main"]
            f == Frame("main", File, list, 0, w)
            st == <<f>>
<1>1. s' = w /\ stack' = st
  BY DEF Start
<1>2. data \in [Paths -> Syms]
  BY DEF Syms
<1>3. list \in Seq(Nodes) /\ list \in Seq(AllNodes)
  BY RenderAssumption, CalledList
<1>. HIDE DEF data, list
<1>4. <<Absent>> \in Seq(Syms) \ {<<>>} /\ <<>> \in Seq(Bytes) /\ <<>> \in Seq(Guards)
  <2>1. Absent \in Syms
    BY DEF Syms, Values
  <2>. QED
    BY <2>1
<1>5. [t \in Names |-> 0] \in [Names -> Nat]
  OBVIOUS
<1>6. w \in State
  BY <1>2, <1>4, <1>5 DEF Execution, State
<1>7. /\ w.out = <<>> /\ w.counting /\ w.depth = 0 /\ w.panic = "none" /\ w.spans = <<>>
      /\ w.guards = <<>> /\ w.calls = [t \in Names |-> 0]
  BY DEF Execution
<1>. HIDE DEF w
<1>8. "main" \in Kinds /\ File \in AllNodes \cup {File} /\ 0 \in Int
  BY DEF Kinds
<1>9. f \in Frames /\ f.kind = "main" /\ f.list = list /\ f.caller = w /\ f.i <= Len(f.list) + 1
  <2>1. f = [kind |-> "main", node |-> File, list |-> list, i |-> 1, left |-> 0, caller |-> w]
    BY DEF Frame
  <2>2. Len(list) \in Nat
    BY <1>3
  <2>. HIDE DEF f
  <2>. QED
    BY <1>3, <1>6, <1>8, <2>1, <2>2 DEF Frames
<1>. HIDE DEF f
<1>10. st \in Seq(Frames) /\ Len(st) = 1 /\ DOMAIN st = {1} /\ st[1] = f /\ st # <<>>
  <2>1. st \in Seq(Frames) /\ Len(st) = 1 /\ st[1] = f
    BY <1>9
  <2>. QED
    BY <2>1
<1>. HIDE DEF st
<1>11. FrameOK(f) /\ Runs(f, w)
  BY <1>3, <1>7, <1>9 DEF FrameOK, Runs
<1>12. Chain(st, w)
  <2>1. Ran(st, w, 1) = w /\ Stands(st, 1)
    BY <1>10 DEF Ran, Stands
  <2>. QED
    BY <1>9, <1>10, <1>11, <2>1 DEF Chain
<1>13. Inside(st, w) /\ Unnoted(st, w)
  BY <1>7, <1>9, <1>10 DEF Inside, Unnoted
<1>14. Tiled(w.out, w.spans)
  BY <1>7 DEF Tiled
<1>15. Tiling(st, w)
  BY <1>9, <1>10, <1>14 DEF Tiling
<1>16. Good(st, w)
  BY <1>6, <1>10, <1>12, <1>13, <1>15 DEF Good
<1>. QED
  BY <1>1, <1>6, <1>7, <1>16, NoPanic

Phases == {"start", "first", "again", "second", "done", "failed"}
Flags == {"plain", "branches", "symbolic"}
Rendered(w) == AsBegun(w) /\ w.panic \in {"none", "error"} /\ Tiled(w.out, w.spans)

(* The executions that ended, and what there is of one before and after.     *)
Renders ==
    /\ phase \in Phases
    /\ chart.templates \in Templates /\ chart.data \in [Paths -> Values] /\ chart.flag \in Flags
    /\ first = NoRender \/ Rendered(first)
    /\ second = NoRender \/ Rendered(second)
    /\ phase \in {"again", "second", "done", "failed"} => first # NoRender
    /\ phase = "start" => s = NoRender
    /\ phase # "start" => s \in State
    /\ ~Running => stack = <<>>

IInv == Renders /\ (Running => Good(stack, s) /\ Where(stack, s))

LEMMA NotRendered ==
  ASSUME NEW w \in State
  PROVE  w # NoRender
<1>1. w.panic \in {"none", "error", "break", "continue"}
  BY Fields DEF Jumps
<1>2. NoRender.panic = "not rendered"
  BY DEF NoRender
<1>. QED
  BY <1>1, <1>2

LEMMA InitIInv == Init => IInv
<1>. SUFFICES ASSUME Init  PROVE IInv
  OBVIOUS
<1>1. ~Running /\ phase = "start" /\ stack = <<>> /\ s = NoRender /\ first = NoRender /\ second = NoRender
  BY DEF Init, Running
<1>2. chart.templates \in Templates /\ chart.data \in [Paths -> Values] /\ chart.flag \in Flags
  BY DEF Init, Flags
<1>. QED
  BY <1>1, <1>2 DEF IInv, Renders, Phases

LEMMA StartIInv ==
  ASSUME IInv, RenderFirst \/ RenderAgain
  PROVE  IInv'
<1>1. Start /\ chart' = chart /\ first' = first /\ second' = second
  BY DEF RenderFirst, RenderAgain, Start
<1>2. \/ phase = "start" /\ phase' = "first"
      \/ phase = "again" /\ phase' = "second"
  BY DEF RenderFirst, RenderAgain
<1>3. Good(stack', s') /\ Where(stack', s') /\ s' \in State
  BY <1>1, StartGood DEF IInv, Renders
<1>4. Good(stack, s)' /\ Where(stack, s)'
  BY <1>3
<1>5. Renders'
  BY <1>1, <1>2, <1>3 DEF IInv, Renders, Running, Phases, Rendered, AsBegun
<1>. QED
  BY <1>4, <1>5 DEF IInv

LEMMA WalkIInv ==
  ASSUME IInv, Walk \/ Leave
  PROVE  IInv'
<1>1. /\ Running /\ chart' = chart /\ phase' = phase /\ first' = first /\ second' = second
  BY DEF Walk, Leave, WalkText, WalkJump, WalkAction, WalkIf, WalkRange, WalkTemplate, WalkInclude,
         EndIf, EndIteration, EndRange, EndTemplate, EndInclude, EndArm, Hole, Unwind,
         AtNode, AtEnd, Panicking, Iterated, Still
<1>2. Good(stack, s) /\ Where(stack, s) /\ chart.templates \in Templates
  BY <1>1 DEF IInv, Renders
<1>3. Good(stack', s') /\ Where(stack', s')
  <2>1. CASE Walk
    BY <1>2, <2>1, WalkTextGood, WalkJumpGood, WalkActionGood, WalkIfGood, WalkRangeGood,
       WalkTemplateGood, WalkIncludeGood DEF Walk
  <2>2. CASE Leave
    BY <1>2, <2>2, EndIfGood, EndIterationGood, EndRangeGood, EndTemplateGood, EndIncludeGood,
       EndArmGood, HoleGood, UnwindGood DEF Leave
  <2>. QED
    BY <2>1, <2>2
<1>4. s' \in State
  BY <1>3 DEF Good
<1>5. Renders'
  BY <1>1, <1>4 DEF IInv, Renders, Running, Rendered, AsBegun
<1>6. Good(stack, s)' /\ Where(stack, s)'
  BY <1>3
<1>. QED
  BY <1>5, <1>6 DEF IInv

(* A render ends at the end of the file's list, or in an error in it.        *)
LEMMA EndRenderRendered ==
  ASSUME IInv, EndRender
  PROVE  Running /\ s \in State /\ Rendered(s)
<1>1. /\ Running /\ Top.kind = "main" /\ s.panic \in {"none", "error"}
  BY DEF EndRender, AtEnd, Panicking
<1>2. Good(stack, s)
  BY <1>1 DEF IInv
<1>3. s \in State /\ Runs(Top, s)
  BY <1>2, TopRuns
<1>4. s.guards = <<>> /\ s.counting /\ s.depth = 0 /\ \A t \in Names : s.calls[t] = 0
  BY <1>1, <1>3 DEF Runs
<1>5. Tiled(s.out, s.spans)
  BY <1>2, <1>4 DEF Good, Tiling
<1>. QED
  BY <1>1, <1>3, <1>4, <1>5 DEF Rendered, AsBegun

LEMMA EndRenderIInv ==
  ASSUME IInv, EndRender
  PROVE  IInv'
<1>1. Running /\ s \in State /\ Rendered(s)
  BY EndRenderRendered
<1>2. /\ first' = IF phase = "first" THEN s ELSE first
      /\ second' = IF phase = "second" THEN s ELSE second
      /\ phase' \in {"failed", "again", "done"}
      /\ stack' = <<>> /\ chart' = chart /\ s' = s
  BY DEF EndRender
<1>3. first' # NoRender
  BY <1>1, <1>2, NotRendered DEF IInv, Renders, Running
<1>4. /\ first' = NoRender \/ Rendered(first')
      /\ second' = NoRender \/ Rendered(second')
  BY <1>1, <1>2 DEF IInv, Renders
<1>5. ~Running'
  BY <1>2 DEF Running
<1>6. Renders'
  BY <1>1, <1>2, <1>3, <1>4, <1>5 DEF IInv, Renders, Phases, Rendered, AsBegun
<1>. QED
  BY <1>5, <1>6 DEF IInv

LEMMA CallAgainIInv ==
  ASSUME IInv, CallAgain
  PROVE  IInv'
<1>1. /\ phase' = "start" /\ first' = NoRender /\ second' = NoRender /\ s' = NoRender /\ stack' = <<>>
  BY DEF CallAgain
<1>2. PICK d \in [Paths -> Values], f \in Flags :
        chart' = [templates |-> chart.templates, data |-> d, flag |-> f]
  BY DEF CallAgain, Flags
<1>3. chart'.templates \in Templates /\ chart'.data \in [Paths -> Values] /\ chart'.flag \in Flags
  BY <1>2 DEF IInv, Renders
<1>4. ~Running'
  BY <1>1 DEF Running
<1>5. Renders'
  BY <1>1, <1>3, <1>4 DEF Renders, Phases
<1>. QED
  BY <1>4, <1>5 DEF IInv

LEMMA NextIInv == IInv /\ [Next]_vars => IInv'
<1>. SUFFICES ASSUME IInv, [Next]_vars  PROVE IInv'
  OBVIOUS
<1>1. CASE RenderFirst \/ RenderAgain
  BY <1>1, StartIInv
<1>2. CASE Walk \/ Leave
  BY <1>2, WalkIInv
<1>3. CASE EndRender
  BY <1>3, EndRenderIInv
<1>4. CASE UNCHANGED vars
  <2>1. /\ chart' = chart /\ phase' = phase /\ first' = first /\ second' = second /\ s' = s
        /\ stack' = stack
    BY <1>4 DEF vars
  <2>2. Renders'
    BY <2>1 DEF IInv, Renders, Running, Rendered, AsBegun
  <2>3. Running' = Running
    BY <2>1 DEF Running
  <2>. QED
    BY <2>1, <2>2, <2>3 DEF IInv
<1>5. CASE Exit
  BY <1>4, <1>5 DEF Exit
<1>6. CASE CallAgain
  BY <1>6, CallAgainIInv
<1>. QED
  BY <1>1, <1>2, <1>3, <1>4, <1>5, <1>6 DEF Next, Step

(* In every state, the executions that ended are as TypeOK says and their     *)
(* spans tile their output, and the one under way, if any, has a stack as     *)
(* Good says and panics only where a node stands.                             *)
THEOREM Invariant == Spec => []IInv
<1>1. Init => IInv
  BY InitIInv
<1>2. IInv /\ [Next]_vars => IInv'
  BY NextIInv
<1>. QED
  BY <1>1, <1>2, PTL DEF Spec

(* Type correctness; a render ends as it began, with nothing of an include,  *)
(* a nested template or an explored arm left behind, however each of them    *)
(* ended; and no break or continue gets out of its template.                 *)
THEOREM TypeCorrect == Spec => []TypeOK
<1>1. IInv => TypeOK
  <2>. SUFFICES ASSUME IInv  PROVE TypeOK
    OBVIOUS
  <2>1. /\ phase \in {"start", "first", "again", "second", "done", "failed"}
        /\ chart.data \in [Paths -> Values] /\ chart.flag \in {"plain", "branches", "symbolic"}
    BY DEF IInv, Renders, Phases, Flags
  <2>2. \A w \in {first, second} \ {NoRender} : AsBegun(w) /\ w.panic \in {"none", "error"}
    BY DEF IInv, Renders, Rendered
  <2>3. phase = "start" \/ s \in State
    BY DEF IInv, Renders
  <2>4. ASSUME Running
        PROVE  /\ s \in State
               /\ \A j \in DOMAIN stack : stack[j].caller \in State
                                          /\ stack[j].i \in 1..(Len(stack[j].list) + 1)
               /\ s.panic \in Jumps => Top.kind \in {"if", "range", "empty", "arm"}
    <3>1. Good(stack, s) /\ Where(stack, s)
      BY <2>4 DEF IInv
    <3>2. s \in State /\ stack \in Seq(Frames) /\ stack # <<>>
      BY <3>1 DEF Good
    <3>3. ASSUME NEW j \in DOMAIN stack
          PROVE  stack[j].caller \in State /\ stack[j].i \in 1..(Len(stack[j].list) + 1)
      <4>1. stack[j] \in Frames /\ FrameOK(stack[j])
        BY <3>1, <3>2, StackOf DEF Good, Chain
      <4>2. stack[j].caller \in State /\ stack[j].i \in Nat \ {0} /\ stack[j].list \in Seq(AllNodes)
        BY <4>1, FrameFields
      <4>3. Len(stack[j].list) \in Nat
        BY <4>2
      <4>4. stack[j].i <= Len(stack[j].list) + 1
        BY <4>1 DEF FrameOK
      <4>. QED
        BY <4>2, <4>3, <4>4
    <3>4. ASSUME s.panic \in Jumps  PROVE Top.kind \in {"if", "range", "empty", "arm"}
      <4>1. Top \in Frames /\ FrameOK(Top)
        BY <3>1, TopRuns
      <4>2. s.panic # "none"
        BY <3>4 DEF Jumps
      <4>3. Top.i <= Len(Top.list) /\ Top.list[Top.i] \notin Nodes /\ Top.i \in Nat \ {0}
        BY <3>1, <3>4, <4>1, <4>2, FrameFields DEF Where, Top
      <4>4. Top.list \notin Seq(Nodes)
        BY <4>3
      <4>. QED
        BY <4>1, <4>4, FrameFields DEF FrameOK, Kinds
    <3>. QED
      BY <3>2, <3>3, <3>4
  <2>. QED
    BY <2>1, <2>2, <2>3, <2>4 DEF TypeOK
<1>. QED
  BY <1>1, Invariant, PTL

(* Every byte of the file was written by exactly one node, or marks a hole.  *)
THEOREM Tiles == Spec => []SpansTile
<1>1. IInv => SpansTile
  BY DEF IInv, Renders, Rendered, Tiled, By, SpansTile
<1>. QED
  BY <1>1, Invariant, PTL

(* Removing "<no value>" leaves every other byte in the span of the node that *)
(* wrote it.                                                                  *)
THEOREM FinishKeeps == Spec => []FinishKeepsBytes
<1>1. ASSUME IInv, phase = "done", NEW k \in DOMAIN first.spans
      PROVE  LET done == Finish(first.out, first.spans)
                 span == first.spans[k]
                 now == done.spans[k]
             IN  /\ now.end <= Len(done.text)
                 /\ SubSeq(done.text, now.start + 1, now.end)
                      = Pick(first.out, Kept(first.out) \cap ((span.start + 1)..span.end))
  <2>. DEFINE raw == first.out
              span == first.spans[k]
              now == [span EXCEPT !.start = Shift(raw, @), !.end = Shift(raw, @)]
  <2>1. first \in State /\ Tiled(raw, first.spans)
    BY <1>1 DEF IInv, Renders, Rendered, AsBegun
  <2>2. raw \in Seq(Bytes) /\ first.spans \in Seq(Span)
    BY <2>1, Fields
  <2>3. span \in Span
    BY <2>2
  <2>4. span.start \in Nat /\ span.end \in Nat /\ span.start <= span.end /\ span.end <= Len(raw)
    BY <2>1, <2>3 DEF Tiled, Span
  <2>5. /\ Shift(raw, span.end) <= Len(Strip(raw))
        /\ SubSeq(Strip(raw), Shift(raw, span.start) + 1, Shift(raw, span.end))
             = Pick(raw, Kept(raw) \cap ((span.start + 1)..span.end))
    BY <2>2, <2>4, ShiftKeepsBytes
  <2>6. now.start = Shift(raw, span.start) /\ now.end = Shift(raw, span.end)
    BY <2>3 DEF Span
  <2>7. Finish(raw, first.spans).text = Strip(raw) /\ Finish(raw, first.spans).spans[k] = now
    BY DEF Finish
  <2>. HIDE DEF now
  <2>. QED
    BY <2>5, <2>6, <2>7
<1>2. IInv => FinishKeepsBytes
  BY <1>1 DEF FinishKeepsBytes
<1>. QED
  BY <1>2, Invariant, PTL

(***************************************************************************)
(* What exploring hides. View and Beside are OuterState and OuterStack of a *)
(* stack st and a state w, of a render that runs or does not.               *)
(***************************************************************************)
Forgotten(f) == [f EXCEPT !.caller = Plainly(@)]
Forget(st) == [j \in 1..Len(st) |-> Forgotten(st[j])]
Entered(st, j) == j \in DOMAIN st /\ st[j].kind = "arm" /\ st[j].caller.guards = <<>>
Entry(st) == CHOOSE j \in DOMAIN st : st[j].kind = "arm" /\ st[j].caller.guards = <<>>
View(runs, st, w) ==
    IF runs /\ w.guards # <<>> THEN Plainly(st[Entry(st)].caller) ELSE PlainResult(w)
Beside(runs, st, w) ==
    [j \in 1..(IF runs /\ w.guards # <<>> THEN Entry(st) - 1 ELSE Len(st)) |-> Forgotten(st[j])]

LEMMA OuterIs ==
  /\ OuterState = View(Running, stack, s) /\ OuterStack = Beside(Running, stack, s)
  /\ OuterState' = View(Running', stack', s') /\ OuterStack' = Beside(Running', stack', s')
BY DEF OuterState, OuterStack, View, Beside, Exploring, Outermost, Entry, Forgotten

LEMMA SameState ==
  ASSUME NEW x \in State, NEW y \in State,
         x.out = y.out, x.counting = y.counting, x.vars = y.vars, x.depth = y.depth,
         x.calls = y.calls, x.data = y.data, x.panic = y.panic, x.spans = y.spans,
         x.reads = y.reads, x.arms = y.arms, x.explored = y.explored, x.guards = y.guards
  PROVE  x = y
<1>1. ASSUME NEW w \in State
      PROVE  w =
         [out |-> w.out, counting |-> w.counting, vars |-> w.vars, depth |-> w.depth, calls |-> w.calls, data |-> w.data,
          panic |-> w.panic, spans |-> w.spans, reads |-> w.reads, arms |-> w.arms, explored |-> w.explored, guards |-> w.guards]
  BY DEF State
<1>. QED
  BY <1>1

LEMMA PlainlyIs ==
  ASSUME NEW w \in State
  PROVE  /\ Plainly(w) \in State
         /\ Plainly(w).out = w.out /\ Plainly(w).counting = w.counting /\ Plainly(w).vars = w.vars
         /\ Plainly(w).depth = w.depth /\ Plainly(w).calls = w.calls /\ Plainly(w).data = w.data
         /\ Plainly(w).panic = w.panic /\ Plainly(w).spans = w.spans /\ Plainly(w).guards = w.guards
         /\ Plainly(w).reads = PlainReads(w.reads) /\ Plainly(w).arms = PlainArms(w.arms)
         /\ Plainly(w).explored = PlainExplored(w.explored)
<1>. DEFINE reads == PlainReads(w.reads)
            arms == PlainArms(w.arms)
            explored == PlainExplored(w.explored)
            x == [w EXCEPT !.reads = reads, !.arms = arms, !.explored = explored]
<1>1. w.reads \in Seq(Read) /\ w.arms \in Seq(ArmNote) /\ w.explored \in Seq(Explored)
  BY Fields
<1>2. reads \in Seq(Read) /\ arms \in Seq(ArmNote) /\ explored \in Seq(Explored)
  <2>1. {i \in DOMAIN w.reads : IsTaken(w.reads[i])} \in SUBSET (1..Len(w.reads))
    BY <1>1
  <2>2. {i \in DOMAIN w.arms : ~w.arms[i].untaken} \in SUBSET (1..Len(w.arms))
    BY <1>1
  <2>3. {i \in DOMAIN w.explored : w.explored[i].guard[2] = "symbolic"} \in SUBSET (1..Len(w.explored))
    BY <1>1
  <2>4. reads \in Seq(Read)
    BY <1>1, <2>1, PickType DEF PlainReads
  <2>5. arms \in Seq(ArmNote)
    BY <1>1, <2>2, PickType DEF PlainArms
  <2>6. explored \in Seq(Explored)
    BY <1>1, <2>3, PickType DEF PlainExplored
  <2>. QED
    BY <2>4, <2>5, <2>6
<1>3. Plainly(w) = x
  BY DEF Plainly, PlainReads, PlainArms, PlainExplored
<1>. HIDE DEF reads, arms, explored
<1>4. x \in State
  BY <1>2 DEF State, Read, ArmNote, TakenArms, Explored
<1>5. /\ x.out = w.out /\ x.counting = w.counting /\ x.vars = w.vars
      /\ x.depth = w.depth /\ x.calls = w.calls /\ x.data = w.data
      /\ x.panic = w.panic /\ x.spans = w.spans /\ x.guards = w.guards
      /\ x.reads = reads /\ x.arms = arms
      /\ x.explored = explored
  BY DEF State
<1>. HIDE DEF x
<1>. QED
  BY <1>3, <1>4, <1>5 DEF reads, arms, explored

LEMMA PlainOps ==
  ASSUME NEW w, NEW n, NEW b
  PROVE  /\ Plain!RecordRead(w, n) = RecordRead(w, n)
         /\ Plain!Emit(w, n, b) = Emit(w, n, b)
         /\ Plain!Arm(w, n, b) = Arm(w, n, b)
         /\ Plain!Fail(w) = Fail(w)
         /\ Plain!PopVars(w, n) = PopVars(w, n)
         /\ Plain!Taken(n, w) = Taken(n, w)
         /\ Plain!Report(n, w) = Report(n, w)
         /\ Plain!Shown(b) = Shown(b)
         /\ Plain!Action(n, w) = Action(n, w)
         /\ Plain!Element(w, n) = Element(w, n)
         /\ Plain!LeaveTemplate(w, n) = LeaveTemplate(w, n)
         /\ Plain!LeaveInclude(w, n) = LeaveInclude(w, n)
         /\ Plain!EnterInclude(n, w) = EnterInclude(n, w)
BY DEF Plain!RecordRead, RecordRead, Plain!Emit, Emit, Plain!Arm, Arm, Plain!Fail, Fail,
       Plain!PopVars, PopVars, Plain!Taken, Taken, Plain!Report, Report, Plain!Shown, Shown,
       Plain!Action, Action, Plain!Element, Element, Plain!LeaveTemplate, LeaveTemplate,
       Plain!LeaveInclude, LeaveInclude, Plain!EnterInclude, EnterInclude,
       Plain!Branches, Branches, Plain!Symbolic, Symbolic, Plain!NoGuard, NoGuard,
       Plain!Absent, Absent, Plain!Unknown, Unknown, Plain!NoValue, NoValue

(* What is not noted in the recorder is changed alike: w, with the rest of z. *)
With(w, z) ==
    [w EXCEPT !.out = z.out, !.counting = z.counting, !.vars = z.vars, !.depth = z.depth,
              !.calls = z.calls, !.data = z.data, !.panic = z.panic, !.spans = z.spans]

LEMMA WithIs ==
  ASSUME NEW w \in State, NEW z \in State
  PROVE  /\ With(w, z) \in State
         /\ With(w, z).out = z.out /\ With(w, z).counting = z.counting /\ With(w, z).vars = z.vars
         /\ With(w, z).depth = z.depth /\ With(w, z).calls = z.calls /\ With(w, z).data = z.data
         /\ With(w, z).panic = z.panic /\ With(w, z).spans = z.spans
         /\ With(w, z).reads = w.reads /\ With(w, z).arms = w.arms
         /\ With(w, z).explored = w.explored /\ With(w, z).guards = w.guards
<1>1. With(w, z) \in State
  BY DEF With, State
<1>. QED
  BY <1>1 DEF With, State

LEMMA PlainlyWith ==
  ASSUME NEW w \in State, NEW z \in State
  PROVE  Plainly(With(w, z)) = With(Plainly(w), z)
<1>. DEFINE x == With(w, z)
            p == Plainly(w)
            y == With(p, z)
            q == Plainly(x)
<1>1. /\ p \in State /\ p.guards = w.guards
      /\ p.reads = PlainReads(w.reads) /\ p.arms = PlainArms(w.arms)
      /\ p.explored = PlainExplored(w.explored)
  BY PlainlyIs
<1>. HIDE DEF p
<1>2. /\ x \in State
      /\ x.out = z.out /\ x.counting = z.counting /\ x.vars = z.vars /\ x.depth = z.depth
      /\ x.calls = z.calls /\ x.data = z.data /\ x.panic = z.panic /\ x.spans = z.spans
      /\ x.reads = w.reads /\ x.arms = w.arms /\ x.explored = w.explored /\ x.guards = w.guards
  BY WithIs
<1>3. /\ y \in State
      /\ y.out = z.out /\ y.counting = z.counting /\ y.vars = z.vars /\ y.depth = z.depth
      /\ y.calls = z.calls /\ y.data = z.data /\ y.panic = z.panic /\ y.spans = z.spans
      /\ y.reads = p.reads /\ y.arms = p.arms /\ y.explored = p.explored /\ y.guards = p.guards
  BY <1>1, WithIs
<1>. HIDE DEF x, y
<1>4. /\ q \in State
      /\ q.out = x.out /\ q.counting = x.counting /\ q.vars = x.vars
      /\ q.depth = x.depth /\ q.calls = x.calls /\ q.data = x.data
      /\ q.panic = x.panic /\ q.spans = x.spans /\ q.guards = x.guards
      /\ q.reads = PlainReads(x.reads) /\ q.arms = PlainArms(x.arms)
      /\ q.explored = PlainExplored(x.explored)
  BY <1>2, PlainlyIs
<1>. HIDE DEF q
<1>5. q = y
  BY <1>1, <1>2, <1>3, <1>4, SameState
<1>. QED
  BY <1>5 DEF q, x, y, p

LEMMA PlainlySetVars ==
  ASSUME NEW w \in State, NEW vs \in Seq(Syms), vs # <<>>
  PROVE  Plainly([w EXCEPT !.vars = vs]) = [Plainly(w) EXCEPT !.vars = vs]
<1>. DEFINE x == [w EXCEPT !.vars = vs]
            p == Plainly(w)
<1>1. x \in State
  BY DEF State
<1>2. x = With(w, x)
  BY DEF With, State
<1>3. /\ p \in State /\ p.out = w.out /\ p.counting = w.counting /\ p.vars = w.vars
      /\ p.depth = w.depth /\ p.calls = w.calls /\ p.data = w.data /\ p.panic = w.panic
      /\ p.spans = w.spans
  BY PlainlyIs
<1>. HIDE DEF p
<1>4. [p EXCEPT !.vars = vs] = With(p, x)
  BY <1>3 DEF With, State
<1>. QED
  BY <1>1, <1>2, <1>4, PlainlyWith DEF p

LEMMA PlainlySetData ==
  ASSUME NEW w \in State, NEW d \in [Paths -> Syms]
  PROVE  Plainly([w EXCEPT !.data = d]) = [Plainly(w) EXCEPT !.data = d]
<1>. DEFINE x == [w EXCEPT !.data = d]
            p == Plainly(w)
<1>1. x \in State
  BY DEF State
<1>2. x = With(w, x)
  BY DEF With, State
<1>3. /\ p \in State /\ p.out = w.out /\ p.counting = w.counting /\ p.vars = w.vars
      /\ p.depth = w.depth /\ p.calls = w.calls /\ p.data = w.data /\ p.panic = w.panic
      /\ p.spans = w.spans
  BY PlainlyIs
<1>. HIDE DEF p
<1>4. [p EXCEPT !.data = d] = With(p, x)
  BY <1>3 DEF With, State
<1>. QED
  BY <1>1, <1>2, <1>4, PlainlyWith DEF p

LEMMA PlainlyPanic ==
  ASSUME NEW w \in State, NEW panic \in {"none", "error"} \cup Jumps
  PROVE  Plainly([w EXCEPT !.panic = panic]) = [Plainly(w) EXCEPT !.panic = panic]
<1>. DEFINE x == [w EXCEPT !.panic = panic]
            p == Plainly(w)
<1>1. x \in State
  BY DEF State
<1>2. x = With(w, x)
  BY DEF With, State
<1>3. /\ p \in State /\ p.out = w.out /\ p.counting = w.counting /\ p.vars = w.vars
      /\ p.depth = w.depth /\ p.calls = w.calls /\ p.data = w.data /\ p.panic = w.panic
      /\ p.spans = w.spans
  BY PlainlyIs
<1>. HIDE DEF p
<1>4. [p EXCEPT !.panic = panic] = With(p, x)
  BY <1>3 DEF With, State
<1>. QED
  BY <1>1, <1>2, <1>4, PlainlyWith DEF p

LEMMA PlainlyFail ==
  ASSUME NEW w \in State
  PROVE  Plainly(Fail(w)) = Fail(Plainly(w))
<1>1. "error" \in {"none", "error"} \cup Jumps
  OBVIOUS
<1>. QED
  BY <1>1, PlainlyPanic DEF Fail

LEMMA PlainlyEmit ==
  ASSUME NEW w \in State, NEW n, n.at \in STRING, NEW bytes \in Seq(Bytes)
  PROVE  Plainly(Emit(w, n, bytes)) = Emit(Plainly(w), n, bytes)
<1>. DEFINE x == Emit(w, n, bytes)
            p == Plainly(w)
<1>1. x \in State
  BY EmitState
<1>2. /\ p \in State /\ p.out = w.out /\ p.counting = w.counting /\ p.vars = w.vars
      /\ p.depth = w.depth /\ p.calls = w.calls /\ p.data = w.data /\ p.panic = w.panic
      /\ p.spans = w.spans
  BY PlainlyIs
<1>. DEFINE out == w.out \o bytes
            spans == IF ~w.counting THEN w.spans ELSE Append(w.spans, NewSpan(w, n, bytes))
<1>3. x = [w EXCEPT !.out = out, !.spans = spans]
  BY DEF Emit, NewSpan
<1>. HIDE DEF p
<1>4. Emit(p, n, bytes) = [p EXCEPT !.out = out, !.spans = spans]
  BY <1>2 DEF Emit, NewSpan
<1>. HIDE DEF x, out, spans
<1>5. x = With(w, x)
  BY <1>3 DEF With, State
<1>7. /\ x.out = out /\ x.counting = w.counting /\ x.vars = w.vars
      /\ x.depth = w.depth /\ x.calls = w.calls /\ x.data = w.data /\ x.panic = w.panic
      /\ x.spans = spans
  BY <1>3 DEF State
<1>6. Emit(p, n, bytes) = With(p, x)
  <2>. DEFINE y == Emit(p, n, bytes)
              z == With(p, x)
  <2>1. y \in State
    BY <1>2, EmitState
  <2>. HIDE DEF y
  <2>2. y = [p EXCEPT !.out = out, !.spans = spans]
    BY <1>4 DEF y
  <2>3. /\ y.out = out /\ y.counting = p.counting /\ y.vars = p.vars
        /\ y.depth = p.depth /\ y.calls = p.calls /\ y.data = p.data /\ y.panic = p.panic
        /\ y.spans = spans /\ y.guards = p.guards /\ y.reads = p.reads /\ y.arms = p.arms
        /\ y.explored = p.explored
    BY <1>2, <2>2 DEF State
  <2>4. /\ z \in State
        /\ z.out = x.out /\ z.counting = x.counting /\ z.vars = x.vars
        /\ z.depth = x.depth /\ z.calls = x.calls /\ z.data = x.data
        /\ z.panic = x.panic /\ z.spans = x.spans
        /\ z.reads = p.reads /\ z.arms = p.arms /\ z.explored = p.explored /\ z.guards = p.guards
    BY <1>1, <1>2, WithIs DEF x
  <2>. HIDE DEF z
  <2>5. y = z
    BY <1>2, <1>7, <2>1, <2>3, <2>4, SameState
  <2>. QED
    BY <2>5 DEF y, z
<1>. QED
  BY <1>1, <1>5, <1>6, PlainlyWith DEF p, x

(* Outside of arms a read and an arm are noted in both.                      *)
LEMMA PlainlyRecordRead ==
  ASSUME NEW w \in State, w.guards = <<>>, NEW n, n.path \in Paths, n.at \in STRING
  PROVE  Plainly(RecordRead(w, n)) = RecordRead(Plainly(w), n)
<1>. DEFINE x == RecordRead(w, n)
            p == Plainly(w)
            read == NewRead(w, n)
            reads == Append(w.reads, read)
            q == Plainly(x)
            y == RecordRead(p, n)
<1>1. /\ p \in State /\ p.out = w.out /\ p.counting = w.counting /\ p.vars = w.vars
      /\ p.depth = w.depth /\ p.calls = w.calls /\ p.data = w.data /\ p.panic = w.panic
      /\ p.spans = w.spans /\ p.guards = w.guards
      /\ p.reads = PlainReads(w.reads) /\ p.arms = PlainArms(w.arms)
      /\ p.explored = PlainExplored(w.explored)
  BY PlainlyIs
<1>2. x \in State /\ x = [w EXCEPT !.reads = reads] /\ read \in Read /\ read.guard = NoGuard
  <2>1. x \in State
    BY RecordReadState
  <2>2. x = [w EXCEPT !.reads = reads]
    BY DEF RecordRead, NewRead
  <2>3. read \in Read
    BY RecordReadState
  <2>4. read.guard = NoGuard
    BY RecordReadState
  <2>. HIDE DEF x, read
  <2>. QED
    BY <2>1, <2>2, <2>3, <2>4
<1>3. PlainReads(reads) = Append(PlainReads(w.reads), read)
  BY <1>2, Fields, PlainReadsAppend
<1>. HIDE DEF p
<1>4. y \in State /\ y = [p EXCEPT !.reads = Append(p.reads, read)]
  <2>1. y \in State
    BY <1>1, RecordReadState
  <2>2. y = [p EXCEPT !.reads = Append(p.reads, read)]
    BY <1>1 DEF RecordRead, NewRead
  <2>. QED
    BY <2>1, <2>2
<1>. HIDE DEF x, y, reads, read
<1>5. /\ x.out = w.out /\ x.counting = w.counting /\ x.vars = w.vars
      /\ x.depth = w.depth /\ x.calls = w.calls /\ x.data = w.data /\ x.panic = w.panic
      /\ x.spans = w.spans /\ x.guards = w.guards
      /\ x.reads = reads /\ x.arms = w.arms /\ x.explored = w.explored
  BY <1>2 DEF State
<1>6. /\ y.out = p.out /\ y.counting = p.counting /\ y.vars = p.vars
      /\ y.depth = p.depth /\ y.calls = p.calls /\ y.data = p.data /\ y.panic = p.panic
      /\ y.spans = p.spans /\ y.guards = p.guards
      /\ y.reads = Append(p.reads, read) /\ y.arms = p.arms /\ y.explored = p.explored
  BY <1>1, <1>4 DEF State
<1>7. /\ q \in State
      /\ q.out = x.out /\ q.counting = x.counting /\ q.vars = x.vars
      /\ q.depth = x.depth /\ q.calls = x.calls /\ q.data = x.data
      /\ q.panic = x.panic /\ q.spans = x.spans /\ q.guards = x.guards
      /\ q.reads = PlainReads(x.reads) /\ q.arms = PlainArms(x.arms)
      /\ q.explored = PlainExplored(x.explored)
  BY <1>2, PlainlyIs
<1>. HIDE DEF q
<1>9. /\ q.out = y.out /\ q.counting = y.counting /\ q.vars = y.vars
      /\ q.depth = y.depth /\ q.calls = y.calls /\ q.data = y.data /\ q.panic = y.panic
      /\ q.spans = y.spans /\ q.guards = y.guards
  BY <1>1, <1>5, <1>6, <1>7
<1>10. q.reads = y.reads /\ q.arms = y.arms /\ q.explored = y.explored
  BY <1>1, <1>3, <1>5, <1>6, <1>7
<1>8. q = y
  BY <1>4, <1>7, <1>9, <1>10, SameState
<1>. QED
  BY <1>8 DEF q, x, y, p

LEMMA PlainlyArm ==
  ASSUME NEW w \in State, w.guards = <<>>, NEW n, n.at \in STRING,
         NEW taken \in TakenArms
  PROVE  Plainly(Arm(w, n, taken)) = Arm(Plainly(w), n, taken)
<1>. DEFINE p == Plainly(w)
            note == NewArm(w, n, taken)
            arms == Append(w.arms, note)
            x == [w EXCEPT !.arms = arms]
            y == [p EXCEPT !.arms = Append(p.arms, note)]
            q == Plainly(x)
<1>1. CASE ~Branches
  BY <1>1 DEF Arm
<1>2. CASE Branches
  <2>1. /\ p \in State /\ p.out = w.out /\ p.counting = w.counting /\ p.vars = w.vars
        /\ p.depth = w.depth /\ p.calls = w.calls /\ p.data = w.data /\ p.panic = w.panic
        /\ p.spans = w.spans /\ p.guards = w.guards
        /\ p.reads = PlainReads(w.reads) /\ p.arms = PlainArms(w.arms)
        /\ p.explored = PlainExplored(w.explored)
    BY PlainlyIs
  <2>2. note \in ArmNote /\ ~note.untaken
    BY ArmState
  <2>3. PlainArms(arms) = Append(PlainArms(w.arms), note) /\ arms \in Seq(ArmNote)
    <3>1. w.arms \in Seq(ArmNote)
      BY Fields
    <3>2. PlainArms(arms) = Append(PlainArms(w.arms), note)
      BY <2>2, <3>1, PlainArmsAppend
    <3>. HIDE DEF note
    <3>. QED
      BY <2>2, <3>1, <3>2
  <2>4. Arm(w, n, taken) = x
    BY <1>2 DEF Arm, NewArm
  <2>. HIDE DEF p
  <2>5. Arm(p, n, taken) = y
    BY <1>2, <2>1 DEF Arm, NewArm
  <2>6. x \in State
    <3>1. Arm(w, n, taken) \in State
      BY ArmState
    <3>. QED
      BY <2>4, <3>1
  <2>7. y \in State
    <3>1. Arm(p, n, taken) \in State
      BY <2>1, ArmState
    <3>. QED
      BY <2>5, <3>1
  <2>. HIDE DEF arms, note
  <2>8. /\ x.out = w.out /\ x.counting = w.counting /\ x.vars = w.vars
        /\ x.depth = w.depth /\ x.calls = w.calls /\ x.data = w.data /\ x.panic = w.panic
        /\ x.spans = w.spans /\ x.guards = w.guards
        /\ x.reads = w.reads /\ x.arms = arms /\ x.explored = w.explored
    BY DEF State
  <2>9. /\ y.out = p.out /\ y.counting = p.counting /\ y.vars = p.vars
        /\ y.depth = p.depth /\ y.calls = p.calls /\ y.data = p.data /\ y.panic = p.panic
        /\ y.spans = p.spans /\ y.guards = p.guards
        /\ y.reads = p.reads /\ y.arms = Append(p.arms, note) /\ y.explored = p.explored
    BY <2>1 DEF State
  <2>. HIDE DEF x, y
  <2>10. /\ q \in State
         /\ q.out = x.out /\ q.counting = x.counting /\ q.vars = x.vars
         /\ q.depth = x.depth /\ q.calls = x.calls /\ q.data = x.data
         /\ q.panic = x.panic /\ q.spans = x.spans /\ q.guards = x.guards
         /\ q.reads = PlainReads(x.reads) /\ q.arms = PlainArms(x.arms)
         /\ q.explored = PlainExplored(x.explored)
    BY <2>6, PlainlyIs
  <2>. HIDE DEF q
  <2>11. /\ q.out = y.out /\ q.counting = y.counting /\ q.vars = y.vars
         /\ q.depth = y.depth /\ q.calls = y.calls /\ q.data = y.data /\ q.panic = y.panic
         /\ q.spans = y.spans /\ q.guards = y.guards
    BY <2>1, <2>8, <2>9, <2>10
  <2>12. q.reads = y.reads /\ q.arms = y.arms /\ q.explored = y.explored
    BY <2>1, <2>3, <2>8, <2>9, <2>10
  <2>13. q = y
    BY <2>7, <2>10, <2>11, <2>12, SameState
  <2>. QED
    BY <2>4, <2>5, <2>13 DEF q, p
<1>. QED
  BY <1>1, <1>2

LEMMA PlainlyHole ==
  ASSUME NEW w \in State, w.guards = <<>>, NEW at \in STRING
  PROVE  Plainly(HoleNoted(w, at)) = HoleNoted(Plainly(w), at)
<1>. DEFINE p == Plainly(w)
            note == [guard |-> <<at, "symbolic">>, text |-> <<>>, hole |-> TRUE]
            explored == Append(w.explored, note)
            out == Append(w.out, "error")
            x == [w EXCEPT !.panic = "none", !.out = out, !.explored = explored]
            y == [p EXCEPT !.panic = "none", !.out = out, !.explored = Append(p.explored, note)]
            q == Plainly(x)
<1>1. /\ p \in State /\ p.out = w.out /\ p.counting = w.counting /\ p.vars = w.vars
      /\ p.depth = w.depth /\ p.calls = w.calls /\ p.data = w.data /\ p.panic = w.panic
      /\ p.spans = w.spans /\ p.guards = w.guards
      /\ p.reads = PlainReads(w.reads) /\ p.arms = PlainArms(w.arms)
      /\ p.explored = PlainExplored(w.explored)
  BY PlainlyIs
<1>2. HoleNoted(w, at) = x
  BY DEF HoleNoted
<1>3. HoleNoted(p, at) = y
  <2>. HIDE DEF p
  <2>. QED
    BY <1>1 DEF HoleNoted
<1>4. x \in State
  BY <1>2, HoleContinues DEF Continues
<1>5. y \in State
  <2>. HIDE DEF p, y
  <2>. QED
    BY <1>1, <1>3, HoleContinues DEF Continues
<1>6. note \in Explored /\ note.guard[2] = "symbolic"
  BY DEF Explored, Guards
<1>. HIDE DEF p, note, out
<1>7. PlainExplored(explored) = Append(PlainExplored(w.explored), note)
  BY <1>6, Fields, PlainExploredAppend
<1>. HIDE DEF explored
<1>8. /\ x.out = out /\ x.counting = w.counting /\ x.vars = w.vars
      /\ x.depth = w.depth /\ x.calls = w.calls /\ x.data = w.data /\ x.panic = "none"
      /\ x.spans = w.spans /\ x.guards = w.guards
      /\ x.reads = w.reads /\ x.arms = w.arms /\ x.explored = explored
  BY DEF State
<1>9. /\ y.out = out /\ y.counting = p.counting /\ y.vars = p.vars
      /\ y.depth = p.depth /\ y.calls = p.calls /\ y.data = p.data /\ y.panic = "none"
      /\ y.spans = p.spans /\ y.guards = p.guards
      /\ y.reads = p.reads /\ y.arms = p.arms /\ y.explored = Append(p.explored, note)
  BY <1>1 DEF State
<1>. HIDE DEF x, y
<1>10. /\ q \in State
       /\ q.out = x.out /\ q.counting = x.counting /\ q.vars = x.vars
       /\ q.depth = x.depth /\ q.calls = x.calls /\ q.data = x.data
       /\ q.panic = x.panic /\ q.spans = x.spans /\ q.guards = x.guards
       /\ q.reads = PlainReads(x.reads) /\ q.arms = PlainArms(x.arms)
       /\ q.explored = PlainExplored(x.explored)
  BY <1>4, PlainlyIs
<1>. HIDE DEF q
<1>11. /\ q.out = y.out /\ q.counting = y.counting /\ q.vars = y.vars
       /\ q.depth = y.depth /\ q.calls = y.calls /\ q.data = y.data /\ q.panic = y.panic
       /\ q.spans = y.spans /\ q.guards = y.guards
  BY <1>1, <1>8, <1>9, <1>10
<1>12. q.reads = y.reads /\ q.arms = y.arms /\ q.explored = y.explored
  BY <1>1, <1>7, <1>8, <1>9, <1>10
<1>13. q = y
  BY <1>5, <1>10, <1>11, <1>12, SameState
<1>. QED
  BY <1>2, <1>3, <1>13 DEF q, p

(* An operation that leaves the recorder's notes alone.                      *)
LEMMA PlainlyQuietly ==
  ASSUME NEW w \in State, NEW x \in State, NEW y \in State,
         x.reads = w.reads, x.arms = w.arms, x.explored = w.explored,
         y.reads = Plainly(w).reads, y.arms = Plainly(w).arms, y.explored = Plainly(w).explored,
         y.out = x.out, y.counting = x.counting, y.vars = x.vars, y.depth = x.depth,
         y.calls = x.calls, y.data = x.data, y.panic = x.panic, y.spans = x.spans, y.guards = x.guards
  PROVE  Plainly(x) = y
<1>. DEFINE q == Plainly(x)
            p == Plainly(w)
<1>1. /\ p.reads = PlainReads(w.reads) /\ p.arms = PlainArms(w.arms)
      /\ p.explored = PlainExplored(w.explored)
  BY PlainlyIs
<1>2. /\ q \in State
      /\ q.out = x.out /\ q.counting = x.counting /\ q.vars = x.vars
      /\ q.depth = x.depth /\ q.calls = x.calls /\ q.data = x.data
      /\ q.panic = x.panic /\ q.spans = x.spans /\ q.guards = x.guards
      /\ q.reads = PlainReads(x.reads) /\ q.arms = PlainArms(x.arms)
      /\ q.explored = PlainExplored(x.explored)
  BY PlainlyIs
<1>. HIDE DEF q
<1>3. q.reads = y.reads /\ q.arms = y.arms /\ q.explored = y.explored
  BY <1>1, <1>2
<1>4. q = y
  BY <1>2, <1>3, SameState
<1>. QED
  BY <1>4 DEF q

LEMMA PlainlyPopVars ==
  ASSUME NEW w \in State, NEW mark \in Nat, 1 <= mark, mark <= Len(w.vars)
  PROVE  Plainly(PopVars(w, mark)) = PopVars(Plainly(w), mark)
<1>. DEFINE vs == SubSeq(w.vars, 1, mark)
<1>1. vs \in Seq(Syms) /\ vs # <<>>
  <2>1. w.vars \in Seq(Syms)
    BY Fields
  <2>2. vs \in Seq(Syms) /\ Len(vs) = mark
    BY <2>1
  <2>. HIDE DEF vs
  <2>. QED
    BY <2>2
<1>2. Plainly(w).vars = w.vars
  BY PlainlyIs
<1>3. PopVars(w, mark) = [w EXCEPT !.vars = vs] /\ PopVars(Plainly(w), mark) = [Plainly(w) EXCEPT !.vars = vs]
  BY <1>2 DEF PopVars
<1>. HIDE DEF vs
<1>. QED
  BY <1>1, <1>3, PlainlySetVars

LEMMA PlainlyLeaveTemplate ==
  ASSUME NEW w \in State, NEW c \in State
  PROVE  Plainly(LeaveTemplate(w, c)) = LeaveTemplate(Plainly(w), Plainly(c))
<1>. DEFINE x == [w EXCEPT !.vars = c.vars, !.depth = c.depth]
            p == Plainly(w)
            y == [p EXCEPT !.vars = c.vars, !.depth = c.depth]
<1>1. Plainly(c).vars = c.vars /\ Plainly(c).depth = c.depth
  BY PlainlyIs
<1>2. LeaveTemplate(w, c) = x /\ LeaveTemplate(p, Plainly(c)) = y
  BY <1>1 DEF LeaveTemplate
<1>3. c.vars \in Seq(Syms) /\ c.vars # <<>> /\ c.depth \in Nat
  BY Fields
<1>4. /\ p \in State /\ p.out = w.out /\ p.counting = w.counting /\ p.vars = w.vars
      /\ p.depth = w.depth /\ p.calls = w.calls /\ p.data = w.data /\ p.panic = w.panic
      /\ p.spans = w.spans /\ p.guards = w.guards
  BY PlainlyIs
<1>. HIDE DEF p
<1>5. x \in State /\ y \in State
  BY <1>3, <1>4 DEF State
<1>6. /\ x.out = w.out /\ x.counting = w.counting /\ x.vars = c.vars
      /\ x.depth = c.depth /\ x.calls = w.calls /\ x.data = w.data /\ x.panic = w.panic
      /\ x.spans = w.spans /\ x.guards = w.guards
      /\ x.reads = w.reads /\ x.arms = w.arms /\ x.explored = w.explored
  BY DEF State
<1>7. /\ y.out = p.out /\ y.counting = p.counting /\ y.vars = c.vars
      /\ y.depth = c.depth /\ y.calls = p.calls /\ y.data = p.data /\ y.panic = p.panic
      /\ y.spans = p.spans /\ y.guards = p.guards
      /\ y.reads = p.reads /\ y.arms = p.arms /\ y.explored = p.explored
  BY <1>4 DEF State
<1>. HIDE DEF x, y
<1>8. Plainly(x) = y
  BY <1>4, <1>5, <1>6, <1>7, PlainlyQuietly DEF p
<1>. QED
  BY <1>2, <1>8 DEF p

LEMMA PlainlyEnterTemplate ==
  ASSUME NEW w \in State
  PROVE  Plainly([w EXCEPT !.vars = <<Absent>>, !.depth = @ + 1])
           = [Plainly(w) EXCEPT !.vars = <<Absent>>, !.depth = @ + 1]
<1>. DEFINE deeper == w.depth + 1
            vs == <<Absent>>
            x == [w EXCEPT !.vars = vs, !.depth = deeper]
            p == Plainly(w)
            y == [p EXCEPT !.vars = vs, !.depth = deeper]
<1>1. p.depth = w.depth
  BY PlainlyIs
<1>2. /\ [w EXCEPT !.vars = <<Absent>>, !.depth = @ + 1] = x
      /\ [p EXCEPT !.vars = <<Absent>>, !.depth = @ + 1] = y
  <2>. HIDE DEF p
  <2>. QED
    BY <1>1
<1>3. vs \in Seq(Syms) /\ vs # <<>> /\ deeper \in Nat
  <2>1. w.depth \in Nat
    BY Fields
  <2>2. Absent \in Syms
    BY DEF Syms, Values
  <2>. QED
    BY <2>1, <2>2
<1>4. /\ p \in State /\ p.out = w.out /\ p.counting = w.counting /\ p.vars = w.vars
      /\ p.depth = w.depth /\ p.calls = w.calls /\ p.data = w.data /\ p.panic = w.panic
      /\ p.spans = w.spans /\ p.guards = w.guards
  BY PlainlyIs
<1>. HIDE DEF p, vs, deeper
<1>5. x \in State /\ y \in State
  BY <1>3, <1>4 DEF State
<1>6. /\ x.out = w.out /\ x.counting = w.counting /\ x.vars = vs
      /\ x.depth = deeper /\ x.calls = w.calls /\ x.data = w.data /\ x.panic = w.panic
      /\ x.spans = w.spans /\ x.guards = w.guards
      /\ x.reads = w.reads /\ x.arms = w.arms /\ x.explored = w.explored
  BY DEF State
<1>7. /\ y.out = p.out /\ y.counting = p.counting /\ y.vars = vs
      /\ y.depth = deeper /\ y.calls = p.calls /\ y.data = p.data /\ y.panic = p.panic
      /\ y.spans = p.spans /\ y.guards = p.guards
      /\ y.reads = p.reads /\ y.arms = p.arms /\ y.explored = p.explored
  BY <1>4 DEF State
<1>. HIDE DEF x, y
<1>8. Plainly(x) = y
  BY <1>4, <1>5, <1>6, <1>7, PlainlyQuietly DEF p
<1>. QED
  BY <1>2, <1>8 DEF p

LEMMA PlainlyEnterInclude ==
  ASSUME NEW w \in State, NEW n, n.name \in Names
  PROVE  Plainly(EnterInclude(n, w)) = EnterInclude(n, Plainly(w))
<1>. DEFINE vs == <<Absent>>
            calls == [w.calls EXCEPT ![n.name] = @ + 1]
            none == <<>>
            x == [w EXCEPT !.out = none, !.counting = FALSE, !.vars = vs, !.depth = 0, !.calls = calls]
            p == Plainly(w)
            y == [p EXCEPT !.out = none, !.counting = FALSE, !.vars = vs, !.depth = 0, !.calls = calls]
<1>1. p.calls = w.calls /\ p \in State
  BY PlainlyIs
<1>2. EnterInclude(n, w) = x
  BY DEF EnterInclude, State
<1>3. EnterInclude(n, p) = y
  <2>. HIDE DEF p
  <2>. QED
    BY <1>1 DEF EnterInclude, State
<1>4. /\ p \in State /\ p.out = w.out /\ p.counting = w.counting /\ p.vars = w.vars
      /\ p.depth = w.depth /\ p.calls = w.calls /\ p.data = w.data /\ p.panic = w.panic
      /\ p.spans = w.spans /\ p.guards = w.guards
  BY PlainlyIs
<1>5. x \in State
  <2>. HIDE DEF x
  <2>. QED
    BY <1>2, EnterIncludeState
<1>6. y \in State
  <2>. HIDE DEF y, p
  <2>. QED
    BY <1>1, <1>3, EnterIncludeState
<1>. HIDE DEF p, vs, calls, none
<1>7. /\ x.out = none /\ x.counting = FALSE /\ x.vars = vs
      /\ x.depth = 0 /\ x.calls = calls /\ x.data = w.data /\ x.panic = w.panic
      /\ x.spans = w.spans /\ x.guards = w.guards
      /\ x.reads = w.reads /\ x.arms = w.arms /\ x.explored = w.explored
  BY DEF State
<1>8. /\ y.out = none /\ y.counting = FALSE /\ y.vars = vs
      /\ y.depth = 0 /\ y.calls = calls /\ y.data = p.data /\ y.panic = p.panic
      /\ y.spans = p.spans /\ y.guards = p.guards
      /\ y.reads = p.reads /\ y.arms = p.arms /\ y.explored = p.explored
  BY <1>4 DEF State
<1>. HIDE DEF x, y
<1>9. Plainly(x) = y
  <2>1. /\ y.out = x.out /\ y.counting = x.counting /\ y.vars = x.vars /\ y.depth = x.depth
        /\ y.calls = x.calls /\ y.data = x.data /\ y.panic = x.panic /\ y.spans = x.spans
        /\ y.guards = x.guards
    BY <1>4, <1>7, <1>8
  <2>2. x.reads = w.reads /\ x.arms = w.arms /\ x.explored = w.explored
    BY <1>7
  <2>3. y.reads = Plainly(w).reads /\ y.arms = Plainly(w).arms /\ y.explored = Plainly(w).explored
    BY <1>8 DEF p
  <2>. QED
    BY <1>5, <1>6, <2>1, <2>2, <2>3, PlainlyQuietly
<1>. QED
  BY <1>2, <1>3, <1>9 DEF p

LEMMA ForgottenIs ==
  ASSUME NEW f \in Frames
  PROVE  /\ Forgotten(f) \in Frames
         /\ Forgotten(f).kind = f.kind /\ Forgotten(f).node = f.node /\ Forgotten(f).list = f.list
         /\ Forgotten(f).i = f.i /\ Forgotten(f).left = f.left /\ Forgotten(f).caller = Plainly(f.caller)
<1>1. f.caller \in State
  BY FrameFields
<1>2. Plainly(f.caller) \in State
  BY <1>1, PlainlyIs
<1>. DEFINE c == Plainly(f.caller)
<1>3. Forgotten(f) = [f EXCEPT !.caller = c]
  BY DEF Forgotten
<1>. HIDE DEF c
<1>4. [f EXCEPT !.caller = c] \in Frames
  BY <1>2 DEF Frames, c
<1>5. /\ [f EXCEPT !.caller = c].kind = f.kind /\ [f EXCEPT !.caller = c].node = f.node
      /\ [f EXCEPT !.caller = c].list = f.list /\ [f EXCEPT !.caller = c].i = f.i
      /\ [f EXCEPT !.caller = c].left = f.left /\ [f EXCEPT !.caller = c].caller = c
  BY DEF Frames
<1>. QED
  BY <1>3, <1>4, <1>5 DEF c

LEMMA PlainlyLeaveInclude ==
  ASSUME Good(stack, s), Top.kind = "include"
  PROVE  Plainly(LeaveInclude(s, Top)) = LeaveInclude(Plainly(s), Forgotten(Top))
<1>. DEFINE c == Top.caller
            calls == [s.calls EXCEPT ![Top.node.name] = @ - 1]
            x == [s EXCEPT !.out = c.out, !.counting = c.counting, !.vars = c.vars, !.depth = c.depth,
                           !.calls = calls]
            p == Plainly(s)
            g == Forgotten(Top)
            y == [p EXCEPT !.out = c.out, !.counting = c.counting, !.vars = c.vars, !.depth = c.depth,
                           !.calls = calls]
<1>1. s \in State /\ Top \in Frames /\ c \in State
  BY TopRuns
<1>2. /\ p \in State /\ p.out = s.out /\ p.counting = s.counting /\ p.vars = s.vars
      /\ p.depth = s.depth /\ p.calls = s.calls /\ p.data = s.data /\ p.panic = s.panic
      /\ p.spans = s.spans /\ p.guards = s.guards
  BY <1>1, PlainlyIs
<1>3. /\ g.node = Top.node /\ g.caller.out = c.out /\ g.caller.counting = c.counting
      /\ g.caller.vars = c.vars /\ g.caller.depth = c.depth
  <2>1. g.node = Top.node /\ g.caller = Plainly(c)
    BY <1>1, ForgottenIs
  <2>. QED
    BY <1>1, <2>1, PlainlyIs
<1>4. LeaveInclude(s, Top) = x
  BY <1>1 DEF LeaveInclude, State
<1>5. LeaveInclude(p, g) = y
  <2>. HIDE DEF p, g, c
  <2>. QED
    BY <1>2, <1>3 DEF LeaveInclude, State
<1>6. x \in State
  <2>1. LeaveInclude(s, Top) \in State
    BY LeaveIncludeState
  <2>. QED
    BY <1>4, <2>1
<1>7. c.out \in Seq(Bytes) /\ c.counting \in BOOLEAN /\ c.vars \in Seq(Syms) /\ c.vars # <<>> /\ c.depth \in Nat
  BY <1>1, Fields
<1>. HIDE DEF p, g, c, calls
<1>8. /\ x.out = c.out /\ x.counting = c.counting /\ x.vars = c.vars
      /\ x.depth = c.depth /\ x.calls = calls /\ x.data = s.data /\ x.panic = s.panic
      /\ x.spans = s.spans /\ x.guards = s.guards
      /\ x.reads = s.reads /\ x.arms = s.arms /\ x.explored = s.explored
  BY <1>1 DEF State
<1>9. calls \in [Names -> Nat]
  <2>. HIDE DEF x
  <2>. QED
    BY <1>6, <1>8, Fields
<1>10. y \in State
  BY <1>2, <1>7, <1>9 DEF State
<1>11. /\ y.out = c.out /\ y.counting = c.counting /\ y.vars = c.vars
       /\ y.depth = c.depth /\ y.calls = calls /\ y.data = p.data /\ y.panic = p.panic
       /\ y.spans = p.spans /\ y.guards = p.guards
       /\ y.reads = p.reads /\ y.arms = p.arms /\ y.explored = p.explored
  BY <1>2 DEF State
<1>. HIDE DEF x, y
<1>12. Plainly(x) = y
  <2>1. /\ y.out = x.out /\ y.counting = x.counting /\ y.vars = x.vars /\ y.depth = x.depth
        /\ y.calls = x.calls /\ y.data = x.data /\ y.panic = x.panic /\ y.spans = x.spans
        /\ y.guards = x.guards
    BY <1>2, <1>8, <1>11
  <2>2. x.reads = s.reads /\ x.arms = s.arms /\ x.explored = s.explored
    BY <1>8
  <2>3. y.reads = Plainly(s).reads /\ y.arms = Plainly(s).arms /\ y.explored = Plainly(s).explored
    BY <1>11 DEF p
  <2>. QED
    BY <1>1, <1>6, <1>10, <2>1, <2>2, <2>3, PlainlyQuietly
<1>. QED
  BY <1>4, <1>5, <1>12 DEF p, g

LEMMA PlainlyAction ==
  ASSUME NEW w \in State, w.guards = <<>>, NEW n \in AllNodes, n.kind \in Writers
  PROVE  Plainly(Action(n, w)) = Action(n, Plainly(w))
<1>. DEFINE r == RecordRead(w, n)
            v == w.data[n.path]
            p == Plainly(w)
            q == RecordRead(p, n)
<1>1. n.path \in Paths /\ n.at \in STRING
  BY Parsed
<1>2. r \in State /\ r.vars = w.vars
  BY <1>1, RecordReadState
<1>3. w.data \in [Paths -> Syms] /\ w.vars \in Seq(Syms)
  BY Fields
<1>4. v \in Syms
  BY <1>1, <1>3
<1>5. Shown(v) \in Seq(Bytes) /\ <<>> \in Seq(Bytes)
  BY <1>4, ShownIs
<1>6. p \in State /\ p.data = w.data /\ p.vars = w.vars
  BY PlainlyIs
<1>7. Plainly(r) = q
  BY <1>1, PlainlyRecordRead
<1>. HIDE DEF p
<1>8. q \in State /\ q.vars = w.vars
  BY <1>1, <1>6, RecordReadState
<1>9. /\ Len(w.vars) \in Nat /\ Len(w.vars) >= 1 /\ \A k \in 1..Len(w.vars) : w.vars[k] \in Syms
  BY LengthOfVars
<1>. HIDE DEF r, q, v
<1>10. CASE n.kind = "print"
  <2>1. Action(n, w) = Emit(r, n, Shown(v)) /\ Action(n, p) = Emit(q, n, Shown(v))
    BY <1>6, <1>10 DEF Action, r, q, v
  <2>. QED
    BY <1>1, <1>2, <1>5, <1>7, <2>1, PlainlyEmit DEF p
<1>11. CASE n.kind = "deref"
  <2>1. /\ Action(n, w) = IF v = Absent THEN Fail(r) ELSE Emit(r, n, Shown(v))
        /\ Action(n, p) = IF v = Absent THEN Fail(q) ELSE Emit(q, n, Shown(v))
    BY <1>6, <1>11 DEF Action, r, q, v
  <2>2. Plainly(Fail(r)) = Fail(q)
    BY <1>2, <1>7, PlainlyFail
  <2>. QED
    BY <1>1, <1>2, <1>5, <1>7, <2>1, <2>2, PlainlyEmit DEF p
<1>12. CASE n.kind = "let"
  <2>. DEFINE vs == Append(w.vars, v)
  <2>1. Action(n, w) = Emit([r EXCEPT !.vars = vs], n, <<>>)
    BY <1>2, <1>12 DEF Action, r, v
  <2>2. Action(n, p) = Emit([q EXCEPT !.vars = vs], n, <<>>)
    BY <1>6, <1>8, <1>12 DEF Action, q, v
  <2>3. vs \in Seq(Syms) /\ vs # <<>>
    BY <1>3, <1>4
  <2>. HIDE DEF vs
  <2>. DEFINE x == [r EXCEPT !.vars = vs]
              y == [q EXCEPT !.vars = vs]
  <2>4. Plainly(x) = y
    BY <1>2, <1>7, <2>3, PlainlySetVars
  <2>5. x \in State
    BY <1>2, <2>3 DEF State
  <2>. HIDE DEF x, y
  <2>6. Plainly(Emit(x, n, <<>>)) = Emit(y, n, <<>>)
    BY <1>1, <1>5, <2>4, <2>5, PlainlyEmit
  <2>. QED
    BY <2>1, <2>2, <2>6 DEF p, x, y
<1>13. CASE n.kind = "assign"
  <2>. DEFINE vs == [w.vars EXCEPT ![Len(w.vars)] = v]
  <2>1. Action(n, w) = Emit([r EXCEPT !.vars = vs], n, <<>>)
    <3>1. Action(n, w) = Emit([r EXCEPT !.vars[Len(w.vars)] = v], n, <<>>)
      BY <1>13 DEF Action, r, v
    <3>2. [r EXCEPT !.vars[Len(w.vars)] = v] = [r EXCEPT !.vars = vs]
      BY <1>2
    <3>. QED
      BY <3>1, <3>2
  <2>2. Action(n, p) = Emit([q EXCEPT !.vars = vs], n, <<>>)
    <3>1. Action(n, p) = Emit([q EXCEPT !.vars[Len(w.vars)] = v], n, <<>>)
      BY <1>6, <1>13 DEF Action, q, v
    <3>2. [q EXCEPT !.vars[Len(w.vars)] = v] = [q EXCEPT !.vars = vs]
      BY <1>8
    <3>. QED
      BY <3>1, <3>2
  <2>3. vs \in Seq(Syms) /\ Len(vs) = Len(w.vars)
    BY <1>3, <1>4, <1>9, ExceptSeq
  <2>. HIDE DEF vs
  <2>6. vs # <<>>
    BY <1>9, <2>3
  <2>. DEFINE x == [r EXCEPT !.vars = vs]
              y == [q EXCEPT !.vars = vs]
  <2>4. Plainly(x) = y
    BY <1>2, <1>7, <2>3, <2>6, PlainlySetVars
  <2>5. x \in State
    BY <1>2, <2>3, <2>6 DEF State
  <2>. HIDE DEF x, y
  <2>7. Plainly(Emit(x, n, <<>>)) = Emit(y, n, <<>>)
    BY <1>1, <1>5, <2>4, <2>5, PlainlyEmit
  <2>. QED
    BY <2>1, <2>2, <2>7 DEF p, x, y
<1>14. CASE n.kind = "set"
  <2>. DEFINE d == [w.data EXCEPT ![n.path] = IF Symbolic THEN @ ELSE 1]
  <2>1. Action(n, w) = Emit([w EXCEPT !.data = d], n, <<>>)
    BY <1>14 DEF Action
  <2>2. Action(n, p) = Emit([p EXCEPT !.data = d], n, <<>>)
    BY <1>6, <1>14 DEF Action
  <2>3. d \in [Paths -> Syms]
    BY <1>1, <1>3 DEF Syms, Values
  <2>. HIDE DEF d
  <2>. DEFINE x == [w EXCEPT !.data = d]
              y == [p EXCEPT !.data = d]
  <2>4. Plainly(x) = y
    BY <2>3, PlainlySetData DEF p
  <2>5. x \in State
    BY <2>3 DEF State
  <2>. HIDE DEF x, y
  <2>6. Plainly(Emit(x, n, <<>>)) = Emit(y, n, <<>>)
    BY <1>1, <1>5, <2>4, <2>5, PlainlyEmit
  <2>. QED
    BY <2>1, <2>2, <2>6 DEF p, x, y
<1>15. CASE n.kind = "show"
  <2>1. /\ Action(n, w) = Emit(w, n, Shown(w.vars[Len(w.vars)]))
        /\ Action(n, p) = Emit(p, n, Shown(w.vars[Len(w.vars)]))
    BY <1>6, <1>15 DEF Action
  <2>2. w.vars[Len(w.vars)] \in Syms
    BY <1>9
  <2>3. Shown(w.vars[Len(w.vars)]) \in Seq(Bytes)
    BY <2>2, ShownIs
  <2>. QED
    BY <1>1, <2>1, <2>3, PlainlyEmit DEF p
<1>. QED
  BY <1>10, <1>11, <1>12, <1>13, <1>14, <1>15 DEF Writers, p

(***************************************************************************)
(* The stack without what its frames noted.                                *)
(***************************************************************************)
LEMMA SameSeq ==
  ASSUME NEW S, NEW x \in Seq(S), NEW y \in Seq(S), Len(x) = Len(y), \A j \in 1..Len(x) : x[j] = y[j]
  PROVE  x = y
<1>1. x = [j \in 1..Len(x) |-> x[j]] /\ y = [j \in 1..Len(y) |-> y[j]]
  OBVIOUS
<1>. QED
  BY <1>1

LEMMA ForgetIs ==
  ASSUME NEW st \in Seq(Frames)
  PROVE  /\ Forget(st) \in Seq(Frames) /\ Len(Forget(st)) = Len(st) /\ Len(st) \in Nat
         /\ \A j \in 1..Len(st) : Forget(st)[j] = Forgotten(st[j])
<1>1. Len(st) \in Nat /\ \A j \in 1..Len(st) : st[j] \in Frames
  OBVIOUS
<1>2. \A j \in 1..Len(st) : Forgotten(st[j]) \in Frames
  BY <1>1, ForgottenIs
<1>3. Forget(st) \in [1..Len(st) -> Frames]
  BY <1>2 DEF Forget
<1>4. Forget(st) \in Seq(Frames) /\ Len(Forget(st)) = Len(st)
  BY <1>1, <1>3
<1>. QED
  BY <1>1, <1>4 DEF Forget

LEMMA ForgetAppend ==
  ASSUME NEW st \in Seq(Frames), NEW f \in Frames
  PROVE  Forget(Append(st, f)) = Append(Forget(st), Forgotten(f))
<1>. DEFINE x == Forget(Append(st, f))
            y == Append(Forget(st), Forgotten(f))
            so == Append(st, f)
            n == Len(st)
<1>1. so \in Seq(Frames) /\ Len(so) = n + 1 /\ so[n + 1] = f /\ n \in Nat /\ \A j \in 1..n : so[j] = st[j]
  OBVIOUS
<1>. HIDE DEF so
<1>2. /\ Forget(so) \in Seq(Frames) /\ Len(Forget(so)) = n + 1
      /\ \A j \in 1..(n + 1) : Forget(so)[j] = Forgotten(so[j])
  BY <1>1, ForgetIs
<1>3. Forgotten(f) \in Frames
  BY ForgottenIs
<1>4. /\ Forget(st) \in Seq(Frames) /\ Len(Forget(st)) = n
      /\ \A j \in 1..n : Forget(st)[j] = Forgotten(st[j])
  BY ForgetIs
<1>5. y \in Seq(Frames) /\ Len(y) = n + 1 /\ y[n + 1] = Forgotten(f) /\ \A j \in 1..n : y[j] = Forget(st)[j]
  <2>. DEFINE fs == Forget(st)
              g == Forgotten(f)
  <2>. HIDE DEF fs, g
  <2>1. fs \in Seq(Frames) /\ Len(fs) = n /\ g \in Frames
    BY <1>3, <1>4 DEF fs, g
  <2>2. /\ Append(fs, g) \in Seq(Frames) /\ Len(Append(fs, g)) = n + 1 /\ Append(fs, g)[n + 1] = g
        /\ \A j \in 1..n : Append(fs, g)[j] = fs[j]
    BY <2>1
  <2>. QED
    BY <2>2 DEF fs, g
<1>. HIDE DEF y
<1>6. \A j \in 1..(n + 1) : j = n + 1 \/ j \in 1..n
  BY <1>1
<1>7. \A j \in 1..(n + 1) : Forget(so)[j] = y[j]
  BY <1>1, <1>2, <1>4, <1>5, <1>6
<1>8. Forget(so) = y
  BY <1>2, <1>5, <1>7, SameSeq
<1>. QED
  BY <1>8 DEF so, y

LEMMA ForgetPopped ==
  ASSUME NEW st \in Seq(Frames), Len(st) > 1
  PROVE  Forget(Popped(st)) = Popped(Forget(st))
<1>. DEFINE so == Popped(st)
            y == Popped(Forget(st))
            n == Len(st) - 1
<1>1. so \in Seq(Frames) /\ Len(so) = n /\ \A j \in 1..n : so[j] = st[j]
  BY PoppedIs
<1>2. /\ Forget(st) \in Seq(Frames) /\ Len(Forget(st)) = Len(st) /\ Len(st) \in Nat
      /\ \A j \in 1..Len(st) : Forget(st)[j] = Forgotten(st[j])
  BY ForgetIs
<1>3. y \in Seq(Frames) /\ Len(y) = n /\ \A j \in 1..n : y[j] = Forget(st)[j]
  BY <1>2, PoppedIs
<1>. HIDE DEF so, y
<1>4. /\ Forget(so) \in Seq(Frames) /\ Len(Forget(so)) = n
      /\ \A j \in 1..n : Forget(so)[j] = Forgotten(so[j])
  BY <1>1, ForgetIs
<1>5. \A j \in 1..n : j \in 1..Len(st)
  BY <1>2
<1>6. \A j \in 1..n : Forget(so)[j] = y[j]
  BY <1>1, <1>2, <1>3, <1>4, <1>5
<1>7. Forget(so) = y
  BY <1>3, <1>4, <1>6, SameSeq
<1>. QED
  BY <1>7 DEF so, y

LEMMA ForgetExcept ==
  ASSUME NEW st \in Seq(Frames), st # <<>>, NEW f \in Frames
  PROVE  Forget([st EXCEPT ![Len(st)] = f]) = [Forget(st) EXCEPT ![Len(st)] = Forgotten(f)]
<1>. DEFINE n == Len(st)
            so == [st EXCEPT ![n] = f]
            fs == Forget(st)
            g == Forgotten(f)
            y == [fs EXCEPT ![n] = g]
<1>1. n \in Nat /\ n \in 1..n
  BY StackOf
<1>2. so \in Seq(Frames) /\ Len(so) = n /\ \A j \in 1..n : so[j] = IF j = n THEN f ELSE st[j]
  BY <1>1, ExceptSeq
<1>3. /\ fs \in Seq(Frames) /\ Len(fs) = n /\ \A j \in 1..n : fs[j] = Forgotten(st[j])
  BY ForgetIs
<1>4. g \in Frames
  BY ForgottenIs
<1>. HIDE DEF so, fs, g
<1>5. y \in Seq(Frames) /\ Len(y) = n /\ \A j \in 1..n : y[j] = IF j = n THEN g ELSE fs[j]
  BY <1>1, <1>3, <1>4, ExceptSeq
<1>. HIDE DEF y
<1>6. /\ Forget(so) \in Seq(Frames) /\ Len(Forget(so)) = n
      /\ \A j \in 1..n : Forget(so)[j] = Forgotten(so[j])
  BY <1>2, ForgetIs
<1>7. \A j \in 1..n : Forget(so)[j] = y[j]
  BY <1>2, <1>3, <1>5, <1>6 DEF g
<1>8. Forget(so) = y
  BY <1>5, <1>6, <1>7, SameSeq
<1>. QED
  BY <1>8 DEF so, y, fs, g

LEMMA ForgetAdvance ==
  ASSUME NEW st \in Seq(Frames), st # <<>>
  PROVE  Forget(Advance(st)) = Advance(Forget(st))
<1>. DEFINE n == Len(st)
            f == [st[n] EXCEPT !.i = @ + 1]
            fs == Forget(st)
<1>1. n \in DOMAIN st /\ st[n] \in Frames /\ n \in 1..n
  BY StackOf
<1>2. f \in Frames
  <2>1. st[n].i + 1 \in Nat \ {0}
    BY <1>1, FrameFields
  <2>. QED
    BY <1>1, <2>1 DEF Frames
<1>3. Advance(st) = [st EXCEPT ![n] = f]
  BY <1>1 DEF Advance
<1>4. fs \in Seq(Frames) /\ Len(fs) = n /\ fs[n] = Forgotten(st[n])
  BY <1>1, ForgetIs
<1>5. Forgotten(f) = [Forgotten(st[n]) EXCEPT !.i = @ + 1]
  BY <1>1 DEF Forgotten, Frames
<1>. HIDE DEF f, fs
<1>6. Advance(fs) = [fs EXCEPT ![n] = Forgotten(f)]
  BY <1>1, <1>4, <1>5 DEF Advance
<1>. QED
  BY <1>2, <1>3, <1>6, ForgetExcept DEF fs

LEMMA ForgottenFrame ==
  ASSUME NEW kind, NEW n, NEW list, NEW left, NEW c
  PROVE  Forgotten(Frame(kind, n, list, left, c)) = Frame(kind, n, list, left, Plainly(c))
BY DEF Forgotten, Frame

(***************************************************************************)
(* What is seen outside of arms, and in one.                               *)
(***************************************************************************)
LEMMA ViewOutside ==
  ASSUME NEW runs, NEW st, NEW w \in State, w.guards = <<>>
  PROVE  View(runs, st, w) = Plainly(w) /\ Beside(runs, st, w) = Forget(st)
BY NotRendered DEF View, Beside, Forget, PlainResult

LEMMA EntryIs ==
  ASSUME NEW st, NEW w, Good(st, w), NEW o \in DOMAIN st, Entered(st, o)
  PROVE  Entry(st) = o
<1>1. ASSUME NEW k \in DOMAIN st, Entered(st, k)
      PROVE  k = o
  <2>1. DOMAIN st = 1..Len(st) /\ Len(st) \in Nat
    BY TopOf
  <2>2. k > o => st[k].caller.guards # <<>>
    BY DEF Good, Inside, Entered
  <2>3. o > k => st[o].caller.guards # <<>>
    BY <1>1 DEF Good, Inside, Entered
  <2>. QED
    BY <1>1, <2>1, <2>2, <2>3 DEF Entered
<1>. QED
  BY <1>1 DEF Entry, Entered

LEMMA ViewInside ==
  ASSUME NEW st, NEW w, Good(st, w), w.guards # <<>>, NEW o \in DOMAIN st, Entered(st, o)
  PROVE  /\ View(TRUE, st, w) = Plainly(st[o].caller)
         /\ Beside(TRUE, st, w) = [j \in 1..(o - 1) |-> Forgotten(st[j])]
BY EntryIs DEF View, Beside

(* Outside of arms, before a step, and after one that stays there.           *)
Seen == Good(stack, s) /\ s.guards = <<>> /\ OuterState = Plainly(s) /\ OuterStack = Forget(stack)
SeenNext == OuterState' = Plainly(s') /\ OuterStack' = Forget(stack')

LEMMA PlainStill == Still => Plain!Still
BY DEF Still, Plain!Still, PlainResult

LEMMA PlainTop ==
  ASSUME Seen
  PROVE  /\ Plain!Top = Forgotten(Top) /\ Len(OuterStack) = Len(stack)
         /\ Plain!Top.kind = Top.kind /\ Plain!Top.node = Top.node /\ Plain!Top.list = Top.list
         /\ Plain!Top.i = Top.i /\ Plain!Top.left = Top.left /\ Plain!Top.caller = Plainly(Top.caller)
         /\ Plain!Node = Node
         /\ OuterState.panic = s.panic /\ OuterState.data = s.data /\ OuterState.vars = s.vars
         /\ OuterState.guards = s.guards /\ OuterState.depth = s.depth /\ OuterState.calls = s.calls
         /\ OuterState.out = s.out
<1>1. stack \in Seq(Frames) /\ stack # <<>> /\ Good(stack, s) /\ s \in State
  BY DEF Seen, Good
<1>2. Len(stack) \in 1..Len(stack) /\ Top \in Frames
  BY <1>1, TopOf DEF Top
<1>3. Len(OuterStack) = Len(stack) /\ OuterStack[Len(stack)] = Forgotten(Top)
  BY <1>1, <1>2, ForgetIs DEF Seen, Top
<1>4. Plain!Top = Forgotten(Top)
  BY <1>3 DEF Plain!Top
<1>5. /\ Plain!Top.kind = Top.kind /\ Plain!Top.node = Top.node /\ Plain!Top.list = Top.list
      /\ Plain!Top.i = Top.i /\ Plain!Top.left = Top.left /\ Plain!Top.caller = Plainly(Top.caller)
  BY <1>2, <1>4, ForgottenIs
<1>6. Plain!Node = Node
  BY <1>5 DEF Plain!Node, Node
<1>7. /\ OuterState.panic = s.panic /\ OuterState.data = s.data /\ OuterState.vars = s.vars
      /\ OuterState.guards = s.guards /\ OuterState.depth = s.depth /\ OuterState.calls = s.calls
      /\ OuterState.out = s.out
  BY <1>1, PlainlyIs DEF Seen
<1>. QED
  BY <1>3, <1>4, <1>5, <1>6, <1>7

LEMMA PlainAt ==
  ASSUME Seen, NEW kinds
  PROVE  /\ Plain!AtNode(kinds) = AtNode(kinds)
         /\ Plain!AtEnd(kinds) = AtEnd(kinds)
         /\ Plain!Panicking(kinds) = Panicking(kinds)
<1>1. /\ Plain!Top.kind = Top.kind /\ Plain!Top.list = Top.list /\ Plain!Top.i = Top.i
      /\ Plain!Node = Node /\ OuterState.panic = s.panic
  BY PlainTop
<1>. QED
  BY <1>1 DEF Plain!AtNode, Plain!AtEnd, Plain!Panicking, AtNode, AtEnd, Panicking, Plain!Running, Running

LEMMA PlainIsHole ==
  ASSUME Seen
  PROVE  Plain!IsHole = IsHole
<1>1. OuterState.panic = s.panic /\ OuterState.guards = s.guards
  BY PlainTop
<1>. QED
  BY <1>1 DEF Plain!IsHole, IsHole, Plain!Symbolic, Symbolic

LEMMA PlainAdvance ==
  ASSUME NEW st \in Seq(Frames), st # <<>>
  PROVE  Forget(Advance(st)) = Plain!Advance(Forget(st))
BY ForgetAdvance DEF Advance, Plain!Advance

LEMMA PlainReturn ==
  ASSUME Seen, Top.kind # "main"
  PROVE  Plain!Pop = Forget(Pop) /\ Plain!Return = Forget(Return)
<1>1. stack \in Seq(Frames) /\ stack # <<>> /\ Good(stack, s) /\ OuterStack = Forget(stack)
  BY DEF Seen, Good
<1>2. Len(stack) > 1
  <2>1. Len(stack) \in Nat /\ Len(stack) >= 1 /\ Len(stack) # 1
    BY <1>1, TopOf DEF Top
  <2>2. ASSUME NEW m \in Nat, m >= 1, m # 1  PROVE m > 1
    BY <2>2
  <2>. QED
    BY <2>1, <2>2
<1>3. /\ Popped(stack) \in Seq(Frames) /\ Len(Popped(stack)) = Len(stack) - 1
      /\ Forget(Popped(stack)) = Popped(Forget(stack))
  BY <1>1, <1>2, PoppedIs, ForgetPopped
<1>4. Popped(stack) # <<>>
  <2>1. Len(stack) \in Nat
    BY <1>1
  <2>3. ASSUME NEW m \in Nat, m > 1  PROVE m - 1 # 0
    BY <2>3
  <2>2. Len(Popped(stack)) # 0
    BY <1>2, <1>3, <2>1, <2>3
  <2>. QED
    BY <2>2
<1>5. Plain!Pop = Forget(Popped(stack)) /\ Pop = Popped(stack)
  BY <1>1, <1>3 DEF Plain!Pop, Pop, Popped
<1>6. Forget(Advance(Popped(stack))) = Plain!Advance(Forget(Popped(stack)))
  BY <1>3, <1>4, PlainAdvance
<1>. QED
  BY <1>5, <1>6 DEF Plain!Return, Return

(***************************************************************************)
(* Outside of arms, a step is one of a render that does not explore.       *)
(***************************************************************************)
LEMMA PlainWalkText ==
  ASSUME Seen, SeenNext, WalkText
  PROVE  Plain!WalkText
<1>1. AtNode({"text"}) /\ s' = Emit(s, Node, Node.text) /\ stack' = Advance(stack) /\ Still
  BY DEF WalkText
<1>2. /\ s \in State /\ Node \in AllNodes /\ Node.kind = "text" /\ stack \in Seq(Frames) /\ stack # <<>>
  BY <1>1, AtNodeIs DEF Seen, Good
<1>3. Node.at \in STRING /\ Node.text \in Seq(Bytes)
  BY <1>2, Parsed
<1>4. Plainly(s') = Emit(Plainly(s), Node, Node.text)
  BY <1>1, <1>2, <1>3, PlainlyEmit
<1>5. OuterState' = Plain!Emit(OuterState, Plain!Node, Plain!Node.text)
  BY <1>4, PlainOps, PlainTop DEF Seen, SeenNext
<1>6. OuterStack' = Plain!Advance(OuterStack)
  BY <1>1, <1>2, PlainAdvance DEF Seen, SeenNext
<1>7. Plain!AtNode({"text"}) /\ Plain!Still
  BY <1>1, PlainAt, PlainStill
<1>. QED
  BY <1>5, <1>6, <1>7 DEF Plain!WalkText

LEMMA PlainWalkJump ==
  ASSUME Seen, SeenNext, WalkJump
  PROVE  Plain!WalkJump
<1>1. AtNode(Jumps) /\ s' = [s EXCEPT !.panic = Node.kind] /\ stack' = stack /\ Still
  BY DEF WalkJump
<1>2. s \in State /\ Node.kind \in Jumps
  BY <1>1, AtNodeIs DEF Seen
<1>3. Plainly(s') = [Plainly(s) EXCEPT !.panic = Node.kind]
  BY <1>1, <1>2, PlainlyPanic
<1>4. OuterState' = [OuterState EXCEPT !.panic = Plain!Node.kind]
  BY <1>3, PlainTop DEF Seen, SeenNext
<1>5. OuterStack' = OuterStack
  BY <1>1 DEF Seen, SeenNext
<1>6. Plain!AtNode(Jumps) /\ Plain!Still
  BY <1>1, PlainAt, PlainStill
<1>. QED
  BY <1>4, <1>5, <1>6 DEF Plain!WalkJump, Plain!Jumps, Jumps

LEMMA PlainWalkAction ==
  ASSUME Seen, SeenNext, WalkAction
  PROVE  Plain!WalkAction
<1>1. /\ AtNode(Writers) /\ s' = Action(Node, s) /\ Still
      /\ stack' = IF s'.panic = "none" THEN Advance(stack) ELSE stack
  BY DEF WalkAction
<1>2. s \in State /\ s.guards = <<>> /\ Node \in AllNodes /\ Node.kind \in Writers
      /\ stack \in Seq(Frames) /\ stack # <<>>
  BY <1>1, AtNodeIs DEF Seen, Good
<1>3. Plainly(s') = Action(Node, Plainly(s))
  BY <1>1, <1>2, PlainlyAction
<1>4. OuterState' = Plain!Action(Plain!Node, OuterState)
  BY <1>3, PlainOps, PlainTop DEF Seen, SeenNext
<1>5. s' \in State
  BY <1>1, <1>2, ActionContinues DEF Continues
<1>6. OuterState'.panic = s'.panic
  BY <1>5, PlainlyIs DEF SeenNext
<1>7. OuterStack' = IF OuterState'.panic = "none" THEN Plain!Advance(OuterStack) ELSE OuterStack
  BY <1>1, <1>2, <1>6, PlainAdvance DEF Seen, SeenNext
<1>8. Plain!AtNode(Writers) /\ Plain!Still
  BY <1>1, PlainAt, PlainStill
<1>. QED
  BY <1>4, <1>7, <1>8 DEF Plain!WalkAction, Plain!Writers, Writers

LEMMA PlainPush ==
  ASSUME Seen, SeenNext, NEW kind \in Kinds, NEW list \in Seq(AllNodes), NEW left \in Int,
         Node \in AllNodes, stack' = Append(stack, Frame(kind, Node, list, left, s))
  PROVE  Plain!Push(kind, Plain!Node, list, left)
<1>. DEFINE f == Frame(kind, Node, list, left, s)
<1>1. stack \in Seq(Frames) /\ s \in State
  BY DEF Seen, Good
<1>2. f \in Frames
  BY <1>1, FrameIs
<1>3. Forgotten(f) = Frame(kind, Node, list, left, Plainly(s))
  BY ForgottenFrame
<1>. HIDE DEF f
<1>4. Forget(Append(stack, f)) = Append(Forget(stack), Forgotten(f))
  BY <1>1, <1>2, ForgetAppend
<1>5. OuterStack' = Append(OuterStack, Frame(kind, Node, list, left, OuterState))
  BY <1>3, <1>4 DEF Seen, SeenNext, f
<1>6. Plain!Node = Node
  BY PlainTop
<1>. QED
  BY <1>5, <1>6 DEF Plain!Push, Plain!Frame, Frame

LEMMA PlainWalkIf ==
  ASSUME Seen, SeenNext, WalkIf
  PROVE  Plain!WalkIf
<1>. DEFINE r == RecordRead(s, Node)
            which == Taken(Node, s)
            list == Node.arms[which]
            report == Report(Node, s)
<1>1. AtNode({"if"}) /\ s' = Arm(r, Node, report) /\ stack' = Append(stack, Frame("if", Node, list, 0, s)) /\ Still
  BY DEF WalkIf, Push
<1>2. s \in State /\ s.guards = <<>> /\ Node \in AllNodes /\ Node.kind = "if"
  BY <1>1, AtNodeIs DEF Seen
<1>3. /\ Node.at \in STRING /\ Node.path \in Paths
      /\ Node.arms["then"] \in Seq(AllNodes) /\ Node.arms["else"] \in Seq(AllNodes)
  BY <1>2, Parsed
<1>4. which \in {"then", "else"} /\ report \in TakenArms
  BY DEF Taken, Report, TakenArms
<1>5. list \in Seq(AllNodes)
  BY <1>3, <1>4
<1>6. r \in State /\ Context(r) = Context(s)
  BY <1>2, <1>3, RecordReadState
<1>7. r.guards = <<>> /\ Plainly(r) = RecordRead(Plainly(s), Node)
  BY <1>2, <1>3, <1>6, ContextIs, PlainlyRecordRead
<1>. HIDE DEF r, report
<1>8. Plainly(s') = Arm(RecordRead(Plainly(s), Node), Node, report)
  BY <1>1, <1>3, <1>4, <1>6, <1>7, PlainlyArm
<1>9. /\ Plain!Report(Plain!Node, OuterState) = report
      /\ Plain!Taken(Plain!Node, OuterState) = which
  <2>1. Plain!Node = Node /\ OuterState.data = s.data
    BY PlainTop
  <2>. QED
    BY <2>1 DEF Plain!Report, Plain!Taken, Report, Taken, report, Plain!Absent, Absent, Plain!Unknown, Unknown
<1>10. OuterState' = Plain!Arm(Plain!RecordRead(OuterState, Plain!Node), Plain!Node, Plain!Report(Plain!Node, OuterState))
  BY <1>8, <1>9, PlainOps, PlainTop DEF Seen, SeenNext
<1>. HIDE DEF list, which
<1>11. Plain!Push("if", Plain!Node, list, 0)
  BY <1>1, <1>2, <1>5, PlainPush DEF Kinds
<1>12. list = Plain!Node.arms[Plain!Taken(Plain!Node, OuterState)]
  BY <1>9, PlainTop DEF list
<1>13. Plain!AtNode({"if"}) /\ Plain!Still
  BY <1>1, PlainAt, PlainStill
<1>. QED
  BY <1>10, <1>11, <1>12, <1>13 DEF Plain!WalkIf

LEMMA PlainFail ==
  ASSUME Seen, SeenNext, NEW kinds, AtNode(kinds), s' = Fail(s), stack' = stack
  PROVE  OuterState' = Plain!Fail(OuterState) /\ UNCHANGED OuterStack
<1>1. s \in State
  BY DEF Seen, Good
<1>2. Plainly(s') = Fail(Plainly(s))
  BY <1>1, PlainlyFail
<1>. QED
  BY <1>2, PlainOps DEF Seen, SeenNext

LEMMA PlainWalkTemplate ==
  ASSUME Seen, SeenNext, chart.templates \in Templates, WalkTemplate
  PROVE  Plain!WalkTemplate
<1>1. AtNode({"template"}) /\ Still
  BY DEF WalkTemplate
<1>2. s \in State /\ Node \in AllNodes
  BY <1>1, AtNodeIs DEF Seen
<1>3. Plain!AtNode({"template"}) /\ Plain!Still
  BY <1>1, PlainAt, PlainStill
<1>4. Plain!Node = Node /\ OuterState.depth = s.depth
  BY PlainTop
<1>5. CASE Node.name \notin Names \/ s.depth = MaxDepth
  <2>1. s' = Fail(s) /\ stack' = stack
    BY <1>5 DEF WalkTemplate
  <2>2. OuterState' = Plain!Fail(OuterState) /\ UNCHANGED OuterStack
    BY <1>1, <2>1, PlainFail
  <2>. QED
    BY <1>3, <1>4, <1>5, <2>2 DEF Plain!WalkTemplate
<1>6. CASE ~(Node.name \notin Names \/ s.depth = MaxDepth)
  <2>. DEFINE list == chart.templates[Node.name]
  <2>1. s' = [s EXCEPT !.vars = <<Absent>>, !.depth = @ + 1] /\ stack' = Append(stack, Frame("template", Node, list, 0, s))
    BY <1>6 DEF WalkTemplate, Push
  <2>2. list \in Seq(AllNodes)
    BY <1>6, CalledList
  <2>3. OuterState' = [OuterState EXCEPT !.vars = <<Absent>>, !.depth = @ + 1]
    BY <1>2, <2>1, PlainlyEnterTemplate DEF Seen, SeenNext
  <2>. HIDE DEF list
  <2>4. Plain!Push("template", Plain!Node, list, 0)
    BY <1>2, <2>1, <2>2, PlainPush DEF Kinds
  <2>. QED
    BY <1>3, <1>4, <1>6, <2>3, <2>4 DEF Plain!WalkTemplate, Plain!Absent, Absent, list
<1>. QED
  BY <1>5, <1>6

LEMMA PlainWalkInclude ==
  ASSUME Seen, SeenNext, chart.templates \in Templates, WalkInclude
  PROVE  Plain!WalkInclude
<1>1. AtNode({"include"}) /\ Still
  BY DEF WalkInclude
<1>2. s \in State /\ Node \in AllNodes
  BY <1>1, AtNodeIs DEF Seen
<1>3. Plain!AtNode({"include"}) /\ Plain!Still
  BY <1>1, PlainAt, PlainStill
<1>4. Plain!Node = Node /\ OuterState.calls = s.calls
  BY PlainTop
<1>5. CASE Node.name \notin Names \/ s.calls[Node.name] > MaxIncludes
  <2>1. s' = Fail(s) /\ stack' = stack
    BY <1>5 DEF WalkInclude
  <2>2. OuterState' = Plain!Fail(OuterState) /\ UNCHANGED OuterStack
    BY <1>1, <2>1, PlainFail
  <2>. QED
    BY <1>3, <1>4, <1>5, <2>2 DEF Plain!WalkInclude
<1>6. CASE ~(Node.name \notin Names \/ s.calls[Node.name] > MaxIncludes)
  <2>. DEFINE list == chart.templates[Node.name]
  <2>1. s' = EnterInclude(Node, s) /\ stack' = Append(stack, Frame("include", Node, list, 0, s))
    BY <1>6 DEF WalkInclude, Push
  <2>2. list \in Seq(AllNodes) /\ Node.name \in Names
    BY <1>6, CalledList
  <2>3. OuterState' = EnterInclude(Node, OuterState)
    BY <1>2, <2>1, <2>2, PlainlyEnterInclude DEF Seen, SeenNext
  <2>4. OuterState' = Plain!EnterInclude(Plain!Node, OuterState)
    BY <1>4, <2>3, PlainOps
  <2>. HIDE DEF list
  <2>5. Plain!Push("include", Plain!Node, list, 0)
    BY <1>2, <2>1, <2>2, PlainPush DEF Kinds
  <2>. QED
    BY <1>3, <1>4, <1>6, <2>4, <2>5 DEF Plain!WalkInclude, list
<1>. QED
  BY <1>5, <1>6

LEMMA PlainWalkRange ==
  ASSUME Seen, SeenNext, WalkRange
  PROVE  Plain!WalkRange
<1>. DEFINE r == RecordRead(s, Node)
            v == s.data[Node.path]
            left == IF v = Unknown THEN 1 ELSE v
            e == IF v = Absent THEN v ELSE Element(v, left)
            vs == Append(s.vars, e)
            none == Node.arms["else"]
            body == Node.arms["body"]
<1>1. /\ AtNode({"range"}) /\ Still
      /\ s' = [r EXCEPT !.vars = Append(@, e)]
      /\ stack' = IF v = Absent THEN Append(stack, Frame("empty", Node, none, 0, s))
                  ELSE Append(stack, Frame("range", Node, body, left, s))
  <2>1. AtNode({"range"}) /\ Still
    BY DEF WalkRange
  <2>2. s' = [r EXCEPT !.vars = Append(@, e)]
    BY DEF WalkRange
  <2>3. stack' = IF v = Absent THEN Append(stack, Frame("empty", Node, none, 0, s))
                 ELSE Append(stack, Frame("range", Node, body, left, s))
    BY DEF WalkRange, Push
  <2>. QED
    BY <2>1, <2>2, <2>3
<1>2. s \in State /\ s.guards = <<>> /\ Node \in AllNodes /\ Node.kind = "range"
  BY <1>1, AtNodeIs DEF Seen
<1>3. Node.at \in STRING /\ Node.path \in Paths /\ body \in Seq(AllNodes) /\ none \in Seq(AllNodes)
  BY <1>2, Parsed
<1>4. r \in State /\ r.vars = s.vars /\ Plainly(r) = RecordRead(Plainly(s), Node)
  BY <1>2, <1>3, RecordReadState, PlainlyRecordRead
<1>5. v \in {Absent, Unknown, 1, 2} /\ left \in Int /\ e \in Syms
  <2>1. s.data \in [Paths -> Syms]
    BY <1>2, Fields
  <2>2. v \in {Absent, Unknown, 1, 2}
    BY <1>3, <2>1 DEF Syms, Values
  <2>3. left \in Int
    BY <2>2 DEF Absent, Unknown
  <2>4. e \in Syms
    BY <2>2 DEF Element, Syms, Values, Absent, Unknown
  <2>. QED
    BY <2>2, <2>3, <2>4
<1>6. vs \in Seq(Syms) /\ vs # <<>>
  <2>1. s.vars \in Seq(Syms) /\ Len(s.vars) \in Nat
    BY <1>2, Fields, LengthOfVars
  <2>. HIDE DEF e
  <2>2. vs \in Seq(Syms) /\ Len(vs) = Len(s.vars) + 1
    BY <1>5, <2>1
  <2>. HIDE DEF vs
  <2>3. Len(vs) # 0
    BY <2>1, <2>2
  <2>. QED
    BY <2>2, <2>3
<1>7. Plain!Node = Node /\ OuterState.data = s.data /\ OuterState.vars = s.vars
  BY PlainTop
<1>8. OuterState' = [Plain!RecordRead(OuterState, Plain!Node) EXCEPT !.vars = Append(@, e)]
  <2>. HIDE DEF e, r, vs
  <2>1. s' = [r EXCEPT !.vars = vs]
    BY <1>1, <1>4 DEF vs
  <2>2. Plainly(s') = [Plainly(r) EXCEPT !.vars = vs]
    BY <1>4, <1>6, <2>1, PlainlySetVars
  <2>3. Plainly(r).vars = s.vars /\ Plainly(r) \in State
    BY <1>4, PlainlyIs
  <2>4. Plainly(r) = Plain!RecordRead(OuterState, Plain!Node)
    BY <1>4, <1>7, PlainOps DEF Seen
  <2>5. OuterState' = [Plainly(r) EXCEPT !.vars = Append(@, e)]
    BY <2>2, <2>3 DEF SeenNext, vs
  <2>. QED
    BY <2>4, <2>5
<1>9. IF v = Absent THEN Plain!Push("empty", Plain!Node, none, 0)
      ELSE Plain!Push("range", Plain!Node, body, left)
  <2>. HIDE DEF none, body, left
  <2>1. CASE v = Absent
    <3>1. stack' = Append(stack, Frame("empty", Node, none, 0, s))
      BY <1>1, <2>1
    <3>. QED
      BY <1>2, <1>3, <2>1, <3>1, PlainPush DEF Kinds
  <2>2. CASE v # Absent
    <3>1. stack' = Append(stack, Frame("range", Node, body, left, s))
      BY <1>1, <2>2
    <3>. QED
      BY <1>2, <1>3, <1>5, <2>2, <3>1, PlainPush DEF Kinds
  <2>. QED
    BY <2>1, <2>2
<1>10. Plain!AtNode({"range"}) /\ Plain!Still
  BY <1>1, PlainAt, PlainStill
<1>11. Plain!Absent = Absent /\ Plain!Unknown = Unknown /\ Plain!Element(v, left) = Element(v, left)
  BY DEF Plain!Absent, Plain!Unknown, Absent, Unknown, Plain!Element, Element
<1>. QED
  BY <1>7, <1>8, <1>9, <1>10, <1>11 DEF Plain!WalkRange

LEMMA PlainIterated ==
  ASSUME Seen
  PROVE  Plain!Iterated = Iterated
<1>1. Plain!Top.kind = Top.kind
  BY PlainTop
<1>. QED
  BY <1>1, PlainAt DEF Plain!Iterated, Iterated

LEMMA PlainEndIteration ==
  ASSUME Seen, SeenNext, EndIteration
  PROVE  Plain!EndIteration
<1>. DEFINE n == Len(stack)
            c == Top.caller
            v == c.data[Top.node.path]
            e == Element(v, Top.left - 1)
            kept == SubSeq(s.vars, 1, Len(c.vars))
            vs == Append(kept, e)
            x == [s EXCEPT !.panic = "none", !.vars = vs]
            fewer == Top.left - 1
            f == [Top EXCEPT !.i = 1, !.left = fewer]
<1>1. Top.kind = "range" /\ Iterated /\ Top.left > 1 /\ Still
  BY DEF EndIteration, Iterated, AtEnd
<1>2. Good(stack, s) /\ stack \in Seq(Frames) /\ stack # <<>> /\ OuterStack = Forget(stack)
  BY DEF Seen, Good
<1>3. /\ s \in State /\ Top \in Frames /\ c \in State /\ FrameOK(Top) /\ Runs(Top, s)
      /\ Len(c.vars) \in Nat /\ 1 <= Len(c.vars)
  BY <1>2, TopRuns
<1>4. v = 2 /\ Top.left = 2
  <2>1. \/ v = Unknown /\ Top.left = 1
        \/ v \in {1, 2} /\ Top.left \in 1..v
    BY <1>1, <1>3 DEF FrameOK
  <2>. HIDE DEF v
  <2>. QED
    BY <1>1, <2>1
<1>5. e \in Syms /\ fewer \in Int
  BY <1>4 DEF Element, Syms, Values, Unknown
<1>6. s' = x /\ stack' = [stack EXCEPT ![n] = f]
  <2>1. s' = x
    BY DEF EndIteration
  <2>2. stack' = [stack EXCEPT ![n].i = 1, ![n].left = @ - 1]
    BY DEF EndIteration
  <2>3. n \in DOMAIN stack
    BY <1>2, StackOf
  <2>4. [stack EXCEPT ![n].i = 1, ![n].left = @ - 1] = [stack EXCEPT ![n] = f]
    BY <1>2, <1>3, <2>3 DEF Top, Frames
  <2>. QED
    BY <2>1, <2>2, <2>4
<1>7. vs \in Seq(Syms) /\ vs # <<>>
  <2>1. s.vars \in Seq(Syms) /\ Len(c.vars) <= Len(s.vars) /\ Len(s.vars) \in Nat
    BY <1>1, <1>3, Fields, LengthOfVars DEF Runs
  <2>2. ASSUME NEW m \in Nat, m <= Len(s.vars)
        PROVE  SubSeq(s.vars, 1, m) \in Seq(Syms) /\ Len(SubSeq(s.vars, 1, m)) = m
    BY <2>1, <2>2
  <2>3. kept \in Seq(Syms) /\ Len(kept) = Len(c.vars)
    BY <1>3, <2>1, <2>2
  <2>. HIDE DEF kept, e
  <2>4. vs \in Seq(Syms) /\ Len(vs) = Len(kept) + 1
    BY <1>5, <2>3
  <2>. HIDE DEF vs
  <2>5. Len(vs) # 0
    BY <1>3, <2>3, <2>4
  <2>. QED
    BY <2>4, <2>5
<1>8. f \in Frames /\ Forgotten(f) = [Forgotten(Top) EXCEPT !.i = 1, !.left = fewer]
  <2>1. 1 \in Nat \ {0}
    OBVIOUS
  <2>. HIDE DEF fewer
  <2>2. f \in Frames
    BY <1>3, <1>5, <2>1 DEF Frames
  <2>. QED
    BY <1>3, <2>2 DEF Forgotten, Frames
<1>9. /\ Plain!Top = Forgotten(Top) /\ Plain!Top.left = Top.left /\ Plain!Top.node = Top.node
      /\ Plain!Top.caller = Plainly(c) /\ Len(OuterStack) = n /\ OuterState.vars = s.vars
  BY PlainTop
<1>10. Plainly(c).data = c.data /\ Plainly(c).vars = c.vars
  BY <1>3, PlainlyIs
<1>. HIDE DEF vs, e
<1>11. Plainly(x) = [Plainly(s) EXCEPT !.panic = "none", !.vars = vs]
  <2>. DEFINE z == [s EXCEPT !.vars = vs]
              p == Plainly(s)
  <2>1. z \in State /\ x = [z EXCEPT !.panic = "none"]
    BY <1>3, <1>7 DEF State
  <2>2. Plainly(z) = [p EXCEPT !.vars = vs]
    BY <1>3, <1>7, PlainlySetVars
  <2>3. Plainly([z EXCEPT !.panic = "none"]) = [Plainly(z) EXCEPT !.panic = "none"]
    <3>. HIDE DEF z
    <3>. QED
      BY <2>1, PlainlyPanic
  <2>4. p \in State
    BY <1>3, PlainlyIs
  <2>. HIDE DEF z, p
  <2>5. [[p EXCEPT !.vars = vs] EXCEPT !.panic = "none"] = [p EXCEPT !.panic = "none", !.vars = vs]
    BY <2>4 DEF State
  <2>. QED
    BY <2>1, <2>2, <2>3, <2>5 DEF p
<1>12. OuterState' = [OuterState EXCEPT !.panic = "none",
                        !.vars = Append(SubSeq(@, 1, Len(Plain!Top.caller.vars)),
                                        Plain!Element(Plain!Top.caller.data[Plain!Top.node.path], Plain!Top.left - 1))]
  <2>1. OuterState' = [OuterState EXCEPT !.panic = "none", !.vars = vs]
    BY <1>6, <1>11 DEF Seen, SeenNext
  <2>2. Plain!Element(Plain!Top.caller.data[Plain!Top.node.path], Plain!Top.left - 1) = e
    BY <1>9, <1>10 DEF e, Plain!Element, Element, Plain!Unknown, Unknown
  <2>3. vs = Append(SubSeq(OuterState.vars, 1, Len(Plain!Top.caller.vars)), e)
    BY <1>9, <1>10 DEF vs
  <2>. QED
    BY <2>1, <2>2, <2>3
<1>13. OuterStack' = [OuterStack EXCEPT ![Len(OuterStack)].i = 1, ![Len(OuterStack)].left = @ - 1]
  <2>. HIDE DEF f, fewer
  <2>1. Forget([stack EXCEPT ![n] = f]) = [Forget(stack) EXCEPT ![n] = Forgotten(f)]
    BY <1>2, <1>8, ForgetExcept
  <2>2. OuterStack' = [OuterStack EXCEPT ![n] = [Plain!Top EXCEPT !.i = 1, !.left = fewer]]
    BY <1>2, <1>6, <1>8, <1>9, <2>1 DEF SeenNext
  <2>3. n \in DOMAIN OuterStack /\ OuterStack[n] = Plain!Top /\ Plain!Top \in Frames
    <3>1. n \in 1..n
      BY <1>2, StackOf
    <3>2. DOMAIN OuterStack = 1..n
      BY <1>2 DEF Forget
    <3>3. Forgotten(Top) \in Frames
      BY <1>3, ForgottenIs
    <3>. QED
      BY <1>9, <3>1, <3>2, <3>3 DEF Plain!Top
  <2>4. fewer = Plain!Top.left - 1
    BY <1>9 DEF fewer
  <2>. QED
    BY <1>9, <2>2, <2>3, <2>4 DEF Frames
<1>14. Plain!Iterated /\ Plain!Top.left > 1 /\ Plain!Still
  BY <1>1, <1>9, PlainIterated, PlainStill
<1>. QED
  BY <1>12, <1>13, <1>14 DEF Plain!EndIteration

LEMMA PlainEndTemplate ==
  ASSUME Seen, SeenNext, EndTemplate
  PROVE  Plain!EndTemplate
<1>1. AtEnd({"template"}) /\ Top.kind = "template" /\ s' = LeaveTemplate(s, Top.caller) /\ stack' = Return /\ Still
  BY DEF EndTemplate, AtEnd
<1>2. s \in State /\ Top.caller \in State
  BY TopRuns DEF Seen
<1>3. Plainly(s') = LeaveTemplate(Plainly(s), Plainly(Top.caller))
  BY <1>1, <1>2, PlainlyLeaveTemplate
<1>4. Plain!Top.caller = Plainly(Top.caller)
  BY PlainTop
<1>5. OuterState' = Plain!LeaveTemplate(OuterState, Plain!Top.caller)
  BY <1>3, <1>4, PlainOps DEF Seen, SeenNext
<1>6. OuterStack' = Plain!Return
  BY <1>1, PlainReturn DEF SeenNext
<1>7. Plain!AtEnd({"template"}) /\ Plain!Still
  BY <1>1, PlainAt, PlainStill
<1>. QED
  BY <1>5, <1>6, <1>7 DEF Plain!EndTemplate

LEMMA PlainEndInclude ==
  ASSUME Seen, SeenNext, EndInclude
  PROVE  Plain!EndInclude
<1>. DEFINE x == LeaveInclude(s, Top)
<1>1. /\ AtEnd({"include"}) /\ Top.kind = "include" /\ s' = Emit(x, Top.node, s.out)
      /\ stack' = Return /\ Still
  BY DEF EndInclude, AtEnd
<1>2. x \in State /\ Plainly(x) = LeaveInclude(Plainly(s), Forgotten(Top))
  BY <1>1, LeaveIncludeState, PlainlyLeaveInclude DEF Seen
<1>. HIDE DEF x
<1>3. Top.node \in AllNodes
  BY <1>1, Beneath DEF Seen
<1>4. Top.node.at \in STRING /\ s.out \in Seq(Bytes)
  BY <1>3, Parsed, TopRuns, Fields DEF Seen
<1>5. Plainly(s') = Emit(Plainly(x), Top.node, s.out)
  BY <1>1, <1>2, <1>4, PlainlyEmit
<1>6. Plain!Top = Forgotten(Top) /\ Plain!Top.node = Top.node /\ OuterState.out = s.out
  BY PlainTop
<1>7. OuterState' = Plain!Emit(Plain!LeaveInclude(OuterState, Plain!Top), Plain!Top.node, OuterState.out)
  <2>1. Plain!LeaveInclude(OuterState, Plain!Top) = Plainly(x)
    BY <1>2, <1>6, PlainOps DEF Seen
  <2>2. Plain!Emit(Plainly(x), Top.node, s.out) = Emit(Plainly(x), Top.node, s.out)
    BY PlainOps
  <2>. QED
    BY <1>5, <1>6, <2>1, <2>2 DEF SeenNext
<1>8. OuterStack' = Plain!Return
  BY <1>1, PlainReturn DEF SeenNext
<1>9. Plain!AtEnd({"include"}) /\ Plain!Still
  BY <1>1, PlainAt, PlainStill
<1>. QED
  BY <1>7, <1>8, <1>9 DEF Plain!EndInclude

LEMMA PlainHole ==
  ASSUME Seen, SeenNext, Where(stack, s), Hole
  PROVE  Plain!Hole
<1>1. /\ Panicking({"error"}) /\ IsHole /\ s.panic = "error" /\ s' = HoleNoted(s, Node.at)
      /\ stack' = Advance(stack) /\ Still
  BY DEF Hole, IsHole, HoleNoted
<1>2. Good(stack, s) /\ s \in State /\ s.guards = <<>> /\ stack \in Seq(Frames) /\ stack # <<>>
  BY DEF Seen, Good
<1>3. Node.at \in STRING
  BY <1>1, <1>2, PanicAt, Parsed
<1>4. Plainly(s') = HoleNoted(Plainly(s), Node.at)
  BY <1>1, <1>2, <1>3, PlainlyHole
<1>5. Plain!Node = Node
  BY PlainTop
<1>6. OuterState' = [OuterState EXCEPT !.panic = "none", !.out = Append(@, "error"),
                      !.explored = Append(@, [guard |-> <<Plain!Node.at, "symbolic">>, text |-> <<>>,
                                              hole |-> TRUE])]
  BY <1>4, <1>5 DEF Seen, SeenNext, HoleNoted
<1>7. OuterStack' = Plain!Advance(OuterStack)
  BY <1>1, <1>2, PlainAdvance DEF Seen, SeenNext
<1>8. Plain!Panicking({"error"}) /\ Plain!IsHole /\ Plain!Still
  BY <1>1, PlainAt, PlainIsHole, PlainStill
<1>. QED
  BY <1>6, <1>7, <1>8 DEF Plain!Hole

LEMMA PlainUnwind ==
  ASSUME Seen, SeenNext, Unwind
  PROVE  Plain!Unwind
<1>. DEFINE c == Top.caller
            mark == Len(c.vars)
<1>1. /\ \/ Panicking({"error"}) /\ Top.kind \in {"if", "range", "empty", "template", "include"}
         \/ Panicking(Jumps) /\ Top.kind = "if"
         \/ Panicking({"continue"}) /\ Top.kind = "empty"
      /\ ~IsHole /\ Still
      /\ stack' = Pop
  BY DEF Unwind
<1>2. s' = CASE Top.kind = "template" -> LeaveTemplate(s, c)
             [] Top.kind = "include" -> LeaveInclude(s, Top)
             [] OTHER -> PopVars(s, mark)
  BY DEF Unwind
<1>3. Top.kind \in {"if", "range", "empty", "template", "include"}
  BY <1>1
<1>4. /\ Plain!Top = Forgotten(Top) /\ Plain!Top.kind = Top.kind /\ Plain!Top.caller = Plainly(c)
  BY PlainTop
<1>5. Good(stack, s) /\ OuterState = Plainly(s)
  BY DEF Seen
<1>6. s \in State /\ c \in State /\ Runs(Top, s) /\ mark \in Nat /\ 1 <= mark
  BY <1>5, TopRuns
<1>7. Plainly(c).vars = c.vars
  BY <1>6, PlainlyIs
<1>. HIDE DEF mark
<1>8. OuterState' = CASE Plain!Top.kind = "template" -> Plain!LeaveTemplate(OuterState, Plain!Top.caller)
                      [] Plain!Top.kind = "include" -> Plain!LeaveInclude(OuterState, Plain!Top)
                      [] OTHER -> Plain!PopVars(OuterState, Len(Plain!Top.caller.vars))
  <2>1. CASE Top.kind = "template"
    <3>1. s' = LeaveTemplate(s, c)
      BY <1>2, <2>1
    <3>2. Plainly(s') = LeaveTemplate(Plainly(s), Plainly(c))
      BY <1>6, <3>1, PlainlyLeaveTemplate
    <3>3. OuterState' = Plain!LeaveTemplate(OuterState, Plain!Top.caller)
      BY <1>4, <1>5, <3>2, PlainOps DEF SeenNext
    <3>. QED
      BY <1>4, <2>1, <3>3
  <2>2. CASE Top.kind = "include"
    <3>1. s' = LeaveInclude(s, Top)
      BY <1>2, <2>2
    <3>2. Plainly(s') = LeaveInclude(Plainly(s), Forgotten(Top))
      BY <1>5, <2>2, <3>1, PlainlyLeaveInclude
    <3>3. OuterState' = Plain!LeaveInclude(OuterState, Plain!Top)
      BY <1>4, <1>5, <3>2, PlainOps DEF SeenNext
    <3>. QED
      BY <1>4, <2>2, <3>3
  <2>3. CASE Top.kind \in {"if", "range", "empty"}
    <3>1. s' = PopVars(s, mark)
      BY <1>2, <2>3
    <3>2. mark <= Len(s.vars)
      BY <1>6, <2>3, LengthOfVars DEF Runs, mark
    <3>3. Plainly(s') = PopVars(Plainly(s), mark)
      BY <1>6, <3>1, <3>2, PlainlyPopVars
    <3>4. OuterState' = Plain!PopVars(OuterState, Len(Plain!Top.caller.vars))
      BY <1>4, <1>5, <1>7, <3>3, PlainOps DEF SeenNext, mark
    <3>. QED
      BY <1>4, <2>3, <3>4
  <2>. QED
    BY <1>3, <2>1, <2>2, <2>3
<1>9. OuterStack' = Plain!Pop
  BY <1>1, <1>3, PlainReturn DEF SeenNext
<1>10. /\ \/ Plain!Panicking({"error"}) /\ Plain!Top.kind \in {"if", "range", "empty", "template", "include"}
          \/ Plain!Panicking(Plain!Jumps) /\ Plain!Top.kind = "if"
          \/ Plain!Panicking({"continue"}) /\ Plain!Top.kind = "empty"
       /\ ~Plain!IsHole /\ Plain!Still
  <2>1. Plain!Jumps = Jumps
    BY DEF Plain!Jumps, Jumps
  <2>. QED
    BY <1>1, <1>4, <2>1, PlainAt, PlainIsHole, PlainStill
<1>. QED
  BY <1>8, <1>9, <1>10 DEF Plain!Unwind

(* Into an arm, or past it: both are a return from the list before it.       *)
LEMMA ExploreView ==
  ASSUME NEW c \in State, c.guards = <<>>, NEW n, NEW which, NEW pre, NEW w,
         Running', Good(Return, c), n \in AllNodes, n.arms[which] \in Seq(AllNodes),
         Explore(n, which, pre, w, c), Good(stack', s')
  PROVE  OuterState' = Plainly(c) /\ OuterStack' = Forget(Return)
<1>1. OuterState' = View(Running', stack', s') /\ OuterStack' = Beside(Running', stack', s')
  BY OuterIs
<1>2. Running' = TRUE
  OBVIOUS
<1>3. CASE ~Explores(n, which, w)
  <2>1. s' = c /\ stack' = Return
    BY <1>3 DEF Explore
  <2>2. View(TRUE, Return, c) = Plainly(c) /\ Beside(TRUE, Return, c) = Forget(Return)
    BY ViewOutside
  <2>. QED
    BY <1>1, <1>2, <2>1, <2>2
<1>4. CASE Explores(n, which, w)
  <2>. DEFINE list == n.arms[which]
              f == Frame("arm", n, list, 0, c)
              o == Len(Return) + 1
              st == Append(Return, f)
  <2>1. s' = EnterArm(<<n.at, which>>, pre, w) /\ stack' = st
    BY <1>4 DEF Explore
  <2>2. f \in Frames /\ f.kind = "arm" /\ f.caller = c
    <3>1. list \in Seq(AllNodes)
      OBVIOUS
    <3>. HIDE DEF list
    <3>. QED
      BY <3>1, FrameIs DEF Kinds
  <2>. HIDE DEF f
  <2>3. Return \in Seq(Frames)
    BY DEF Good
  <2>4. /\ st \in Seq(Frames) /\ o \in DOMAIN st /\ st[o] = f
        /\ \A j \in 1..(o - 1) : st[j] = Return[j]
        /\ o - 1 = Len(Return)
    BY <2>2, <2>3
  <2>. HIDE DEF o, st
  <2>5. Entered(st, o)
    BY <2>2, <2>4 DEF Entered
  <2>6. s'.guards # <<>>
    <3>1. \A j \in DOMAIN st : st[j].kind = "arm" => s'.guards # <<>>
      BY <2>1 DEF Good, Inside
    <3>. QED
      BY <2>2, <2>4, <3>1
  <2>7. /\ View(TRUE, st, s') = Plainly(st[o].caller)
        /\ Beside(TRUE, st, s') = [j \in 1..(o - 1) |-> Forgotten(st[j])]
    BY <2>1, <2>4, <2>5, <2>6, ViewInside
  <2>8. [j \in 1..(o - 1) |-> Forgotten(st[j])] = Forget(Return)
    BY <2>4 DEF Forget
  <2>. QED
    BY <1>1, <1>2, <2>1, <2>2, <2>4, <2>7, <2>8
<1>. QED
  BY <1>3, <1>4

LEMMA PlainExplores ==
  ASSUME NEW n, NEW which, NEW w, w.guards = <<>>
  PROVE  ~Plain!Explores(n, which, w)
<1>1. ~(Len(w.guards) < 0)
  OBVIOUS
<1>. QED
  BY <1>1 DEF Plain!Explores

LEMMA PlainExplore ==
  ASSUME Seen, Top.kind # "main", NEW n, NEW which, NEW pre, NEW w, w.guards = <<>>, NEW c,
         OuterState' = c, OuterStack' = Forget(Return)
  PROVE  Plain!Explore(n, which, pre, w, c)
<1>1. ~Plain!Explores(n, which, w)
  BY PlainExplores
<1>2. OuterStack' = Plain!Return
  BY PlainReturn
<1>. QED
  BY <1>1, <1>2 DEF Plain!Explore

LEMMA PlainEndIf ==
  ASSUME Seen, Running', Good(stack', s'), EndIf
  PROVE  Plain!EndIf
<1>. DEFINE b == Top.caller
            mark == Len(b.vars)
            c == PopVars(s, mark)
            which == Other(Taken(Top.node, b))
<1>1. /\ AtEnd({"if"}) /\ Top.kind = "if" /\ s.panic = "none" /\ Still
      /\ Explore(Top.node, which, <<>>, s, c)
  BY DEF EndIf, AtEnd
<1>2. Good(stack, s) /\ OuterState = Plainly(s) /\ s.guards = <<>>
  BY DEF Seen
<1>3. /\ s \in State /\ b \in State /\ FrameOK(Top) /\ Runs(Top, s) /\ mark \in Nat /\ 1 <= mark
  BY <1>2, TopRuns
<1>4. /\ c \in State /\ Context(c) = Context(s) /\ Context(c) = Context(b)
      /\ Noted(c) = Noted(s) /\ c.out = s.out /\ Len(c.vars) >= Len(b.vars)
      /\ Top.node \in AllNodes
  BY <1>1, <1>2, DropGood
<1>5. Plainly(b).vars = b.vars /\ Plainly(b).data = b.data
  BY <1>3, PlainlyIs
<1>6. Plainly(c) = PopVars(Plainly(s), mark)
  <2>1. mark <= Len(s.vars)
    BY <1>1, <1>3, LengthOfVars DEF Runs
  <2>. HIDE DEF mark
  <2>. QED
    BY <1>3, <2>1, PlainlyPopVars
<1>7. Top.node.kind = "if"
  BY <1>1, <1>3 DEF FrameOK
<1>. HIDE DEF c
<1>8. Good(Return, c)
  BY <1>1, <1>2, <1>4, GoodReturn
<1>9. c.guards = <<>>
  BY <1>2, <1>4, ContextIs
<1>10. Top.node.arms[which] \in Seq(AllNodes)
  <2>1. Top.node.arms["then"] \in Seq(AllNodes) /\ Top.node.arms["else"] \in Seq(AllNodes)
    BY <1>4, <1>7, Parsed
  <2>2. which \in {"then", "else"}
    BY DEF Other, Taken
  <2>. QED
    BY <2>1, <2>2
<1>. HIDE DEF which
<1>11. OuterState' = Plainly(c) /\ OuterStack' = Forget(Return)
  BY <1>1, <1>4, <1>8, <1>9, <1>10, ExploreView
<1>12. Plain!Explore(Top.node, which, <<>>, OuterState, Plainly(c))
  <2>1. OuterState.guards = <<>>
    BY <1>2, PlainTop
  <2>. QED
    BY <1>1, <1>11, <2>1, PlainExplore
<1>13. Plain!Top.node = Top.node /\ Plain!Top.caller = Plainly(b)
  BY PlainTop
<1>14. Plain!PopVars(OuterState, Len(Plain!Top.caller.vars)) = Plainly(c)
  BY <1>2, <1>5, <1>6, <1>13, PlainOps
<1>15. Plain!Other(Plain!Taken(Plain!Top.node, Plain!Top.caller)) = which
  BY <1>5, <1>13 DEF Plain!Other, Plain!Taken, Other, Taken, Plain!Absent, Absent, which
<1>16. Plain!AtEnd({"if"}) /\ Plain!Still
  BY <1>1, PlainAt, PlainStill
<1>. QED
  BY <1>12, <1>13, <1>14, <1>15, <1>16 DEF Plain!EndIf

LEMMA PlainEndRange ==
  ASSUME Seen, Running', Good(stack', s'), EndRange
  PROVE  Plain!EndRange
<1>. DEFINE b == Top.caller
            mark == Len(b.vars)
            p == PopVars(s, mark)
            w == [p EXCEPT !.panic = "none"]
            ran == Top.kind = "range"
            taken == IF ran THEN "body" ELSE "empty"
            c == Arm(w, Top.node, taken)
<1>1. /\ \/ Iterated /\ Top.left = 1
         \/ AtEnd({"empty"})
         \/ Panicking({"break"}) /\ Top.kind \in {"range", "empty"}
      /\ Still
      /\ ExploreRange(Top.node, c, ran)
      /\ Top.kind \in {"range", "empty"}
  BY DEF EndRange, AtEnd, Iterated
<1>2. Good(stack, s) /\ OuterState = Plainly(s) /\ s.guards = <<>>
  BY DEF Seen
<1>3. /\ s \in State /\ b \in State /\ FrameOK(Top) /\ Runs(Top, s) /\ mark \in Nat /\ 1 <= mark
  BY <1>2, TopRuns
<1>4. /\ p \in State /\ Context(p) = Context(s) /\ Context(p) = Context(b)
      /\ Noted(p) = Noted(s) /\ p.out = s.out
      /\ Len(p.vars) >= Len(b.vars)
      /\ Top.node \in AllNodes
  BY <1>1, <1>2, DropGood
<1>5. Plainly(b).vars = b.vars
  BY <1>3, PlainlyIs
<1>6. Plainly(p) = PopVars(Plainly(s), mark)
  <2>1. mark <= Len(s.vars)
    BY <1>1, <1>3, LengthOfVars DEF Runs
  <2>. HIDE DEF mark
  <2>. QED
    BY <1>3, <2>1, PlainlyPopVars
<1>. HIDE DEF p
<1>7. /\ w \in State /\ w.panic = "none" /\ w.vars = p.vars /\ Context(w) = Context(p)
      /\ Noted(w) = Noted(p) /\ w.out = p.out
  BY <1>4, CalmState
<1>8. Plainly(w) = [Plainly(p) EXCEPT !.panic = "none"]
  BY <1>4, PlainlyPanic
<1>. HIDE DEF w
<1>9. Good(Return, w)
  BY <1>1, <1>2, <1>4, <1>7, GoodReturn
<1>10. w.guards = <<>>
  <2>1. Context(w) = Context(s)
    BY <1>4, <1>7
  <2>. QED
    BY <1>2, <2>1, ContextIs
<1>11. Top.node.kind = "range"
  BY <1>1, <1>3 DEF FrameOK
<1>12. /\ Top.node.at \in STRING
       /\ Top.node.arms["body"] \in Seq(AllNodes) /\ Top.node.arms["else"] \in Seq(AllNodes)
  BY <1>4, <1>11, Parsed
<1>13. taken \in TakenArms
  BY DEF TakenArms
<1>14. Plainly(c) = Arm(Plainly(w), Top.node, taken)
  <2>. HIDE DEF taken
  <2>. QED
    BY <1>7, <1>10, <1>12, <1>13, PlainlyArm
<1>15. Continues(w, c)
  <2>. HIDE DEF taken
  <2>. QED
    BY <1>7, <1>12, <1>13, ArmContinues
<1>16. c \in State /\ c.guards = <<>>
  <2>. HIDE DEF c
  <2>. QED
    BY <1>10, <1>15, ContextIs DEF Continues
<1>. HIDE DEF c
<1>17. Good(Return, c)
  BY <1>9, <1>15, GoodContinues
<1>18. ASSUME NEW which \in {"body", "else"}, NEW pre, Explore(Top.node, which, pre, c, c)
       PROVE  Plain!Explore(Top.node, which, pre, Plainly(c), Plainly(c))
  <2>1. Top.node.arms[which] \in Seq(AllNodes)
    BY <1>12
  <2>2. OuterState' = Plainly(c) /\ OuterStack' = Forget(Return)
    BY <1>4, <1>16, <1>17, <1>18, <2>1, ExploreView
  <2>3. Plainly(c).guards = <<>>
    BY <1>16, PlainlyIs
  <2>. QED
    BY <1>1, <2>2, <2>3, PlainExplore
<1>19. Plain!ExploreRange(Top.node, Plainly(c), ran)
  <2>1. CASE ran
    <3>1. Explore(Top.node, "else", <<>>, c, c)
      BY <1>1, <2>1 DEF ExploreRange
    <3>2. Plain!Explore(Top.node, "else", <<>>, Plainly(c), Plainly(c))
      BY <1>18, <3>1
    <3>. QED
      BY <2>1, <3>2 DEF Plain!ExploreRange
  <2>2. CASE ~ran
    <3>1. Explore(Top.node, "body", <<Absent>>, c, c)
      BY <1>1, <2>2 DEF ExploreRange
    <3>2. Plain!Explore(Top.node, "body", <<Absent>>, Plainly(c), Plainly(c))
      BY <1>18, <3>1
    <3>. QED
      BY <2>2, <3>2 DEF Plain!ExploreRange, Plain!Absent, Absent
  <2>. QED
    BY <2>1, <2>2
<1>20. /\ Plain!Top.node = Top.node /\ Plain!Top.caller = Plainly(b) /\ Plain!Top.kind = Top.kind
       /\ Plain!Top.left = Top.left
  BY PlainTop
<1>21. Plainly(w) = [Plain!PopVars(OuterState, Len(Plain!Top.caller.vars)) EXCEPT !.panic = "none"]
  BY <1>2, <1>5, <1>6, <1>8, <1>20, PlainOps
<1>22. Plainly(c) = Plain!Arm(Plainly(w), Plain!Top.node, IF Plain!Top.kind = "range" THEN "body" ELSE "empty")
  BY <1>14, <1>20, PlainOps
<1>23. /\ \/ Plain!Iterated /\ Plain!Top.left = 1
          \/ Plain!AtEnd({"empty"})
          \/ Plain!Panicking({"break"}) /\ Plain!Top.kind \in {"range", "empty"}
       /\ Plain!Still
  BY <1>1, <1>20, PlainIterated, PlainAt, PlainStill
<1>. QED
  BY <1>19, <1>20, <1>21, <1>22, <1>23 DEF Plain!EndRange

(***************************************************************************)
(* A render starts and ends outside of arms.                               *)
(***************************************************************************)
LEMMA PlainlyNothing ==
  PlainReads(<<>>) = <<>> /\ PlainArms(<<>>) = <<>> /\ PlainExplored(<<>>) = <<>>
<1>1. ASSUME NEW I, I = {}  PROVE Pick(<<>>, I) = <<>>
  <2>1. Cardinality(I) = 0
    BY <1>1, FS_EmptySet
  <2>. QED
    BY <2>1 DEF Pick
<1>2. DOMAIN <<>> = {}
  OBVIOUS
<1>. QED
  BY <1>1, <1>2 DEF PlainReads, PlainArms, PlainExplored

LEMMA PlainStart ==
  ASSUME IInv, IInv', RenderFirst \/ RenderAgain
  PROVE  Plain!RenderFirst \/ Plain!RenderAgain
<1>. DEFINE data == IF Symbolic THEN [p \in Paths |-> Unknown] ELSE chart.data
            w == Execution(chart.templates, data)
            list == chart.templates["main"]
            f == Frame("main", File, list, 0, w)
<1>1. /\ s' = w /\ stack' = <<f>> /\ chart' = chart /\ first' = first /\ second' = second
      /\ \/ phase = "start" /\ phase' = "first"
         \/ phase = "again" /\ phase' = "second"
  BY DEF RenderFirst, RenderAgain, Start
<1>2. w \in State
  BY <1>1 DEF IInv, Renders
<1>3. w.guards = <<>> /\ w.reads = <<>> /\ w.arms = <<>> /\ w.explored = <<>>
  BY DEF Execution
<1>4. Plainly(w) = w
  <2>. DEFINE p == Plainly(w)
  <2>. HIDE DEF w
  <2>1. /\ p \in State /\ p.out = w.out /\ p.counting = w.counting /\ p.vars = w.vars
        /\ p.depth = w.depth /\ p.calls = w.calls /\ p.data = w.data /\ p.panic = w.panic
        /\ p.spans = w.spans /\ p.guards = w.guards
        /\ p.reads = w.reads /\ p.arms = w.arms /\ p.explored = w.explored
    BY <1>2, <1>3, PlainlyIs, PlainlyNothing
  <2>. HIDE DEF p
  <2>2. p = w
    BY <1>2, <2>1, SameState
  <2>. QED
    BY <2>2 DEF p
<1>5. OuterState' = Plainly(s') /\ OuterStack' = Forget(stack')
  BY <1>1, <1>2, <1>3, OuterIs, ViewOutside
<1>6. Forgotten(f) = f
  BY <1>4, ForgottenFrame
<1>7. Forget(<<f>>) = <<f>>
  <2>. HIDE DEF f
  <2>1. Len(<<f>>) = 1 /\ <<f>>[1] = f /\ <<f>> = [j \in 1..1 |-> f]
    OBVIOUS
  <2>. QED
    BY <1>6, <2>1 DEF Forget
<1>8. OuterState' = w /\ OuterStack' = <<f>>
  BY <1>1, <1>4, <1>5, <1>7
<1>9. /\ w = Plain!Execution(chart.templates, IF Plain!Symbolic THEN [p \in Paths |-> Plain!Unknown] ELSE chart.data)
      /\ f = Plain!Frame("main", Plain!File, chart.templates["main"], 0, w)
  <2>1. data = IF Plain!Symbolic THEN [p \in Paths |-> Plain!Unknown] ELSE chart.data
    BY DEF Plain!Symbolic, Symbolic, Plain!Unknown, Unknown
  <2>. HIDE DEF data
  <2>2. w = Plain!Execution(chart.templates, data)
    BY DEF Plain!Execution, Execution, Plain!Absent, Absent
  <2>. HIDE DEF w
  <2>3. f = Plain!Frame("main", Plain!File, chart.templates["main"], 0, w)
    BY DEF Plain!Frame, Frame, Plain!File, File
  <2>. QED
    BY <2>1, <2>2, <2>3
<1>. HIDE DEF w, f
<1>10. Plain!Start
  BY <1>1, <1>8, <1>9 DEF Plain!Start, PlainResult
<1>. QED
  BY <1>1, <1>10 DEF Plain!RenderFirst, Plain!RenderAgain

LEMMA SeenOutside ==
  ASSUME IInv, Running, s.guards = <<>>
  PROVE  Seen
<1>1. Good(stack, s) /\ s \in State
  BY DEF IInv, Good
<1>. QED
  BY <1>1, OuterIs, ViewOutside DEF Seen

LEMMA PlainEndRender ==
  ASSUME IInv, EndRender
  PROVE  Plain!EndRender
<1>1. Running /\ s \in State /\ s.guards = <<>>
  BY EndRenderRendered DEF Rendered, AsBegun
<1>2. Seen
  BY <1>1, SeenOutside
<1>3. /\ \/ AtEnd({"main"})
         \/ Panicking({"error"}) /\ Top.kind = "main" /\ ~IsHole
      /\ first' = IF phase = "first" THEN s ELSE first
      /\ second' = IF phase = "second" THEN s ELSE second
      /\ phase' = IF s.panic # "none" THEN "failed"
                  ELSE IF phase = "first" /\ chart.flag = "branches" THEN "again" ELSE "done"
      /\ stack' = <<>> /\ chart' = chart /\ s' = s
  BY DEF EndRender
<1>4. \/ Plain!AtEnd({"main"})
      \/ Plain!Panicking({"error"}) /\ Plain!Top.kind = "main" /\ ~Plain!IsHole
  BY <1>2, <1>3, PlainTop, PlainAt, PlainIsHole
<1>5. OuterState = Plainly(s) /\ OuterState' = Plainly(s) /\ OuterStack' = Forget(<<>>)
  BY <1>1, <1>2, <1>3, OuterIs, ViewOutside DEF Seen
<1>6. Forget(<<>>) = <<>>
  BY DEF Forget
<1>7. /\ PlainResult(first') = IF phase = "first" THEN OuterState ELSE PlainResult(first)
      /\ PlainResult(second') = IF phase = "second" THEN OuterState ELSE PlainResult(second)
  <2>1. PlainResult(s) = OuterState
    BY <1>1, <1>5, NotRendered DEF PlainResult
  <2>. QED
    BY <1>3, <2>1
<1>8. OuterState.panic = s.panic
  BY <1>2, PlainTop
<1>. QED
  BY <1>3, <1>4, <1>5, <1>6, <1>7, <1>8 DEF Plain!EndRender

(***************************************************************************)
(* In an arm: it stays under way, and what is seen is what is under it.    *)
(***************************************************************************)
Stays(st, so, o) ==
    /\ o \in DOMAIN so /\ so[o].kind = st[o].kind /\ so[o].caller = st[o].caller
    /\ \A j \in 1..(o - 1) : so[j] = st[j]

LEMMA StaysTransitive ==
  ASSUME NEW st, NEW so, NEW sp, NEW o, Stays(st, so, o), Stays(so, sp, o)
  PROVE  Stays(st, sp, o)
BY DEF Stays

LEMMA StaysExcept ==
  ASSUME NEW st \in Seq(Frames), st # <<>>, NEW o \in DOMAIN st, NEW f \in Frames,
         f.kind = st[Len(st)].kind, f.caller = st[Len(st)].caller
  PROVE  Stays(st, [st EXCEPT ![Len(st)] = f], o)
<1>. DEFINE n == Len(st)
            so == [st EXCEPT ![n] = f]
<1>1. n \in Nat /\ n \in 1..n /\ DOMAIN st = 1..n /\ o \in 1..n
  BY StackOf
<1>2. so \in Seq(Frames) /\ Len(so) = n /\ \A j \in 1..n : so[j] = IF j = n THEN f ELSE st[j]
  BY <1>1, ExceptSeq
<1>3. o \in DOMAIN so
  <2>1. DOMAIN so = DOMAIN st
    OBVIOUS
  <2>. QED
    BY <2>1
<1>. HIDE DEF so
<1>4. \A j \in 1..(o - 1) : j \in 1..n /\ j # n
  <2>1. ASSUME NEW m \in Nat, NEW k \in 1..m
        PROVE  \A j \in 1..(k - 1) : j \in 1..m /\ j # m
    OBVIOUS
  <2>. HIDE DEF n
  <2>. QED
    BY <1>1, <2>1
<1>. QED
  BY <1>1, <1>2, <1>3, <1>4 DEF Stays, so

LEMMA StaysAdvance ==
  ASSUME NEW st \in Seq(Frames), st # <<>>, NEW o \in DOMAIN st
  PROVE  Stays(st, Advance(st), o)
<1>. DEFINE n == Len(st)
            f == [st[n] EXCEPT !.i = @ + 1]
<1>1. n \in DOMAIN st /\ st[n] \in Frames /\ n \in 1..n
  BY StackOf
<1>2. f \in Frames /\ f.kind = st[n].kind /\ f.caller = st[n].caller
  <2>1. st[n].i + 1 \in Nat \ {0}
    BY <1>1, FrameFields
  <2>. QED
    BY <1>1, <2>1 DEF Frames
<1>3. Advance(st) = [st EXCEPT ![n] = f]
  BY <1>1 DEF Advance
<1>. HIDE DEF f
<1>. QED
  BY <1>2, <1>3, StaysExcept

LEMMA StaysAppend ==
  ASSUME NEW st \in Seq(Frames), NEW o \in DOMAIN st, NEW f
  PROVE  Stays(st, Append(st, f), o)
<1>. DEFINE n == Len(st)
            so == Append(st, f)
<1>1. n \in Nat /\ DOMAIN st = 1..n /\ o \in 1..n
  OBVIOUS
<1>2. DOMAIN so = 1..(n + 1) /\ \A j \in 1..n : so[j] = st[j]
  OBVIOUS
<1>3. o \in 1..(n + 1) /\ \A j \in 1..(o - 1) : j \in 1..n
  BY <1>1
<1>. HIDE DEF so
<1>. QED
  BY <1>1, <1>2, <1>3 DEF Stays, so

LEMMA StaysPopped ==
  ASSUME NEW st \in Seq(Frames), NEW o \in DOMAIN st, o # Len(st)
  PROVE  /\ Stays(st, Popped(st), o)
         /\ Popped(st) \in Seq(Frames) /\ Popped(st) # <<>> /\ o \in DOMAIN Popped(st)
<1>. DEFINE n == Len(st)
            so == Popped(st)
<1>1. n \in Nat /\ DOMAIN st = 1..n /\ o \in 1..n /\ o # n
  OBVIOUS
<1>2. n > 1 /\ o \in 1..(n - 1) /\ \A j \in 1..(o - 1) : j \in 1..(n - 1)
  BY <1>1
<1>3. so \in Seq(Frames) /\ Len(so) = n - 1 /\ \A j \in 1..(n - 1) : so[j] = st[j]
  BY <1>2, PoppedIs
<1>. HIDE DEF so
<1>4. DOMAIN so = 1..(n - 1)
  BY <1>3
<1>5. o \in DOMAIN so /\ so # <<>>
  BY <1>2, <1>4
<1>6. Stays(st, so, o)
  BY <1>2, <1>3, <1>5 DEF Stays
<1>. QED
  BY <1>3, <1>5, <1>6 DEF so

LEMMA StaysReturn ==
  ASSUME Good(stack, s), NEW o \in DOMAIN stack, stack[o].kind = "arm", Top.kind # "arm"
  PROVE  Stays(stack, Pop, o) /\ Stays(stack, Return, o) /\ Return \in Seq(Frames) /\ o \in DOMAIN Return
<1>1. stack \in Seq(Frames) /\ o # Len(stack)
  BY DEF Good, Top
<1>2. /\ Stays(stack, Popped(stack), o)
      /\ Popped(stack) \in Seq(Frames) /\ Popped(stack) # <<>> /\ o \in DOMAIN Popped(stack)
  BY <1>1, StaysPopped
<1>3. Pop = Popped(stack) /\ Return = Advance(Popped(stack))
  BY DEF Pop, Popped, Return
<1>4. Stays(Popped(stack), Advance(Popped(stack)), o)
  BY <1>2, StaysAdvance
<1>5. Stays(stack, Return, o)
  BY <1>2, <1>3, <1>4, StaysTransitive
<1>6. Return \in Seq(Frames)
  <2>. DEFINE so == Popped(stack)
              n == Len(so)
              f == [so[n] EXCEPT !.i = @ + 1]
  <2>1. n \in DOMAIN so /\ so[n] \in Frames /\ n \in 1..n
    BY <1>2, StackOf
  <2>2. so[n].i + 1 \in Nat \ {0}
    BY <2>1, FrameFields
  <2>3. f \in Frames
    BY <2>1, <2>2 DEF Frames
  <2>4. Advance(so) = [so EXCEPT ![n] = f]
    BY <2>1 DEF Advance
  <2>. HIDE DEF f, so
  <2>5. [so EXCEPT ![n] = f] \in Seq(Frames)
    BY <1>2, <2>1, <2>3, ExceptSeq DEF so
  <2>. QED
    BY <1>3, <2>4, <2>5 DEF so
<1>. QED
  BY <1>2, <1>3, <1>5, <1>6 DEF Stays

(* The steps that neither enter an arm nor leave one.                        *)
Straight == \/ Walk \/ EndIteration \/ EndTemplate \/ EndInclude \/ Hole \/ Unwind

LEMMA StraightGuards ==
  ASSUME Good(stack, s), Straight
  PROVE  s'.guards = s.guards
<1>1. s \in State
  BY DEF Good
<1>2. CASE WalkText
  BY <1>1, <1>2 DEF WalkText, Emit, State
<1>3. CASE WalkJump
  BY <1>1, <1>3 DEF WalkJump, State
<1>4. CASE WalkAction
  <2>1. Node \in AllNodes /\ Node.kind \in Writers /\ s' = Action(Node, s)
    BY <1>4, AtNodeIs DEF WalkAction
  <2>2. Context(s') = Context(s)
    BY <1>1, <2>1, ActionContinues DEF Continues
  <2>. QED
    BY <2>2, ContextIs
<1>5. CASE WalkIf
  <2>1. s' = Arm(RecordRead(s, Node), Node, Report(Node, s))
    BY <1>5 DEF WalkIf
  <2>. DEFINE r == RecordRead(s, Node)
  <2>2. Node \in AllNodes /\ Node.kind = "if"
    BY <1>5, AtNodeIs DEF WalkIf
  <2>3. Node.at \in STRING /\ Node.path \in Paths
    BY <2>2, Parsed
  <2>4. r \in State /\ Context(r) = Context(s)
    BY <1>1, <2>3, RecordReadState
  <2>. HIDE DEF r
  <2>5. r.guards = s.guards
    BY <2>4, ContextIs
  <2>6. s'.guards = r.guards
    BY <2>1, <2>4 DEF Arm, State, r
  <2>. QED
    BY <2>5, <2>6
<1>6. CASE WalkRange
  <2>. DEFINE r == RecordRead(s, Node)
              v == s.data[Node.path]
              e == IF v = Absent THEN v ELSE Element(v, IF v = Unknown THEN 1 ELSE v)
  <2>1. s' = [r EXCEPT !.vars = Append(@, e)]
    BY <1>6 DEF WalkRange
  <2>2. Node \in AllNodes /\ Node.kind = "range"
    BY <1>6, AtNodeIs DEF WalkRange
  <2>3. Node.at \in STRING /\ Node.path \in Paths
    BY <2>2, Parsed
  <2>4. r \in State /\ Context(r) = Context(s)
    BY <1>1, <2>3, RecordReadState
  <2>. HIDE DEF r, e
  <2>5. r.guards = s.guards
    BY <2>4, ContextIs
  <2>6. s'.guards = r.guards
    BY <2>1, <2>4 DEF State
  <2>. QED
    BY <2>5, <2>6
<1>7. CASE WalkTemplate
  BY <1>1, <1>7 DEF WalkTemplate, Fail, State
<1>8. CASE WalkInclude
  BY <1>1, <1>8 DEF WalkInclude, Fail, EnterInclude, State
<1>9. CASE EndIteration
  BY <1>1, <1>9 DEF EndIteration, State
<1>10. CASE EndTemplate
  BY <1>1, <1>10 DEF EndTemplate, LeaveTemplate, State
<1>11. CASE EndInclude
  BY <1>1, <1>11 DEF EndInclude, LeaveInclude, Emit, State
<1>12. CASE Hole
  BY <1>1, <1>12 DEF Hole, State
<1>13. CASE Unwind
  <2>1. \/ s' = LeaveTemplate(s, Top.caller)
        \/ s' = LeaveInclude(s, Top)
        \/ s' = PopVars(s, Len(Top.caller.vars))
    BY <1>13 DEF Unwind
  <2>. QED
    BY <1>1, <2>1 DEF LeaveTemplate, LeaveInclude, PopVars, State
<1>. QED
  BY <1>2, <1>3, <1>4, <1>5, <1>6, <1>7, <1>8, <1>9, <1>10, <1>11, <1>12, <1>13 DEF Straight, Walk

LEMMA PlainStraight ==
  ASSUME IInv, IInv', Running, s.guards = <<>>, Straight
  PROVE  Plain!Next
<1>1. Seen /\ Good(stack, s) /\ Where(stack, s) /\ chart.templates \in Templates
  BY SeenOutside DEF IInv, Renders
<1>2. Still /\ Running'
  BY DEF Straight, Walk, WalkText, WalkJump, WalkAction, WalkIf, WalkRange, WalkTemplate, WalkInclude,
         EndIteration, EndTemplate, EndInclude, Hole, Unwind, Still, Running
<1>3. s' \in State /\ s'.guards = <<>>
  <2>1. Good(stack, s)'
    BY <1>2 DEF IInv
  <2>2. s' \in State
    BY <2>1 DEF Good
  <2>. QED
    BY <1>1, <2>2, StraightGuards
<1>4. SeenNext
  BY <1>3, OuterIs, ViewOutside DEF SeenNext
<1>5. CASE WalkText
  BY <1>1, <1>4, <1>5, PlainWalkText DEF Plain!Next, Plain!Step, Plain!Walk
<1>6. CASE WalkJump
  BY <1>1, <1>4, <1>6, PlainWalkJump DEF Plain!Next, Plain!Step, Plain!Walk
<1>7. CASE WalkAction
  BY <1>1, <1>4, <1>7, PlainWalkAction DEF Plain!Next, Plain!Step, Plain!Walk
<1>8. CASE WalkIf
  BY <1>1, <1>4, <1>8, PlainWalkIf DEF Plain!Next, Plain!Step, Plain!Walk
<1>9. CASE WalkRange
  BY <1>1, <1>4, <1>9, PlainWalkRange DEF Plain!Next, Plain!Step, Plain!Walk
<1>10. CASE WalkTemplate
  BY <1>1, <1>4, <1>10, PlainWalkTemplate DEF Plain!Next, Plain!Step, Plain!Walk
<1>11. CASE WalkInclude
  BY <1>1, <1>4, <1>11, PlainWalkInclude DEF Plain!Next, Plain!Step, Plain!Walk
<1>12. CASE EndIteration
  BY <1>1, <1>4, <1>12, PlainEndIteration DEF Plain!Next, Plain!Step, Plain!Leave
<1>13. CASE EndTemplate
  BY <1>1, <1>4, <1>13, PlainEndTemplate DEF Plain!Next, Plain!Step, Plain!Leave
<1>14. CASE EndInclude
  BY <1>1, <1>4, <1>14, PlainEndInclude DEF Plain!Next, Plain!Step, Plain!Leave
<1>15. CASE Hole
  BY <1>1, <1>4, <1>15, PlainHole DEF Plain!Next, Plain!Step, Plain!Leave
<1>16. CASE Unwind
  BY <1>1, <1>4, <1>16, PlainUnwind DEF Plain!Next, Plain!Step, Plain!Leave
<1>. QED
  BY <1>5, <1>6, <1>7, <1>8, <1>9, <1>10, <1>11, <1>12, <1>13, <1>14, <1>15, <1>16 DEF Straight, Walk

(* Outside of arms. No arm ends there.                                       *)
LEMMA PlainOutside ==
  ASSUME IInv, IInv', Running, s.guards = <<>>, Walk \/ Leave
  PROVE  Plain!Next
<1>1. Seen /\ Good(stack, s)
  BY SeenOutside DEF IInv
<1>2. CASE Straight
  BY <1>2, PlainStraight
<1>3. ASSUME EndIf \/ EndRange  PROVE Running' /\ Good(stack', s')
  <2>1. Running'
    BY <1>3 DEF EndIf, EndRange, Still, Running
  <2>2. Good(stack, s)'
    BY <2>1 DEF IInv
  <2>. QED
    BY <2>1, <2>2
<1>4. CASE EndIf
  BY <1>1, <1>3, <1>4, PlainEndIf DEF Plain!Next, Plain!Step, Plain!Leave
<1>5. CASE EndRange
  BY <1>1, <1>3, <1>5, PlainEndRange DEF Plain!Next, Plain!Step, Plain!Leave
<1>6. ~EndArm
  <2>1. Top.kind # "arm"
    BY <1>1, TopRuns DEF Runs
  <2>. QED
    BY <2>1 DEF EndArm, AtEnd
<1>. QED
  BY <1>2, <1>4, <1>5, <1>6 DEF Leave, Straight

LEMMA StraightStays ==
  ASSUME Good(stack, s), NEW o \in DOMAIN stack, stack[o].kind = "arm", Straight
  PROVE  Stays(stack, stack', o)
<1>1. stack \in Seq(Frames) /\ stack # <<>>
  BY DEF Good
<1>2. Stays(stack, stack, o) /\ Stays(stack, Advance(stack), o)
  <2>1. Stays(stack, stack, o)
    BY DEF Stays
  <2>. QED
    BY <1>1, <2>1, StaysAdvance
<1>3. \A f : Stays(stack, Append(stack, f), o)
  BY <1>1, StaysAppend
<1>4. CASE WalkText \/ Hole
  BY <1>2, <1>4 DEF WalkText, Hole
<1>5. CASE WalkJump \/ WalkAction
  BY <1>2, <1>5 DEF WalkJump, WalkAction
<1>6. CASE WalkIf \/ WalkTemplate \/ WalkInclude
  BY <1>2, <1>3, <1>6 DEF WalkIf, WalkTemplate, WalkInclude, Push
<1>7. CASE WalkRange
  <2>1. \/ Push("empty", Node, Node.arms["else"], 0)
        \/ \E left : Push("range", Node, Node.arms["body"], left)
    BY <1>7 DEF WalkRange
  <2>. QED
    BY <1>3, <2>1 DEF Push
<1>8. CASE EndIteration
  <2>. DEFINE n == Len(stack)
              fewer == Top.left - 1
              f == [Top EXCEPT !.i = 1, !.left = fewer]
  <2>1. stack' = [stack EXCEPT ![n].i = 1, ![n].left = @ - 1]
    BY <1>8 DEF EndIteration
  <2>2. n \in DOMAIN stack /\ Top \in Frames
    BY <1>1, StackOf DEF Top
  <2>3. stack' = [stack EXCEPT ![n] = f]
    BY <1>1, <2>1, <2>2 DEF Top, Frames
  <2>4. fewer \in Int /\ 1 \in Nat \ {0}
    BY <2>2, FrameFields
  <2>. HIDE DEF fewer
  <2>5. f \in Frames /\ f.kind = Top.kind /\ f.caller = Top.caller
    BY <2>2, <2>4 DEF Frames
  <2>. HIDE DEF f
  <2>. QED
    BY <1>1, <2>3, <2>5, StaysExcept DEF Top
<1>9. CASE EndTemplate \/ EndInclude
  <2>1. stack' = Return /\ Top.kind # "arm"
    BY <1>9 DEF EndTemplate, EndInclude, AtEnd
  <2>. QED
    BY <2>1, StaysReturn
<1>10. CASE Unwind
  <2>1. stack' = Pop /\ Top.kind # "arm"
    BY <1>10 DEF Unwind
  <2>. QED
    BY <2>1, StaysReturn
<1>. QED
  BY <1>4, <1>5, <1>6, <1>7, <1>8, <1>9, <1>10 DEF Straight, Walk

LEMMA ExploreStays ==
  ASSUME Good(stack, s), NEW o \in DOMAIN stack, stack[o].kind = "arm", EndIf \/ EndRange
  PROVE  Stays(stack, stack', o)
<1>1. \E n, which, pre, w, c : Explore(n, which, pre, w, c)
  BY DEF EndIf, EndRange, ExploreRange
<1>2. stack' = Return \/ \E f : stack' = Append(Return, f)
  BY <1>1 DEF Explore
<1>3. Top.kind # "arm"
  BY DEF EndIf, EndRange, AtEnd, Iterated
<1>4. Stays(stack, Return, o) /\ Return \in Seq(Frames) /\ o \in DOMAIN Return
  BY <1>3, StaysReturn
<1>5. \A f : Stays(Return, Append(Return, f), o)
  BY <1>4, StaysAppend
<1>6. \A f : Stays(stack, Append(Return, f), o)
  BY <1>4, <1>5, StaysTransitive
<1>. QED
  BY <1>2, <1>4, <1>6

LEMMA StaysSeen ==
  ASSUME Running, Running', Good(stack, s), Good(stack', s'), s.guards # <<>>,
         NEW o \in DOMAIN stack, Entered(stack, o), Stays(stack, stack', o)
  PROVE  OuterState' = OuterState /\ OuterStack' = OuterStack
<1>1. o \in DOMAIN stack' /\ Entered(stack', o) /\ stack'[o].caller = stack[o].caller
  BY DEF Stays, Entered
<1>2. s'.guards # <<>>
  BY <1>1 DEF Good, Inside, Entered
<1>3. /\ View(TRUE, stack, s) = Plainly(stack[o].caller)
      /\ Beside(TRUE, stack, s) = [j \in 1..(o - 1) |-> Forgotten(stack[j])]
  BY ViewInside
<1>4. /\ View(TRUE, stack', s') = Plainly(stack'[o].caller)
      /\ Beside(TRUE, stack', s') = [j \in 1..(o - 1) |-> Forgotten(stack'[j])]
  BY <1>1, <1>2, ViewInside
<1>5. [j \in 1..(o - 1) |-> Forgotten(stack'[j])] = [j \in 1..(o - 1) |-> Forgotten(stack[j])]
  BY DEF Stays
<1>6. Running = TRUE /\ Running' = TRUE
  OBVIOUS
<1>. QED
  BY <1>1, <1>3, <1>4, <1>5, <1>6, OuterIs

(* The outermost arm ends: what it changed for good is the values.           *)
LEMMA ArmSetsValues ==
  ASSUME IInv, IInv', Running, Good(stack, s), s.guards # <<>>, EndArm, Entered(stack, Len(stack))
  PROVE  SetsValues
<1>. DEFINE c == Top.caller
            o == Len(stack)
            hole == s.panic = "error"
            p == Plainly(c)
            y == [p EXCEPT !.data = s.data]
<1>1. /\ Top.kind = "arm" /\ stack' = Popped(stack) /\ Still /\ o \in DOMAIN stack
      /\ s' = ArmLeft(s, c, hole)
      /\ c.guards = <<>>
  BY DEF EndArm, AtEnd, Pop, Popped, Entered, Top, ArmLeft
<1>2. s \in State /\ c \in State /\ Runs(Top, s) /\ c.panic = "none"
  BY TopRuns
<1>3. /\ s.guards[Len(s.guards)][2] # "symbolic" /\ s.depth = c.depth
      /\ s.calls = c.calls
  BY <1>1, <1>2 DEF Runs
<1>4. hole \in BOOLEAN
  OBVIOUS
<1>5. Noted(s) = Noted(c)
  BY <1>1 DEF Good, Unnoted, Top
<1>. HIDE DEF c, hole
<1>6. /\ s' \in State /\ s'.out = c.out /\ s'.counting = c.counting /\ s'.vars = c.vars
      /\ s'.guards = c.guards /\ s'.panic = "none" /\ s'.depth = s.depth /\ s'.calls = s.calls
      /\ s'.data = s.data /\ Noted(s') = Noted(s)
  BY <1>1, <1>2, <1>3, <1>4, LeaveArmState
<1>7. /\ s'.guards = c.guards /\ s'.panic = "none" /\ s'.depth = s.depth /\ s'.calls = s.calls
      /\ s'.data = s.data /\ Noted(s') = Noted(s)
  BY <1>6
<1>8. /\ s'.spans = c.spans /\ PlainReads(s'.reads) = PlainReads(c.reads)
      /\ PlainArms(s'.arms) = PlainArms(c.arms) /\ PlainExplored(s'.explored) = PlainExplored(c.explored)
  BY <1>5, <1>7, NotedIs
<1>9. /\ p \in State /\ p.out = c.out /\ p.counting = c.counting /\ p.vars = c.vars
      /\ p.depth = c.depth /\ p.calls = c.calls /\ p.panic = c.panic
      /\ p.spans = c.spans /\ p.guards = c.guards
      /\ p.reads = PlainReads(c.reads) /\ p.arms = PlainArms(c.arms)
      /\ p.explored = PlainExplored(c.explored)
  BY <1>2, PlainlyIs
<1>10. s.data \in [Paths -> Syms]
  BY <1>2, Fields
<1>. HIDE DEF p
<1>11. Plainly(s') = y
  <2>. DEFINE q == Plainly(s')
  <2>1. /\ q \in State /\ q.out = s'.out /\ q.counting = s'.counting /\ q.vars = s'.vars
        /\ q.depth = s'.depth /\ q.calls = s'.calls /\ q.data = s'.data /\ q.panic = s'.panic
        /\ q.spans = s'.spans /\ q.guards = s'.guards
        /\ q.reads = PlainReads(s'.reads) /\ q.arms = PlainArms(s'.arms)
        /\ q.explored = PlainExplored(s'.explored)
    BY <1>6, PlainlyIs
  <2>2. y \in State
    BY <1>9, <1>10 DEF State
  <2>3. /\ y.out = p.out /\ y.counting = p.counting /\ y.vars = p.vars /\ y.depth = p.depth
        /\ y.calls = p.calls /\ y.data = s.data /\ y.panic = p.panic /\ y.spans = p.spans
        /\ y.guards = p.guards /\ y.reads = p.reads /\ y.arms = p.arms /\ y.explored = p.explored
    BY <1>9 DEF State
  <2>. HIDE DEF q, y
  <2>4. q = y
    BY <1>2, <1>3, <1>6, <1>7, <1>8, <1>9, <2>1, <2>2, <2>3, SameState
  <2>. QED
    BY <2>4 DEF q
<1>12. Running'
  BY <1>1 DEF Still, Running
<1>13. OuterState = p /\ OuterStack = [j \in 1..(o - 1) |-> Forgotten(stack[j])]
  <2>1. /\ View(TRUE, stack, s) = Plainly(stack[o].caller)
        /\ Beside(TRUE, stack, s) = [j \in 1..(o - 1) |-> Forgotten(stack[j])]
    BY <1>1, ViewInside
  <2>2. Running = TRUE
    OBVIOUS
  <2>. QED
    BY <2>1, <2>2, OuterIs DEF p, c, Top
<1>14. OuterState' = Plainly(s') /\ OuterStack' = Forget(Popped(stack))
  <2>1. s'.guards = <<>>
    BY <1>1, <1>7
  <2>. QED
    BY <1>1, <1>6, <2>1, OuterIs, ViewOutside
<1>15. OuterStack' = OuterStack
  <2>1. stack \in Seq(Frames) /\ o > 1
    <3>1. stack \in Seq(Frames) /\ o \in Nat /\ o >= 1 /\ (Top.kind = "main" <=> o = 1)
      BY TopOf DEF Good, Top
    <3>2. o # 1
      BY <1>1, <3>1
    <3>3. ASSUME NEW m \in Nat, m >= 1, m # 1  PROVE m > 1
      BY <3>3
    <3>. HIDE DEF o
    <3>. QED
      BY <3>1, <3>2, <3>3
  <2>2. Len(Popped(stack)) = o - 1 /\ \A j \in 1..(o - 1) : Popped(stack)[j] = stack[j]
    BY <2>1, PoppedIs
  <2>3. Forget(Popped(stack)) = [j \in 1..(o - 1) |-> Forgotten(stack[j])]
    BY <2>2 DEF Forget
  <2>. QED
    BY <1>13, <1>14, <2>3
<1>16. OuterState' = [OuterState EXCEPT !.data = s.data]
  BY <1>11, <1>13, <1>14
<1>. QED
  BY <1>1, <1>10, <1>15, <1>16 DEF SetsValues, Still

LEMMA PlainInside ==
  ASSUME IInv, IInv', Running, s.guards # <<>>, Walk \/ Leave
  PROVE  SetsValues \/ UNCHANGED (Plain!vars)
<1>1. Good(stack, s)
  BY DEF IInv
<1>2. Still /\ Running'
  BY DEF Walk, WalkText, WalkJump, WalkAction, WalkIf, WalkRange, WalkTemplate, WalkInclude,
         Leave, EndIf, EndRange, EndArm,
         EndIteration, EndTemplate, EndInclude, Hole, Unwind, Still, Running
<1>3. Good(stack', s')
  <2>1. Good(stack, s)'
    BY <1>2 DEF IInv
  <2>. QED
    BY <2>1
<1>4. PICK o \in DOMAIN stack : Entered(stack, o)
  BY <1>1 DEF Good, Inside, Entered
<1>5. stack[o].kind = "arm"
  BY <1>4 DEF Entered
<1>6. ASSUME Stays(stack, stack', o)  PROVE UNCHANGED (Plain!vars)
  <2>1. OuterState' = OuterState /\ OuterStack' = OuterStack
    BY <1>1, <1>2, <1>3, <1>4, <1>6, StaysSeen
  <2>. QED
    BY <1>2, <2>1 DEF Still, Plain!vars, PlainResult
<1>7. CASE Straight
  BY <1>1, <1>5, <1>6, <1>7, StraightStays
<1>8. CASE EndIf \/ EndRange
  BY <1>1, <1>5, <1>6, <1>8, ExploreStays
<1>9. CASE EndArm
  <2>1. CASE o = Len(stack)
    BY <1>1, <1>4, <1>9, <2>1, ArmSetsValues
  <2>2. CASE o # Len(stack)
    <3>1. stack' = Popped(stack) /\ stack \in Seq(Frames)
      BY <1>1, <1>9 DEF EndArm, Pop, Popped, Good
    <3>2. Stays(stack, stack', o)
      BY <2>2, <3>1, StaysPopped
    <3>. QED
      BY <1>6, <3>2
  <2>. QED
    BY <2>1, <2>2
<1>. QED
  BY <1>7, <1>8, <1>9 DEF Leave, Straight

(* Where a render that does not explore starts.                              *)
LEMMA PlainInit == Init => Plain!Init
<1>. SUFFICES ASSUME Init  PROVE Plain!Init
  OBVIOUS
<1>1. /\ phase = "start" /\ first = NoRender /\ second = NoRender /\ s = NoRender /\ stack = <<>>
  BY DEF Init
<1>2. OuterState = NoRender /\ OuterStack = <<>>
  BY <1>1 DEF OuterState, OuterStack, Exploring, Running, PlainResult
<1>3. PlainResult(first) = Plain!NoRender /\ PlainResult(second) = Plain!NoRender /\ Plain!NoRender = NoRender
  BY <1>1 DEF PlainResult, Plain!NoRender, NoRender
<1>. QED
  BY <1>1, <1>2, <1>3 DEF Init, Plain!Init, Plain!Values, Values, Plain!Absent, Absent

LEMMA PlainCallAgain ==
  ASSUME IInv, CallAgain
  PROVE  Plain!CallAgain
<1>1. /\ phase \in {"done", "failed"} /\ phase' = "start"
      /\ first' = NoRender /\ second' = NoRender /\ s' = NoRender /\ stack' = <<>>
  BY DEF CallAgain
<1>2. OuterState' = NoRender /\ OuterStack' = <<>>
  BY <1>1 DEF OuterState, OuterStack, Exploring, Running, PlainResult
<1>3. /\ PlainResult(first)' = Plain!NoRender /\ PlainResult(second)' = Plain!NoRender
      /\ Plain!NoRender = NoRender
  BY <1>1 DEF PlainResult, Plain!NoRender, NoRender
<1>. QED
  BY <1>1, <1>2, <1>3 DEF CallAgain, Plain!CallAgain, Plain!Values, Values, Plain!Absent, Absent

(* Exploring is invisible: seen from outside the arms it explores, a render   *)
(* that explores takes the steps of one that does not, starting where that    *)
(* one starts, and an arm that ends changes the values at most. So bytes,     *)
(* spans, variables, depth, include counts, taken reads and taken arms are    *)
(* at every moment those of a render that does not explore.                   *)
THEOREM Invisible == Spec => Plain!Init /\ ExplorationInvisible
<1>1. Init => IInv /\ Plain!Init
  BY InitIInv, PlainInit
<1>2. IInv /\ [Next]_vars => IInv' /\ [Plain!Next \/ SetsValues]_(Plain!vars)
  <2>. SUFFICES ASSUME IInv, [Next]_vars
                PROVE  IInv' /\ (Plain!Next \/ SetsValues \/ UNCHANGED (Plain!vars))
    OBVIOUS
  <2>1. IInv'
    BY NextIInv
  <2>2. CASE RenderFirst \/ RenderAgain
    <3>1. Plain!RenderFirst \/ Plain!RenderAgain
      BY <2>1, <2>2, PlainStart
    <3>. QED
      BY <2>1, <3>1 DEF Plain!Next, Plain!Step
  <2>3. CASE Walk \/ Leave
    <3>1. Running
      BY <2>3 DEF Walk, Leave, WalkText, WalkJump, WalkAction, WalkIf, WalkRange, WalkTemplate, WalkInclude,
         EndIf, EndIteration, EndRange, EndTemplate, EndInclude, EndArm, Hole, Unwind,
         AtNode, AtEnd, Panicking, Iterated
    <3>2. CASE s.guards = <<>>
      BY <2>1, <2>3, <3>1, <3>2, PlainOutside
    <3>3. CASE s.guards # <<>>
      BY <2>1, <2>3, <3>1, <3>3, PlainInside
    <3>. QED
      BY <3>2, <3>3
  <2>4. CASE EndRender
    BY <2>1, <2>4, PlainEndRender DEF Plain!Next, Plain!Step
  <2>5. CASE UNCHANGED vars
    <3>1. /\ chart' = chart /\ phase' = phase /\ first' = first /\ second' = second /\ s' = s
          /\ stack' = stack
      BY <2>5 DEF vars
    <3>2. Running' = Running
      BY <3>1 DEF Running
    <3>3. OuterState' = OuterState /\ OuterStack' = OuterStack
      BY <3>1, <3>2, OuterIs
    <3>. QED
      BY <2>1, <3>1, <3>3 DEF Plain!vars, PlainResult
  <2>6. CASE Exit
    BY <2>5, <2>6 DEF Exit
  <2>7. CASE CallAgain
    BY <2>1, <2>7, PlainCallAgain DEF Plain!Next
  <2>. QED
    BY <2>2, <2>3, <2>4, <2>5, <2>6, <2>7 DEF Next, Step
<1>. QED
  BY <1>1, <1>2, PTL DEF Spec, ExplorationInvisible
=============================================================================
