--------------------------- MODULE Engine_proofs ---------------------------
(* Theorems about Engine, for every chart, every order of its files and any   *)
(* depth of calls.                                                            *)
EXTENDS Engine, FiniteSetTheorems, TLAPS

(* The frames of one kind and name, and how many sets that makes.            *)
Matches(fr, k, n) == {i \in DOMAIN fr : fr[i].kind = k /\ fr[i].name = n}
Shape ==
    /\ Len(sets) = 1 + Cardinality(Matches(frames, "tpl", Root))
    /\ \A i \in DOMAIN frames : frames[i].kind = "tpl" => frames[i].name = Root
    /\ phase # "executing" => frames = <<>>

(* While files are parsed, those that are left come before those that are     *)
(* done, and the last one done is the first of these in the order.            *)
Ordered ==
    phase = "parsing" =>
        /\ \A f \in Files \ todo, g \in todo : Less(g, f)
        /\ \A f \in Files \ todo : f = cur \/ Less(cur, f)
        /\ adding # {} => cur \notin todo

(* HighestWins for the definitions that are in the set already.              *)
Seen(n) == IF phase = "parsing" THEN {f \in Definers(n) : f \notin todo /\ ~(f = cur /\ n \in adding)}
           ELSE Definers(n)
Lowest(f, S) == \A g \in S : g = f \/ Less(f, g)
HighestSoFar ==
    phase # "failed" => \A n \in Names :
        /\ Seen(n) = {} => sets[1][n] \in Empty \cup {Absent}
        /\ \A f \in Seen(n) : Lowest(f, Seen(n)) => sets[1][n] = Defines[f][n]

IInv == TypeOK /\ Shape /\ Ordered /\ HighestSoFar /\ SeesEnclosing /\ IncludesCounted

-----------------------------------------------------------------------------
(* The order is one way only.                                                *)
LEMMA LessOneWay == ASSUME NEW f \in Files, NEW g \in Files, Less(f, g) PROVE f # g /\ ~Less(g, f)
  BY EngineAssumption DEF Less

LEMMA DefinedTrees ==
    ASSUME NEW f \in Files, NEW n \in DOMAIN Defines[f] PROVE n \in Names /\ Defines[f][n] \in Trees
<1>1. Defines[f] \in PartialFunctions
  BY EngineAssumption
<1>2. PICK D \in SUBSET Names : Defines[f] \in [D -> Trees]
  BY <1>1 DEF PartialFunctions
<1> QED BY <1>2

LEMMA TplTrees ==
    ASSUME NEW defs \in TplTexts, NEW n \in DOMAIN defs PROVE defs[n] \in Trees
<1>1. PICK D \in SUBSET Names : defs \in [D -> Trees]
  BY EngineAssumption DEF PartialFunctions
<1> QED BY <1>1

(* A set of templates stays one.                                             *)
LEMMA AssociateType ==
    ASSUME NEW set \in Sets, NEW n \in Names, NEW tree \in Trees
    PROVE  /\ Associate(set, n, tree) \in Sets
           /\ \A m \in Names \ {n} : Associate(set, n, tree)[m] = set[m]
           /\ Associate(set, n, tree)[n] = IF set[n] \in Trees /\ tree \in Empty THEN set[n] ELSE tree
  BY DEF Associate, Sets

(* What a string given to tpl makes of the set: nothing of the enclosing set *)
(* is lost, and nothing becomes empty.                                       *)
LEMMA ParseIntoKeeps ==
    ASSUME NEW set \in Sets, NEW defs \in TplTexts
    PROVE  LET new == ParseInto(Clone(set), defs) IN
           /\ new \in Sets
           /\ \A n \in Names \ {Root} : /\ set[n] \in Trees => new[n] \in Trees
                                        /\ set[n] \in Trees \ Empty => new[n] \in Trees \ Empty
<1> DEFINE copy == Clone(set)
           new == ParseInto(copy, defs)
<1>1. copy \in Sets /\ \A n \in Names \ {Root} : copy[n] = set[n]
  BY EngineAssumption DEF Clone, Sets
<1>2. ASSUME NEW n \in Names
      PROVE  /\ new[n] \in Trees \cup {Absent}
             /\ copy[n] \in Trees => new[n] \in Trees
             /\ copy[n] \in Trees \ Empty => new[n] \in Trees \ Empty
  <2>1. CASE n \in DOMAIN defs
    <3>1. defs[n] \in Trees
      BY <2>1, TplTrees
    <3>2. new[n] = IF copy[n] \in Trees /\ defs[n] \in Empty THEN copy[n] ELSE defs[n]
      BY <1>1, <2>1, <3>1, AssociateType DEF ParseInto
    <3> QED BY <3>1, <3>2
  <2>2. CASE n \notin DOMAIN defs
    <3>1. new[n] = copy[n]
      BY <2>2 DEF ParseInto
    <3> QED BY <1>1, <3>1 DEF Sets
  <2> QED BY <2>1, <2>2
<1>3. new \in Sets
  <2>1. new = [n \in Names |-> new[n]]
    BY DEF ParseInto
  <2> QED BY <1>2, <2>1 DEF Sets
<1> QED BY <1>1, <1>2, <1>3

-----------------------------------------------------------------------------
(* Counting the frames of a kind and name, when one is pushed or popped.     *)
LEMMA MatchesFinite ==
    ASSUME NEW fr \in Seq(FrameType), NEW k, NEW n
    PROVE  IsFiniteSet(Matches(fr, k, n)) /\ Cardinality(Matches(fr, k, n)) \in Nat
<1>1. Matches(fr, k, n) \in SUBSET (1..Len(fr)) /\ IsFiniteSet(1..Len(fr))
  BY FS_Interval DEF Matches
<1> QED BY <1>1, FS_Subset, FS_CardinalityType

LEMMA CountPush ==
    ASSUME NEW fr \in Seq(FrameType), NEW f \in FrameType, NEW k, NEW n
    PROVE  Cardinality(Matches(Append(fr, f), k, n)) =
             Cardinality(Matches(fr, k, n)) + (IF f.kind = k /\ f.name = n THEN 1 ELSE 0)
<1> DEFINE new == Append(fr, f)
<1>1. /\ DOMAIN new = 1..(Len(fr) + 1) /\ new[Len(fr) + 1] = f
      /\ \A i \in 1..Len(fr) : new[i] = fr[i]
      /\ DOMAIN fr = 1..Len(fr) /\ Len(fr) \in Nat
  OBVIOUS
<1>2. CASE f.kind = k /\ f.name = n
  <2>1. Matches(new, k, n) = Matches(fr, k, n) \cup {Len(fr) + 1}
    BY <1>1, <1>2 DEF Matches
  <2>2. Len(fr) + 1 \notin Matches(fr, k, n)
    BY <1>1 DEF Matches
  <2>3. Cardinality(Matches(fr, k, n) \cup {Len(fr) + 1}) = Cardinality(Matches(fr, k, n)) + 1
    BY <2>2, MatchesFinite, FS_AddElement
  <2> QED BY <1>2, <2>1, <2>3
<1>3. CASE ~(f.kind = k /\ f.name = n)
  <2>1. Matches(new, k, n) = Matches(fr, k, n)
    BY <1>1, <1>3 DEF Matches
  <2> QED BY <1>3, <2>1, MatchesFinite
<1> QED BY <1>2, <1>3

LEMMA CountPop ==
    ASSUME NEW fr \in Seq(FrameType), fr # <<>>, NEW k, NEW n
    PROVE  Cardinality(Matches(SubSeq(fr, 1, Len(fr) - 1), k, n)) =
             Cardinality(Matches(fr, k, n)) - (IF fr[Len(fr)].kind = k /\ fr[Len(fr)].name = n THEN 1 ELSE 0)
<1> DEFINE new == SubSeq(fr, 1, Len(fr) - 1)
<1>1. /\ Len(fr) \in Nat \ {0} /\ DOMAIN fr = 1..Len(fr)
      /\ DOMAIN new = 1..(Len(fr) - 1) /\ \A i \in 1..(Len(fr) - 1) : new[i] = fr[i]
  OBVIOUS
<1>2. CASE fr[Len(fr)].kind = k /\ fr[Len(fr)].name = n
  <2>1. Matches(new, k, n) = Matches(fr, k, n) \ {Len(fr)}
    BY <1>1 DEF Matches
  <2>2. Len(fr) \in Matches(fr, k, n)
    BY <1>1, <1>2 DEF Matches
  <2> QED BY <1>2, <2>1, <2>2, MatchesFinite, FS_RemoveElement
<1>3. CASE ~(fr[Len(fr)].kind = k /\ fr[Len(fr)].name = n)
  <2>1. Matches(new, k, n) = Matches(fr, k, n)
    BY <1>1, <1>3 DEF Matches
  <2> QED BY <1>3, <2>1, MatchesFinite
<1> QED BY <1>2, <1>3

(* There is always a current set, and a tpl that ends has one of its own.    *)
LEMMA SetsLeft ==
    ASSUME TypeOK, Shape
    PROVE  /\ Len(sets) \in Nat \ {0} /\ Current \in Sets /\ sets[1] \in Sets
           /\ frames # <<>> => Top \in FrameType
           /\ frames # <<>> /\ Top.kind = "tpl" => Len(sets) > 1
           /\ frames = <<>> => Len(sets) = 1
<1>1. Cardinality(Matches(frames, "tpl", Root)) \in Nat
  BY MatchesFinite DEF TypeOK
<1>2. Len(sets) \in Nat \ {0} /\ Current \in Sets /\ sets[1] \in Sets
  BY <1>1 DEF TypeOK, Shape, Current
<1>3. frames # <<>> => Top \in FrameType
  BY DEF TypeOK, Top
<1>4. ASSUME frames # <<>>, Top.kind = "tpl" PROVE Len(sets) > 1
  <2>1. Len(frames) \in Matches(frames, "tpl", Root)
    BY <1>4 DEF TypeOK, Shape, Top, Matches
  <2>2. Cardinality(Matches(frames, "tpl", Root)) # 0
    BY <2>1, MatchesFinite, FS_EmptySet DEF TypeOK
  <2> QED BY <1>1, <2>2 DEF Shape
<1>5. ASSUME frames = <<>> PROVE Len(sets) = 1
  <2>1. Matches(frames, "tpl", Root) = {}
    BY <1>5 DEF Matches
  <2> QED BY <2>1, FS_EmptySet DEF Shape
<1> QED BY <1>2, <1>3, <1>4, <1>5
-----------------------------------------------------------------------------
LEMMA InitInv == Init => IInv
<1> SUFFICES ASSUME Init PROVE IInv
  OBVIOUS
<1>1. TypeOK
  <2>1. [n \in Names |-> Absent] \in Sets
    BY DEF Sets
  <2>2. sets \in Seq(Sets) /\ frames \in Seq(FrameType) /\ included \in [Names -> Int]
    BY <2>1 DEF Init
  <2> QED BY <2>2, EngineAssumption DEF Init, TypeOK
<1>2. \A k, n : Matches(frames, k, n) = {}
  BY DEF Init, Matches
<1>3. Shape
  <2>1. Cardinality(Matches(frames, "tpl", Root)) = 0
    BY <1>2, FS_EmptySet
  <2> QED BY <2>1 DEF Init, Shape
<1>4. Ordered
  BY DEF Init, Ordered
<1>5. HighestSoFar
  BY DEF Init, HighestSoFar, Seen, Definers
<1>6. SeesEnclosing
  BY DEF Init, SeesEnclosing
<1>7. IncludesCounted
  BY <1>2, FS_EmptySet DEF Init, IncludesCounted, Includes, Matches
<1> QED BY <1>1, <1>3, <1>4, <1>5, <1>6, <1>7 DEF IInv

LEMMA TypeStep == TypeOK /\ Shape /\ [Next]_vars => TypeOK'
<1> SUFFICES ASSUME TypeOK, Shape, [Next]_vars PROVE TypeOK'
  OBVIOUS
<1> USE EngineAssumption
<1>1. ASSUME ParseFile PROVE TypeOK'
  <2>1. PICK f \in todo : /\ todo' = todo \ {f} /\ cur' = f
                          /\ IF f \in Broken THEN phase' = "failed" /\ adding' = {}
                             ELSE phase' = phase /\ adding' = DOMAIN Defines[f]
    BY <1>1 DEF ParseFile
  <2>2. f \in Files /\ DOMAIN Defines[f] \subseteq Names
    BY DefinedTrees DEF TypeOK
  <2> QED BY <1>1, <2>1, <2>2 DEF ParseFile, TypeOK
<1>2. ASSUME NEW n \in Names, AddParseTree(n) PROVE TypeOK'
  <2>1. cur \in Files /\ n \in DOMAIN Defines[cur] /\ sets[1] \in Sets /\ Len(sets) \in Nat \ {0}
    BY <1>2, SetsLeft DEF AddParseTree, TypeOK
  <2>2. Associate(sets[1], n, Defines[cur][n]) \in Sets
    BY <2>1, DefinedTrees, AssociateType
  <2>3. sets' \in Seq(Sets)
    BY <1>2, <2>1, <2>2 DEF AddParseTree, TypeOK
  <2> QED BY <1>2, <2>3 DEF AddParseTree, TypeOK
<1>3. CASE StartRender
  BY <1>3 DEF StartRender, TypeOK
<1>4. ASSUME ExecuteFile PROVE TypeOK'
  <2>1. PICK f \in todo : todo' = todo \ {f} /\ frames' = <<Frame("file", f, 0)>>
    BY <1>4 DEF ExecuteFile
  <2>2. Frame("file", f, 0) \in FrameType
    BY <2>1 DEF Frame, FrameType, Kinds, TypeOK
  <2> QED BY <1>4, <2>1, <2>2 DEF ExecuteFile, TypeOK
<1>5. CASE Done
  BY <1>5 DEF Done, TypeOK
<1>6. CASE Fail
  BY <1>6 DEF Fail, Raise, TypeOK
<1>7. ASSUME Pop, frames # <<>>, phase' \in {phase, "failed"} PROVE TypeOK'
  <2>1. frames' \in Seq(FrameType)
    BY <1>7 DEF Pop, TypeOK
  <2>2. included' \in [Names -> Int]
    <3>1. Top.name \in Names /\ included \in [Names -> Int]
      BY <1>7, SetsLeft DEF FrameType, TypeOK
    <3> QED BY <1>7, <3>1 DEF Pop, Uncount
  <2>3. sets' \in Seq(Sets)
    BY <1>7, SetsLeft DEF Pop, TypeOK
  <2> QED BY <1>7, <2>1, <2>2, <2>3 DEF Pop, TypeOK
<1>8. CASE Return
  BY <1>7, <1>8 DEF Return, Running
<1>9. CASE Unwind
  BY <1>7, <1>9 DEF Unwind
<1>10. CASE Absorb
  BY <1>10 DEF Absorb, TypeOK
<1>11. ASSUME NEW n \in Names, Include(n) PROVE TypeOK'
  <2>1. Frame("include", n, 0) \in FrameType
    BY DEF Frame, FrameType, Kinds
  <2>2. Append(frames, Frame("include", n, 0)) \in Seq(FrameType)
    BY <2>1 DEF TypeOK
  <2>3. CASE Raise
    BY <2>3 DEF Raise, TypeOK
  <2>4. CASE ~Raise
    <3>1. /\ included' = [included EXCEPT ![n] = @ + 1]
          /\ frames' = Append(frames, Frame("include", n, 0))
          /\ UNCHANGED <<phase, todo, cur, adding, sets, failing>>
      BY <1>11, <2>4 DEF Include
    <3> QED BY <2>2, <3>1 DEF TypeOK
  <2> QED BY <2>3, <2>4
<1>12. ASSUME NEW n \in Names, CallTemplate(n) PROVE TypeOK'
  <2>1. CASE Raise
    BY <2>1 DEF Raise, TypeOK
  <2>2. CASE ~Raise
    <3>1. Top \in FrameType /\ ~TooDeep(Top.depth)
      BY <1>12, <2>2, SetsLeft DEF CallTemplate, CanCall, Running
    <3>2. Top.depth + 1 \in 0..MaxExecDepth
      BY <3>1 DEF FrameType, TooDeep
    <3>3. Frame("template", n, Top.depth + 1) \in FrameType
      BY <3>2 DEF Frame, FrameType, Kinds
    <3>4. Append(frames, Frame("template", n, Top.depth + 1)) \in Seq(FrameType)
      BY <3>3 DEF TypeOK
    <3>5. /\ frames' = Append(frames, Frame("template", n, Top.depth + 1))
          /\ UNCHANGED <<phase, todo, cur, adding, sets, included, failing>>
      BY <1>12, <2>2 DEF CallTemplate
    <3> QED BY <3>4, <3>5 DEF TypeOK
  <2> QED BY <2>1, <2>2
<1>13. ASSUME NEW defs \in TplTexts, Tpl(defs) PROVE TypeOK'
  <2>1. Frame("tpl", Root, 0) \in FrameType
    BY DEF Frame, FrameType, Kinds
  <2>2. ParseInto(Clone(Current), defs) \in Sets
    BY SetsLeft, ParseIntoKeeps
  <2> QED BY <1>13, <2>1, <2>2 DEF Tpl, ForTpl, TypeOK
<1>14. CASE UNCHANGED vars
  BY <1>14 DEF vars, TypeOK
<1> QED BY <1>1, <1>2, <1>3, <1>4, <1>5, <1>6, <1>8, <1>9, <1>10, <1>11, <1>12, <1>13, <1>14 DEF Next

(* Every push and every pop counts.                                          *)
LEMMA CountStep ==
    ASSUME TypeOK, Shape, IncludesCounted, [Next]_vars
    PROVE  Shape' /\ IncludesCounted'
<1> USE EngineAssumption
<1>1. ASSUME UNCHANGED <<sets, frames, included>>, phase' = "executing" \/ frames = <<>>
      PROVE  Shape' /\ IncludesCounted'
  BY <1>1 DEF Shape, IncludesCounted, Includes, Matches
<1>2. ASSUME NEW f \in FrameType, frames' = Append(frames, f), phase' = "executing",
             f.kind = "tpl" => f.name = Root,
             Len(sets') = Len(sets) + (IF f.kind = "tpl" THEN 1 ELSE 0),
             included' = IF f.kind = "include" THEN [included EXCEPT ![f.name] = @ + 1] ELSE included
      PROVE  Shape' /\ IncludesCounted'
  <2>1. \A k, n : Cardinality(Matches(frames', k, n)) =
                    Cardinality(Matches(frames, k, n)) + (IF f.kind = k /\ f.name = n THEN 1 ELSE 0)
    BY <1>2, CountPush DEF TypeOK
  <2>2. \A k, n : Cardinality(Matches(frames, k, n)) \in Nat
    BY MatchesFinite DEF TypeOK
  <2>3. Len(sets') = 1 + Cardinality(Matches(frames', "tpl", Root))
    BY <1>2, <2>1, <2>2 DEF Shape
  <2>4. \A i \in DOMAIN frames' : frames'[i].kind = "tpl" => frames'[i].name = Root
    BY <1>2 DEF Shape, TypeOK
  <2>5. Shape'
    BY <1>2, <2>3, <2>4 DEF Shape, Matches
  <2>6. \A n \in Names : included'[n] = Cardinality(Matches(frames', "include", n))
    <3>1. \A n \in Names : included[n] = Cardinality(Matches(frames, "include", n))
      BY DEF IncludesCounted, Includes, Matches
    <3>2. f.name \in Names /\ included \in [Names -> Int]
      BY DEF FrameType, TypeOK
    <3> QED BY <1>2, <2>1, <2>2, <3>1, <3>2
  <2> QED BY <2>5, <2>6 DEF IncludesCounted, Includes, Matches
<1>3. ASSUME Pop, frames # <<>>, phase' = "executing" \/ Len(frames) = 1
      PROVE  Shape' /\ IncludesCounted'
  <2>1. \A k, n : Cardinality(Matches(frames', k, n)) =
                    Cardinality(Matches(frames, k, n)) - (IF Top.kind = k /\ Top.name = n THEN 1 ELSE 0)
    BY <1>3, CountPop DEF TypeOK, Pop, Top
  <2>2. \A k, n : Cardinality(Matches(frames, k, n)) \in Nat
    BY MatchesFinite DEF TypeOK
  <2>3. Top \in FrameType /\ (Top.kind = "tpl" => Top.name = Root)
    BY <1>3, SetsLeft DEF Shape, Top, TypeOK
  <2>4. Len(sets') = Len(sets) - (IF Top.kind = "tpl" THEN 1 ELSE 0)
    BY <1>3, SetsLeft DEF Pop, TypeOK
  <2>5. Len(sets') = 1 + Cardinality(Matches(frames', "tpl", Root))
    BY <2>1, <2>2, <2>3, <2>4 DEF Shape
  <2>6. \A i \in DOMAIN frames' : frames'[i].kind = "tpl" => frames'[i].name = Root
    BY <1>3 DEF Shape, TypeOK, Pop
  <2>7. phase' # "executing" => frames' = <<>>
    <3>1. Len(frames) = 1 => SubSeq(frames, 1, Len(frames) - 1) = <<>>
      BY DEF TypeOK
    <3> QED BY <1>3, <3>1 DEF Pop
  <2>8. Shape'
    BY <2>5, <2>6, <2>7 DEF Shape, Matches
  <2>9. \A n \in Names : included'[n] = Cardinality(Matches(frames', "include", n))
    <3>1. \A n \in Names : included[n] = Cardinality(Matches(frames, "include", n))
      BY DEF IncludesCounted, Includes, Matches
    <3>2. Top.name \in Names /\ included \in [Names -> Int]
      BY <2>3 DEF FrameType, TypeOK
    <3>3. included' = IF Top.kind = "include" THEN [included EXCEPT ![Top.name] = @ - 1] ELSE included
      BY <1>3 DEF Pop, Uncount
    <3> QED BY <2>1, <2>2, <3>1, <3>2, <3>3
  <2> QED BY <2>8, <2>9 DEF IncludesCounted, Includes, Matches
<1>4. CASE ParseFile
  BY <1>1, <1>4 DEF ParseFile, Shape
<1>5. ASSUME NEW n \in Names, AddParseTree(n) PROVE Shape' /\ IncludesCounted'
  <2>1. Len(sets') = Len(sets) /\ UNCHANGED <<phase, frames, included>>
    BY <1>5 DEF AddParseTree, TypeOK
  <2> QED BY <2>1 DEF Shape, IncludesCounted, Includes, Matches
<1>6. CASE StartRender \/ Done
  BY <1>1, <1>6 DEF StartRender, Done
<1>7. ASSUME ExecuteFile PROVE Shape' /\ IncludesCounted'
  <2>1. PICK f \in todo : frames' = <<Frame("file", f, 0)>>
    BY <1>7 DEF ExecuteFile
  <2>2. Frame("file", f, 0) \in FrameType /\ frames' = Append(frames, Frame("file", f, 0))
    BY <1>7, <2>1 DEF ExecuteFile, Frame, FrameType, Kinds, TypeOK
  <2>3. Frame("file", f, 0).kind = "file"
    BY DEF Frame
  <2> QED BY <1>2, <1>7, <2>2, <2>3 DEF ExecuteFile, TypeOK
<1>8. CASE Fail \/ Absorb
  BY <1>1, <1>8 DEF Fail, Absorb, Raise, Running
<1>9. CASE Return
  BY <1>3, <1>9 DEF Return, Running
<1>10. CASE Unwind
  BY <1>3, <1>10 DEF Unwind
<1>11. ASSUME NEW n \in Names, Include(n) PROVE Shape' /\ IncludesCounted'
  <2>1. CASE Raise
    BY <1>1, <1>11, <2>1 DEF Raise, Include, CanCall, Running
  <2>2. CASE ~Raise
    <3>1. /\ Frame("include", n, 0) \in FrameType
          /\ Frame("include", n, 0).kind = "include" /\ Frame("include", n, 0).name = n
      BY DEF Frame, FrameType, Kinds
    <3> QED BY <1>2, <1>11, <2>2, <3>1 DEF Include, CanCall, Running, TypeOK
  <2> QED BY <2>1, <2>2
<1>12. ASSUME NEW n \in Names, CallTemplate(n) PROVE Shape' /\ IncludesCounted'
  <2>1. CASE Raise
    BY <1>1, <1>12, <2>1 DEF Raise, CallTemplate, CanCall, Running
  <2>2. CASE ~Raise
    <3>1. Top \in FrameType /\ ~TooDeep(Top.depth)
      BY <1>12, <2>2, SetsLeft DEF CallTemplate, CanCall, Running
    <3>2. /\ Frame("template", n, Top.depth + 1) \in FrameType
          /\ Frame("template", n, Top.depth + 1).kind = "template"
      BY <3>1 DEF Frame, FrameType, Kinds, TooDeep
    <3> QED BY <1>2, <1>12, <2>2, <3>2 DEF CallTemplate, CanCall, Running, TypeOK
  <2> QED BY <2>1, <2>2
<1>13. ASSUME NEW defs \in TplTexts, Tpl(defs) PROVE Shape' /\ IncludesCounted'
  <2>1. /\ Frame("tpl", Root, 0) \in FrameType
        /\ Frame("tpl", Root, 0).kind = "tpl" /\ Frame("tpl", Root, 0).name = Root
    BY DEF Frame, FrameType, Kinds
  <2>2. Len(sets') = Len(sets) + 1
    BY <1>13 DEF Tpl, ForTpl, TypeOK
  <2> QED BY <1>2, <1>13, <2>1, <2>2 DEF Tpl, CanCall, Running
<1>14. CASE UNCHANGED vars
  BY <1>14 DEF vars, Shape, IncludesCounted, Includes, Matches
<1> QED BY <1>4, <1>5, <1>6, <1>7, <1>8, <1>9, <1>10, <1>11, <1>12, <1>13, <1>14 DEF Next
-----------------------------------------------------------------------------
(* Executing changes no set of templates: it adds one for a tpl, or ends it. *)
LEMMA ExecutingKeeps ==
    ASSUME TypeOK, Shape, [Next]_vars, phase = "executing"
    PROVE  /\ phase' \in {"executing", "done", "failed"}
           /\ Len(sets') \in Nat \ {0}
           /\ \A i \in 1..Len(sets) : i <= Len(sets') => sets'[i] = sets[i]
           /\ \/ Len(sets') <= Len(sets)
              \/ \E defs \in TplTexts : sets' = ForTpl(defs)
<1> DEFINE Keeps == /\ Len(sets') \in Nat \ {0}
                    /\ \A i \in 1..Len(sets) : i <= Len(sets') => sets'[i] = sets[i]
                    /\ Len(sets') <= Len(sets) \/ \E defs \in TplTexts : sets' = ForTpl(defs)
<1>1. sets \in Seq(Sets) /\ Len(sets) \in Nat \ {0}
  BY SetsLeft DEF TypeOK
<1>2. ASSUME sets' = sets PROVE Keeps
  BY <1>1, <1>2
<1>3. ASSUME Pop, frames # <<>> PROVE Keeps
  <2>1. sets' = IF Top.kind = "tpl" THEN SubSeq(sets, 1, Len(sets) - 1) ELSE sets
    BY <1>3 DEF Pop
  <2>2. CASE Top.kind = "tpl"
    <3>1. Len(sets) > 1
      BY <1>3, <2>2, SetsLeft
    <3>2. Len(sets') = Len(sets) - 1 /\ \A i \in 1..(Len(sets) - 1) : sets'[i] = sets[i]
      BY <1>1, <2>1, <2>2, <3>1
    <3> QED BY <1>1, <3>1, <3>2
  <2>3. CASE Top.kind # "tpl"
    BY <1>2, <2>1, <2>3
  <2> QED BY <2>2, <2>3
<1>4. ASSUME NEW defs \in TplTexts, Tpl(defs) PROVE Keeps
  <2>1. Len(sets') = Len(sets) + 1 /\ \A i \in 1..Len(sets) : sets'[i] = sets[i]
    BY <1>1, <1>4 DEF Tpl, ForTpl
  <2>2. sets' = ForTpl(defs)
    BY <1>4 DEF Tpl
  <2> QED BY <1>1, <2>1, <2>2
<1>5. Keeps
  <2>1. CASE UNCHANGED vars
    BY <1>2, <2>1 DEF vars
  <2>2. CASE ExecuteFile \/ Done \/ Fail \/ Absorb
    BY <1>2, <2>2 DEF ExecuteFile, Done, Fail, Raise, Absorb
  <2>3. CASE Return \/ Unwind
    BY <1>3, <2>3 DEF Return, Running, Unwind
  <2>4. ASSUME NEW n \in Names, Include(n) \/ CallTemplate(n) PROVE Keeps
    BY <1>2, <2>4 DEF Include, CallTemplate, Raise
  <2>5. ~ParseFile /\ ~StartRender /\ \A n \in Names : ~AddParseTree(n)
    BY DEF ParseFile, StartRender, AddParseTree
  <2> QED BY <1>4, <2>1, <2>2, <2>3, <2>4, <2>5 DEF Next
<1>6. phase' \in {"executing", "done", "failed"}
  <2>1. \A n \in Names : Include(n) => phase' = phase
    BY DEF Include, Raise
  <2>2. \A n \in Names : CallTemplate(n) => phase' = phase
    BY DEF CallTemplate, Raise
  <2>3. \A defs \in TplTexts : Tpl(defs) => phase' = phase
    BY DEF Tpl
  <2> QED BY <2>1, <2>2, <2>3 DEF Next, vars, ParseFile, StartRender, AddParseTree, ExecuteFile, Done,
             Fail, Raise, Absorb, Return, Unwind
<1> QED BY <1>5, <1>6

(* The order of parsing.                                                     *)
LEMMA OrderedStep == TypeOK /\ Shape /\ Ordered /\ [Next]_vars => Ordered'
<1> SUFFICES ASSUME TypeOK, Shape, Ordered, [Next]_vars, phase' = "parsing" PROVE Ordered'
  BY DEF Ordered
<1>1. CASE phase = "executing"
  BY <1>1, ExecutingKeeps
<1>2. CASE UNCHANGED vars
  BY <1>2 DEF vars, Ordered
<1>3. ASSUME ParseFile PROVE Ordered'
  <2>1. PICK f \in todo : /\ IsFirst(f, todo) /\ todo' = todo \ {f} /\ cur' = f
    BY <1>3 DEF ParseFile
  <2>2. f \in Files /\ phase = "parsing"
    BY <1>3 DEF ParseFile, TypeOK
  <2>3. \A h \in Files \ todo, g \in todo : Less(g, h)
    BY <2>2 DEF Ordered
  <2>4. \A g \in todo \ {f} : Less(g, f)
    BY <2>1 DEF IsFirst
  <2>5. \A h \in Files \ todo', g \in todo' : Less(g, h)
    BY <2>1, <2>3, <2>4
  <2>6. \A h \in Files \ todo' : h = cur' \/ Less(cur', h)
    BY <2>1, <2>3
  <2>7. cur' \notin todo'
    BY <2>1
  <2> QED BY <2>5, <2>6, <2>7 DEF Ordered, Less
<1>4. ASSUME NEW n \in Names, AddParseTree(n) PROVE Ordered'
  <2>1. UNCHANGED <<phase, todo, cur>> /\ adding # {}
    BY <1>4 DEF AddParseTree
  <2> QED BY <2>1 DEF Ordered, Less
<1>5. phase = "executing" \/ UNCHANGED vars \/ ParseFile \/ \E n \in Names : AddParseTree(n)
  <2>1. StartRender => phase' = "executing"
    BY DEF StartRender
  <2> QED BY <2>1 DEF Next, ExecuteFile, Done, Fail, Running, Return, Unwind, Absorb, Include, CallTemplate,
             CanCall, Tpl
<1> QED BY <1>1, <1>2, <1>3, <1>4, <1>5

(* What is visible after each tree that is added.                            *)
LEMMA HighestStep == TypeOK /\ Shape /\ Ordered /\ HighestSoFar /\ [Next]_vars => HighestSoFar'
<1> SUFFICES ASSUME TypeOK, Shape, Ordered, HighestSoFar, [Next]_vars, phase' # "failed" PROVE HighestSoFar'
  BY DEF HighestSoFar
<1> USE EngineAssumption
<1>1. ASSUME phase # "failed", sets'[1] = sets[1], \A n \in Names : Seen(n)' = Seen(n) PROVE HighestSoFar'
  BY <1>1 DEF HighestSoFar, Lowest, Less
<1>2. CASE phase = "executing"
  <2>1. phase' # "parsing" /\ sets'[1] = sets[1]
    BY <1>2, ExecutingKeeps, SetsLeft
  <2>2. \A n \in Names : Seen(n)' = Seen(n)
    BY <1>2, <2>1 DEF Seen, Definers
  <2> QED BY <1>1, <1>2, <2>1, <2>2
<1>3. CASE UNCHANGED vars
  <2>1. \A n \in Names : Seen(n)' = Seen(n)
    BY <1>3 DEF vars, Seen, Definers
  <2> QED BY <1>1, <1>3, <2>1 DEF vars
<1>4. CASE StartRender
  <2>1. \A n \in Names : Seen(n)' = Seen(n)
    BY <1>4 DEF StartRender, Seen, Definers
  <2> QED BY <1>1, <1>4, <2>1 DEF StartRender
<1>5. ASSUME ParseFile PROVE HighestSoFar'
  <2>1. PICK f \in todo : /\ todo' = todo \ {f} /\ cur' = f
                          /\ phase = "parsing" /\ phase' = phase /\ adding = {} /\ adding' = DOMAIN Defines[f]
    BY <1>5 DEF ParseFile
  <2>2. \A n \in Names : Seen(n)' = Seen(n)
    BY <2>1 DEF Seen, Definers
  <2> QED BY <1>1, <1>5, <2>1, <2>2 DEF ParseFile
<1>6. ASSUME NEW n \in Names, AddParseTree(n) PROVE HighestSoFar'
  <2> DEFINE tree == Defines[cur][n]
  <2>1. /\ phase = "parsing" /\ n \in adding /\ adding' = adding \ {n} /\ UNCHANGED <<phase, todo, cur>>
        /\ sets' = [sets EXCEPT ![1] = Associate(@, n, tree)]
    BY <1>6 DEF AddParseTree
  <2>2. cur \in Files /\ n \in DOMAIN Defines[cur] /\ sets[1] \in Sets /\ Len(sets) \in Nat \ {0}
    BY <2>1, SetsLeft DEF TypeOK
  <2>3. tree \in Trees
    BY <2>2, DefinedTrees
  <2>4. sets'[1] = Associate(sets[1], n, tree)
    BY <2>1, <2>2 DEF TypeOK
  <2>5. ASSUME NEW m \in Names \ {n}
        PROVE  /\ Seen(m)' = {} => sets'[1][m] \in Empty \cup {Absent}
               /\ \A f \in Seen(m)' : Lowest(f, Seen(m)') => sets'[1][m] = Defines[f][m]
    <3>1. Seen(m)' = Seen(m)
      BY <2>1 DEF Seen, Definers
    <3>2. sets'[1][m] = sets[1][m]
      BY <2>2, <2>3, <2>4, AssociateType
    <3> QED BY <2>1, <3>1, <3>2 DEF HighestSoFar, Lowest
  <2>6. sets'[1][n] = IF sets[1][n] \in Trees /\ tree \in Empty THEN sets[1][n] ELSE tree
    <3>1. /\ Associate(sets[1], n, tree) = [sets[1] EXCEPT ![n] = Associate(sets[1], n, tree)[n]]
          /\ Associate(sets[1], n, tree)[n] = IF sets[1][n] \in Trees /\ tree \in Empty THEN sets[1][n] ELSE tree
      <4> HIDE DEF tree
      <4> QED BY <2>2, <2>3 DEF Associate, Sets
    <3> QED BY <2>4, <3>1
  <2>7. CASE tree \in Empty
    <3>1. Seen(n)' = Seen(n)
      BY <2>1, <2>7 DEF Seen, Definers
    <3>2. Seen(n) = {} => sets'[1][n] \in Empty \cup {Absent}
      BY <2>1, <2>6, <2>7 DEF HighestSoFar
    <3>3. ASSUME NEW f \in Seen(n), Lowest(f, Seen(n)) PROVE sets'[1][n] = Defines[f][n]
      <4>1. sets[1][n] = Defines[f][n]
        BY <2>1, <3>3 DEF HighestSoFar
      <4>2. Defines[f][n] \in Trees
        BY DEF Seen, Definers
      <4> QED BY <2>6, <2>7, <4>1, <4>2
    <3>4. /\ Seen(n)' = {} => sets'[1][n] \in Empty \cup {Absent}
          /\ \A f \in Seen(n)' : Lowest(f, Seen(n)') => sets'[1][n] = Defines[f][n]
      BY <3>1, <3>2, <3>3
    <3> QED BY <2>5, <3>4 DEF HighestSoFar, Lowest, Less
  <2>8. CASE tree \notin Empty
    <3>1. cur \in Seen(n)'
      BY <2>1, <2>2, <2>3, <2>8 DEF Seen, Definers, Ordered
    <3>2. ASSUME NEW f \in Seen(n)', Lowest(f, Seen(n)') PROVE f = cur
      <4>1. f \in Files \ todo
        BY <2>1 DEF Seen, Definers
      <4>2. f = cur \/ Less(cur, f)
        BY <2>1, <4>1 DEF Ordered
      <4>3. cur = f \/ Less(f, cur)
        BY <3>1, <3>2 DEF Lowest
      <4> QED BY <2>2, <4>1, <4>2, <4>3, LessOneWay
    <3>3. sets'[1][n] = tree
      BY <2>6, <2>8
    <3>4. /\ Seen(n)' = {} => sets'[1][n] \in Empty \cup {Absent}
          /\ \A f \in Seen(n)' : Lowest(f, Seen(n)') => sets'[1][n] = Defines[f][n]
      BY <3>1, <3>2, <3>3
    <3> QED BY <2>5, <3>4 DEF HighestSoFar, Lowest, Less
  <2> QED BY <2>7, <2>8
<1> QED BY <1>2, <1>3, <1>4, <1>5, <1>6
        DEF Next, ExecuteFile, Done, Fail, Running, Return, Unwind, Absorb, Include, CallTemplate, CanCall, Tpl

(* Only a tpl makes a new set, from the current one.                         *)
LEMMA SeesStep == TypeOK /\ Shape /\ SeesEnclosing /\ [Next]_vars => SeesEnclosing'
<1> SUFFICES ASSUME TypeOK, Shape, SeesEnclosing, [Next]_vars PROVE SeesEnclosing'
  OBVIOUS
<1>1. sets \in Seq(Sets) /\ Len(sets) \in Nat \ {0}
  BY SetsLeft DEF TypeOK
<1>2. ASSUME phase # "executing" PROVE SeesEnclosing'
  <2>1. Len(sets) = 1
    BY <1>2, SetsLeft DEF Shape
  <2>2. Len(sets') = 1
    <3>1. CASE UNCHANGED sets
      BY <2>1, <3>1
    <3>2. ASSUME NEW n \in Names, AddParseTree(n) PROVE Len(sets') = 1
      BY <1>1, <2>1, <3>2 DEF AddParseTree
    <3>3. UNCHANGED sets \/ \E n \in Names : AddParseTree(n)
      BY <1>2 DEF Next, vars, ParseFile, StartRender, ExecuteFile, Done, Fail, Running, Return, Unwind,
         Absorb, Include, CallTemplate, CanCall, Tpl
    <3> QED BY <3>1, <3>2, <3>3
  <2> QED BY <2>2 DEF SeesEnclosing
<1>3. ASSUME phase = "executing" PROVE SeesEnclosing'
  <2>1. /\ Len(sets') \in Nat \ {0}
        /\ \A i \in 1..Len(sets) : i <= Len(sets') => sets'[i] = sets[i]
    BY <1>3, ExecutingKeeps
  <2>2. CASE Len(sets') <= Len(sets)
    <3>1. \A i \in 1..(Len(sets') - 1) : /\ i \in 1..(Len(sets) - 1)
                                         /\ sets'[i] = sets[i] /\ sets'[i + 1] = sets[i + 1]
      BY <1>1, <2>1, <2>2
    <3> QED BY <3>1 DEF SeesEnclosing
  <2>3. ASSUME NEW defs \in TplTexts, sets' = ForTpl(defs) PROVE SeesEnclosing'
    <3>1. /\ Len(sets') = Len(sets) + 1
          /\ sets'[Len(sets) + 1] = ParseInto(Clone(sets[Len(sets)]), defs)
          /\ \A i \in 1..Len(sets) : sets'[i] = sets[i]
      BY <1>1, <2>3 DEF ForTpl, Current
    <3>2. sets[Len(sets)] \in Sets
      BY <1>1
    <3>3. \A n \in Names \ {Root} :
            /\ sets'[Len(sets)][n] \in Trees => sets'[Len(sets) + 1][n] \in Trees
            /\ sets'[Len(sets)][n] \in Trees \ Empty => sets'[Len(sets) + 1][n] \in Trees \ Empty
      BY <1>1, <3>1, <3>2, ParseIntoKeeps
    <3>4. \A i \in 1..(Len(sets) - 1) : sets'[i] = sets[i] /\ sets'[i + 1] = sets[i + 1]
      BY <1>1, <3>1
    <3>5. \A i \in 1..(Len(sets') - 1) : i = Len(sets) \/ i \in 1..(Len(sets) - 1)
      BY <1>1, <3>1
    <3> QED BY <3>3, <3>4, <3>5 DEF SeesEnclosing
  <2> QED BY <1>3, <2>2, <2>3, ExecutingKeeps
<1> QED BY <1>2, <1>3

-----------------------------------------------------------------------------
(* The inductive invariant.                                                  *)
THEOREM Invariance == Spec => []IInv
<1>1. IInv /\ [Next]_vars => IInv'
  BY TypeStep, CountStep, OrderedStep, HighestStep, SeesStep DEF IInv
<1> QED BY InitInv, <1>1, PTL DEF Spec

(* The variables of the engine keep their types: no frame is ever deeper than *)
(* maxExecDepth.                                                              *)
THEOREM TypeCorrect == Spec => []TypeOK
<1>1. IInv => TypeOK
  BY DEF IInv
<1> QED BY Invariance, <1>1, PTL

(* For every chart, and whatever the order of Go's maps: a template is the    *)
(* one that the highest of the files defining it defines.                     *)
THEOREM HighestAlwaysWins == Spec => []HighestWins
<1>1. IInv => HighestWins
  BY DEF IInv, HighestSoFar, HighestWins, Seen, Lowest
<1> QED BY Invariance, <1>1, PTL

(* Nested tpl calls see every template of the contexts around them.          *)
THEOREM TplSeesEnclosing == Spec => []SeesEnclosing
<1>1. IInv => SeesEnclosing
  BY DEF IInv
<1> QED BY Invariance, <1>1, PTL

(* The counters of includeFun count the includes that are running.           *)
THEOREM IncludesAlwaysCounted == Spec => []IncludesCounted
<1>1. IInv => IncludesCounted
  BY DEF IInv
<1> QED BY Invariance, <1>1, PTL

(* No tpl changes a template of the contexts around it.                      *)
THEOREM TplIsolated == Spec => Isolated
<1>1. IInv /\ [Next]_vars =>
        [phase = "executing" => \A i \in 1..Len(sets) : i <= Len(sets') => sets'[i] = sets[i]]_vars
  BY ExecutingKeeps DEF IInv
<1> QED BY Invariance, <1>1, PTL DEF Spec, Isolated
=============================================================================
