--------------------------- MODULE BatchingProofs ---------------------------
(***************************************************************************)
(* For any findings, sizes and limits: every finding is decided without    *)
(* the model or asked about in exactly one call, the list does not depend  *)
(* on the order the detectors finish in, and no call with packed findings  *)
(* exceeds the budget for a reason but one finding's own size.             *)
(*                                                                         *)
(* BatchInv, for the first, assumes nothing of the list nor of the sizes:  *)
(* the loops themselves lose and repeat nothing.  DedupInv relates the map *)
(* to the findings taken, and FitInv the tokens counted for a batch to the *)
(* sum over its bodies.                                                    *)
(***************************************************************************)
EXTENDS Batching, FiniteSetTheorems, FunctionTheorems, SequenceTheorems,
        WellFoundedInduction, TLAPS

IsSeq(s) == \E S : s \in Seq(S)

LEMMA AppendAny ==
  ASSUME NEW s, IsSeq(s), NEW x
  PROVE  /\ IsSeq(Append(s, x)) /\ Len(s) \in Nat /\ Len(Append(s, x)) = Len(s) + 1
         /\ DOMAIN s = 1..Len(s) /\ DOMAIN Append(s, x) = 1..(Len(s) + 1)
         /\ Append(s, x)[Len(s) + 1] = x
         /\ \A i \in 1..Len(s) : Append(s, x)[i] = s[i]
         /\ Append(s, x) # <<>>
<1>1. PICK S : s \in Seq(S)
  BY DEF IsSeq
<1>2. s \in Seq(S \cup {x}) /\ x \in S \cup {x}
  <2>1. s \in [1..Len(s) -> S] /\ Len(s) \in Nat
    BY <1>1
  <2>2. s \in [1..Len(s) -> S \cup {x}]
    BY <2>1
  <2> QED
    BY <2>1, <2>2, SeqDef
<1>3. /\ Append(s, x) \in Seq(S \cup {x}) /\ Len(Append(s, x)) = Len(s) + 1
      /\ \A i \in 1..Len(s) : Append(s, x)[i] = s[i]
      /\ Append(s, x)[Len(s) + 1] = x
  BY <1>2, AppendProperties
<1>4. Len(s) \in Nat /\ DOMAIN s = 1..Len(s) /\ DOMAIN Append(s, x) = 1..Len(Append(s, x))
  BY <1>2, <1>3
<1>5. Append(s, x) # <<>>
  <2>1. Len(Append(s, x)) # 0
    BY <1>3, <1>4
  <2>2. Len(<<>>) = 0
    OBVIOUS
  <2> QED
    BY <2>1, <2>2, Zenon
<1> QED
  BY <1>3, <1>4, <1>5 DEF IsSeq

LEMMA AnySeq ==
  ASSUME NEW s, IsSeq(s)
  PROVE  Len(s) \in Nat /\ DOMAIN s = 1..Len(s) /\ (s = <<>> <=> Len(s) = 0)
<1>1. PICK S : s \in Seq(S)
  BY DEF IsSeq
<1> QED
  BY <1>1, EmptySeq

LEMMA NoneIsSeq == IsSeq(<<>>) /\ Len(<<>>) = 0
<1>1. <<>> \in Seq({})
  OBVIOUS
<1> QED
  BY <1>1 DEF IsSeq

-----------------------------------------------------------------------------
(* Triage *)

Asked == {bound[n] : n \in 1..Len(bound)}

(* Each finding looked at is decided or bound for the model, and not both.  *)
Triaged ==
  /\ IsFiniteSet(verdicts) /\ IsSeq(bound) /\ Looked \in Nat
  /\ verdicts \cup Asked = 1..Looked
  /\ verdicts \cap Asked = {}
  /\ \A m, n \in 1..Len(bound) : bound[m] = bound[n] => m = n

LEMMA LookedType ==
  ASSUME IsFiniteSet(verdicts), IsSeq(bound)
  PROVE  Cardinality(verdicts) \in Nat /\ Len(bound) \in Nat
  BY FS_CardinalityType, AnySeq

LEMMA Decides ==
  ASSUME Triaged, verdicts' = verdicts \cup {Looked + 1}, bound' = bound
  PROVE  Triaged'
<1>1. /\ IsFiniteSet(verdicts) /\ IsSeq(bound) /\ Looked \in Nat
      /\ verdicts \cup Asked = 1..Looked /\ verdicts \cap Asked = {}
      /\ \A m, n \in 1..Len(bound) : bound[m] = bound[n] => m = n
  BY DEF Triaged
<1>2. Looked + 1 \notin 1..Looked
  BY <1>1
<1>3. Looked + 1 \notin verdicts /\ Looked + 1 \notin Asked
  BY <1>1, <1>2
<1>4. IsFiniteSet(verdicts') /\ Cardinality(verdicts') = Cardinality(verdicts) + 1
  BY <1>1, <1>3, FS_AddElement
<1>5. Looked' = Looked + 1
  BY <1>1, <1>4, LookedType DEF Looked
<1>6. Asked' = Asked
  BY DEF Asked
<1>7. 1..(Looked + 1) = (1..Looked) \cup {Looked + 1}
  BY <1>1
<1>8. verdicts' \cup Asked' = 1..Looked' /\ verdicts' \cap Asked' = {}
  BY <1>1, <1>3, <1>5, <1>6, <1>7
<1>9. Looked' \in Nat
  BY <1>1, <1>5
<1> QED
  BY <1>1, <1>4, <1>8, <1>9 DEF Triaged

LEMMA Binds ==
  ASSUME Triaged, verdicts' = verdicts, bound' = Append(bound, Looked + 1)
  PROVE  Triaged'
<1>1. /\ IsFiniteSet(verdicts) /\ IsSeq(bound) /\ Looked \in Nat
      /\ verdicts \cup Asked = 1..Looked /\ verdicts \cap Asked = {}
      /\ \A m, n \in 1..Len(bound) : bound[m] = bound[n] => m = n
  BY DEF Triaged
<1> DEFINE new == Looked + 1
<1>2. new \notin verdicts /\ new \notin Asked
  BY <1>1
<1>3. /\ IsSeq(bound') /\ Len(bound) \in Nat /\ Len(bound') = Len(bound) + 1
      /\ bound'[Len(bound) + 1] = new
      /\ \A i \in 1..Len(bound) : bound'[i] = bound[i]
  BY <1>1, AppendAny
<1>4. 1..(Looked + 1) = (1..Looked) \cup {new} /\ Looked' = Looked + 1 /\ Looked' \in Nat
  <2>1. Looked' = Looked + 1
    <3>1. Cardinality(verdicts) \in Nat
      BY <1>1, FS_CardinalityType
    <3> QED
      BY <1>3, <3>1 DEF Looked
  <2> QED
    BY <1>1, <2>1
<1> HIDE DEF new
<1>5. \A i \in 1..Len(bound') : i \in 1..Len(bound) \/ i = Len(bound) + 1
  BY <1>3
<1>6. Asked' = Asked \cup {new}
  <2>1. Asked' \subseteq Asked \cup {new}
    BY <1>3, <1>5 DEF Asked
  <2>2. \A i \in 1..Len(bound) : i \in 1..Len(bound')
    BY <1>3
  <2>3. Len(bound) + 1 \in 1..Len(bound')
    BY <1>3
  <2>4. Asked \subseteq Asked'
    BY <1>3, <2>2 DEF Asked
  <2>5. new \in Asked'
    BY <1>3, <2>3 DEF Asked
  <2> QED
    BY <2>1, <2>4, <2>5
<1>7. ASSUME NEW m \in 1..Len(bound'), NEW n \in 1..Len(bound'), bound'[m] = bound'[n]
      PROVE  m = n
  <2>1. \A i \in 1..Len(bound) : bound[i] \in Asked
    BY DEF Asked
  <2>2. CASE m \in 1..Len(bound) /\ n \in 1..Len(bound)
    BY <1>1, <1>3, <1>7, <2>2
  <2>3. CASE m = Len(bound) + 1 /\ n \in 1..Len(bound)
    BY <1>2, <1>3, <1>7, <2>1, <2>3
  <2>4. CASE m \in 1..Len(bound) /\ n = Len(bound) + 1
    BY <1>2, <1>3, <1>7, <2>1, <2>4
  <2> QED
    BY <1>5, <2>2, <2>3, <2>4
<1>8. verdicts' \cup Asked' = 1..Looked' /\ verdicts' \cap Asked' = {}
  BY <1>1, <1>2, <1>4, <1>6
<1> QED
  BY <1>1, <1>3, <1>4, <1>7, <1>8 DEF Triaged

-----------------------------------------------------------------------------
(* Ranges of bound, each going on where the one before it ended *)

EndOf(s) == IF s = <<>> THEN 0 ELSE s[Len(s)].to

Tiles(s) ==
  /\ IsSeq(s) /\ EndOf(s) \in Nat
  /\ \A i \in 1..Len(s) : /\ s[i].from \in Nat /\ s[i].to \in Nat
                          /\ 0 < s[i].from /\ s[i].from <= s[i].to /\ s[i].to <= EndOf(s)
  /\ \A i, j \in 1..Len(s) : i < j => s[i].to < s[j].from
  /\ \A n \in 1..EndOf(s) : \E i \in 1..Len(s) : n \in s[i].from .. s[i].to
  /\ \A i \in 1..Len(s) : s[i].from = IF i = 1 THEN 1 ELSE s[i - 1].to + 1

LEMMA NoTiles == Tiles(<<>>) /\ EndOf(<<>>) = 0
  BY NoneIsSeq DEF Tiles, EndOf

LEMMA OneMoreTile ==
  ASSUME NEW s, Tiles(s), NEW x, x.from = EndOf(s) + 1, x.to \in Nat, x.from <= x.to
  PROVE  Tiles(Append(s, x)) /\ EndOf(Append(s, x)) = x.to
<1> DEFINE new == Append(s, x)
           k == Len(s)
<1>1. /\ IsSeq(s) /\ EndOf(s) \in Nat
      /\ \A i \in 1..k : /\ s[i].from \in Nat /\ s[i].to \in Nat
                         /\ 0 < s[i].from /\ s[i].from <= s[i].to /\ s[i].to <= EndOf(s)
      /\ \A i, j \in 1..k : i < j => s[i].to < s[j].from
      /\ \A n \in 1..EndOf(s) : \E i \in 1..k : n \in s[i].from .. s[i].to
      /\ \A i \in 1..k : s[i].from = IF i = 1 THEN 1 ELSE s[i - 1].to + 1
  BY DEF Tiles
<1>2. /\ IsSeq(new) /\ k \in Nat /\ Len(new) = k + 1 /\ new[k + 1] = x /\ new # <<>>
      /\ \A i \in 1..k : new[i] = s[i]
  BY <1>1, AppendAny
<1>3. k = 0 => EndOf(s) = 0
  BY <1>1, AnySeq DEF EndOf
<1>4. k > 0 => EndOf(s) = s[k].to
  BY <1>1, AnySeq DEF EndOf
<1> HIDE DEF new, k
<1>5. EndOf(new) = x.to
  BY <1>2 DEF EndOf
<1>6. \A i \in 1..Len(new) : i \in 1..k \/ i = k + 1
  BY <1>2
<1>7. x.from \in Nat /\ 0 < x.from /\ EndOf(s) < x.from /\ EndOf(s) <= x.to
  BY <1>1
<1>8. ASSUME NEW i \in 1..Len(new)
      PROVE  /\ new[i].from \in Nat /\ new[i].to \in Nat
             /\ 0 < new[i].from /\ new[i].from <= new[i].to /\ new[i].to <= EndOf(new)
  <2>1. CASE i \in 1..k
    <3>1. /\ s[i].from \in Nat /\ s[i].to \in Nat
          /\ 0 < s[i].from /\ s[i].from <= s[i].to /\ s[i].to <= EndOf(s)
      BY <1>1, <2>1
    <3>2. s[i].to <= x.to
      BY <1>1, <1>7, <3>1
    <3> QED
      BY <1>2, <1>5, <2>1, <3>1, <3>2
  <2>2. CASE i = k + 1
    BY <1>2, <1>5, <1>7, <2>2
  <2> QED
    BY <1>6, <2>1, <2>2
<1>9. ASSUME NEW i \in 1..Len(new), NEW j \in 1..Len(new), i < j
      PROVE  new[i].to < new[j].from
  <2>1. i \in 1..k
    BY <1>2, <1>9
  <2>2. CASE j \in 1..k
    BY <1>1, <1>2, <1>9, <2>1, <2>2
  <2>3. CASE j = k + 1
    BY <1>1, <1>2, <1>7, <2>1, <2>3
  <2> QED
    BY <1>6, <2>2, <2>3
<1>10. ASSUME NEW n \in 1..x.to
       PROVE  \E i \in 1..Len(new) : n \in new[i].from .. new[i].to
  <2>1. CASE n <= EndOf(s)
    <3>1. n \in 1..EndOf(s)
      BY <1>1, <2>1
    <3>2. PICK i \in 1..k : n \in s[i].from .. s[i].to
      BY <1>1, <3>1
    <3>3. i \in 1..Len(new) /\ new[i] = s[i]
      BY <1>2
    <3> QED
      BY <3>2, <3>3
  <2>2. CASE n > EndOf(s)
    <3>1. n \in x.from .. x.to
      BY <1>1, <2>2
    <3>2. k + 1 \in 1..Len(new)
      BY <1>2
    <3> QED
      BY <1>2, <3>1, <3>2
  <2> QED
    BY <1>1, <2>1, <2>2
<1>11. ASSUME NEW i \in 1..Len(new)
       PROVE  new[i].from = IF i = 1 THEN 1 ELSE new[i - 1].to + 1
  <2>1. CASE i \in 1..k
    <3>1. i # 1 => i - 1 \in 1..k
      BY <1>2, <2>1
    <3> QED
      BY <1>1, <1>2, <2>1, <3>1
  <2>2. CASE i = k + 1 /\ k = 0
    BY <1>2, <1>3, <2>2
  <2>3. CASE i = k + 1 /\ k > 0
    <3>1. i # 1 /\ i - 1 = k /\ k \in 1..k
      BY <1>2, <2>3
    <3> QED
      BY <1>2, <1>4, <2>3, <3>1
  <2> QED
    BY <1>2, <1>6, <2>1, <2>2, <2>3
<1> QED
  BY <1>2, <1>5, <1>8, <1>9, <1>10, <1>11 DEF Tiles, new

-----------------------------------------------------------------------------
(* The invariant *)

(* packBatches: the batch being built goes on where the finished ones end.  *)
Packing ==
  /\ Tiles(batches) /\ packed \in 0..Len(bound)
  /\ current.to = packed /\ current.from = EndOf(batches) + 1 /\ current.from <= packed + 1

Short(s) == \A c \in 1..Len(s) : config.perCall > 0 => s[c].to - s[c].from < config.perCall

(* capFindingsPerBatch: the calls end inside the batch at hand.             *)
Splitting ==
  /\ Tiles(batches) /\ EndOf(batches) = Len(bound)
  /\ Tiles(calls) /\ Short(calls) /\ split \in 0..Len(batches)
  /\ split < Len(batches) => EndOf(calls) < batches[split + 1].to
  /\ split = Len(batches) => EndOf(calls) = Len(bound)

BatchInv ==
  /\ config \in Configs /\ Triaged
  /\ stage \in {"dedup", "capping"} => verdicts = {} /\ bound = <<>>
  /\ stage \in {"dedup", "capping", "triage"} =>
       packed = 0 /\ current = Span(1, 0, 0) /\ batches = <<>>
  /\ stage \in {"dedup", "capping", "triage", "packing"} => split = 0 /\ calls = <<>>
  /\ stage \in {"packing", "splitting", "planned"} => Looked = asked
  /\ stage = "packing" => Packing
  /\ stage = "splitting" => Splitting
  /\ stage = "planned" => Tiles(calls) /\ EndOf(calls) = Len(bound) /\ Short(calls)

LEMMA InitBatch == Init => BatchInv
<1> SUFFICES ASSUME Init PROVE BatchInv
  OBVIOUS
<1>1. /\ verdicts = {} /\ bound = <<>> /\ stage = "dedup" /\ config \in Configs
      /\ packed = 0 /\ current = Span(1, 0, 0) /\ batches = <<>> /\ split = 0 /\ calls = <<>>
  BY DEF Init, DedupInit
<1>2. IsFiniteSet(verdicts) /\ Cardinality(verdicts) = 0 /\ IsSeq(bound) /\ Len(bound) = 0
  BY <1>1, FS_EmptySet, NoneIsSeq
<1>3. Looked = 0 /\ Asked = {}
  BY <1>2 DEF Looked, Asked
<1>4. Triaged
  BY <1>1, <1>2, <1>3 DEF Triaged
<1> QED
  BY <1>1, <1>4 DEF BatchInv

LEMMA SameTriage ==
  ASSUME BatchInv, UNCHANGED <<config, verdicts, bound>>
  PROVE  /\ config' \in Configs /\ Triaged' /\ Looked' = Looked /\ Triaged
         /\ Len(bound) \in Nat /\ Len(bound') = Len(bound)
  BY AnySeq DEF BatchInv, Triaged, Looked, Asked

(* Before anything is packed.                                               *)
LEMMA TriageKeeps ==
  ASSUME BatchInv,
         \/ \E f \in Finding : Collect(f) /\ UNCHANGED <<config, batchVars>>
         \/ SortFindings /\ UNCHANGED <<config, batchVars>>
         \/ CapRequest \/ ShortCircuit \/ NeedsModel
  PROVE  BatchInv'
<1>1. CASE \/ \E f \in Finding : Collect(f) /\ UNCHANGED <<config, batchVars>>
           \/ SortFindings /\ UNCHANGED <<config, batchVars>>
  <2>1. /\ stage = "dedup" /\ stage' \in {"dedup", "capping"}
        /\ UNCHANGED <<config, verdicts, bound, packed, current, batches, split, calls>>
    BY <1>1 DEF Collect, SortFindings, batchVars
  <2>2. config' \in Configs /\ Triaged'
    BY <2>1, SameTriage
  <2> QED
    BY <2>1, <2>2 DEF BatchInv
<1>2. CASE CapRequest
  <2>1. /\ stage = "capping" /\ stage' = "triage"
        /\ UNCHANGED <<config, verdicts, bound, packed, current, batches, split, calls>>
    BY <1>2 DEF CapRequest, Go
  <2>2. config' \in Configs /\ Triaged'
    BY <2>1, SameTriage
  <2> QED
    BY <2>1, <2>2 DEF BatchInv
<1>3. CASE ShortCircuit \/ NeedsModel
  <2>1. /\ stage = "triage" /\ stage' = "triage"
        /\ UNCHANGED <<config, packed, current, batches, split, calls>>
    BY <1>3 DEF ShortCircuit, NeedsModel, Go
  <2>2. Triaged
    BY DEF BatchInv
  <2>3. Triaged'
    <3>1. CASE ShortCircuit
      BY <2>2, <3>1, Decides DEF ShortCircuit
    <3>2. CASE NeedsModel
      BY <2>2, <3>2, Binds DEF NeedsModel
    <3> QED
      BY <1>3, <3>1, <3>2
  <2> QED
    BY <2>1, <2>3 DEF BatchInv
<1> QED
  BY <1>1, <1>2, <1>3

(* The first call is yet to be cut.                                         *)
LEMMA StartSplitting ==
  ASSUME BatchInv, UNCHANGED <<config, verdicts, bound, asked, split, calls>>,
         stage \in {"triage", "packing"}, stage' = "splitting", Looked = asked,
         Tiles(batches'), EndOf(batches') = Len(bound)
  PROVE  BatchInv'
<1>1. /\ config' \in Configs /\ Triaged' /\ Looked' = Looked
      /\ Len(bound) \in Nat /\ Len(bound') = Len(bound)
  BY SameTriage
<1>2. split' = 0 /\ calls' = <<>>
  BY DEF BatchInv
<1>3. Tiles(calls') /\ EndOf(calls') = 0
  BY <1>2, NoTiles
<1>4. Short(calls)'
  BY <1>2, NoneIsSeq DEF Short
<1>5. Len(batches') \in Nat /\ (Len(batches') = 0 => batches' = <<>>)
  BY AnySeq DEF Tiles
<1>6. 0 < Len(batches') => EndOf(calls') < batches'[0 + 1].to
  BY <1>3, <1>5 DEF Tiles
<1>7. 0 = Len(batches') => EndOf(calls') = Len(bound')
  BY <1>1, <1>3, <1>5 DEF EndOf
<1>8. Splitting'
  BY <1>1, <1>2, <1>3, <1>4, <1>5, <1>6, <1>7 DEF Splitting
<1> QED
  BY <1>1, <1>8 DEF BatchInv

LEMMA PackingKeeps ==
  ASSUME BatchInv,
         \/ SingleCall \/ PerFinding \/ NothingToAsk
         \/ PackFinding \/ CloseBatch \/ LastBatch
  PROVE  BatchInv'
<1>1. CASE SingleCall
  <2> DEFINE x == Span(1, Len(bound), 0)
  <2>1. /\ stage = "triage" /\ stage' = "splitting" /\ Looked = asked /\ bound # <<>>
        /\ UNCHANGED <<config, verdicts, bound, asked, split, calls>>
        /\ batches' = <<x>>
    BY <1>1 DEF SingleCall, Go
  <2>2. Len(bound) \in Nat \ {0}
    BY <2>1, AnySeq DEF BatchInv, Triaged
  <2>3. x.from = 0 + 1 /\ x.to = Len(bound) /\ x.from <= x.to
    BY <2>2 DEF Span
  <2> HIDE DEF x
  <2>4. Tiles(Append(<<>>, x)) /\ EndOf(Append(<<>>, x)) = x.to
    BY <2>2, <2>3, NoTiles, OneMoreTile
  <2>5. Append(<<>>, x) = <<x>>
    OBVIOUS
  <2> QED
    BY <2>1, <2>3, <2>4, <2>5, StartSplitting
<1>2. CASE PerFinding
  <2>1. /\ stage = "triage" /\ stage' = "packing" /\ Looked = asked
        /\ UNCHANGED <<config, asked, verdicts, bound, packed, current, batches, split, calls>>
    BY <1>2 DEF PerFinding, Go, batchVars
  <2>2. packed = 0 /\ current = Span(1, 0, 0) /\ batches = <<>> /\ split = 0 /\ calls = <<>>
    BY <2>1 DEF BatchInv
  <2>3. /\ config' \in Configs /\ Triaged' /\ Looked' = Looked
        /\ Len(bound) \in Nat /\ Len(bound') = Len(bound)
    BY <2>1, SameTriage
  <2>4. Packing'
    BY <2>1, <2>2, <2>3, NoTiles DEF Packing, Span
  <2> QED
    BY <2>1, <2>2, <2>3, <2>4 DEF BatchInv
<1>3. CASE NothingToAsk
  <2>1. /\ stage = "triage" /\ stage' = "planned" /\ Looked = asked /\ bound = <<>>
        /\ UNCHANGED <<config, asked, verdicts, bound, packed, current, batches, split, calls>>
    BY <1>3 DEF NothingToAsk, Go, batchVars
  <2>2. calls = <<>> /\ Len(bound) = 0
    BY <2>1, NoneIsSeq DEF BatchInv
  <2>3. config' \in Configs /\ Triaged' /\ Looked' = Looked /\ Len(bound') = Len(bound)
    BY <2>1, SameTriage
  <2>4. Tiles(calls') /\ EndOf(calls') = Len(bound') /\ Short(calls)'
    BY <2>1, <2>2, NoTiles, NoneIsSeq DEF Short
  <2> QED
    BY <2>1, <2>3, <2>4 DEF BatchInv
<1>4. CASE PackFinding
  <2>1. /\ stage = "packing" /\ stage' = "packing" /\ packed < Len(bound)
        /\ UNCHANGED <<config, asked, verdicts, bound, batches, split, calls>>
        /\ current'.from = current.from /\ current'.to = packed + 1 /\ packed' = packed + 1
    BY <1>4 DEF PackFinding, Go, Span
  <2>2. config' \in Configs /\ Triaged' /\ Looked' = Looked /\ Len(bound) \in Nat
    BY <2>1, SameTriage
  <2>3. /\ Tiles(batches) /\ packed \in 0..Len(bound)
        /\ current.from = EndOf(batches) + 1 /\ current.from <= packed + 1
    BY <2>1 DEF BatchInv, Packing
  <2>4. EndOf(batches) \in Nat
    BY <2>3 DEF Tiles
  <2>5. Packing'
    BY <2>1, <2>2, <2>3, <2>4 DEF Packing
  <2> QED
    BY <2>1, <2>2, <2>5 DEF BatchInv
<1>5. CASE CloseBatch
  <2>1. /\ stage = "packing" /\ stage' = "packing" /\ packed < Len(bound)
        /\ UNCHANGED <<config, asked, verdicts, bound, split, calls>>
        /\ current.from <= current.to /\ batches' = Append(batches, current)
        /\ current'.from = packed + 1 /\ current'.to = packed + 1 /\ packed' = packed + 1
    BY <1>5 DEF CloseBatch, Go, Span, Full
  <2>2. config' \in Configs /\ Triaged' /\ Looked' = Looked /\ Len(bound) \in Nat
    BY <2>1, SameTriage
  <2>3. /\ Tiles(batches) /\ packed \in 0..Len(bound) /\ current.to = packed
        /\ current.from = EndOf(batches) + 1
    BY <2>1 DEF BatchInv, Packing
  <2>4. Tiles(batches') /\ EndOf(batches') = packed
    BY <2>1, <2>2, <2>3, OneMoreTile
  <2>5. Packing'
    BY <2>1, <2>2, <2>3, <2>4 DEF Packing
  <2> QED
    BY <2>1, <2>2, <2>5 DEF BatchInv
<1>6. CASE LastBatch
  <2>1. /\ stage = "packing" /\ stage' = "splitting" /\ packed = Len(bound)
        /\ UNCHANGED <<config, asked, verdicts, bound, split, calls>>
        /\ batches' = IF current.from <= current.to THEN Append(batches, current) ELSE batches
    BY <1>6 DEF LastBatch, Go
  <2>2. Len(bound) \in Nat /\ Looked = asked
    BY <2>1, SameTriage DEF BatchInv
  <2>3. /\ Tiles(batches) /\ current.to = packed
        /\ current.from = EndOf(batches) + 1 /\ current.from <= packed + 1
    BY <2>1 DEF BatchInv, Packing
  <2>4. EndOf(batches) \in Nat
    BY <2>3 DEF Tiles
  <2>5. Tiles(batches') /\ EndOf(batches') = Len(bound)
    <3>1. CASE current.from <= current.to
      BY <2>1, <2>2, <2>3, <3>1, OneMoreTile
    <3>2. CASE ~(current.from <= current.to)
      BY <2>1, <2>2, <2>3, <2>4, <3>2
    <3> QED
      BY <3>1, <3>2
  <2> QED
    BY <2>1, <2>2, <2>5, StartSplitting
<1> QED
  BY <1>1, <1>2, <1>3, <1>4, <1>5, <1>6

LEMMA CuttingKeeps ==
  ASSUME BatchInv, CutBatch
  PROVE  BatchInv'
<1> DEFINE b == batches[split + 1]
           done == EndOf(calls)
           last == IF config.perCall > 0 /\ b.to > done + config.perCall
                   THEN done + config.perCall ELSE b.to
           x == Span(done + 1, last, b.tok)
<1>1. /\ stage = "splitting" /\ stage' = "splitting" /\ split < Len(batches)
      /\ UNCHANGED <<config, asked, verdicts, bound, batches>>
      /\ calls' = Append(calls, x)
      /\ split' = IF last = b.to THEN split + 1 ELSE split
  BY DEF CutBatch, Go, EndOf
<1>2. config' \in Configs /\ Triaged' /\ Looked' = Looked /\ Len(bound) \in Nat /\ Looked = asked
  BY <1>1, SameTriage DEF BatchInv
<1>3. /\ Tiles(batches) /\ EndOf(batches) = Len(bound) /\ Tiles(calls) /\ Short(calls)
      /\ split \in 0..Len(batches) /\ done < b.to
  BY <1>1 DEF BatchInv, Splitting
<1>4. /\ Len(batches) \in Nat /\ done \in Nat /\ config.perCall \in Int
      /\ Len(calls) \in Nat
  BY <1>2, <1>3, ConfigAssumption, AnySeq DEF Tiles, BatchInv
<1>5. split + 1 \in 1..Len(batches)
  BY <1>1, <1>3, <1>4
<1>6. b.to \in Nat /\ b.to <= Len(bound)
  BY <1>3, <1>5 DEF Tiles
<1>7. /\ last \in Nat /\ done < last /\ last <= b.to
      /\ config.perCall > 0 => last - (done + 1) < config.perCall
  BY <1>3, <1>4, <1>6, SMTT(30)
<1>8. x.from = done + 1 /\ x.to = last
  BY DEF Span
<1>9. split + 1 < Len(batches) => b.to < batches[(split + 1) + 1].to
  <2> SUFFICES ASSUME split + 1 < Len(batches) PROVE b.to < batches[(split + 1) + 1].to
    OBVIOUS
  <2>1. (split + 1) + 1 \in 1..Len(batches) /\ split + 1 < (split + 1) + 1
    BY <1>4, <1>5
  <2>2. b.to < batches[(split + 1) + 1].from
    BY <1>3, <1>5, <2>1 DEF Tiles
  <2>3. /\ batches[(split + 1) + 1].from <= batches[(split + 1) + 1].to
        /\ batches[(split + 1) + 1].from \in Nat /\ batches[(split + 1) + 1].to \in Nat
    BY <1>3, <2>1 DEF Tiles
  <2> QED
    BY <1>6, <2>2, <2>3
<1>10. split + 1 = Len(batches) => b.to = Len(bound)
  <2>1. batches # <<>>
    BY <1>3, <1>4, <1>5, NoneIsSeq
  <2> QED
    BY <1>3, <2>1 DEF EndOf
<1>11. calls' = Append(calls, x) /\ split' = IF last = b.to THEN split + 1 ELSE split
  BY <1>1
<1> HIDE DEF b, done, last, x
<1>12. Tiles(calls') /\ EndOf(calls') = last
  BY <1>3, <1>4, <1>7, <1>8, <1>11, OneMoreTile DEF done
<1>13. Short(calls)'
  <2>1. /\ Len(calls') = Len(calls) + 1 /\ calls'[Len(calls) + 1] = x
        /\ \A i \in 1..Len(calls) : calls'[i] = calls[i]
    BY <1>3, <1>11, AppendAny DEF Tiles
  <2>2. \A c \in 1..Len(calls') : c \in 1..Len(calls) \/ c = Len(calls) + 1
    BY <1>4, <2>1
  <2>3. config.perCall > 0 => x.to - x.from < config.perCall
    BY <1>7, <1>8
  <2>4. config' = config
    BY <1>1
  <2> QED
    BY <1>3, <2>1, <2>2, <2>3, <2>4 DEF Short
<1>14. Splitting'
  <2>1. Len(batches') = Len(batches) /\ batches' = batches /\ bound' = bound
    BY <1>1
  <2>2. CASE last = b.to
    <3>1. split' = split + 1 /\ split' \in 0..Len(batches)
      BY <1>4, <1>5, <1>11, <2>2
    <3> QED
      BY <1>3, <1>9, <1>10, <1>12, <1>13, <2>1, <2>2, <3>1 DEF Splitting
  <2>3. CASE last # b.to
    <3>1. split' = split /\ split # Len(batches) /\ last < b.to
      BY <1>1, <1>3, <1>4, <1>6, <1>7, <1>11, <2>3
    <3> QED
      BY <1>3, <1>12, <1>13, <2>1, <3>1 DEF Splitting, b
  <2> QED
    BY <2>2, <2>3
<1> QED
  BY <1>1, <1>2, <1>14 DEF BatchInv

LEMMA NextBatch == BatchInv /\ [Next]_vars => BatchInv'
<1> SUFFICES ASSUME BatchInv, [Next]_vars PROVE BatchInv'
  OBVIOUS
<1>1. CASE CallsReady
  <2>1. /\ stage = "splitting" /\ stage' = "planned" /\ split = Len(batches)
        /\ UNCHANGED <<config, asked, verdicts, bound, calls>>
    BY <1>1 DEF CallsReady, Go, batchVars
  <2>2. config' \in Configs /\ Triaged' /\ Looked' = Looked /\ Looked = asked
    BY <2>1, SameTriage DEF BatchInv
  <2>3. Tiles(calls) /\ EndOf(calls) = Len(bound) /\ Short(calls)
    BY <2>1 DEF BatchInv, Splitting
  <2>4. Short(calls)'
    BY <2>1, <2>3 DEF Short
  <2> QED
    BY <2>1, <2>2, <2>3, <2>4 DEF BatchInv
<1>2. CASE UNCHANGED vars
  <2>1. /\ UNCHANGED <<config, verdicts, bound>> /\ stage' = stage /\ asked' = asked
        /\ UNCHANGED <<packed, current, batches, split, calls>>
    BY <1>2 DEF vars, batchVars
  <2>2. config' \in Configs /\ Triaged' /\ Looked' = Looked
    BY <2>1, SameTriage
  <2>3. (Packing => Packing') /\ (Splitting => Splitting') /\ (Short(calls) => Short(calls)')
    BY <2>1 DEF Packing, Splitting, Short
  <2> QED
    BY <2>1, <2>2, <2>3 DEF BatchInv
<1> QED
  BY <1>1, <1>2, TriageKeeps, PackingKeeps, CuttingKeeps DEF Next

-----------------------------------------------------------------------------
(* Between the cap on the request and the calls to the model no finding is  *)
(* lost, decided twice or asked about twice, whatever the limits and sizes. *)
THEOREM FindingsHandledOnce == Spec => []HandledOnce
<1>1. BatchInv => HandledOnce
  <2> SUFFICES ASSUME BatchInv, stage = "planned" PROVE HandledOnce
    BY DEF HandledOnce
  <2>1. /\ Tiles(calls) /\ EndOf(calls) = Len(bound) /\ Short(calls) /\ Looked = asked
        /\ verdicts \cup Asked = 1..Looked /\ verdicts \cap Asked = {}
        /\ \A m, n \in 1..Len(bound) : bound[m] = bound[n] => m = n
    BY DEF BatchInv, Triaged
  <2>2. DOMAIN calls = 1..Len(calls) /\ Len(bound) \in Nat
    BY <2>1, AnySeq DEF Tiles
  <2>3. \A c \in 1..Len(calls) : /\ calls[c].from \in Nat /\ calls[c].to \in Nat
                                 /\ 0 < calls[c].from /\ calls[c].from <= calls[c].to
                                 /\ calls[c].to <= Len(bound)
    BY <2>1 DEF Tiles
  <2>4. \A c \in 1..Len(calls) : \A n \in calls[c].from .. calls[c].to : n \in 1..Len(bound)
    BY <2>2, <2>3
  <2>5. \A c \in 1..Len(calls) : AskedIn(c) \subseteq Asked
    BY <2>4 DEF AskedIn, Asked
  <2>6. Asked \subseteq UNION {AskedIn(c) : c \in 1..Len(calls)}
    <3> SUFFICES ASSUME NEW n \in 1..Len(bound)
                 PROVE  \E c \in 1..Len(calls) : bound[n] \in AskedIn(c)
      BY DEF Asked
    <3>1. PICK c \in 1..Len(calls) : n \in calls[c].from .. calls[c].to
      BY <2>1 DEF Tiles
    <3> QED
      BY <3>1 DEF AskedIn
  <2>7. ASSUME NEW c \in 1..Len(calls), NEW d \in 1..Len(calls), AskedIn(c) \cap AskedIn(d) # {}
        PROVE  c = d
    <3>1. PICK m \in calls[c].from .. calls[c].to, n \in calls[d].from .. calls[d].to :
            bound[m] = bound[n]
      BY <2>7 DEF AskedIn
    <3>2. m = n
      BY <2>1, <2>4, <3>1
    <3>3. ~(c < d) /\ ~(d < c)
      BY <2>1, <2>3, <3>2, SMTT(30) DEF Tiles
    <3> QED
      BY <3>3
  <2>8. verdicts \cup UNION {AskedIn(c) : c \in DOMAIN calls} = 1..asked
    BY <2>1, <2>2, <2>5, <2>6
  <2>9. \A c \in 1..Len(calls) : AskedIn(c) \cap verdicts = {}
    BY <2>1, <2>5
  <2> QED
    BY <2>1, <2>2, <2>3, <2>7, <2>8, <2>9 DEF HandledOnce, Short
<1> QED
  BY InitBatch, NextBatch, <1>1, PTL DEF Spec
-----------------------------------------------------------------------------
(* Sorting *)

(* A finite set with a strict total order can be listed in that order: an   *)
(* element's rank is one more than how many come before it.                 *)
LEMMA Listing ==
  ASSUME NEW I, IsFiniteSet(I), NEW R,
         \A x \in I : <<x, x>> \notin R,
         \A x, y \in I : x # y => <<x, y>> \in R \/ <<y, x>> \in R,
         \A x, y, z \in I : <<x, y>> \in R /\ <<y, z>> \in R => <<x, z>> \in R
  PROVE  \E p \in Bijection(1..Cardinality(I), I) :
           \A m, n \in 1..Cardinality(I) : m < n => <<p[m], p[n]>> \in R
<1> DEFINE N == 1..Cardinality(I)
           Below(x) == {y \in I : <<y, x>> \in R}
           rank == [x \in I |-> Cardinality(Below(x)) + 1]
<1>1. Cardinality(I) \in Nat
  BY FS_CardinalityType
<1>2. \A x \in I : Below(x) \in SUBSET (I \ {x})
  OBVIOUS
<1>3. \A x, y \in I : <<x, y>> \in R => Below(x) \cup {x} \in SUBSET Below(y)
  OBVIOUS
<1> HIDE DEF Below
<1>4. \A x \in I : /\ rank[x] = Cardinality(Below(x)) + 1
                   /\ IsFiniteSet(Below(x)) /\ Cardinality(Below(x)) \in Nat
                   /\ rank[x] \in N
  <2> TAKE x \in I
  <2>1. IsFiniteSet(I \ {x}) /\ Cardinality(I \ {x}) = Cardinality(I) - 1
    BY FS_RemoveElement
  <2>2. IsFiniteSet(Below(x)) /\ Cardinality(Below(x)) <= Cardinality(I) - 1
    BY <1>2, <2>1, FS_Subset
  <2>3. Cardinality(Below(x)) \in Nat
    BY <2>2, FS_CardinalityType
  <2>4. rank[x] = Cardinality(Below(x)) + 1
    OBVIOUS
  <2> HIDE DEF rank
  <2> QED
    BY <1>1, <2>2, <2>3, <2>4
<1>5. rank \in [I -> N]
  BY <1>4
<1> HIDE DEF rank
<1>6. ASSUME NEW x \in I, NEW y \in I, <<x, y>> \in R PROVE rank[x] < rank[y]
  <2>1. x \notin Below(x)
    BY <1>2
  <2>2. Cardinality(Below(x) \cup {x}) = Cardinality(Below(x)) + 1
    BY <1>4, <2>1, FS_AddElement
  <2>3. Cardinality(Below(x) \cup {x}) <= Cardinality(Below(y))
    BY <1>3, <1>4, <1>6, FS_Subset
  <2>4. /\ rank[x] = Cardinality(Below(x)) + 1 /\ rank[y] = Cardinality(Below(y)) + 1
        /\ Cardinality(Below(x)) \in Nat /\ Cardinality(Below(y)) \in Nat
    BY <1>4
  <2> HIDE DEF rank
  <2> QED
    BY <2>2, <2>3, <2>4
<1>7. \A x \in I : rank[x] \in Nat
  BY <1>1, <1>5
<1>8. rank \in Injection(I, N)
  <2>1. ASSUME NEW x \in I, NEW y \in I, rank[x] = rank[y] PROVE x = y
    <3>1. <<x, y>> \in R => rank[x] < rank[y]
      BY <1>6
    <3>2. <<y, x>> \in R => rank[y] < rank[x]
      BY <1>6
    <3>3. rank[x] \in Nat /\ rank[y] \in Nat
      BY <1>7
    <3>4. ~(rank[x] < rank[y]) /\ ~(rank[y] < rank[x])
      BY <2>1, <3>3
    <3> QED
      BY <3>1, <3>2, <3>4
  <2> QED
    BY <1>5, <2>1, Fun_IsInj
<1>9. rank \in Bijection(I, N)
  <2>1. IsFiniteSet(N) /\ Cardinality(N) = Cardinality(I)
    BY <1>1, FS_Interval
  <2>2. rank \in Surjection(I, N)
    BY <1>8, <2>1, FS_Injection
  <2> QED
    BY <1>8, <2>2, Fun_IsBij
<1>12. \A n \in N : \E x \in I : rank[x] = n
  <2>1. rank \in Surjection(I, N)
    BY <1>9 DEF Bijection
  <2> QED
    BY <2>1 DEF Surjection
<1> DEFINE p == Inverse(rank, I, N)
<1>10. p \in Bijection(N, I) /\ \A x \in I : p[rank[x]] = x
  BY <1>9, Fun_BijInverse
<1> HIDE DEF p
<1>11. \A n \in N : p[n] \in I /\ rank[p[n]] = n
  <2> TAKE n \in N
  <2>1. p[n] \in I
    <3>1. p \in [N -> I]
      BY <1>10, Fun_BijectionProperties, Zenon
    <3> QED
      BY <3>1
  <2>2. PICK x \in I : rank[x] = n
    BY <1>12
  <2> QED
    BY <1>10, <2>1, <2>2
<1>13. ASSUME NEW m \in N, NEW n \in N, m < n PROVE <<p[m], p[n]>> \in R
  <2>1. p[m] \in I /\ p[n] \in I /\ rank[p[m]] = m /\ rank[p[n]] = n
    BY <1>11
  <2>2. m \in Nat /\ n \in Nat
    BY <1>1
  <2>3. p[m] # p[n] /\ ~(rank[p[n]] < rank[p[m]])
    BY <1>13, <2>1, <2>2
  <2> QED
    BY <1>6, <2>1, <2>3
<1> QED
  BY <1>10, <1>13

(* The keys are listed once each and in order.                              *)
LEMMA AscendingLists ==
  ASSUME NEW S, S \subseteq Nat, IsFiniteSet(S)
  PROVE  /\ Ascending(S) \in Bijection(1..Cardinality(S), S)
         /\ \A m, n \in 1..Cardinality(S) : m < n => Ascending(S)[m] < Ascending(S)[n]
<1> DEFINE R == {e \in S \X S : e[1] < e[2]}
<1>1. \A x, y \in S : <<x, y>> \in R <=> x < y
  OBVIOUS
<1>2. /\ \A x \in S : <<x, x>> \notin R
      /\ \A x, y \in S : x # y => <<x, y>> \in R \/ <<y, x>> \in R
      /\ \A x, y, z \in S : <<x, y>> \in R /\ <<y, z>> \in R => <<x, z>> \in R
  BY <1>1
<1> HIDE DEF R
<1>3. PICK p \in Bijection(1..Cardinality(S), S) :
        \A m, n \in 1..Cardinality(S) : m < n => <<p[m], p[n]>> \in R
  BY <1>2, Listing
<1>4. \A n \in 1..Cardinality(S) : p[n] \in S
  <2>1. p \in [1..Cardinality(S) -> S]
    BY <1>3 DEF Bijection, Injection
  <2> QED
    BY <2>1
<1>5. \A m, n \in 1..Cardinality(S) : m < n => p[m] < p[n]
  BY <1>1, <1>3, <1>4
<1> QED
  BY <1>5 DEF Ascending

(* What a detection sorts by, as one number.                                *)
Weight(d) == 2 * d.label + (IF d.verified THEN 1 ELSE 0)

LEMMA SortsByWeight ==
  ASSUME NEW a \in Detections, NEW b \in Detections
  PROVE  /\ Weight(a) \in Nat /\ Weight(b) \in Nat
         /\ Before(a, b) <=> Weight(a) < Weight(b)
         /\ a = b <=> Weight(a) = Weight(b)
<1>1. PICK l \in Labels, v \in BOOLEAN : a = [label |-> l, verified |-> v]
  BY DEF Detections
<1>2. PICK m \in Labels, w \in BOOLEAN : b = [label |-> m, verified |-> w]
  BY DEF Detections
<1>3. l \in Nat /\ m \in Nat
  BY DedupAssumption
<1>4. a.label = l /\ b.label = m /\ a.verified = v /\ b.verified = w
  BY <1>1, <1>2
<1>5. CASE v /\ w
  <2>1. Weight(a) = 2 * l + 1 /\ Weight(b) = 2 * m + 1
    BY <1>4, <1>5 DEF Weight
  <2>2. Before(a, b) <=> l < m
    BY <1>3, <1>4, <1>5 DEF Before
  <2>3. a = b <=> l = m
    BY <1>1, <1>2, <1>4, <1>5
  <2> QED
    BY <1>3, <2>1, <2>2, <2>3
<1>6. CASE v /\ ~w
  <2>1. Weight(a) = 2 * l + 1 /\ Weight(b) = 2 * m
    BY <1>3, <1>4, <1>6 DEF Weight
  <2>2. Before(a, b) <=> l < m
    BY <1>3, <1>4, <1>6 DEF Before
  <2>3. a # b
    BY <1>4, <1>6
  <2> QED
    BY <1>3, <2>1, <2>2, <2>3
<1>7. CASE ~v /\ w
  <2>1. Weight(a) = 2 * l /\ Weight(b) = 2 * m + 1
    BY <1>3, <1>4, <1>7 DEF Weight
  <2>2. Before(a, b) <=> l < m \/ l = m
    BY <1>3, <1>4, <1>7 DEF Before
  <2>3. a # b
    BY <1>4, <1>7
  <2> QED
    BY <1>3, <2>1, <2>2, <2>3
<1>8. CASE ~v /\ ~w
  <2>1. Weight(a) = 2 * l /\ Weight(b) = 2 * m
    BY <1>3, <1>4, <1>8 DEF Weight
  <2>2. Before(a, b) <=> l < m
    BY <1>3, <1>4, <1>8 DEF Before
  <2>3. a = b <=> l = m
    BY <1>1, <1>2, <1>4, <1>8
  <2> QED
    BY <1>3, <2>1, <2>2, <2>3
<1> QED
  BY <1>5, <1>6, <1>7, <1>8

(* A trail is rearranged, and nothing in it is out of order.                *)
LEMMA SortedArranges ==
  ASSUME NEW t \in Seq(Detections)
  PROVE  \E p \in Bijection(DOMAIN t, DOMAIN t) :
           /\ Sorted(t) = [n \in DOMAIN t |-> t[p[n]]]
           /\ \A m, n \in DOMAIN t : m < n => ~Before(t[p[n]], t[p[m]])
<1> DEFINE D == DOMAIN t
           w == [i \in D |-> Weight(t[i])]
           R == {e \in D \X D : w[e[1]] < w[e[2]] \/ (w[e[1]] = w[e[2]] /\ e[1] < e[2])}
<1>1. D = 1..Len(t) /\ Len(t) \in Nat /\ \A i \in D : t[i] \in Detections
  OBVIOUS
<1>2. \A i \in D : w[i] = Weight(t[i]) /\ w[i] \in Nat
  BY <1>1, SortsByWeight
<1>3. \A i, j \in D : Before(t[i], t[j]) <=> w[i] < w[j]
  BY <1>1, <1>2, SortsByWeight
<1> HIDE DEF w
<1>4. \A i, j \in D : <<i, j>> \in R <=> w[i] < w[j] \/ (w[i] = w[j] /\ i < j)
  OBVIOUS
<1> HIDE DEF R
<1>5. /\ \A i \in D : <<i, i>> \notin R
      /\ \A i, j \in D : i # j => <<i, j>> \in R \/ <<j, i>> \in R
      /\ \A i, j, k \in D : <<i, j>> \in R /\ <<j, k>> \in R => <<i, k>> \in R
  <2> HIDE DEF D
  <2>0. \A i \in D : i \in Nat
    BY <1>1
  <2>1. \A i \in D : <<i, i>> \notin R
    BY <2>0, <1>2, <1>4
  <2>2. \A i, j \in D : i # j => <<i, j>> \in R \/ <<j, i>> \in R
    BY <2>0, <1>2, <1>4
  <2>3. \A i, j, k \in D : <<i, j>> \in R /\ <<j, k>> \in R => <<i, k>> \in R
    BY <2>0, <1>2, <1>4
  <2> QED
    BY <2>1, <2>2, <2>3
<1>6. IsFiniteSet(D) /\ Cardinality(D) = Len(t)
  BY <1>1, FS_Interval
<1>7. PICK p \in Bijection(D, D) : \A m, n \in D : m < n => <<p[m], p[n]>> \in R
  BY <1>1, <1>5, <1>6, Listing
<1>8. \A n \in D : p[n] \in D
  BY Fun_BijectionProperties
<1>9. \A m, n \in D : m < n => ~Before(t[p[n]], t[p[m]])
  <2> TAKE m, n \in D
  <2> HAVE m < n
  <2>1. p[m] \in D /\ p[n] \in D /\ <<p[m], p[n]>> \in R
    BY <1>7, <1>8
  <2>2. ~(w[p[n]] < w[p[m]])
    BY <1>2, <1>4, <2>1
  <2> QED
    BY <1>3, <2>1, <2>2
<1> DEFINE Good(q) == \A m, n \in D : m < n => ~Before(t[q[n]], t[q[m]])
           c == CHOOSE q \in Bijection(D, D) : Good(q)
<1>10. c \in Bijection(D, D) /\ Good(c)
  BY <1>9
<1>11. Sorted(t) = [n \in D |-> t[c[n]]]
  BY DEF Sorted
<1> QED
  BY <1>10, <1>11

-----------------------------------------------------------------------------
(* How often *)

LEMMA TimesCounts ==
  ASSUME NEW S, NEW s \in Seq(S), NEW x
  PROVE  /\ IsFiniteSet({i \in DOMAIN s : s[i] = x}) /\ Times(s, x) \in Nat
         /\ Times(s, x) > 0 <=> \E i \in DOMAIN s : s[i] = x
<1> DEFINE A == {i \in DOMAIN s : s[i] = x}
<1>1. DOMAIN s = 1..Len(s) /\ Len(s) \in Nat
  OBVIOUS
<1>2. IsFiniteSet(DOMAIN s)
  BY <1>1, FS_Interval
<1>3. A \in SUBSET DOMAIN s
  OBVIOUS
<1>4. IsFiniteSet(A) /\ Cardinality(A) \in Nat
  BY <1>2, <1>3, FS_Subset, FS_CardinalityType
<1>5. Cardinality(A) = 0 <=> A = {}
  BY <1>4, FS_EmptySet
<1>6. Times(s, x) = Cardinality(A)
  BY DEF Times
<1>7. A = {} <=> ~\E i \in DOMAIN s : s[i] = x
  OBVIOUS
<1> HIDE DEF A
<1>8. Cardinality(A) > 0 <=> Cardinality(A) # 0
  BY <1>4
<1>9. IsFiniteSet(A) /\ Times(s, x) \in Nat
  BY <1>4, <1>6
<1>10. Times(s, x) > 0 <=> \E i \in DOMAIN s : s[i] = x
  BY <1>5, <1>6, <1>7, <1>8
<1> QED
  BY <1>9, <1>10 DEF A

LEMMA OnceMore ==
  ASSUME NEW S, NEW s \in Seq(S), NEW e \in S, NEW x
  PROVE  Times(Append(s, e), x) = IF e = x THEN Times(s, x) + 1 ELSE Times(s, x)
<1> DEFINE A == {i \in DOMAIN s : s[i] = x}
           t == Append(s, e)
           B == {i \in DOMAIN t : t[i] = x}
<1>1. DOMAIN s = 1..Len(s) /\ Len(s) \in Nat
  OBVIOUS
<1>2. /\ t \in Seq(S) /\ Len(t) = Len(s) + 1 /\ t[Len(s) + 1] = e
      /\ \A i \in 1..Len(s) : t[i] = s[i]
  BY AppendProperties
<1>3. DOMAIN t = 1..Len(t)
  BY <1>2
<1>4. IsFiniteSet(A)
  BY TimesCounts
<1>5. Times(s, x) = Cardinality(A) /\ Times(t, x) = Cardinality(B)
  BY DEF Times
<1> HIDE DEF t
<1>6. Len(s) + 1 \notin A
  BY <1>1
<1>7. \A i \in DOMAIN t : i \in DOMAIN s \/ i = Len(s) + 1
  BY <1>1, <1>2, <1>3
<1>8. DOMAIN s \subseteq DOMAIN t /\ Len(s) + 1 \in DOMAIN t
  BY <1>1, <1>2, <1>3
<1>9. CASE e = x
  <2>1. B = A \cup {Len(s) + 1}
    BY <1>1, <1>2, <1>7, <1>8, <1>9
  <2> HIDE DEF A, B
  <2>2. Cardinality(B) = Cardinality(A) + 1
    BY <1>4, <1>6, <2>1, FS_AddElement
  <2> QED
    BY <1>5, <1>9, <2>2 DEF t
<1>10. CASE e # x
  <2>1. B = A
    BY <1>1, <1>2, <1>7, <1>8, <1>10
  <2> QED
    BY <1>5, <1>10, <2>1 DEF t
<1> QED
  BY <1>9, <1>10

(* An arrangement of a sequence holds what the sequence holds.              *)
LEMMA ArrangedAlike ==
  ASSUME NEW S, NEW s \in Seq(S), NEW p \in Bijection(DOMAIN s, DOMAIN s), NEW x
  PROVE  Times([n \in DOMAIN s |-> s[p[n]]], x) = Times(s, x)
<1> DEFINE D == DOMAIN s
           r == [n \in D |-> s[p[n]]]
           A == {n \in D : s[p[n]] = x}
           B == {n \in D : s[n] = x}
           q == [n \in A |-> p[n]]
<1>1. p \in [D -> D]
  BY DEF Bijection, Injection
<1>2. \A m, n \in D : p[m] = p[n] => m = n
  BY DEF Bijection, Injection, IsInjective
<1>3. \A n \in D : \E m \in D : p[m] = n
  BY DEF Bijection, Surjection
<1>4. q \in [A -> B]
  BY <1>1
<1>5. \A m, n \in A : q[m] = q[n] => m = n
  BY <1>2
<1>6. \A n \in B : \E m \in A : q[m] = n
  <2> TAKE n \in B
  <2>1. PICK m \in D : p[m] = n
    BY <1>3
  <2>2. m \in A
    BY <2>1
  <2>3. q[m] = n
    BY <2>1, <2>2
  <2> QED
    BY <2>2, <2>3
<1>7. q \in Bijection(A, B)
  <2> HIDE DEF q, A, B
  <2> QED
    BY <1>4, <1>5, <1>6, Fun_IsBij
<1>8. ExistsBijection(A, B)
  BY <1>7 DEF ExistsBijection
<1>9. IsFiniteSet(A)
  <2>1. IsFiniteSet(D)
    <3>1. D = 1..Len(s) /\ Len(s) \in Nat
      OBVIOUS
    <3> QED
      BY <3>1, FS_Interval
  <2>2. A \in SUBSET D
    OBVIOUS
  <2> QED
    BY <2>1, <2>2, FS_Subset
<1>10. Cardinality(A) = Cardinality(B)
  <2> HIDE DEF A, B
  <2> QED
    BY <1>8, <1>9, FS_Bijection
<1>11. {n \in DOMAIN r : r[n] = x} = A
  OBVIOUS
<1>12. Times(r, x) = Cardinality(A) /\ Times(s, x) = Cardinality(B)
  BY <1>11 DEF Times
<1> QED
  BY <1>10, <1>12

-----------------------------------------------------------------------------
(* The map and the list *)

(* The finding a detection of a key is from.                                *)
Made(k, x) == [key |-> k, label |-> x.label, verified |-> x.verified]

(* What SortFindings returns.                                               *)
Listed ==
  LET keys == Ascending(DOMAIN byKey)
  IN [i \in DOMAIN keys |-> Deduped(keys[i])]

(* The map holds each key found and its detections as often as made, and    *)
(* the list is what SortFindings makes of it.                               *)
DedupInv ==
  /\ raw \in Seq(Finding) /\ IsFiniteSet(DOMAIN byKey)
  /\ DOMAIN byKey = {raw[i].key : i \in DOMAIN raw}
  /\ \A k \in DOMAIN byKey :
       /\ byKey[k] \in Seq(Detections)
       /\ \A x \in Detections : Times(byKey[k], x) = Times(raw, Made(k, x))
  /\ stage # "dedup" => deduped = Listed

LEMMA FindingParts ==
  ASSUME NEW f \in Finding
  PROVE  /\ f.key \in Keys /\ Detected(f) \in Detections
         /\ \A k, x : x \in Detections => (f = Made(k, x) <=> f.key = k /\ Detected(f) = x)
<1>1. f \in [key : Keys, label : Labels, verified : BOOLEAN]
  BY DedupAssumption
<1>2. f.key \in Keys /\ Detected(f) \in Detections
  BY <1>1 DEF Detected, Detections
<1>3. ASSUME NEW k, NEW x \in Detections
      PROVE  f = Made(k, x) <=> f.key = k /\ Detected(f) = x
  <2>1. f = [key |-> f.key, label |-> f.label, verified |-> f.verified]
    BY <1>1
  <2>2. x = [label |-> x.label, verified |-> x.verified]
    BY DEF Detections
  <2>3. f = Made(k, x) <=> f.key = k /\ f.label = x.label /\ f.verified = x.verified
    BY <2>1 DEF Made
  <2>4. Detected(f) = x <=> f.label = x.label /\ f.verified = x.verified
    BY <2>2 DEF Detected
  <2> QED
    BY <2>3, <2>4
<1> QED
  BY <1>2, <1>3

LEMMA InitDedup == Init => DedupInv
<1> SUFFICES ASSUME Init PROVE DedupInv
  OBVIOUS
<1>1. stage = "dedup" /\ raw = <<>> /\ byKey = [k \in {} |-> <<>>]
  BY DEF Init, DedupInit
<1>2. DOMAIN byKey = {} /\ DOMAIN raw = {}
  BY <1>1
<1>3. raw \in Seq(Finding) /\ IsFiniteSet(DOMAIN byKey)
  BY <1>1, <1>2, FS_EmptySet
<1>4. DOMAIN byKey = {raw[i].key : i \in DOMAIN raw}
  BY <1>2
<1> QED
  BY <1>1, <1>2, <1>3, <1>4 DEF DedupInv

LEMMA CollectKeeps ==
  ASSUME DedupInv, NEW f \in Finding, Collect(f)
  PROVE  DedupInv'
<1>1. /\ stage' = "dedup" /\ raw' = Append(raw, f)
      /\ DOMAIN byKey' = DOMAIN byKey \cup {f.key}
      /\ \A k \in DOMAIN byKey \cup {f.key} : byKey'[k] =
           LET trail == IF k \in DOMAIN byKey THEN byKey[k] ELSE <<>>
           IN IF k = f.key THEN Append(trail, Detected(f)) ELSE trail
  BY DEF Collect
<1>2. /\ raw \in Seq(Finding) /\ IsFiniteSet(DOMAIN byKey)
      /\ DOMAIN byKey = {raw[i].key : i \in DOMAIN raw}
      /\ \A k \in DOMAIN byKey :
           /\ byKey[k] \in Seq(Detections)
           /\ \A x \in Detections : Times(byKey[k], x) = Times(raw, Made(k, x))
  BY DEF DedupInv
<1>3. /\ f.key \in Keys /\ Detected(f) \in Detections
      /\ \A k, x : x \in Detections => (f = Made(k, x) <=> f.key = k /\ Detected(f) = x)
  BY FindingParts
<1>4. /\ raw' \in Seq(Finding) /\ Len(raw') = Len(raw) + 1 /\ raw'[Len(raw) + 1] = f
      /\ \A i \in 1..Len(raw) : raw'[i] = raw[i]
  <2>1. /\ Append(raw, f) \in Seq(Finding) /\ Len(Append(raw, f)) = Len(raw) + 1
        /\ \A i \in 1..Len(raw) : Append(raw, f)[i] = raw[i]
        /\ Append(raw, f)[Len(raw) + 1] = f
    BY <1>2, AppendProperties
  <2>2. raw' = Append(raw, f)
    BY <1>1
  <2> QED
    BY <2>1, <2>2
<1>5. IsFiniteSet(DOMAIN byKey')
  <2>1. IsFiniteSet(DOMAIN byKey \cup {f.key})
    BY <1>2, FS_AddElement
  <2> QED
    BY <1>1, <2>1
<1>6. DOMAIN byKey' = {raw'[i].key : i \in DOMAIN raw'}
  <2>1. DOMAIN raw = 1..Len(raw) /\ DOMAIN raw' = 1..Len(raw') /\ Len(raw) \in Nat
    BY <1>2, <1>4
  <2>2. \A i \in DOMAIN raw' : i \in DOMAIN raw \/ i = Len(raw) + 1
    BY <1>4, <2>1
  <2>3. DOMAIN raw \subseteq DOMAIN raw' /\ Len(raw) + 1 \in DOMAIN raw'
    BY <1>4, <2>1
  <2>4. \A i \in DOMAIN raw : raw'[i] = raw[i]
    BY <1>4, <2>1
  <2>5. {raw'[i].key : i \in DOMAIN raw'} = {raw[i].key : i \in DOMAIN raw} \cup {f.key}
    BY <1>4, <2>2, <2>3, <2>4
  <2> QED
    BY <1>1, <1>2, <2>5
<1>7. ASSUME NEW k \in DOMAIN byKey'
      PROVE  /\ byKey'[k] \in Seq(Detections)
             /\ \A x \in Detections : Times(byKey'[k], x) = Times(raw', Made(k, x))
  <2> DEFINE trail == IF k \in DOMAIN byKey THEN byKey[k] ELSE <<>>
  <2>1. trail \in Seq(Detections)
    BY <1>2
  <2>2. \A x \in Detections : Times(trail, x) = Times(raw, Made(k, x))
    <3>1. CASE k \in DOMAIN byKey
      BY <1>2, <3>1
    <3>2. CASE k \notin DOMAIN byKey
      <4> TAKE x \in Detections
      <4>1. ~\E i \in DOMAIN raw : raw[i] = Made(k, x)
        <5>1. \A i \in DOMAIN raw : raw[i].key # k
          BY <1>2, <3>2
        <5>2. Made(k, x).key = k
          BY DEF Made
        <5> QED
          BY <5>1, <5>2
      <4>2. Times(raw, Made(k, x)) \in Nat /\ ~(Times(raw, Made(k, x)) > 0)
        BY <1>2, <4>1, TimesCounts
      <4>3. trail = <<>> /\ DOMAIN trail = {}
        BY <3>2
      <4>4. Times(trail, x) \in Nat /\ ~(Times(trail, x) > 0)
        BY <2>1, <4>3, TimesCounts
      <4> QED
        BY <4>2, <4>4
    <3> QED
      BY <3>1, <3>2
  <2>3. byKey'[k] = IF k = f.key THEN Append(trail, Detected(f)) ELSE trail
    BY <1>1
  <2> HIDE DEF trail
  <2>4. CASE k = f.key
    <3>1. byKey'[k] \in Seq(Detections) /\ byKey'[k] = Append(trail, Detected(f))
      BY <1>3, <2>1, <2>3, <2>4, AppendProperties
    <3>2. ASSUME NEW x \in Detections
          PROVE  Times(byKey'[k], x) = Times(raw', Made(k, x))
      <4>1. Times(byKey'[k], x) =
              IF Detected(f) = x THEN Times(trail, x) + 1 ELSE Times(trail, x)
        BY <1>3, <2>1, <3>1, OnceMore
      <4>2. Times(raw', Made(k, x)) = IF f = Made(k, x) THEN Times(raw, Made(k, x)) + 1
                                                      ELSE Times(raw, Made(k, x))
        BY <1>1, <1>2, OnceMore
      <4>3. f = Made(k, x) <=> Detected(f) = x
        BY <1>3, <2>4
      <4> QED
        BY <2>2, <4>1, <4>2, <4>3
    <3> QED
      BY <3>1, <3>2
  <2>5. CASE k # f.key
    <3>1. byKey'[k] = trail
      BY <2>3, <2>5
    <3>2. ASSUME NEW x \in Detections PROVE Times(raw', Made(k, x)) = Times(raw, Made(k, x))
      <4>1. Times(raw', Made(k, x)) = IF f = Made(k, x) THEN Times(raw, Made(k, x)) + 1
                                                      ELSE Times(raw, Made(k, x))
        BY <1>1, <1>2, OnceMore
      <4> QED
        BY <1>3, <2>5, <4>1
    <3> QED
      BY <2>1, <2>2, <3>1, <3>2
  <2> QED
    BY <2>4, <2>5
<1> QED
  BY <1>1, <1>4, <1>5, <1>6, <1>7 DEF DedupInv

LEMMA NextDedup == DedupInv /\ [Next]_vars => DedupInv'
<1> SUFFICES ASSUME DedupInv, [Next]_vars PROVE DedupInv'
  OBVIOUS
<1>1. CASE \E f \in Finding : Collect(f) /\ UNCHANGED <<config, batchVars>>
  BY <1>1, CollectKeeps
<1>2. ASSUME raw' = raw, byKey' = byKey, stage' # "dedup" => deduped' = Listed
      PROVE  DedupInv'
  <2>1. Listed' = Listed
    BY <1>2 DEF Listed, Deduped
  <2>2. stage' # "dedup" => deduped' = Listed'
    BY <1>2, <2>1
  <2>3. /\ raw' \in Seq(Finding) /\ IsFiniteSet(DOMAIN byKey')
        /\ DOMAIN byKey' = {raw'[i].key : i \in DOMAIN raw'}
    BY <1>2 DEF DedupInv
  <2>4. \A k \in DOMAIN byKey' :
          /\ byKey'[k] \in Seq(Detections)
          /\ \A x \in Detections : Times(byKey'[k], x) = Times(raw', Made(k, x))
    BY <1>2 DEF DedupInv
  <2> QED
    BY <2>2, <2>3, <2>4 DEF DedupInv
<1>3. CASE UNCHANGED dedupVars /\ (stage' # "dedup" => stage # "dedup")
  <2>1. raw' = raw /\ byKey' = byKey /\ deduped' = deduped
    BY <1>3 DEF dedupVars
  <2>2. stage # "dedup" => deduped = Listed
    BY DEF DedupInv
  <2> QED
    BY <1>2, <1>3, <2>1, <2>2
<1>6. CASE SortFindings /\ UNCHANGED <<config, batchVars>>
  <2>1. raw' = raw /\ byKey' = byKey /\ deduped' = Listed
    BY <1>6 DEF SortFindings, Listed
  <2> QED
    BY <1>2, <2>1
<1>4. CASE \/ CapRequest \/ ShortCircuit \/ NeedsModel
           \/ SingleCall \/ PerFinding \/ NothingToAsk
           \/ PackFinding \/ CloseBatch \/ LastBatch
           \/ CutBatch \/ CallsReady
  <2>1. UNCHANGED dedupVars /\ stage # "dedup"
    BY <1>4 DEF CapRequest, ShortCircuit, NeedsModel, SingleCall, PerFinding, NothingToAsk,
                PackFinding, CloseBatch, LastBatch, CutBatch, CallsReady, Go
  <2> QED
    BY <1>3, <2>1
<1>5. CASE UNCHANGED vars
  <2>1. UNCHANGED dedupVars /\ stage' = stage
    BY <1>5 DEF vars
  <2> QED
    BY <1>3, <2>1
<1> QED
  BY <1>1, <1>4, <1>5, <1>6 DEF Next

(* What an entry of the list says of its key.                               *)
LEMMA EntrySays ==
  ASSUME DedupInv, NEW k \in DOMAIN byKey
  PROVE  LET d == Deduped(k) IN
         /\ d.key = k
         /\ \A m, n \in DOMAIN d.detections : m < n =>
              \/ d.detections[m].label < d.detections[n].label
              \/ /\ d.detections[m].label = d.detections[n].label
                 /\ d.detections[m].verified => d.detections[n].verified
         /\ \A x \in Detections : Times(d.detections, x) = TimesFound(Made(k, x))
         /\ d.anyVerified = \E l \in Labels : TimesFound(
              [key |-> k, label |-> l, verified |-> TRUE]) > 0
<1> DEFINE t == byKey[k]
           a == Sorted(t)
<1>1. t \in Seq(Detections) /\ \A x \in Detections : Times(t, x) = TimesFound(Made(k, x))
  BY DEF DedupInv, TimesFound
<1>2. PICK p \in Bijection(DOMAIN t, DOMAIN t) :
        /\ a = [n \in DOMAIN t |-> t[p[n]]]
        /\ \A m, n \in DOMAIN t : m < n => ~Before(t[p[n]], t[p[m]])
  BY <1>1, SortedArranges
<1>3. DOMAIN a = DOMAIN t /\ \A n \in DOMAIN t : a[n] = t[p[n]] /\ a[n] \in Detections
  <2>1. p \in [DOMAIN t -> DOMAIN t]
    BY <1>2 DEF Bijection, Injection
  <2>2. \A i \in DOMAIN t : t[i] \in Detections
    BY <1>1
  <2> QED
    BY <1>2, <2>1, <2>2
<1>4. ASSUME NEW m \in DOMAIN a, NEW n \in DOMAIN a, m < n
      PROVE  \/ a[m].label < a[n].label
             \/ a[m].label = a[n].label /\ (a[m].verified => a[n].verified)
  <2>1. ~Before(a[n], a[m])
    BY <1>2, <1>3, <1>4
  <2>2. a[m] \in Detections /\ a[n] \in Detections
    BY <1>3
  <2>3. a[m].label \in Nat /\ a[n].label \in Nat
    BY <2>2, DedupAssumption DEF Detections
  <2>4. ~(a[n].label < a[m].label)
    BY <2>1 DEF Before
  <2>5. a[n].label = a[m].label => (a[m].verified => a[n].verified)
    BY <2>1 DEF Before
  <2>6. a[m].label < a[n].label \/ a[m].label = a[n].label
    BY <2>3, <2>4
  <2> QED
    BY <2>5, <2>6
<1>5. \A x \in Detections : Times(a, x) = TimesFound(Made(k, x))
  BY <1>1, <1>2, ArrangedAlike
<1>6. (\E i \in DOMAIN t : t[i].verified) <=>
        \E l \in Labels : TimesFound([key |-> k, label |-> l, verified |-> TRUE]) > 0
  <2>1. ASSUME NEW l \in Labels
        PROVE  TimesFound([key |-> k, label |-> l, verified |-> TRUE]) > 0 <=>
                 \E i \in DOMAIN t : t[i] = [label |-> l, verified |-> TRUE]
    <3> DEFINE x == [label |-> l, verified |-> TRUE]
    <3>1. x \in Detections
      BY DEF Detections
    <3>2. Made(k, x) = [key |-> k, label |-> l, verified |-> TRUE]
      BY DEF Made
    <3>3. Times(t, x) = TimesFound([key |-> k, label |-> l, verified |-> TRUE])
      BY <1>1, <3>1, <3>2
    <3>4. Times(t, x) > 0 <=> \E i \in DOMAIN t : t[i] = x
      BY <1>1, TimesCounts
    <3> QED
      BY <3>3, <3>4
  <2>2. \A i \in DOMAIN t : t[i].verified <=>
          \E l \in Labels : t[i] = [label |-> l, verified |-> TRUE]
    <3> TAKE i \in DOMAIN t
    <3>1. t[i] \in Detections
      BY <1>1
    <3>2. /\ t[i] = [label |-> t[i].label, verified |-> t[i].verified]
          /\ t[i].label \in Labels /\ t[i].verified \in BOOLEAN
      BY <3>1 DEF Detections
    <3>3. t[i].verified => t[i] = [label |-> t[i].label, verified |-> TRUE]
      BY <3>2
    <3>4. \A l \in Labels : t[i] = [label |-> l, verified |-> TRUE] => t[i].verified
      OBVIOUS
    <3> QED
      BY <3>2, <3>3, <3>4
  <2> QED
    BY <2>1, <2>2
<1>7. Deduped(k) = [key |-> k, detections |-> a, anyVerified |-> \E i \in DOMAIN t : t[i].verified]
  BY DEF Deduped
<1> HIDE DEF a, t
<1>8. /\ Deduped(k).key = k /\ Deduped(k).detections = a
      /\ Deduped(k).anyVerified = (\E i \in DOMAIN t : t[i].verified)
  BY <1>7
<1> QED
  BY <1>4, <1>5, <1>6, <1>8

-----------------------------------------------------------------------------
(* Whatever order the detectors finish in, and whatever the sorts do with   *)
(* equal entries: the list is in order, has an entry for each key found,    *)
(* and in it each detection as often as it was made.                        *)
THEOREM OrderDoesNotMatter == Spec => []OrderIndependent
<1>1. DedupInv => OrderIndependent
  <2> SUFFICES ASSUME DedupInv, stage # "dedup" PROVE OrderIndependent
    BY DEF OrderIndependent
  <2> DEFINE S == DOMAIN byKey
             keys == Ascending(S)
             N == 1..Cardinality(S)
  <2>1. S \subseteq Nat /\ IsFiniteSet(S) /\ S = {raw[i].key : i \in DOMAIN raw}
    <3>1. raw \in Seq(Finding) /\ IsFiniteSet(S) /\ S = {raw[i].key : i \in DOMAIN raw}
      BY DEF DedupInv
    <3>2. \A i \in DOMAIN raw : raw[i].key \in Nat
      <4> TAKE i \in DOMAIN raw
      <4>1. raw[i] \in Finding
        BY <3>1
      <4>2. raw[i].key \in Keys
        BY <4>1, FindingParts
      <4> QED
        BY <4>2, DedupAssumption
    <3> QED
      BY <3>1, <3>2
  <2>2. keys \in Bijection(N, S) /\ \A m, n \in N : m < n => keys[m] < keys[n]
    BY <2>1, AscendingLists
  <2>3. keys \in [N -> S] /\ \A k \in S : \E i \in N : keys[i] = k
    BY <2>2 DEF Bijection, Injection, Surjection
  <2>4. deduped = [i \in N |-> Deduped(keys[i])]
    BY <2>3 DEF DedupInv, Listed
  <2> HIDE DEF keys, N
  <2>5. DOMAIN deduped = N /\ \A i \in N : deduped[i] = Deduped(keys[i]) /\ keys[i] \in S
    BY <2>3, <2>4
  <2>6. \A i \in N : deduped[i].key = keys[i]
    BY <2>5, EntrySays
  <2>7. \A i, j \in DOMAIN deduped : i < j => deduped[i].key < deduped[j].key
    BY <2>2, <2>5, <2>6
  <2>8. {deduped[i].key : i \in DOMAIN deduped} = {raw[i].key : i \in DOMAIN raw}
    <3>1. {deduped[i].key : i \in DOMAIN deduped} = {keys[i] : i \in N}
      BY <2>5, <2>6
    <3>2. {keys[i] : i \in N} = S
      BY <2>3
    <3> QED
      BY <2>1, <3>1, <3>2
  <2>9. ASSUME NEW i \in DOMAIN deduped
        PROVE  LET d == deduped[i] IN
         /\ \A m, n \in DOMAIN d.detections : m < n =>
              \/ d.detections[m].label < d.detections[n].label
              \/ /\ d.detections[m].label = d.detections[n].label
                 /\ d.detections[m].verified => d.detections[n].verified
         /\ \A x \in Detections :
              Times(d.detections, x) = TimesFound(
                [key |-> d.key, label |-> x.label, verified |-> x.verified])
         /\ d.anyVerified = \E l \in Labels :
              TimesFound([key |-> d.key, label |-> l, verified |-> TRUE]) > 0
    <3> DEFINE k == keys[i]
               d == Deduped(k)
    <3>1. k \in DOMAIN byKey /\ deduped[i] = d
      BY <2>5
    <3>2. /\ d.key = k
          /\ \A m, n \in DOMAIN d.detections : m < n =>
               \/ d.detections[m].label < d.detections[n].label
               \/ /\ d.detections[m].label = d.detections[n].label
                  /\ d.detections[m].verified => d.detections[n].verified
          /\ \A x \in Detections : Times(d.detections, x) = TimesFound(Made(k, x))
          /\ d.anyVerified = \E l \in Labels : TimesFound(
               [key |-> k, label |-> l, verified |-> TRUE]) > 0
      BY <3>1, EntrySays
    <3> HIDE DEF k, d
    <3> QED
      BY <3>1, <3>2 DEF Made
  <2> QED
    BY <2>7, <2>8, <2>9 DEF OrderIndependent
<1> QED
  BY InitDedup, NextDedup, <1>1, PTL DEF Spec

-----------------------------------------------------------------------------
(* Sums *)

(* Of some subsets of a finite set, one contains no other with an element less. *)
LEMMA Smallest ==
  ASSUME NEW U, IsFiniteSet(U), NEW B, B \subseteq SUBSET U, B # {}
  PROVE  \E T \in B : \A x \in T : T \ {x} \notin B
<1> DEFINE R == StrictSubsetOrdering(U)
           F == FiniteSubsetsOf(U)
<1>1. IsWellFoundedOn(R, F)
  BY FS_StrictSubsetOrderingWellFounded
<1>2. \A T \in SUBSET U : T \in F
  BY FS_Subset DEF FiniteSubsetsOf
<1>3. B \subseteq F
  BY <1>2
<1>4. \A T \in SUBSET U : \A x \in T : <<T \ {x}, T>> \in R
  BY DEF StrictSubsetOrdering
<1> HIDE DEF R, F
<1>5. PICK T \in B : \A y \in B : ~(<<y, T>> \in R)
  BY <1>1, <1>3, WFMin
<1>6. \A x \in T : T \ {x} \notin B
  BY <1>4, <1>5
<1> QED
  BY <1>5, <1>6

(* h gives every subset of U the sum of g over it.                          *)
Sums(g, U, h) ==
  /\ h \in [SUBSET U -> Nat] /\ h[{}] = 0
  /\ \A s \in SUBSET U : \A x \in s : h[s] = g[x] + h[s \ {x}]

LEMMA SumsExist ==
  ASSUME NEW U, IsFiniteSet(U), NEW g, \A x \in U : g[x] \in Nat
  PROVE  \E h : Sums(g, U, h)
<1> DEFINE B == {T \in SUBSET U : ~\E h : Sums(g, T, h)}
<1> SUFFICES ASSUME B # {} PROVE FALSE
  <2>1. U \notin B
    OBVIOUS
  <2> QED
    BY <2>1
<1>1. PICK T \in B : \A x \in T : T \ {x} \notin B
  BY Smallest
<1>2. T \in SUBSET U /\ ~\E h : Sums(g, T, h)
  BY <1>1
<1>3. T # {}
  <2> SUFFICES ASSUME T = {} PROVE FALSE
    OBVIOUS
  <2>1. Sums(g, T, [s \in SUBSET {} |-> 0])
    BY DEF Sums
  <2> QED
    BY <1>2, <2>1
<1>4. PICK y \in T : TRUE
  BY <1>3
<1> DEFINE V == T \ {y}
<1>5. PICK h : Sums(g, V, h)
  BY <1>1, <1>2
<1> DEFINE k == [s \in SUBSET T |-> IF y \in s THEN g[y] + h[s \ {y}] ELSE h[s]]
<1>6. /\ h \in [SUBSET V -> Nat] /\ h[{}] = 0
      /\ \A s \in SUBSET V : \A x \in s : h[s] = g[x] + h[s \ {x}]
  BY <1>5 DEF Sums
<1>7. g[y] \in Nat
  BY <1>2
<1>8. \A s \in SUBSET T : /\ y \in s => s \ {y} \in SUBSET V
                          /\ y \notin s => s \in SUBSET V
  OBVIOUS
<1>9. k \in [SUBSET T -> Nat] /\ k[{}] = 0
  BY <1>6, <1>7, <1>8
<1>10. ASSUME NEW s \in SUBSET T, NEW x \in s
       PROVE  k[s] = g[x] + k[s \ {x}]
  <2>1. CASE x = y
    BY <1>8, <2>1
  <2>2. CASE x # y /\ y \in s
    <3>1. s \ {y} \in SUBSET V /\ x \in s \ {y}
      BY <1>8, <2>2
    <3>2. h[s \ {y}] = g[x] + h[(s \ {y}) \ {x}]
      BY <1>6, <3>1
    <3>3. (s \ {y}) \ {x} = (s \ {x}) \ {y} /\ y \in s \ {x} /\ s \ {x} \in SUBSET T
      BY <2>2
    <3>4. k[s] = g[y] + h[s \ {y}] /\ k[s \ {x}] = g[y] + h[(s \ {x}) \ {y}]
      BY <2>2, <3>3
    <3>5. g[x] \in Nat /\ h[(s \ {x}) \ {y}] \in Nat
      <4>1. (s \ {x}) \ {y} \in SUBSET V
        OBVIOUS
      <4> QED
        BY <1>2, <1>6, <4>1
    <3>6. h[s \ {y}] = g[x] + h[(s \ {x}) \ {y}]
      BY <3>2, <3>3
    <3> HIDE DEF k
    <3> QED
      BY <1>7, <3>4, <3>5, <3>6
  <2>3. CASE y \notin s
    <3>1. s \in SUBSET V /\ s \ {x} \in SUBSET T /\ y \notin s \ {x}
      BY <1>8, <2>3
    <3>2. k[s] = h[s] /\ k[s \ {x}] = h[s \ {x}]
      BY <2>3, <3>1
    <3> QED
      BY <1>6, <3>1, <3>2
  <2> QED
    BY <2>1, <2>2, <2>3
<1>11. Sums(g, T, k)
  <2> HIDE DEF k
  <2> QED
    BY <1>9, <1>10 DEF Sums
<1> QED
  BY <1>2, <1>11

(* The community modules' sum, as the function on subsets it is read off.   *)
Iter(g, S) ==
  CHOOSE it : it = [s \in SUBSET S |->
    IF s = {} THEN 0
    ELSE g[CHOOSE x \in s : TRUE] + it[s \ {CHOOSE x \in s : TRUE}]]

LEMMA IterSums ==
  ASSUME NEW U, NEW g, NEW h, Sums(g, U, h), NEW S \in SUBSET U, IsFiniteSet(S),
         NEW f, \A x \in S : f[x] = g[x]
  PROVE  Iter(f, S)[S] = h[S]
<1> DEFINE Step(it) == [s \in SUBSET S |->
             IF s = {} THEN 0
             ELSE f[CHOOSE x \in s : TRUE] + it[s \ {CHOOSE x \in s : TRUE}]]
           k == [s \in SUBSET S |-> h[s]]
           it == Iter(f, S)
<1>1. h[{}] = 0 /\ \A s \in SUBSET U : \A x \in s : h[s] = g[x] + h[s \ {x}]
  BY DEF Sums
<1>2. \A s \in SUBSET S : s # {} => (CHOOSE x \in s : TRUE) \in s
  OBVIOUS
<1>3. k = Step(k)
  <2>1. ASSUME NEW s \in SUBSET S PROVE k[s] = Step(k)[s]
    <3>1. CASE s = {}
      BY <1>1, <3>1
    <3>2. CASE s # {}
      <4> DEFINE c == CHOOSE x \in s : TRUE
      <4>1. c \in s
        BY <1>2, <3>2
      <4> HIDE DEF c
      <4>2. s \in SUBSET U /\ c \in S /\ s \ {c} \in SUBSET S
        BY <4>1
      <4>3. h[s] = g[c] + h[s \ {c}] /\ f[c] = g[c]
        BY <1>1, <4>1, <4>2
      <4>4. k[s] = f[c] + k[s \ {c}]
        BY <4>2, <4>3
      <4> QED
        BY <3>2, <4>4 DEF c
    <3> QED
      BY <3>1, <3>2
  <2> QED
    BY <2>1
<1>4. it = Step(it)
  <2>1. \E j : j = Step(j)
    BY <1>3
  <2> QED
    BY <2>1 DEF Iter
<1> DEFINE B == {s \in SUBSET S : it[s] # h[s]}
<1>5. B = {}
  <2> SUFFICES ASSUME B # {} PROVE FALSE
    OBVIOUS
  <2> HIDE DEF it
  <2>1. PICK T \in B : \A x \in T : T \ {x} \notin B
    BY Smallest
  <2>2. T \in SUBSET S /\ it[T] # h[T]
    BY <2>1
  <2>3. it[T] = Step(it)[T]
    BY <1>4
  <2>4. CASE T = {}
    BY <1>1, <2>2, <2>3, <2>4
  <2>5. CASE T # {}
    <3> DEFINE c == CHOOSE x \in T : TRUE
    <3>1. c \in T
      BY <1>2, <2>2, <2>5
    <3>2. it[T] = f[c] + it[T \ {c}]
      BY <2>2, <2>3, <2>5
    <3> HIDE DEF c
    <3>3. it[T \ {c}] = h[T \ {c}]
      BY <2>1, <2>2, <3>1
    <3>4. h[T] = g[c] + h[T \ {c}] /\ f[c] = g[c]
      BY <1>1, <2>2, <3>1
    <3> QED
      BY <2>2, <3>2, <3>3, <3>4
  <2> QED
    BY <2>4, <2>5
<1> HIDE DEF it
<1> QED
  BY <1>5 DEF it

(* A part costs no more than the whole.                                     *)
LEMMA SumsGrow ==
  ASSUME NEW U, IsFiniteSet(U), NEW g, \A x \in U : g[x] \in Nat, NEW h, Sums(g, U, h),
         NEW S \in SUBSET U, NEW T \in SUBSET U, S \subseteq T
  PROVE  h[S] <= h[T]
<1> DEFINE B == {t \in SUBSET U : S \subseteq t /\ ~(h[S] <= h[t])}
<1>1. /\ \A s \in SUBSET U : h[s] \in Nat
      /\ \A s \in SUBSET U : \A x \in s : h[s] = g[x] + h[s \ {x}]
  BY DEF Sums
<1>2. B = {}
  <2> SUFFICES ASSUME B # {} PROVE FALSE
    OBVIOUS
  <2>1. PICK t \in B : \A x \in t : t \ {x} \notin B
    BY Smallest
  <2>2. t \in SUBSET U /\ S \subseteq t /\ ~(h[S] <= h[t])
    BY <2>1
  <2>3. CASE t = S
    BY <1>1, <2>2, <2>3
  <2>4. CASE t # S
    <3>1. PICK x \in t : x \notin S
      BY <2>2, <2>4
    <3>2. t \ {x} \in SUBSET U /\ S \subseteq t \ {x}
      BY <2>2, <3>1
    <3>3. h[S] <= h[t \ {x}]
      BY <2>1, <3>2
    <3>4. h[t] = g[x] + h[t \ {x}] /\ g[x] \in Nat
      BY <1>1, <2>2
    <3> QED
      BY <1>1, <2>2, <3>2, <3>3, <3>4
  <2> QED
    BY <2>3, <2>4
<1> QED
  BY <1>2

-----------------------------------------------------------------------------
(* What a batch costs *)

(* Tokens of each finding for the model, and of each set of them.           *)
Load == [n \in 1..Len(bound) |-> BodyTokens(n)]
Paid == CHOOSE h : Sums(Load, 1..Len(bound), h)

(* Of a packed batch the tokens counted are those of its bodies.            *)
Packed(b) == b.tok = Paid[b.from .. b.to] /\ (b.from < b.to => b.tok <= Effective)

Fits(c) == c.tok = 0 \/ c.from = c.to \/ Paid[c.from .. c.to] <= Effective

FitInv ==
  /\ stage \notin {"dedup", "capping"} =>
       asked \in Nat /\ asked <= Len(deduped) /\ Looked <= asked
  /\ stage = "packing" =>
       Packed(current) /\ \A i \in 1..Len(batches) : Packed(batches[i])
  /\ stage = "splitting" =>
       /\ \A i \in 1..Len(batches) : batches[i].tok = 0 \/ Packed(batches[i])
       /\ split < Len(batches) => batches[split + 1].from <= EndOf(calls) + 1
  /\ stage \in {"splitting", "planned"} => \A c \in 1..Len(calls) : Fits(calls[c])

LEMMA ListType ==
  ASSUME DedupInv, stage # "dedup"
  PROVE  /\ Len(deduped) \in Nat /\ DOMAIN deduped = 1..Len(deduped)
         /\ \A i \in 1..Len(deduped) : deduped[i].key \in Keys
<1> DEFINE S == DOMAIN byKey
           keys == Ascending(S)
           N == 1..Cardinality(S)
<1>1. S \subseteq Keys /\ S \subseteq Nat /\ IsFiniteSet(S) /\ Cardinality(S) \in Nat
  <2>1. raw \in Seq(Finding) /\ IsFiniteSet(S) /\ S = {raw[i].key : i \in DOMAIN raw}
    BY DEF DedupInv
  <2>2. \A i \in DOMAIN raw : raw[i].key \in Keys
    <3> TAKE i \in DOMAIN raw
    <3>1. raw[i] \in Finding
      BY <2>1
    <3> QED
      BY <3>1, FindingParts
  <2> QED
    BY <2>1, <2>2, FS_CardinalityType, DedupAssumption
<1>2. keys \in [N -> S]
  BY <1>1, AscendingLists DEF Bijection, Injection
<1>3. deduped = [i \in N |-> Deduped(keys[i])]
  BY <1>2 DEF DedupInv, Listed
<1> HIDE DEF keys
<1> DEFINE T == {Deduped(k) : k \in S}
<1>4. deduped \in [N -> T]
  BY <1>2, <1>3
<1>5. deduped \in Seq(T)
  BY <1>1, <1>4, SeqDef
<1>6. \A i \in N : deduped[i].key \in Keys
  BY <1>1, <1>2, <1>3 DEF Deduped
<1>7. DOMAIN deduped = N /\ Len(deduped) \in Nat /\ DOMAIN deduped = 1..Len(deduped)
  BY <1>4, <1>5
<1> QED
  BY <1>6, <1>7

(* Sizes are natural numbers, so tokens are.                                *)
LEMMA BodyType ==
  ASSUME config \in Configs, NEW k \in Keys
  PROVE  /\ Bare(k) \in Nat /\ Body(k) \in Nat /\ Tokens(Body(k)) \in Nat
         /\ Effective \in Int
         /\ Effective > 0 /\ Tokens(Bare(k)) <= Effective => Tokens(Body(k)) <= Effective
<1> DEFINE E == Effective
           m == MatchSize[k]
           c == ContextSize[k]
           B == Bare(k)
           room == E * 3 - B
           clamped == ClampMiddle(c, room)
<1>1. /\ m \in Nat /\ c \in Nat /\ LabelSize \in Nat /\ MaxMatchChars \in Nat
      /\ TruncMark \in Nat
  BY SizesAssumption
<1>2. E \in Int
  BY ConfigAssumption DEF Effective, NineTenths
<1>3. B \in Nat
  <2>1. ClampStr(m, MaxMatchChars) \in Nat
    BY <1>1 DEF ClampStr
  <2> QED
    BY <1>1, <2>1 DEF Bare
<1> HIDE DEF E, m, c, B
<1>4. room \in Int
  BY <1>2, <1>3
<1> HIDE DEF room
<1>5. clamped \in Nat /\ (room >= 0 => clamped <= room)
  <2>1. CASE room <= 0
    BY <1>4, <2>1 DEF ClampMiddle
  <2>2. CASE room > 0 /\ c <= room
    BY <1>1, <1>4, <2>2 DEF ClampMiddle
  <2>3. CASE room > 0 /\ c > room /\ room <= TruncMark + 2
    BY <1>1, <1>4, <2>3 DEF ClampMiddle
  <2>4. CASE room > 0 /\ c > room /\ room > TruncMark + 2
    <3>1. clamped = 2 * ((room - TruncMark) \div 2) + TruncMark
      BY <1>1, <1>4, <2>4 DEF ClampMiddle
    <3> QED
      BY <1>1, <1>4, <2>4, <3>1
  <2> QED
    BY <1>1, <1>4, <2>1, <2>2, <2>3, <2>4
<1>6. Body(k) = IF E <= 0 THEN LabelSize + m + c
                ELSE IF Tokens(B + c) <= E THEN B + c ELSE B + clamped
  BY DEF Body, E, m, c, B, room
<1> HIDE DEF clamped
<1>7. Body(k) \in Nat
  BY <1>1, <1>3, <1>5, <1>6
<1>8. Tokens(Body(k)) \in Nat
  BY <1>7 DEF Tokens
<1>9. ASSUME E > 0, Tokens(B) <= E PROVE Tokens(Body(k)) <= E
  <2>1. CASE Tokens(B + c) <= E
    <3>1. Body(k) = B + c
      BY <1>2, <1>6, <1>9, <2>1
    <3> QED
      BY <2>1, <3>1
  <2>2. CASE ~(Tokens(B + c) <= E)
    <3>1. Body(k) = B + clamped
      BY <1>2, <1>6, <1>9, <2>2
    <3>2. B <= 3 * E
      BY <1>2, <1>3, <1>9 DEF Tokens
    <3>3. room = E * 3 - B
      BY DEF room
    <3>4. room >= 0
      BY <1>2, <1>3, <3>2, <3>3
    <3>5. B + clamped <= 3 * E
      BY <1>2, <1>3, <1>5, <3>3, <3>4
    <3> QED
      BY <1>2, <1>3, <1>5, <3>1, <3>5 DEF Tokens
  <2> QED
    BY <2>1, <2>2
<1> QED
  BY <1>2, <1>3, <1>7, <1>8, <1>9 DEF E, B

(* Whatever is bound for the model is on the list, and adds up.             *)
LEMMA LoadAdds ==
  ASSUME BatchInv, DedupInv, FitInv, stage \notin {"dedup", "capping"}
  PROVE  /\ Len(bound) \in Nat /\ Effective \in Int
         /\ \A n \in 1..Len(bound) : /\ KeyOf(n) \in Keys /\ BodyTokens(n) \in Nat
                                     /\ Load[n] = BodyTokens(n)
         /\ Sums(Load, 1..Len(bound), Paid)
<1>1. /\ config \in Configs /\ IsSeq(bound) /\ Looked \in Nat
      /\ verdicts \cup Asked = 1..Looked
      /\ asked \in Nat /\ asked <= Len(deduped) /\ Looked <= asked
  BY DEF BatchInv, Triaged, FitInv
<1>2. Len(bound) \in Nat
  BY <1>1, AnySeq
<1>3. /\ Len(deduped) \in Nat
      /\ \A i \in 1..Len(deduped) : deduped[i].key \in Keys
  BY ListType
<1>4. \A n \in 1..Len(bound) : KeyOf(n) \in Keys
  <2> TAKE n \in 1..Len(bound)
  <2>1. bound[n] \in Asked
    BY DEF Asked
  <2>2. bound[n] \in 1..Looked
    BY <1>1, <2>1
  <2>3. bound[n] \in 1..Len(deduped)
    BY <1>1, <1>3, <2>2
  <2> QED
    BY <1>3, <2>3 DEF KeyOf
<1>5. \A n \in 1..Len(bound) : BodyTokens(n) \in Nat
  BY <1>1, <1>4, BodyType DEF BodyTokens
<1>6. \A n \in 1..Len(bound) : Load[n] = BodyTokens(n)
  BY DEF Load
<1>7. IsFiniteSet(1..Len(bound))
  BY <1>2, FS_Interval
<1>8. \E h : Sums(Load, 1..Len(bound), h)
  BY <1>5, <1>6, <1>7, SumsExist
<1>9. Sums(Load, 1..Len(bound), Paid)
  BY <1>8 DEF Paid
<1>10. Effective \in Int
  BY <1>1, ConfigAssumption DEF Effective, NineTenths
<1> QED
  BY <1>2, <1>4, <1>5, <1>6, <1>9, <1>10

(* A range and the finding after it.                                        *)
LEMMA OneMorePaid ==
  ASSUME BatchInv, DedupInv, FitInv, stage \notin {"dedup", "capping"},
         NEW a \in Nat \ {0}, NEW n \in 1..Len(bound), a <= n
  PROVE  Paid[a .. n] = Paid[a .. (n - 1)] + BodyTokens(n)
<1>1. /\ Sums(Load, 1..Len(bound), Paid) /\ Len(bound) \in Nat
      /\ Load[n] = BodyTokens(n) /\ BodyTokens(n) \in Nat
  BY LoadAdds
<1>2. a..n \in SUBSET (1..Len(bound)) /\ n \in a..n
  BY <1>1
<1>3. (a..n) \ {n} = a..(n - 1) /\ a..(n - 1) \in SUBSET (1..Len(bound))
  BY <1>1
<1>4. Paid[a..n] = Load[n] + Paid[(a..n) \ {n}]
  BY <1>1, <1>2 DEF Sums
<1>5. Paid[a..(n - 1)] \in Nat
  BY <1>1, <1>3 DEF Sums
<1>6. Paid[a..n] = Load[n] + Paid[a..(n - 1)]
  BY <1>3, <1>4
<1> QED
  BY <1>1, <1>5, <1>6

LEMMA NonePaid ==
  ASSUME BatchInv, DedupInv, FitInv, stage \notin {"dedup", "capping"},
         NEW a \in Nat, NEW b \in Nat, b < a
  PROVE  Paid[a .. b] = 0
<1>1. a..b = {}
  OBVIOUS
<1> QED
  BY <1>1, LoadAdds DEF Sums

LEMMA SamePaid ==
  ASSUME UNCHANGED <<deduped, config, bound>>
  PROVE  Paid' = Paid /\ Effective' = Effective
<1>1. Effective' = Effective
  BY DEF Effective
<1>2. Load' = Load
  BY <1>1 DEF Load, BodyTokens, KeyOf, Body, Bare
<1> QED
  BY <1>1, <1>2 DEF Paid

-----------------------------------------------------------------------------
(* What a call costs *)

LEMMA InitFit == Init => FitInv
  BY DEF Init, DedupInit, FitInv

LEMMA TriageFits ==
  ASSUME BatchInv, DedupInv, FitInv,
         \/ \E f \in Finding : Collect(f) /\ UNCHANGED <<config, batchVars>>
         \/ SortFindings /\ UNCHANGED <<config, batchVars>>
         \/ CapRequest \/ ShortCircuit \/ NeedsModel
  PROVE  FitInv'
<1>1. CASE \/ \E f \in Finding : Collect(f) /\ UNCHANGED <<config, batchVars>>
           \/ SortFindings /\ UNCHANGED <<config, batchVars>>
  <2>1. stage' \in {"dedup", "capping"}
    BY <1>1 DEF Collect, SortFindings
  <2> QED
    BY <2>1 DEF FitInv
<1>2. CASE CapRequest
  <2>1. /\ stage = "capping" /\ stage' = "triage" /\ UNCHANGED <<deduped, verdicts, bound>>
        /\ asked' = IF config.maxCount > 0 /\ Len(deduped) > config.maxCount
                    THEN config.maxCount ELSE Len(deduped)
    BY <1>2 DEF CapRequest, Go, dedupVars
  <2>2. Len(deduped) \in Nat /\ config.maxCount \in Int
    BY <2>1, ListType, ConfigAssumption DEF BatchInv
  <2>3. Looked' = 0
    <3>1. verdicts = {} /\ bound = <<>>
      BY <2>1 DEF BatchInv
    <3> QED
      BY <2>1, <3>1, FS_EmptySet, NoneIsSeq DEF Looked
  <2>4. asked' \in Nat /\ asked' <= Len(deduped)
    BY <2>1, <2>2
  <2> QED
    BY <2>1, <2>3, <2>4 DEF FitInv
<1>3. CASE ShortCircuit \/ NeedsModel
  <2>1. /\ stage = "triage" /\ stage' = "triage" /\ Looked < asked
        /\ asked' = asked /\ deduped' = deduped
    BY <1>3 DEF ShortCircuit, NeedsModel, Go, dedupVars
  <2>2. asked \in Nat /\ asked <= Len(deduped) /\ Looked \in Nat /\ Triaged
    BY <2>1 DEF FitInv, BatchInv, Triaged
  <2>3. Looked' = Looked + 1
    <3>1. CASE ShortCircuit
      <4>1. verdicts' = verdicts \cup {Looked + 1} /\ bound' = bound
        BY <3>1 DEF ShortCircuit
      <4>2. Looked + 1 \notin verdicts
        BY <2>2 DEF Triaged
      <4>3. Cardinality(verdicts') = Cardinality(verdicts) + 1
        BY <2>2, <4>1, <4>2, FS_AddElement DEF Triaged
      <4> QED
        BY <2>2, <4>1, <4>3, LookedType DEF Looked, Triaged
    <3>2. CASE NeedsModel
      <4>1. verdicts' = verdicts /\ bound' = Append(bound, Looked + 1)
        BY <3>2 DEF NeedsModel
      <4>2. Len(bound') = Len(bound) + 1
        BY <2>2, <4>1, AppendAny DEF Triaged
      <4> QED
        BY <2>2, <4>1, <4>2, LookedType DEF Looked, Triaged
    <3> QED
      BY <1>3, <3>1, <3>2
  <2> QED
    BY <2>1, <2>2, <2>3 DEF FitInv
<1> QED
  BY <1>1, <1>2, <1>3

(* Steps that leave the findings for the model as they are.                 *)
LEMMA SameFindings ==
  ASSUME FitInv, UNCHANGED <<deduped, config, bound, verdicts, asked>>,
         stage \notin {"dedup", "capping"}
  PROVE  /\ Paid' = Paid /\ Effective' = Effective /\ Looked' = Looked
         /\ asked' \in Nat /\ asked' <= Len(deduped') /\ Looked' <= asked'
  BY SamePaid DEF FitInv, Looked

LEMMA PackingFits ==
  ASSUME BatchInv, BatchInv', DedupInv, FitInv,
         \/ SingleCall \/ PerFinding \/ NothingToAsk
         \/ PackFinding \/ CloseBatch \/ LastBatch
  PROVE  FitInv'
<1>0. /\ UNCHANGED <<deduped, config, bound, verdicts, asked>>
      /\ stage \in {"triage", "packing"}
  BY DEF SingleCall, PerFinding, NothingToAsk, PackFinding, CloseBatch, LastBatch, Go,
         dedupVars, batchVars
<1>1. /\ Paid' = Paid /\ Effective' = Effective
      /\ asked' \in Nat /\ asked' <= Len(deduped') /\ Looked' <= asked'
  BY <1>0, SameFindings
<1>2. split = 0 /\ calls = <<>> /\ Len(calls) = 0
  BY <1>0, NoneIsSeq DEF BatchInv
<1>3. ASSUME stage' = "splitting", calls' = calls, split' = split,
             \A i \in 1..Len(batches') : batches'[i].tok = 0 \/ Packed(batches[i])'
      PROVE  FitInv'
  <2>1. Tiles(batches') /\ Len(batches') \in Nat
    BY <1>3, AnySeq DEF BatchInv, Splitting, Tiles
  <2>2. split' < Len(batches') => batches'[split' + 1].from = 1
    BY <1>2, <1>3, <2>1 DEF Tiles
  <2>3. EndOf(calls') = 0
    BY <1>2, <1>3, NoTiles
  <2> QED
    BY <1>1, <1>2, <1>3, <2>2, <2>3 DEF FitInv
<1>4. CASE SingleCall
  <2>1. /\ stage' = "splitting" /\ calls' = calls /\ split' = split
        /\ batches' = <<Span(1, Len(bound), 0)>>
    BY <1>4 DEF SingleCall, Go
  <2>2. \A i \in 1..Len(batches') : batches'[i].tok = 0
    BY <2>1 DEF Span
  <2> QED
    BY <1>3, <2>1, <2>2
<1>5. CASE PerFinding
  <2>1. /\ stage = "triage" /\ stage' = "packing"
        /\ current' = Span(1, 0, 0) /\ batches' = <<>>
    BY <1>5 DEF PerFinding, Go, batchVars, BatchInv
  <2>2. Paid[1..0] = 0
    BY <2>1, NonePaid
  <2>3. Packed(current)'
    BY <1>1, <2>1, <2>2 DEF Packed, Span
  <2>4. Len(batches') = 0
    BY <2>1, NoneIsSeq
  <2> QED
    BY <1>1, <2>1, <2>3, <2>4 DEF FitInv
<1>6. CASE NothingToAsk
  <2>1. stage' = "planned" /\ calls' = calls
    BY <1>6 DEF NothingToAsk, Go, batchVars
  <2> QED
    BY <1>1, <1>2, <2>1 DEF FitInv
<1> DEFINE n == packed + 1
           t == BodyTokens(n)
<1>7. ASSUME stage = "packing"
      PROVE  /\ Tiles(batches) /\ packed \in Nat /\ packed <= Len(bound) /\ Len(bound) \in Nat
             /\ current.from \in Nat \ {0} /\ current.to = packed /\ current.from <= packed + 1
             /\ Packed(current) /\ \A i \in 1..Len(batches) : Packed(batches[i])
  <2>1. /\ Tiles(batches) /\ packed \in 0..Len(bound) /\ Len(bound) \in Nat
        /\ current.to = packed /\ current.from = EndOf(batches) + 1
        /\ current.from <= packed + 1
    BY <1>7, AnySeq DEF BatchInv, Packing, Triaged
  <2>2. EndOf(batches) \in Nat
    BY <2>1 DEF Tiles
  <2>3. Packed(current) /\ \A i \in 1..Len(batches) : Packed(batches[i])
    BY <1>7 DEF FitInv
  <2> QED
    BY <2>1, <2>2, <2>3
<1>8. CASE PackFinding
  <2>1. /\ stage = "packing" /\ stage' = "packing" /\ packed < Len(bound) /\ ~Full(t)
        /\ current' = Span(current.from, n, current.tok + t) /\ batches' = batches
    BY <1>8 DEF PackFinding, Go
  <2>2. n \in 1..Len(bound) /\ current.from <= n /\ n - 1 = packed
    BY <1>7, <2>1
  <2>3. Paid[current.from .. n] = Paid[current.from .. packed] + t
    BY <1>7, <2>1, <2>2, OneMorePaid
  <2>4. current'.from = current.from /\ current'.to = n /\ current'.tok = current.tok + t
    BY <2>1 DEF Span
  <2>5. current.tok = Paid[current.from .. packed]
    BY <1>7, <2>1 DEF Packed
  <2>6. current.from < n => current.tok + t <= Effective
    <3>1. current.tok \in Int /\ t \in Nat /\ Effective \in Int
      <4>1. /\ t \in Nat /\ Effective \in Int /\ Sums(Load, 1..Len(bound), Paid)
        BY <2>1, <2>2, LoadAdds
      <4>2. current.from .. packed \in SUBSET (1..Len(bound))
        BY <1>7, <2>1
      <4>3. Paid[current.from .. packed] \in Nat
        BY <4>1, <4>2 DEF Sums
      <4> HIDE DEF t
      <4> QED
        BY <2>5, <4>1, <4>3
    <3>2. current.from < n => current.from <= current.to
      BY <1>7, <2>1
    <3> QED
      BY <2>1, <3>1, <3>2 DEF Full
  <2>7. Packed(current)'
    BY <1>1, <2>3, <2>4, <2>5, <2>6 DEF Packed
  <2>8. \A i \in 1..Len(batches') : Packed(batches[i])'
    BY <1>1, <1>7, <2>1 DEF Packed
  <2> QED
    BY <1>1, <2>1, <2>7, <2>8 DEF FitInv
<1>9. CASE CloseBatch
  <2>1. /\ stage = "packing" /\ stage' = "packing" /\ packed < Len(bound)
        /\ current' = Span(n, n, t) /\ batches' = Append(batches, current)
    BY <1>9 DEF CloseBatch, Go
  <2>2. n \in 1..Len(bound) /\ n \in Nat \ {0} /\ n - 1 \in Nat /\ n - 1 < n
    BY <1>7, <2>1
  <2>3. Paid[n..n] = Paid[n..(n - 1)] + t /\ Paid[n..(n - 1)] = 0 /\ t \in Nat
    <3>1. stage \notin {"dedup", "capping"}
      BY <2>1
    <3>2. Paid[n..n] = Paid[n..(n - 1)] + t
      <4>1. n <= n
        BY <2>2
      <4> HIDE DEF n
      <4> QED
        BY <2>2, <3>1, <4>1, OneMorePaid
    <3>3. Paid[n..(n - 1)] = 0
      <4> HIDE DEF n
      <4> QED
        BY <2>2, <3>1, NonePaid
    <3>4. t \in Nat
      BY <2>2, <3>1, LoadAdds
    <3> QED
      BY <3>2, <3>3, <3>4
  <2>4. current'.from = n /\ current'.to = n /\ current'.tok = t
    BY <2>1 DEF Span
  <2>5. Packed(current)'
    BY <1>1, <2>2, <2>3, <2>4 DEF Packed
  <2>6. /\ Len(batches') = Len(batches) + 1 /\ batches'[Len(batches) + 1] = current
        /\ \A i \in 1..Len(batches) : batches'[i] = batches[i]
        /\ Len(batches) \in Nat
    BY <1>7, <2>1, AppendAny DEF Tiles
  <2>7. \A i \in 1..Len(batches') : Packed(batches[i])'
    <3> SUFFICES ASSUME NEW i \in 1..Len(batches') PROVE Packed(batches[i])'
      OBVIOUS
    <3>1. i \in 1..Len(batches) \/ i = Len(batches) + 1
      BY <2>6
    <3> QED
      BY <1>1, <1>7, <2>1, <2>6, <3>1 DEF Packed
  <2> QED
    BY <1>1, <2>1, <2>5, <2>7 DEF FitInv
<1>10. CASE LastBatch
  <2>1. /\ stage = "packing" /\ stage' = "splitting" /\ calls' = calls /\ split' = split
        /\ batches' = IF current.from <= current.to THEN Append(batches, current) ELSE batches
    BY <1>10 DEF LastBatch, Go
  <2>2. /\ Len(Append(batches, current)) = Len(batches) + 1
        /\ Append(batches, current)[Len(batches) + 1] = current
        /\ \A i \in 1..Len(batches) : Append(batches, current)[i] = batches[i]
        /\ Len(batches) \in Nat
    BY <1>7, <2>1, AppendAny DEF Tiles
  <2>3. \A i \in 1..Len(batches') : Packed(batches[i])'
    <3> SUFFICES ASSUME NEW i \in 1..Len(batches') PROVE Packed(batches[i])'
      OBVIOUS
    <3>1. batches'[i] = current \/ (i \in 1..Len(batches) /\ batches'[i] = batches[i])
      BY <2>1, <2>2
    <3> QED
      BY <1>1, <1>7, <2>1, <3>1 DEF Packed
  <2> QED
    BY <1>3, <2>1, <2>3
<1> QED
  BY <1>4, <1>5, <1>6, <1>8, <1>9, <1>10

LEMMA CuttingFits ==
  ASSUME BatchInv, DedupInv, FitInv, CutBatch
  PROVE  FitInv'
<1> DEFINE b == batches[split + 1]
           done == EndOf(calls)
           last == IF config.perCall > 0 /\ b.to > done + config.perCall
                   THEN done + config.perCall ELSE b.to
           x == Span(done + 1, last, b.tok)
<1>1. /\ stage = "splitting" /\ stage' = "splitting" /\ split < Len(batches)
      /\ UNCHANGED <<deduped, config, bound, verdicts, asked, batches>>
      /\ calls' = Append(calls, x)
      /\ split' = IF last = b.to THEN split + 1 ELSE split
  BY DEF CutBatch, Go, EndOf, dedupVars
<1>2. /\ Paid' = Paid /\ Effective' = Effective
      /\ asked' \in Nat /\ asked' <= Len(deduped') /\ Looked' <= asked'
  BY <1>1, SameFindings
<1>3. /\ Tiles(batches) /\ Tiles(calls) /\ split \in 0..Len(batches) /\ done < b.to
      /\ EndOf(batches) = Len(bound) /\ config.perCall \in Int
  BY <1>1, ConfigAssumption DEF BatchInv, Splitting
<1>4. Len(batches) \in Nat /\ Len(calls) \in Nat /\ done \in Nat
  BY <1>3, AnySeq DEF Tiles
<1>5. split + 1 \in 1..Len(batches)
  BY <1>1, <1>3, <1>4
<1>6. /\ b.from \in Nat /\ b.to \in Nat /\ 0 < b.from /\ b.from <= b.to /\ b.to <= Len(bound)
  BY <1>3, <1>5 DEF Tiles
<1>7. b.from <= done + 1 /\ (b.tok = 0 \/ Packed(b))
  BY <1>1, <1>5 DEF FitInv
<1>8. last \in Nat /\ done < last /\ last <= b.to
  BY <1>3, <1>4, <1>6, SMTT(30)
<1>9. x.from = done + 1 /\ x.to = last /\ x.tok = b.tok
  BY DEF Span
<1>10. calls' = Append(calls, x) /\ split' = IF last = b.to THEN split + 1 ELSE split
  BY <1>1
<1> HIDE DEF done, last, x
<1>11. Fits(x)
  <2>1. CASE b.tok = 0
    BY <1>9, <2>1 DEF Fits
  <2>2. CASE Packed(b) /\ b.from = b.to
    BY <1>4, <1>6, <1>7, <1>8, <1>9, <2>2 DEF Fits
  <2>3. CASE Packed(b) /\ b.from < b.to
    <3>1. Paid[b.from .. b.to] <= Effective
      BY <2>3 DEF Packed
    <3>2. /\ Sums(Load, 1..Len(bound), Paid) /\ Len(bound) \in Nat /\ Effective \in Int
          /\ \A n \in 1..Len(bound) : Load[n] \in Nat
      BY <1>1, LoadAdds
    <3>3. /\ x.from .. x.to \in SUBSET (1..Len(bound))
          /\ b.from .. b.to \in SUBSET (1..Len(bound))
          /\ x.from .. x.to \subseteq b.from .. b.to
      BY <1>4, <1>6, <1>7, <1>8, <1>9, <3>2
    <3>4. Paid[x.from .. x.to] <= Paid[b.from .. b.to]
      <4>1. IsFiniteSet(1..Len(bound))
        BY <3>2, FS_Interval
      <4> QED
        BY <3>2, <3>3, <4>1, SumsGrow
    <3>5. Paid[x.from .. x.to] \in Nat /\ Paid[b.from .. b.to] \in Nat
      BY <3>2, <3>3 DEF Sums
    <3>6. Paid[x.from .. x.to] <= Effective
      BY <3>1, <3>2, <3>4, <3>5
    <3> QED
      BY <3>6 DEF Fits
  <2> QED
    BY <1>6, <1>7, <2>1, <2>2, <2>3
<1>12. \A c \in 1..Len(calls') : Fits(calls[c])'
  <2>1. /\ Len(calls') = Len(calls) + 1 /\ calls'[Len(calls) + 1] = x
        /\ \A i \in 1..Len(calls) : calls'[i] = calls[i]
    BY <1>3, <1>10, AppendAny DEF Tiles
  <2> SUFFICES ASSUME NEW c \in 1..Len(calls') PROVE Fits(calls[c])'
    OBVIOUS
  <2>2. c \in 1..Len(calls) \/ c = Len(calls) + 1
    BY <1>4, <2>1
  <2>3. \A i \in 1..Len(calls) : Fits(calls[i])
    BY <1>1 DEF FitInv
  <2> QED
    BY <1>2, <1>11, <2>1, <2>2, <2>3 DEF Fits
<1>13. \A i \in 1..Len(batches') : batches'[i].tok = 0 \/ Packed(batches[i])'
  <2>1. \A i \in 1..Len(batches) : batches[i].tok = 0 \/ Packed(batches[i])
    BY <1>1 DEF FitInv
  <2> QED
    BY <1>1, <1>2, <2>1 DEF Packed
<1>14. split' < Len(batches') => batches'[split' + 1].from <= EndOf(calls') + 1
  <2>1. EndOf(calls') = last
    BY <1>3, <1>4, <1>8, <1>9, <1>10, OneMoreTile DEF done
  <2>2. CASE last = b.to
    <3> SUFFICES ASSUME split + 1 < Len(batches)
                 PROVE  batches[(split + 1) + 1].from <= last + 1
      BY <1>1, <1>10, <2>1, <2>2
    <3>1. /\ (split + 1) + 1 \in 1..Len(batches) /\ (split + 1) + 1 # 1
          /\ ((split + 1) + 1) - 1 = split + 1
      BY <1>4, <1>5
    <3>2. batches[(split + 1) + 1].from = b.to + 1
      BY <1>3, <3>1 DEF Tiles
    <3> QED
      BY <1>6, <2>2, <3>2
  <2>3. CASE last # b.to
    BY <1>1, <1>4, <1>6, <1>7, <1>8, <1>10, <2>1, <2>3
  <2> QED
    BY <2>2, <2>3
<1> QED
  BY <1>1, <1>2, <1>12, <1>13, <1>14 DEF FitInv

LEMMA NextFit == BatchInv /\ DedupInv /\ FitInv /\ [Next]_vars => FitInv'
<1> SUFFICES ASSUME BatchInv, DedupInv, FitInv, [Next]_vars PROVE FitInv'
  OBVIOUS
<1>1. BatchInv'
  BY NextBatch
<1>2. CASE CallsReady
  <2>1. /\ stage = "splitting" /\ stage' = "planned"
        /\ UNCHANGED <<deduped, config, bound, verdicts, asked, calls>>
    BY <1>2 DEF CallsReady, Go, batchVars, dedupVars
  <2>2. /\ Paid' = Paid /\ Effective' = Effective
        /\ asked' \in Nat /\ asked' <= Len(deduped') /\ Looked' <= asked'
    BY <2>1, SameFindings
  <2>3. \A c \in 1..Len(calls) : Fits(calls[c])
    BY <2>1 DEF FitInv
  <2>4. \A c \in 1..Len(calls') : Fits(calls[c])'
    BY <2>1, <2>2, <2>3 DEF Fits
  <2> QED
    BY <2>1, <2>2, <2>4 DEF FitInv
<1>3. CASE UNCHANGED vars
  <2>1. stage' = stage /\ UNCHANGED <<deduped, config>> /\ UNCHANGED batchVars
    BY <1>3 DEF vars, dedupVars
  <2>2. UNCHANGED <<deduped, config, bound, verdicts, asked, current, batches, split, calls>>
    BY <2>1 DEF batchVars
  <2>3. Paid' = Paid /\ Effective' = Effective /\ Looked' = Looked
    BY <2>2, SamePaid DEF Looked
  <2> QED
    BY <2>1, <2>2, <2>3 DEF FitInv, Packed, Fits
<1> QED
  BY <1>1, <1>2, <1>3, TriageFits, PackingFits, CuttingFits DEF Next

-----------------------------------------------------------------------------
(* The sum over a set of findings, as the fold of the community modules.    *)
LEMMA SumIter ==
  ASSUME NEW S
  PROVE  Sum(BodyTokens, S) = Iter([n \in S |-> BodyTokens(n)], S)[S]
  BY DEF Sum, MapThenSumSet, MapThenFoldSet, Iter

(* For all sizes and limits: a call with packed findings stays within the   *)
(* budget, or is about one finding that cannot be cut down to it.           *)
THEOREM CallsStayWithinBudget == Spec => []CallsFit
<1>1. BatchInv /\ DedupInv /\ FitInv => CallsFit
  <2> SUFFICES ASSUME BatchInv, DedupInv, FitInv, stage = "planned",
                      NEW c \in DOMAIN calls, calls[c].tok # 0,
                      ~(Sum(BodyTokens, calls[c].from .. calls[c].to) <= Effective)
               PROVE  /\ calls[c].from = calls[c].to
                      /\ Effective > 0 => Tokens(Bare(KeyOf(calls[c].from))) > Effective
    BY DEF CallsFit
  <2> DEFINE a == calls[c].from
             z == calls[c].to
             U == 1..Len(bound)
  <2>1. /\ Tiles(calls) /\ EndOf(calls) = Len(bound) /\ DOMAIN calls = 1..Len(calls)
    BY AnySeq DEF BatchInv, Tiles
  <2>2. a \in Nat /\ z \in Nat /\ 0 < a /\ a <= z /\ z <= Len(bound)
    BY <2>1 DEF Tiles
  <2>3. /\ Len(bound) \in Nat /\ Effective \in Int /\ Sums(Load, U, Paid)
        /\ \A n \in U : KeyOf(n) \in Keys /\ BodyTokens(n) \in Nat /\ Load[n] = BodyTokens(n)
    BY LoadAdds
  <2>4. a..z \in SUBSET U /\ IsFiniteSet(a..z)
    <3>1. a..z \in SUBSET U
      BY <2>2, <2>3
    <3>2. IsFiniteSet(a..z)
      <4>1. IsFiniteSet(U)
        BY <2>3, FS_Interval
      <4> QED
        BY <3>1, <4>1, FS_Subset
    <3> QED
      BY <3>1, <3>2
  <2>5. Sum(BodyTokens, a..z) = Paid[a..z]
    <3> DEFINE S == a..z
               f == [n \in S |-> BodyTokens(n)]
    <3>1. Sum(BodyTokens, S) = Iter(f, S)[S]
      BY SumIter
    <3>2. \A n \in S : f[n] = Load[n]
      BY <2>3, <2>4
    <3> HIDE DEF f, U
    <3>3. S \in SUBSET U /\ IsFiniteSet(S) /\ Sums(Load, U, Paid)
      BY <2>3, <2>4
    <3> HIDE DEF S
    <3>4. Iter(f, S)[S] = Paid[S]
      BY <3>2, <3>3, IterSums
    <3> QED
      BY <3>1, <3>4 DEF S
  <2>6. Fits(calls[c])
    BY <2>1 DEF FitInv
  <2>7. a = z
    BY <2>5, <2>6 DEF Fits
  <2>8. ASSUME Effective > 0 PROVE Tokens(Bare(KeyOf(a))) > Effective
    <3>1. a \in U /\ a - 1 \in Nat /\ a - 1 < a
      BY <2>2, <2>3
    <3>2. Paid[a..a] = Paid[a..(a - 1)] + BodyTokens(a) /\ Paid[a..(a - 1)] = 0
      <4>1. a \in Nat \ {0} /\ a <= a
        BY <2>2
      <4> HIDE DEF a
      <4>2. Paid[a..a] = Paid[a..(a - 1)] + BodyTokens(a)
        BY <3>1, <4>1, OneMorePaid
      <4>3. Paid[a..(a - 1)] = 0
        BY <2>2, <3>1, NonePaid
      <4> QED
        BY <4>2, <4>3
    <3>3. Paid[a..z] = BodyTokens(a)
      BY <2>3, <2>7, <3>1, <3>2
    <3>4. ~(BodyTokens(a) <= Effective)
      BY <2>5, <3>3
    <3>5. KeyOf(a) \in Keys /\ config \in Configs
      BY <2>3, <3>1 DEF BatchInv
    <3>6. Bare(KeyOf(a)) \in Nat /\ ~(Tokens(Bare(KeyOf(a))) <= Effective)
      BY <2>8, <3>4, <3>5, BodyType DEF BodyTokens
    <3>7. Tokens(Bare(KeyOf(a))) \in Nat
      BY <3>6 DEF Tokens
    <3> QED
      BY <2>3, <3>6, <3>7
  <2> QED
    BY <2>7, <2>8
<1> QED
  BY InitBatch, NextBatch, InitDedup, NextDedup, InitFit, NextFit, <1>1, PTL DEF Spec
-----------------------------------------------------------------------------
(* The loops end *)

(* How many steps are left at most: one per finding for triage, packing and *)
(* cutting, and one to leave each loop.                                     *)
Left ==
  CASE stage = "capping"   -> 3 * Len(deduped) + 4
    [] stage = "triage"    -> (asked - Looked) + 2 * asked + 3
    [] stage = "packing"   -> (asked - packed) + asked + 2
    [] stage = "splitting" -> Len(bound) - EndOf(calls) + 1
    [] OTHER               -> 0

EndsSooner == Left \in Nat /\ Left' \in Nat /\ Left' < Left

LEMMA PlainSizes ==
  ASSUME BatchInv, DedupInv, FitInv
  PROVE  /\ stage # "dedup" => Len(deduped) \in Nat
         /\ Cardinality(verdicts) \in Nat /\ Len(bound) \in Nat /\ Looked \in Nat
         /\ Looked = Cardinality(verdicts) + Len(bound)
         /\ stage \notin {"dedup", "capping"} => asked \in Nat /\ Looked <= asked
  BY ListType, LookedType DEF BatchInv, Triaged, FitInv, Looked

LEMMA TriageEndsSooner ==
  ASSUME BatchInv, DedupInv, FitInv, FitInv',
         CapRequest \/ ShortCircuit \/ NeedsModel \/ SingleCall \/ PerFinding \/ NothingToAsk
  PROVE  EndsSooner
<1>1. CASE CapRequest
  <2>1. /\ stage = "capping" /\ stage' = "triage"
        /\ asked' = Len(deduped) \/ (config.maxCount < Len(deduped) /\ asked' = config.maxCount)
        /\ verdicts = {} /\ bound = <<>> /\ UNCHANGED <<deduped, verdicts, bound>>
    BY <1>1 DEF CapRequest, Go, dedupVars, BatchInv
  <2>2. Looked' = Looked /\ Looked = 0
    BY <2>1, FS_EmptySet, NoneIsSeq DEF Looked
  <2>3. Len(deduped) \in Nat /\ asked' \in Nat
    BY <2>1, PlainSizes DEF FitInv
  <2>4. asked' <= Len(deduped)
    <3>1. config.maxCount \in Int
      BY ConfigAssumption DEF BatchInv
    <3> QED
      BY <2>1, <2>3, <3>1
  <2> QED
    BY <2>1, <2>2, <2>3, <2>4 DEF EndsSooner, Left
<1>2. CASE ShortCircuit \/ NeedsModel
  <2>1. stage = "triage" /\ stage' = "triage" /\ asked' = asked /\ Looked < asked
    BY <1>2 DEF ShortCircuit, NeedsModel, Go
  <2>2. Looked' = Looked + 1
    <3>1. /\ IsFiniteSet(verdicts) /\ IsSeq(bound) /\ Looked \in Nat
          /\ Looked + 1 \notin verdicts
          /\ Cardinality(verdicts) \in Nat /\ Len(bound) \in Nat
      BY PlainSizes DEF BatchInv, Triaged
    <3>2. CASE ShortCircuit
      <4>1. verdicts' = verdicts \cup {Looked + 1} /\ bound' = bound
        BY <3>2 DEF ShortCircuit
      <4>2. Cardinality(verdicts') = Cardinality(verdicts) + 1
        BY <3>1, <4>1, FS_AddElement
      <4> QED
        BY <3>1, <4>1, <4>2 DEF Looked
    <3>3. CASE NeedsModel
      BY <3>1, <3>3, AppendAny DEF NeedsModel, Looked
    <3> QED
      BY <1>2, <3>2, <3>3
  <2>3. Looked \in Nat /\ asked \in Nat
    BY <2>1, PlainSizes
  <2> QED
    BY <2>1, <2>2, <2>3 DEF EndsSooner, Left
<1>3. CASE SingleCall \/ PerFinding \/ NothingToAsk
  <2>1. /\ stage = "triage" /\ stage' \in {"splitting", "packing", "planned"} /\ Looked = asked
        /\ UNCHANGED <<asked, bound, calls>> /\ (stage' = "packing" => packed' = packed)
        /\ packed = 0 /\ calls = <<>>
    BY <1>3 DEF SingleCall, PerFinding, NothingToAsk, Go, batchVars, BatchInv
  <2>2. /\ Looked \in Nat /\ asked \in Nat /\ Len(bound) \in Nat /\ Len(bound) <= asked
        /\ EndOf(calls)' = 0 /\ Len(bound)' = Len(bound)
    BY <2>1, PlainSizes DEF EndOf
  <2> QED
    BY <2>1, <2>2 DEF EndsSooner, Left
<1> QED
  BY <1>1, <1>2, <1>3

LEMMA PackingEndsSooner ==
  ASSUME BatchInv, DedupInv, FitInv, PackFinding \/ CloseBatch \/ LastBatch
  PROVE  EndsSooner
<1>1. /\ stage = "packing" /\ UNCHANGED <<asked, bound, calls>> /\ calls = <<>>
      /\ packed \in 0..Len(bound) /\ Looked = asked
      /\ \/ stage' = "packing" /\ packed < Len(bound) /\ packed' = packed + 1
         \/ stage' = "splitting" /\ packed = Len(bound)
  BY DEF PackFinding, CloseBatch, LastBatch, Go, BatchInv, Packing
<1>2. /\ asked \in Nat /\ Len(bound) \in Nat /\ Len(bound) <= asked
      /\ EndOf(calls)' = 0 /\ Len(bound)' = Len(bound)
  BY <1>1, PlainSizes DEF EndOf
<1> QED
  BY <1>1, <1>2 DEF EndsSooner, Left

(* Each cut takes at least one finding.                                     *)
LEMMA CuttingEndsSooner ==
  ASSUME BatchInv, BatchInv', CutBatch
  PROVE  EndsSooner
<1> DEFINE b == batches[split + 1]
           done == EndOf(calls)
           last == IF config.perCall > 0 /\ b.to > done + config.perCall
                   THEN done + config.perCall ELSE b.to
           x == Span(done + 1, last, b.tok)
<1>1. /\ stage = "splitting" /\ stage' = "splitting" /\ split < Len(batches)
      /\ UNCHANGED bound /\ calls' = Append(calls, x)
  BY DEF CutBatch, Go, EndOf
<1>2. /\ Tiles(batches) /\ EndOf(batches) = Len(bound) /\ Tiles(calls)
      /\ split \in 0..Len(batches) /\ done < b.to /\ config \in Configs
  BY <1>1 DEF BatchInv, Splitting
<1>3. Len(batches) \in Nat /\ done \in Nat /\ config.perCall \in Int /\ Len(bound) \in Nat
  BY <1>2, ConfigAssumption, AnySeq DEF Tiles, BatchInv, Triaged
<1>4. split + 1 \in 1..Len(batches)
  BY <1>1, <1>2, <1>3
<1>5. b.to \in Nat /\ b.to <= Len(bound)
  BY <1>2, <1>4 DEF Tiles
<1>6. last \in Nat /\ done < last /\ last <= b.to
  BY <1>2, <1>3, <1>5, SMTT(30)
<1>7. x.from = done + 1 /\ x.to = last
  BY DEF Span
<1> HIDE DEF b, done, last, x
<1>8. EndOf(calls') = last
  BY <1>1, <1>2, <1>3, <1>6, <1>7, OneMoreTile DEF done
<1>9. Len(bound)' = Len(bound) /\ EndOf(calls)' = last /\ EndOf(calls) = done
  BY <1>1, <1>8 DEF done
<1> QED
  BY <1>1, <1>3, <1>5, <1>6, <1>9 DEF EndsSooner, Left

(* Whatever the findings, sizes and limits (none, zero or negative too),    *)
(* each step after the merge brings the plan nearer: it is made after at    *)
(* most three steps per finding and four more, and no limit makes a loop    *)
(* turn without taking a finding.                                           *)
LoopsEnd == [][stage # "dedup" => EndsSooner]_vars

(* Triage, packing and cutting come to an end for every list and all limits.*)
THEOREM PlanIsMade == Spec => LoopsEnd
<1>1. BatchInv /\ BatchInv' /\ DedupInv /\ FitInv /\ FitInv' /\ [Next]_vars
        => [stage # "dedup" => EndsSooner]_vars
  <2> SUFFICES ASSUME BatchInv, BatchInv', DedupInv, FitInv, FitInv', Next, stage # "dedup"
               PROVE  EndsSooner
    OBVIOUS
  <2>1. CASE CallsReady
    <3>1. /\ stage = "splitting" /\ stage' = "planned" /\ split = Len(batches)
      BY <2>1 DEF CallsReady, Go
    <3>2. EndOf(calls) = Len(bound) /\ Len(bound) \in Nat
      BY <3>1, PlainSizes DEF BatchInv, Splitting
    <3> QED
      BY <3>1, <3>2 DEF EndsSooner, Left
  <2>2. ~SortFindings /\ ~(\E f \in Finding : Collect(f))
    BY DEF SortFindings, Collect
  <2> QED
    BY <2>1, <2>2, TriageEndsSooner, PackingEndsSooner, CuttingEndsSooner DEF Next
<1> QED
  BY InitBatch, NextBatch, InitDedup, NextDedup, InitFit, NextFit, <1>1, PTL DEF Spec, LoopsEnd
=============================================================================
