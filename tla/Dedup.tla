------------------------------- MODULE Dedup -------------------------------
(***************************************************************************)
(* detector.Dedup: the findings of all detectors, in whatever order these  *)
(* finish, collapse by file, line and match into one sorted list.          *)
(*                                                                         *)
(* A key stands for a file, line and match and is numbered as the three    *)
(* sort; a detection's label for detector type, name and rule.             *)
(***************************************************************************)
EXTENDS Integers, Sequences, FiniteSets, Functions

CONSTANTS
  Keys,    \* finding keys
  Labels,  \* detection labels
  Finding, \* what detectors may report
  MaxRaw   \* bound: findings of one request

ASSUME DedupAssumption ==
  /\ Keys \subseteq Nat /\ Labels \subseteq Nat /\ MaxRaw \in Nat
  /\ Finding \subseteq [key : Keys, label : Labels, verified : BOOLEAN]

VARIABLES
  stage,   \* "dedup" first; then what becomes of the list
  raw,     \* findings taken so far
  byKey,   \* the map, from the keys met to their detections in order
  deduped  \* the list returned

dedupVars == <<raw, byKey, deduped>>

Detections == [label : Labels, verified : BOOLEAN]
Detected(f) == [label |-> f.label, verified |-> f.verified]

DedupInit ==
  /\ stage = "dedup" /\ raw = <<>>
  /\ byKey = [k \in {} |-> <<>>]
  /\ deduped = <<>>

(* The next finding, of any detector that has something to report. *)
Collect(f) ==
  /\ stage = "dedup" /\ Len(raw) < MaxRaw
  /\ raw' = Append(raw, f)
  /\ byKey' = [k \in DOMAIN byKey \cup {f.key} |->
                 LET trail == IF k \in DOMAIN byKey THEN byKey[k] ELSE <<>>
                 IN IF k = f.key THEN Append(trail, Detected(f)) ELSE trail]
  /\ UNCHANGED <<stage, deduped>>

(* Faulty: the verified flag does not break a tie. *)
ByLabel(a, b) == a.label < b.label

Before(a, b) ==
  a.label < b.label \/ (a.label = b.label /\ ~a.verified /\ b.verified)

(* sort.Slice: an arrangement of the trail with nothing out of order. *)
Sorted(trail) ==
  LET D == DOMAIN trail
      p == CHOOSE p \in Bijection(D, D) :
             \A m, n \in D : m < n => ~Before(trail[p[n]], trail[p[m]])
  IN [n \in D |-> trail[p[n]]]

(* sort.SliceStable, whose keys are all different. *)
Ascending(S) ==
  LET D == 1..Cardinality(S)
  IN CHOOSE s \in Bijection(D, S) : \A m, n \in D : m < n => s[m] < s[n]

(* One entry of the list. *)
Deduped(k) ==
  [key |-> k, detections |-> Sorted(byKey[k]),
   anyVerified |-> \E i \in DOMAIN byKey[k] : byKey[k][i].verified]

SortFindings ==
  /\ stage = "dedup" /\ stage' = "capping"
  /\ LET keys == Ascending(DOMAIN byKey)
     IN deduped' = [i \in DOMAIN keys |-> Deduped(keys[i])]
  /\ UNCHANGED <<raw, byKey>>
-----------------------------------------------------------------------------
Times(s, x) == Cardinality({i \in DOMAIN s : s[i] = x})
TimesFound(f) == Times(raw, f)

(* The list is a function of which findings there are and how often, not   *)
(* of the order they came in: keys strictly ascend and are the keys found, *)
(* each trail ascends and holds every detection of its key as many times   *)
(* as it was made, and a key is verified when one of its detections is.    *)
(* The cap that follows, the prompts and the answer are then the same for  *)
(* any order in which the detectors finish.                                *)
OrderIndependent ==
  stage # "dedup" =>
    /\ \A i, j \in DOMAIN deduped : i < j => deduped[i].key < deduped[j].key
    /\ {deduped[i].key : i \in DOMAIN deduped} = {raw[i].key : i \in DOMAIN raw}
    /\ \A i \in DOMAIN deduped :
         LET d == deduped[i] IN
         /\ \A m, n \in DOMAIN d.detections : m < n =>
              \/ d.detections[m].label < d.detections[n].label
              \/ /\ d.detections[m].label = d.detections[n].label
                 /\ d.detections[m].verified => d.detections[n].verified
         /\ \A x \in Detections :
              Times(d.detections, x) = TimesFound(
                [key |-> d.key, label |-> x.label, verified |-> x.verified])
         /\ d.anyVerified = \E l \in Labels :
              TimesFound([key |-> d.key, label |-> l, verified |-> TRUE]) > 0
=============================================================================
