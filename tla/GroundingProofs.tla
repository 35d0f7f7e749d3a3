--------------------------- MODULE GroundingProofs ---------------------------
(***************************************************************************)
(* What llm.Ground promises of its discoveries, for every diff, every list *)
(* of findings and claims of any number and in any order.                  *)
(***************************************************************************)
EXTENDS Grounding, FiniteSetTheorems, SequenceTheorems, WellFoundedInduction, TLAPS

-----------------------------------------------------------------------------
(* First positions *)

LEMMA Least ==
  ASSUME NEW T, T \subseteq Nat, T # {}
  PROVE  \E x \in T : \A y \in T : x <= y
<1> DEFINE R == OpToRel(<, Nat)
<1>1. IsWellFoundedOn(R, Nat)
  BY NatLessThanWellFounded
<1>2. \A x, y \in Nat : <<y, x>> \in R <=> y < x
  BY DEF OpToRel
<1> HIDE DEF R
<1>3. PICK x \in T : \A y \in T : ~(<<y, x>> \in R)
  BY <1>1, WFMin
<1>4. \A y \in T : ~(y < x)
  BY <1>2, <1>3
<1> QED
  BY <1>3, <1>4

Tokens == Words \cup Marks

LEMMA TextType ==
  ASSUME NEW t \in Texts
  PROVE  /\ Len(t) \in Nat /\ DOMAIN t = 1..Len(t) /\ t \in Seq(Tokens)
         /\ \A i \in 1..Len(t) : t[i] \in Tokens
         /\ t # <<>> <=> Len(t) > 0
<1>1. t \in Seq(Tokens)
  BY DEF Texts, Tokens
<1> QED
  BY <1>1, EmptySeq

LEMMA DiffType ==
  ASSUME diff \in Diffs
  PROVE  DOMAIN diff \subseteq Nat \ {0} /\ \A i \in DOMAIN diff : diff[i].text \in Texts
<1> DEFINE L == [file : STRING, line : Nat, text : Texts]
<1>1. diff \in Seq(L)
  BY GroundingAssumption
<1>2. DOMAIN diff = 1..Len(diff) /\ Len(diff) \in Nat
  BY <1>1
<1>3. \A i \in 1..Len(diff) : diff[i] \in L
  BY <1>1, ElementOfSeq
<1> QED
  BY <1>2, <1>3

(* LocateInDiff finds a line that contains what it was asked for.           *)
LEMMA LocateFinds ==
  ASSUME diff \in Diffs, NEW n, LocateInDiff(n) # 0
  PROVE  LocateInDiff(n) \in DOMAIN diff /\ Contains(diff[LocateInDiff(n)].text, n)
<1> DEFINE T == {i \in DOMAIN diff : Contains(diff[i].text, n)}
           P(i) == /\ Contains(diff[i].text, n)
                   /\ \A j \in 1..(i - 1) : ~Contains(diff[j].text, n)
<1>1. T # {} /\ LocateInDiff(n) = CHOOSE i \in DOMAIN diff : P(i)
  BY DEF LocateInDiff
<1>2. PICK x \in T : \A y \in T : x <= y
  BY <1>1, DiffType, Least
<1>3. x \in DOMAIN diff /\ Contains(diff[x].text, n) /\ x \in Nat
  BY <1>2, DiffType
<1>4. \A j \in 1..(x - 1) : j \in DOMAIN diff /\ j < x /\ j \in Nat
  <2>1. diff \in Seq([file : STRING, line : Nat, text : Texts])
    BY GroundingAssumption
  <2>2. DOMAIN diff = 1..Len(diff) /\ Len(diff) \in Nat
    BY <2>1
  <2> QED
    BY <1>3, <2>2
<1>5. \A j \in 1..(x - 1) : ~Contains(diff[j].text, n)
  BY <1>2, <1>3, <1>4
<1>6. \E i \in DOMAIN diff : P(i)
  BY <1>3, <1>5
<1> HIDE DEF P
<1>7. LocateInDiff(n) \in DOMAIN diff /\ P(LocateInDiff(n))
  BY <1>1, <1>6
<1> QED
  BY <1>7 DEF P

-----------------------------------------------------------------------------
(* Texts within texts *)

LEMMA PartType ==
  ASSUME NEW s \in Texts, NEW p \in Nat \ {0}, NEW q \in Nat, q <= Len(s)
  PROVE  /\ SubSeq(s, p, q) \in Texts
         /\ Len(SubSeq(s, p, q)) = IF p <= q THEN q - p + 1 ELSE 0
         /\ \A i \in 1..(q - p + 1) : SubSeq(s, p, q)[i] = s[p + i - 1]
<1>1. \A i \in p..q : i \in 1..Len(s)
  OBVIOUS
<1>2. \A i \in p..q : s[i] \in Tokens
  BY <1>1, TextType
<1> QED
  BY <1>2, SubSeqProperties DEF Texts, Tokens

(* What contains a text contains every part of it.                          *)
LEMMA PartOfPart ==
  ASSUME NEW t \in Texts, NEW s \in Texts, Contains(t, s),
         NEW p \in Nat \ {0}, NEW q \in Nat, p <= q, q <= Len(s)
  PROVE  Contains(t, SubSeq(s, p, q))
<1> DEFINE u == SubSeq(s, p, q)
           k == q - p + 1
<1>1. Len(t) \in Nat /\ Len(s) \in Nat /\ k \in Nat /\ k > 0
  BY TextType
<1>2. PICK i \in 1..(Len(t) - Len(s) + 1) : SubSeq(t, i, i + Len(s) - 1) = s
  BY DEF Contains, Positions
<1>3. i \in Nat \ {0} /\ i + Len(s) - 1 \in Nat /\ i + Len(s) - 1 <= Len(t)
  BY <1>1, <1>2
<1>4. u \in Texts /\ Len(u) = k /\ \A m \in 1..k : u[m] = s[p + m - 1]
  BY PartType
<1>5. \A m \in 1..Len(s) : s[m] = t[i + m - 1]
  <2>1. (i + Len(s) - 1) - i + 1 = Len(s)
    BY <1>1, <1>3
  <2>2. \A m \in 1..((i + Len(s) - 1) - i + 1) : SubSeq(t, i, i + Len(s) - 1)[m] = t[i + m - 1]
    BY <1>3, PartType
  <2> QED
    BY <1>2, <2>1, <2>2
<1> DEFINE j == i + p - 1
           v == SubSeq(t, j, j + k - 1)
<1>6. j \in Nat \ {0} /\ j + k - 1 \in Nat /\ j + k - 1 <= Len(t) /\ j <= j + k - 1
  BY <1>1, <1>3
<1>7. v \in Texts /\ Len(v) = k /\ \A m \in 1..k : v[m] = t[j + m - 1]
  <2>1. (j + k - 1) - j + 1 = k
    BY <1>1, <1>6
  <2> QED
    BY <1>6, <2>1, PartType
<1>8. ASSUME NEW m \in 1..k PROVE v[m] = u[m]
  <2>1. p + m - 1 \in 1..Len(s) /\ i + (p + m - 1) - 1 = j + m - 1
    BY <1>1, <1>3
  <2>2. s[p + m - 1] = t[j + m - 1]
    BY <1>5, <2>1
  <2> QED
    BY <1>4, <1>7, <2>2
<1> HIDE DEF u, v
<1>9. v = u
  <2>1. u \in Seq(Tokens) /\ v \in Seq(Tokens)
    BY <1>4, <1>7, TextType
  <2> QED
    BY <1>4, <1>7, <1>8, <2>1, SeqEqual
<1>10. j \in 1..(Len(t) - Len(u) + 1)
  BY <1>1, <1>4, <1>6
<1>11. j + Len(u) - 1 = j + k - 1
  BY <1>4
<1> QED
  BY <1>9, <1>10, <1>11 DEF Contains, Positions, u, v

(* normalizeCandidate keeps the part up to the trailing punctuation, without *)
(* the quotes if it is quoted.                                               *)
Semicolon == ";"

EndsAt(s, n) ==
  /\ n \in 0..Len(s) /\ (n > 0 => s[n] # Semicolon)
  /\ \A i \in DOMAIN s : i > n => s[i] = Semicolon

LEMMA Normalized ==
  ASSUME NEW s \in Texts
  PROVE  \E end : /\ EndsAt(s, end)
                  /\ \/ normalizeCandidate(s) = SubSeq(s, 1, end)
                     \/ /\ end >= 2 /\ s[1] = "quote"
                        /\ normalizeCandidate(s) = SubSeq(s, 2, end - 1)
<1> DEFINE Q(n) == /\ n > 0 => s[n] # Semicolon
                   /\ \A i \in DOMAIN s : i > n => s[i] = Semicolon
           T == {n \in 0..Len(s) : \A i \in DOMAIN s : i > n => s[i] = Semicolon}
           end == CHOOSE n \in 0..Len(s) : Q(n)
<1>1. Len(s) \in Nat /\ DOMAIN s = 1..Len(s)
  BY TextType
<1>2. T \subseteq Nat /\ T # {}
  <2>1. Len(s) \in 0..Len(s) /\ \A i \in DOMAIN s : ~(i > Len(s))
    BY <1>1
  <2>2. T \subseteq 0..Len(s)
    OBVIOUS
  <2>3. 0..Len(s) \subseteq Nat
    BY <1>1
  <2> QED
    BY <2>1, <2>2, <2>3
<1>3. PICK x \in T : \A y \in T : x <= y
  BY <1>2, Least
<1>4. x \in 0..Len(s) /\ x \in Nat /\ \A i \in DOMAIN s : i > x => s[i] = Semicolon
  BY <1>2, <1>3
<1>5. Q(x)
  <2> SUFFICES ASSUME x > 0, s[x] = Semicolon PROVE FALSE
    BY <1>4
  <2> HIDE DEF T
  <2>1. x - 1 \in 0..Len(s) /\ x - 1 < x
    BY <1>1, <1>4
  <2>2. ASSUME NEW i \in DOMAIN s, i > x - 1 PROVE s[i] = Semicolon
    <3>1. i \in Nat
      BY <1>1
    <3>2. i = x \/ i > x
      BY <1>4, <2>2, <3>1
    <3> QED
      BY <1>4, <3>2
  <2>3. x - 1 \in T
    BY <2>1, <2>2 DEF T
  <2>4. x <= x - 1
    BY <1>3, <2>3
  <2> QED
    BY <1>4, <2>1, <2>4
<1>6. \E n \in 0..Len(s) : Q(n)
  BY <1>4, <1>5
<1> HIDE DEF Q, T
<1>7. end \in 0..Len(s) /\ Q(end)
  BY <1>6
<1>8. EndsAt(s, end)
  BY <1>7 DEF EndsAt, Q
<1>9. normalizeCandidate(s) = IF end >= 2 /\ s[1] = "quote" /\ s[end] = "quote"
                              THEN SubSeq(s, 2, end - 1) ELSE SubSeq(s, 1, end)
  BY Zenon DEF normalizeCandidate, Q, end, Semicolon
<1> HIDE DEF end
<1> QED
  BY <1>8, <1>9

(* A part of a part is a part.                                               *)
LEMMA PartOfSub ==
  ASSUME NEW s \in Texts, NEW a \in Nat \ {0}, NEW b \in Nat, b <= Len(s),
         NEW p \in Nat \ {0}, NEW q \in Nat, p <= q, a + q - 1 <= b
  PROVE  SubSeq(SubSeq(s, a, b), p, q) = SubSeq(s, a + p - 1, a + q - 1)
<1> DEFINE r == SubSeq(s, a, b)
           u == SubSeq(r, p, q)
           v == SubSeq(s, a + p - 1, a + q - 1)
           k == q - p + 1
<1>1. Len(s) \in Nat /\ k \in Nat /\ k > 0 /\ a <= b
  BY TextType
<1>2. r \in Texts /\ Len(r) = b - a + 1 /\ \A m \in 1..(b - a + 1) : r[m] = s[a + m - 1]
  BY <1>1, PartType
<1> HIDE DEF r
<1>3. u \in Texts /\ Len(u) = k /\ \A m \in 1..k : u[m] = r[p + m - 1]
  <2>1. q <= Len(r)
    BY <1>1, <1>2
  <2> QED
    BY <1>2, <2>1, PartType
<1>4. v \in Texts /\ Len(v) = k /\ \A m \in 1..k : v[m] = s[a + p - 1 + m - 1]
  <2>1. a + p - 1 \in Nat \ {0} /\ a + q - 1 \in Nat /\ a + q - 1 <= Len(s)
    BY <1>1
  <2>2. (a + q - 1) - (a + p - 1) + 1 = k /\ a + p - 1 <= a + q - 1
    BY <1>1
  <2> HIDE DEF k
  <2> QED
    BY <2>1, <2>2, PartType
<1>5. ASSUME NEW m \in 1..k PROVE u[m] = v[m]
  <2>1. p + m - 1 \in 1..(b - a + 1) /\ a + (p + m - 1) - 1 = a + p - 1 + m - 1
    BY <1>1
  <2>2. r[p + m - 1] = s[a + p - 1 + m - 1]
    BY <1>2, <2>1
  <2> QED
    BY <1>3, <1>4, <2>2
<1> HIDE DEF u, v, k
<1>6. u \in Seq(Tokens) /\ v \in Seq(Tokens)
  BY <1>3, <1>4, TextType
<1>7. u = v
  BY <1>3, <1>4, <1>5, <1>6, SeqEqual
<1> QED
  BY <1>7 DEF r, u, v

(* The normal form of a text is a text, and a part of it that does not end    *)
(* in punctuation.                                                            *)
LEMMA NormalPart ==
  ASSUME NEW s \in Texts, normalizeCandidate(s) # <<>>
  PROVE  \E p \in {1, 2}, q \in Nat, end \in Nat :
           /\ p <= q /\ q <= end /\ end <= Len(s) /\ s[end] # Semicolon
           /\ normalizeCandidate(s) = SubSeq(s, p, q)
<1>1. Len(s) \in Nat /\ DOMAIN s = 1..Len(s)
  BY TextType
<1>2. PICK end : /\ EndsAt(s, end)
                 /\ \/ normalizeCandidate(s) = SubSeq(s, 1, end)
                    \/ /\ end >= 2 /\ s[1] = "quote"
                       /\ normalizeCandidate(s) = SubSeq(s, 2, end - 1)
  BY Normalized
<1>3. end \in Nat /\ end <= Len(s) /\ (end > 0 => s[end] # Semicolon)
  BY <1>1, <1>2 DEF EndsAt
<1>4. ASSUME NEW p \in {1, 2}, NEW q \in Nat, q <= Len(s), normalizeCandidate(s) = SubSeq(s, p, q)
      PROVE  p <= q
  <2>1. SubSeq(s, p, q) \in Texts /\ Len(SubSeq(s, p, q)) = IF p <= q THEN q - p + 1 ELSE 0
    BY <1>4, PartType
  <2>2. SubSeq(s, p, q) # <<>>
    BY <1>4
  <2>3. Len(SubSeq(s, p, q)) > 0
    BY <2>1, <2>2, TextType
  <2> QED
    BY <2>1, <2>3
<1>5. CASE normalizeCandidate(s) = SubSeq(s, 1, end)
  <2>1. 1 <= end
    BY <1>3, <1>4, <1>5
  <2>2. end > 0 /\ s[end] # Semicolon
    BY <1>3, <2>1
  <2> QED
    BY <1>3, <1>5, <2>1, <2>2
<1>6. CASE end >= 2 /\ normalizeCandidate(s) = SubSeq(s, 2, end - 1)
  <2>1. end - 1 \in Nat /\ end - 1 <= Len(s) /\ end - 1 <= end /\ s[end] # Semicolon
    BY <1>3, <1>6
  <2>2. 2 <= end - 1
    BY <1>4, <1>6, <2>1
  <2> QED
    BY <1>3, <1>6, <2>1, <2>2
<1> QED
  BY <1>2, <1>5, <1>6

LEMMA NormalType ==
  ASSUME NEW s \in Texts
  PROVE  normalizeCandidate(s) \in Texts
<1>1. CASE normalizeCandidate(s) = <<>>
  <2>1. <<>> \in Texts
    BY DEF Texts
  <2> QED
    BY <1>1, <2>1
<1>2. CASE normalizeCandidate(s) # <<>>
  <2>1. PICK p \in {1, 2}, q \in Nat, end \in Nat :
           /\ p <= q /\ q <= end /\ end <= Len(s)
           /\ normalizeCandidate(s) = SubSeq(s, p, q)
    BY <1>2, NormalPart
  <2>2. p \in Nat \ {0} /\ q <= Len(s)
    BY <2>1, TextType
  <2> QED
    BY <2>1, <2>2, PartType
<1> QED
  BY <1>1, <1>2

(* Where an assignment is, as it stands or normalised, its value is.          *)
LEMMA ValueInside ==
  ASSUME NEW n \in Texts, isAssignment(n), NEW t \in Texts,
         Contains(t, n) \/ Contains(t, normalizeCandidate(n))
  PROVE  Contains(t, assignmentValue(n)) /\ assignmentValue(n) \in Texts
<1>1. Len(n) >= 2 /\ n[1] \in {"key", "user"} /\ normalizeCandidate(Rest(n)) # <<>>
  BY Zenon DEF isAssignment
<1>2. Len(n) \in Nat /\ DOMAIN n = 1..Len(n)
  BY TextType
<1>3. Rest(n) = SubSeq(n, 3, Len(n)) /\ assignmentValue(n) = normalizeCandidate(Rest(n))
  BY DEF Rest, assignmentValue
<1>4. /\ Rest(n) \in Texts /\ Len(Rest(n)) = Len(n) - 2
      /\ \A i \in 1..(Len(n) - 2) : Rest(n)[i] = n[i + 2]
  <2>1. /\ SubSeq(n, 3, Len(n)) \in Texts
        /\ Len(SubSeq(n, 3, Len(n))) = IF 3 <= Len(n) THEN Len(n) - 3 + 1 ELSE 0
        /\ \A i \in 1..(Len(n) - 3 + 1) : SubSeq(n, 3, Len(n))[i] = n[3 + i - 1]
    BY <1>2, PartType
  <2> QED
    BY <1>1, <1>2, <1>3, <2>1
<1>5. PICK p \in {1, 2}, q \in Nat, end \in Nat :
         /\ p <= q /\ q <= end /\ end <= Len(Rest(n)) /\ Rest(n)[end] # Semicolon
         /\ normalizeCandidate(Rest(n)) = SubSeq(Rest(n), p, q)
  BY <1>1, <1>4, NormalPart
<1>6. /\ p \in Nat \ {0} /\ end >= 1 /\ end + 2 <= Len(n)
      /\ p + 2 \in Nat \ {0} /\ q + 2 \in Nat /\ p + 2 <= q + 2 /\ q + 2 <= end + 2
      /\ q + 2 <= Len(n)
  BY <1>2, <1>4, <1>5
<1>7. assignmentValue(n) = SubSeq(n, p + 2, q + 2)
  <2>1. 3 + q - 1 <= Len(n)
    BY <1>2, <1>6
  <2>2. SubSeq(SubSeq(n, 3, Len(n)), p, q) = SubSeq(n, 3 + p - 1, 3 + q - 1)
    BY <1>2, <1>5, <1>6, <2>1, PartOfSub
  <2>3. 3 + p - 1 = p + 2 /\ 3 + q - 1 = q + 2
    BY <1>5, <1>6
  <2> QED
    BY <1>3, <1>5, <2>2, <2>3
<1>8. assignmentValue(n) \in Texts
  BY <1>6, <1>7, PartType
<1>9. CASE Contains(t, n)
  BY <1>6, <1>7, <1>8, <1>9, PartOfPart
<1>10. CASE Contains(t, normalizeCandidate(n))
  <2>1. PICK last : /\ EndsAt(n, last)
                    /\ \/ normalizeCandidate(n) = SubSeq(n, 1, last)
                       \/ /\ last >= 2 /\ n[1] = "quote"
                          /\ normalizeCandidate(n) = SubSeq(n, 2, last - 1)
    BY Normalized
  <2>2. normalizeCandidate(n) = SubSeq(n, 1, last)
    BY <1>1, <2>1
  <2>3. last \in Nat /\ last <= Len(n) /\ \A i \in DOMAIN n : i > last => n[i] = Semicolon
    BY <1>2, <2>1 DEF EndsAt
  <2>4. end + 2 <= last
    <3>1. end \in 1..(Len(n) - 2)
      BY <1>2, <1>6
    <3>2. n[end + 2] # Semicolon /\ end + 2 \in DOMAIN n
      BY <1>2, <1>4, <1>5, <1>6, <3>1
    <3> QED
      BY <1>6, <2>3, <3>2
  <2>5. 1 + (q + 2) - 1 <= last /\ q + 2 <= last
    BY <1>6, <2>3, <2>4
  <2>6. SubSeq(SubSeq(n, 1, last), p + 2, q + 2) = SubSeq(n, 1 + (p + 2) - 1, 1 + (q + 2) - 1)
    BY <1>6, <2>3, <2>5, PartOfSub
  <2>7. 1 + (p + 2) - 1 = p + 2 /\ 1 + (q + 2) - 1 = q + 2
    BY <1>6
  <2>8. SubSeq(SubSeq(n, 1, last), p + 2, q + 2) = assignmentValue(n)
    BY <1>7, <2>6, <2>7
  <2>9. /\ SubSeq(n, 1, last) \in Texts /\ Contains(t, SubSeq(n, 1, last))
        /\ Len(SubSeq(n, 1, last)) = last
    <3>1. Len(SubSeq(n, 1, last)) = IF 1 <= last THEN last - 1 + 1 ELSE 0
      BY <2>3, PartType
    <3>2. Len(SubSeq(n, 1, last)) = last
      BY <2>3, <3>1
    <3> QED
      BY <1>10, <2>2, <2>3, <3>2, PartType
  <2>10. Contains(t, SubSeq(SubSeq(n, 1, last), p + 2, q + 2))
    BY <1>6, <2>5, <2>9, PartOfPart
  <2> QED
    BY <1>8, <2>8, <2>10
<1> QED
  BY <1>9, <1>10

-----------------------------------------------------------------------------
(* Claims *)

LEMMA NeedleType ==
  ASSUME NEW c \in Claims
  PROVE  groundingNeedle(c) \in Texts
<1>1. c.value \in Texts
  BY GroundingAssumption
<1>2. <<>> \in Texts /\ <<"BEGIN">> \in Texts
  BY DEF Texts, Words
<1> QED
  BY <1>1, <1>2 DEF groundingNeedle, pemHeaderLine

(* locate answers with a line that contains what it says it found.            *)
LEMMA LocatedIsThere ==
  ASSUME diff \in Diffs, NEW n, locate(n).at # 0
  PROVE  /\ locate(n).at \in DOMAIN diff
         /\ \/ locate(n).match = n
            \/ /\ locate(n).match = normalizeCandidate(n) /\ ~TooShort(normalizeCandidate(n))
               /\ LocateInDiff(n) = 0
         /\ Contains(diff[locate(n).at].text, locate(n).match)
<1>1. CASE LocateInDiff(n) # 0
  <2>1. locate(n) = [at |-> LocateInDiff(n), match |-> n]
    BY <1>1 DEF locate
  <2> QED
    BY <1>1, <2>1, LocateFinds
<1>2. CASE LocateInDiff(n) = 0
  <2>1. /\ normalizeCandidate(n) # n /\ ~TooShort(normalizeCandidate(n))
        /\ locate(n) = [at |-> LocateInDiff(normalizeCandidate(n)), match |-> normalizeCandidate(n)]
    BY <1>2 DEF locate
  <2>2. LocateInDiff(normalizeCandidate(n)) # 0
    BY <2>1
  <2> QED
    BY <1>2, <2>1, <2>2, LocateFinds
<1> QED
  BY <1>1, <1>2

(* A part holds no token that the whole does not.                             *)
LEMMA EmptyHolds ==
  ASSUME NEW token
  PROVE  ~Holds(<<>>, token)
<1>1. DOMAIN <<>> = {}
  OBVIOUS
<1> QED
  BY <1>1 DEF Holds

LEMMA NormalHolds ==
  ASSUME NEW s \in Texts, NEW token, ~Holds(s, token)
  PROVE  ~Holds(normalizeCandidate(s), token)
<1>1. CASE normalizeCandidate(s) = <<>>
  BY <1>1, EmptyHolds
<1>2. CASE normalizeCandidate(s) # <<>>
  <2>1. PICK p \in {1, 2}, q \in Nat, end \in Nat :
           /\ p <= q /\ q <= end /\ end <= Len(s)
           /\ normalizeCandidate(s) = SubSeq(s, p, q)
    BY <1>2, NormalPart
  <2>2. p \in Nat \ {0} /\ q <= Len(s) /\ Len(s) \in Nat /\ DOMAIN s = 1..Len(s)
    BY <2>1, TextType
  <2>3. /\ SubSeq(s, p, q) \in Texts /\ Len(SubSeq(s, p, q)) = q - p + 1
        /\ \A i \in 1..(q - p + 1) : SubSeq(s, p, q)[i] = s[p + i - 1]
    BY <2>1, <2>2, PartType
  <2>4. DOMAIN SubSeq(s, p, q) = 1..(q - p + 1)
    BY <2>3, TextType
  <2>5. \A i \in 1..(q - p + 1) : p + i - 1 \in DOMAIN s
    BY <2>1, <2>2
  <2> QED
    BY <2>1, <2>3, <2>4, <2>5 DEF Holds
<1> QED
  BY <1>1, <1>2

LEMMA RestHolds ==
  ASSUME NEW s \in Texts, Len(s) >= 2, NEW token, ~Holds(s, token)
  PROVE  Rest(s) \in Texts /\ ~Holds(Rest(s), token)
<1>1. Len(s) \in Nat /\ DOMAIN s = 1..Len(s)
  BY TextType
<1>2. /\ SubSeq(s, 3, Len(s)) \in Texts
      /\ Len(SubSeq(s, 3, Len(s))) = IF 3 <= Len(s) THEN Len(s) - 3 + 1 ELSE 0
      /\ \A i \in 1..(Len(s) - 3 + 1) : SubSeq(s, 3, Len(s))[i] = s[3 + i - 1]
  BY <1>1, PartType
<1>3. DOMAIN SubSeq(s, 3, Len(s)) = 1..(Len(s) - 2)
  <2>1. Len(SubSeq(s, 3, Len(s))) = Len(s) - 2
    BY <1>1, <1>2
  <2> QED
    BY <1>2, <2>1, TextType
<1>4. \A i \in 1..(Len(s) - 2) : i + 2 \in DOMAIN s /\ SubSeq(s, 3, Len(s))[i] = s[i + 2]
  BY <1>1, <1>2
<1> QED
  BY <1>2, <1>3, <1>4 DEF Rest, Holds

(* What is searched for has no substitution in it.                            *)
LEMMA NeedlePlain ==
  ASSUME NEW c \in Claims, Refused(c) = "no", NEW token \in {"${", "$("}
  PROVE  ~Holds(groundingNeedle(c), token)
<1> DEFINE n == groundingNeedle(c)
<1>1. Searchable(c)
  BY DEF Refused
<1>2. isReference(n) => quotedCallLiteral(n)
  BY <1>1, Zenon DEF Searchable
<1>3. quotedCallLiteral(n) => ~Interpolates(n)
  BY Zenon DEF quotedCallLiteral
<1>4. Holds(n, token) => isReference(n)
  BY Zenon DEF isReference
<1>5. Holds(n, token) => Interpolates(n)
  BY DEF Holds, Interpolates
<1> QED
  BY <1>2, <1>3, <1>4, <1>5

LEMMA FoundPlain ==
  ASSUME NEW c \in Claims, Refused(c) = "no", NEW token \in {"${", "$("}
  PROVE  ~Holds(Found(c).match, token)
<1> DEFINE n == groundingNeedle(c)
<1>1. n \in Texts /\ ~Holds(n, token)
  BY NeedleType, NeedlePlain
<1>2. ~Holds(normalizeCandidate(n), token) /\ ~Holds(<<>>, token)
  <2> HIDE DEF n
  <2> QED
    BY <1>1, EmptyHolds, NormalHolds
<1>3. CASE isAssignment(n)
  <2>1. Found(c).match = normalizeCandidate(Rest(n))
    BY <1>3 DEF Found, assignmentValue
  <2>2. Len(n) >= 2
    BY <1>3, Zenon DEF isAssignment
  <2> HIDE DEF n
  <2> QED
    BY <1>1, <2>1, <2>2, RestHolds, NormalHolds
<1>4. CASE ~isAssignment(n)
  <2>1. Found(c) = locate(n)
    BY <1>4 DEF Found
  <2>2. locate(n).match \in {n, normalizeCandidate(n), <<>>}
    BY DEF locate
  <2> HIDE DEF n
  <2> QED
    BY <1>1, <1>2, <2>1, <2>2
<1> QED
  BY <1>3, <1>4

(* What survives the early returns is on an added line, or is an assignment's *)
(* value that is there in its normal form alone, and long enough.             *)
OnlyNormal(c) ==
  /\ Contains(diff[Found(c).at].text, normalizeCandidate(Found(c).match))
  /\ LocateInDiff(Found(c).match) = 0
  /\ isAssignment(groundingNeedle(c)) /\ assignmentValue(groundingNeedle(c)) = Found(c).match

LEMMA FoundIsThere ==
  ASSUME diff \in Diffs, NEW c \in Claims, Refused(c) = "no", Found(c).at # 0
  PROVE  /\ Found(c).at \in DOMAIN diff
         /\ Contains(diff[Found(c).at].text, Found(c).match) \/ OnlyNormal(c)
         /\ ~TooShort(Found(c).match)
<1> DEFINE n == groundingNeedle(c)
           val == assignmentValue(n)
<1>1. n \in Texts
  BY NeedleType
<1>2. Searchable(c)
  BY DEF Refused
<1>3. ~TooShort(n)
  BY <1>2 DEF Searchable
<1>4. CASE ~isAssignment(n)
  <2>1. Found(c) = locate(n)
    BY <1>4 DEF Found
  <2> HIDE DEF n
  <2> QED
    BY <1>3, <2>1, LocatedIsThere
<1>5. CASE isAssignment(n)
  <2>1. Found(c) = [at |-> IF locate(n).at # 0 THEN locate(n).at ELSE locate(val).at, match |-> val]
    BY <1>5 DEF Found
  <2>2. ~TooShort(val)
    BY <1>2, <1>5 DEF Refused
  <2>3. OnlyNormal(c) <=> /\ Contains(diff[Found(c).at].text, normalizeCandidate(Found(c).match))
                          /\ LocateInDiff(Found(c).match) = 0
                          /\ val = Found(c).match
    BY <1>5, Zenon DEF OnlyNormal
  <2> HIDE DEF n, val
  <2>4. Found(c).match = val
    BY <2>1
  <2>5. CASE locate(n).at # 0
    <3>1. Found(c).at = locate(n).at
      BY <2>1, <2>5
    <3>2. /\ locate(n).at \in DOMAIN diff
          /\ \/ Contains(diff[locate(n).at].text, n)
             \/ Contains(diff[locate(n).at].text, normalizeCandidate(n))
      BY <2>5, LocatedIsThere
    <3>3. diff[locate(n).at].text \in Texts
      BY <3>2, DiffType
    <3>4. Contains(diff[locate(n).at].text, val)
      BY <1>1, <1>5, <3>2, <3>3, ValueInside DEF val
    <3> QED
      BY <2>2, <2>4, <3>1, <3>2, <3>4
  <2>6. CASE locate(n).at = 0
    <3>1. Found(c).at = locate(val).at /\ locate(val).at # 0
      BY <2>1, <2>6
    <3> QED
      BY <2>2, <2>3, <2>4, <3>1, LocatedIsThere
  <2> QED
    BY <2>5, <2>6
<1> QED
  BY <1>4, <1>5

Places == [file : STRING, line : Nat, match : Texts]

LEMMA IdType ==
  ASSUME diff \in Diffs, NEW c \in Claims, Found(c).at \in DOMAIN diff
  PROVE  Id(c) \in Places
<1> DEFINE n == groundingNeedle(c)
<1>1. n \in Texts /\ normalizeCandidate(n) \in Texts
  BY NeedleType, NormalType
<1>2. diff[Found(c).at].file \in STRING /\ diff[Found(c).at].line \in Nat
  <2>1. diff \in Seq([file : STRING, line : Nat, text : Texts])
    BY GroundingAssumption
  <2>2. Found(c).at \in 1..Len(diff)
    BY <2>1
  <2>3. diff[Found(c).at] \in [file : STRING, line : Nat, text : Texts]
    BY <2>1, <2>2, ElementOfSeq
  <2> QED
    BY <2>3
<1> HIDE DEF n
<1>3. Found(c).match \in Texts
  <2>1. CASE isAssignment(n)
    <3>1. Found(c).match = assignmentValue(n)
      BY <2>1 DEF Found, n
    <3>2. Len(n) \in Nat /\ Len(n) >= 2
      BY <1>1, <2>1, TextType, Zenon DEF isAssignment
    <3>3. SubSeq(n, 3, Len(n)) \in Texts
      BY <1>1, <3>2, PartType
    <3> QED
      BY <3>1, <3>3, NormalType DEF assignmentValue, Rest
  <2>2. CASE ~isAssignment(n)
    <3>1. Found(c) = locate(n)
      BY <2>2 DEF Found, n
    <3>2. locate(n).match \in {n, normalizeCandidate(n), <<>>}
      BY DEF locate
    <3>3. <<>> \in Texts
      BY DEF Texts
    <3> QED
      BY <1>1, <3>1, <3>2, <3>3
  <2> QED
    BY <2>1, <2>2
<1> QED
  BY <1>2, <1>3 DEF Id, IdAt, Places

Outcomes == {"test_data", "invalid_or_reference", "non_secret_assignment", "placeholder",
             "formatting_text", "no", "not_found", "sentinel", "reference", "duplicate",
             "detector_overlap", "discovered"}

(* A claim is discovered when it is fresh and not yet reported.                *)
LEMMA OutcomeFresh ==
  ASSUME NEW c
  PROVE  /\ Outcome(c) = "discovered" <=> IsFresh(c) /\ Id(c) \notin seen
         /\ Outcome(c) \in Outcomes
<1> DEFINE Others == {"test_data", "invalid_or_reference", "non_secret_assignment", "placeholder",
                      "formatting_text", "no"}
           found == Found(c)
           id == IdAt(found)
           Late == {"not_found", "sentinel", "reference", "duplicate", "detector_overlap"}
<1>1. Refused(c) \in Others
  BY Zenon DEF Refused
<1>2. Refused(c) \in Outcomes /\ Refused(c) # "discovered"
  BY <1>1 DEF Outcomes
<1> HIDE DEF Others
<1>3. Id(c) = id
  BY DEF Id
<1>4. CASE Refused(c) # "no"
  <2>1. Outcome(c) = Refused(c)
    BY <1>4 DEF Outcome
  <2>2. ~IsFresh(c)
    BY <1>4 DEF IsFresh
  <2> QED
    BY <1>2, <2>1, <2>2
<1>5. CASE Refused(c) = "no" /\ ~IsFresh(c)
  <2>1. \/ found.at = 0 \/ classifySentinel(found.match)
        \/ onlyInVarReference(addedLineText(found.at), found.match) \/ collidesWithVerdict(id)
    BY <1>5 DEF IsFresh
  <2>2. Outcome(c) \in Late
    BY <1>5, <2>1, Zenon DEF Outcome
  <2>3. Outcome(c) \in Outcomes /\ Outcome(c) # "discovered"
    BY <2>2 DEF Outcomes
  <2> QED
    BY <1>5, <2>3
<1>6. CASE Refused(c) = "no" /\ IsFresh(c) /\ Id(c) \in seen
  <2>1. Outcome(c) = "duplicate"
    BY <1>3, <1>6, Zenon DEF Outcome, IsFresh
  <2> QED
    BY <1>6, <2>1 DEF Outcomes
<1>7. CASE Refused(c) = "no" /\ IsFresh(c) /\ Id(c) \notin seen
  <2>1. Outcome(c) = "discovered"
    BY <1>3, <1>7, Zenon DEF Outcome, IsFresh
  <2> QED
    BY <1>7, <2>1 DEF Outcomes
<1> QED
  BY <1>4, <1>5, <1>6, <1>7

(* What a claim comes to by itself does not change.                            *)
LEMMA FreshIsFixed ==
  ASSUME UNCHANGED <<diff, taken>>, NEW c
  PROVE  (IsFresh(c) <=> IsFresh(c)') /\ Id(c)' = Id(c)
<1>1. diff' = diff /\ taken' = taken
  OBVIOUS
<1>2. \A n : LocateInDiff(n)' = LocateInDiff(n)
  BY <1>1 DEF LocateInDiff
<1>3. \A i : addedLineText(i)' = addedLineText(i)
  BY <1>1 DEF addedLineText
<1>4. \A n : locate(n)' = locate(n)
  BY <1>2 DEF locate
<1>5. Found(c)' = Found(c)
  BY <1>4 DEF Found
<1>6. \A v : quotedCallLiteral(v) <=> quotedCallLiteral(v)'
  BY <1>2, <1>3, ZenonT(60) DEF quotedCallLiteral
<1>7. Searchable(c) <=> Searchable(c)'
  BY <1>6 DEF Searchable
<1>8. Refused(c)' = Refused(c)
  BY <1>7 DEF Refused
<1>9. \A f : IdAt(f)' = IdAt(f)
  BY <1>1 DEF IdAt
<1>10. \A d : collidesWithVerdict(d) <=> collidesWithVerdict(d)'
  BY <1>1 DEF collidesWithVerdict
<1>11. Id(c)' = Id(c)
  BY <1>5, <1>9 DEF Id
<1>12. IsFresh(c) <=> IsFresh(c)'
  BY <1>3, <1>5, <1>8, <1>9, <1>10 DEF IsFresh
<1> QED
  BY <1>11, <1>12

-----------------------------------------------------------------------------
(* The invariant: the discoveries are the fresh claims'.  The rest, that a      *)
(* discovery is in the diff, is what it is to be fresh.                         *)

DroppedAt == {i \in DOMAIN outcomes : outcomes[i] \in Dropped}

TypeInv ==
  /\ diff \in Diffs /\ taken \in Takens
  /\ claimed \in Seq(Claims)
  /\ outcomes \in Seq(Outcomes)
  /\ Len(outcomes) = Len(claimed)
  /\ discoveries \in Seq(Places)
  /\ ungrounded \in Nat /\ collisions \in Nat

FreshAt == {j \in DOMAIN claimed : IsFresh(claimed[j])}

FromClaims == seen = {Id(claimed[i]) : i \in FreshAt}

SeenReported == seen = {discoveries[i] : i \in DOMAIN discoveries}

Counted ==
  Len(claimed) = Len(discoveries) + ungrounded + collisions + Cardinality(DroppedAt)

GroundInv == TypeInv /\ FromClaims /\ SeenReported /\ Counted

LEMMA InitGround == Init => GroundInv
<1> SUFFICES ASSUME Init PROVE GroundInv
  OBVIOUS
<1> USE DEF Init
<1>1. TypeInv
  BY DEF TypeInv
<1>2. DOMAIN claimed = {} /\ DOMAIN outcomes = {} /\ DOMAIN discoveries = {}
  OBVIOUS
<1>3. FromClaims
  BY <1>2 DEF FromClaims, FreshAt
<1>4. SeenReported
  BY <1>2 DEF SeenReported
<1>5. DroppedAt = {}
  BY <1>2 DEF DroppedAt
<1>6. Counted
  BY <1>5, FS_EmptySet DEF Counted
<1> QED
  BY <1>1, <1>3, <1>4, <1>6 DEF GroundInv

(* A claim more.                                                               *)
LEMMA OneMore ==
  ASSUME NEW S, NEW s \in Seq(S), NEW e \in S
  PROVE  /\ Append(s, e) \in Seq(S)
         /\ Len(s) \in Nat /\ Len(Append(s, e)) = Len(s) + 1
         /\ DOMAIN s = 1..Len(s) /\ DOMAIN Append(s, e) = DOMAIN s \cup {Len(s) + 1}
         /\ Len(s) + 1 \notin DOMAIN s
         /\ Append(s, e)[Len(s) + 1] = e
         /\ \A i \in DOMAIN s : Append(s, e)[i] = s[i]
  OBVIOUS

LEMMA TakeTypes ==
  ASSUME TypeInv, NEW c \in Claims, NEW possible, Take(c, possible)
  PROVE  /\ claimed' \in Seq(Claims) /\ outcomes' \in Seq(Outcomes)
         /\ Len(outcomes') = Len(claimed') /\ Len(claimed') = Len(claimed) + 1
         /\ diff' \in Diffs /\ taken' \in Takens
<1>1. claimed' = Append(claimed, c) /\ outcomes' = Append(outcomes, Outcome(c))
  BY DEF Take
<1>2. Outcome(c) \in Outcomes
  BY OutcomeFresh
<1>3. Append(claimed, c) \in Seq(Claims) /\ Len(Append(claimed, c)) = Len(claimed) + 1
  BY OneMore DEF TypeInv
<1>4. Append(outcomes, Outcome(c)) \in Seq(Outcomes)
      /\ Len(Append(outcomes, Outcome(c))) = Len(outcomes) + 1
  BY <1>2, OneMore DEF TypeInv
<1>5. diff' = diff /\ taken' = taken
  BY DEF Take
<1> QED
  BY <1>1, <1>3, <1>4, <1>5 DEF TypeInv

(* The fresh claims after one more.                                            *)
LEMMA TakeFresh ==
  ASSUME TypeInv, NEW c \in Claims, NEW possible, Take(c, possible)
  PROVE  {Id(claimed[i]) : i \in FreshAt}' =
           {Id(claimed[i]) : i \in FreshAt} \cup (IF IsFresh(c) THEN {Id(c)} ELSE {})
<1> DEFINE n == Len(claimed) + 1
<1>1. claimed' = Append(claimed, c) /\ UNCHANGED <<diff, taken>>
  BY DEF Take
<1>2. /\ DOMAIN claimed' = DOMAIN claimed \cup {n} /\ n \notin DOMAIN claimed
      /\ claimed'[n] = c /\ \A i \in DOMAIN claimed : claimed'[i] = claimed[i]
  BY <1>1, OneMore DEF TypeInv
<1> HIDE DEF n
<1>3. \A d : (IsFresh(d) <=> IsFresh(d)') /\ Id(d)' = Id(d)
  <2>1. ASSUME NEW CONSTANT d PROVE (IsFresh(d) <=> IsFresh(d)') /\ Id(d)' = Id(d)
    BY <1>1, FreshIsFixed
  <2> QED
    BY <2>1
<1> QED
  BY <1>2, <1>3 DEF FreshAt

(* The claims dropped without a count after one more.                          *)
LEMMA TakeDropped ==
  ASSUME TypeInv, NEW c \in Claims, NEW possible, Take(c, possible)
  PROVE  /\ Cardinality(DroppedAt) \in Nat
         /\ Cardinality(DroppedAt)' =
              Cardinality(DroppedAt) + (IF Outcome(c) \in Dropped THEN 1 ELSE 0)
<1> DEFINE n == Len(outcomes) + 1
<1>1. outcomes' = Append(outcomes, Outcome(c)) /\ Outcome(c) \in Outcomes
  BY OutcomeFresh DEF Take
<1>2. /\ DOMAIN outcomes = 1..Len(outcomes) /\ Len(outcomes) \in Nat
      /\ DOMAIN outcomes' = DOMAIN outcomes \cup {n} /\ n \notin DOMAIN outcomes
      /\ outcomes'[n] = Outcome(c) /\ \A i \in DOMAIN outcomes : outcomes'[i] = outcomes[i]
  BY <1>1, OneMore DEF TypeInv
<1>3. IsFiniteSet(DroppedAt)
  <2>1. IsFiniteSet(1..Len(outcomes))
    BY <1>2, FS_Interval
  <2>2. DroppedAt \subseteq 1..Len(outcomes)
    BY <1>2 DEF DroppedAt
  <2> QED
    BY <2>1, <2>2, FS_Subset
<1> HIDE DEF n
<1>4. n \notin DroppedAt
  BY <1>2 DEF DroppedAt
<1>5. DroppedAt' = DroppedAt \cup (IF Outcome(c) \in Dropped THEN {n} ELSE {})
  BY <1>2 DEF DroppedAt
<1>6. Cardinality(DroppedAt) \in Nat
  BY <1>3, FS_CardinalityType
<1>7. CASE Outcome(c) \in Dropped
  <2>1. DroppedAt' = DroppedAt \cup {n}
    BY <1>5, <1>7
  <2>2. Cardinality(DroppedAt \cup {n}) = Cardinality(DroppedAt) + 1
    BY <1>3, <1>4, FS_AddElement
  <2> QED
    BY <1>6, <1>7, <2>1, <2>2
<1>8. CASE Outcome(c) \notin Dropped
  <2>1. DroppedAt' = DroppedAt
    BY <1>5, <1>8
  <2> QED
    BY <1>6, <1>8, <2>1
<1> QED
  BY <1>7, <1>8

LEMMA DiscoverGround ==
  ASSUME GroundInv, NEW c \in Claims, Discover(c)
  PROVE  GroundInv'
<1> USE DEF GroundInv
<1>1. /\ Take(c, {"discovered"}) /\ Outcome(c) = "discovered"
      /\ seen' = seen \cup {Id(c)} /\ discoveries' = Append(discoveries, Id(c))
      /\ ungrounded' = ungrounded /\ collisions' = collisions
  BY DEF Discover, Take
<1>2. IsFresh(c) /\ Id(c) \notin seen
  BY <1>1, OutcomeFresh
<1>3. Id(c) \in Places
  <2>1. Found(c).at # 0 /\ Refused(c) = "no" /\ diff \in Diffs
    BY <1>2 DEF IsFresh, TypeInv
  <2> QED
    BY <2>1, FoundIsThere, IdType
<1> DEFINE n == Len(discoveries) + 1
<1>4. /\ discoveries' \in Seq(Places) /\ Len(discoveries') = Len(discoveries) + 1
      /\ Len(discoveries) \in Nat
      /\ DOMAIN discoveries' = DOMAIN discoveries \cup {n} /\ n \notin DOMAIN discoveries
      /\ discoveries'[n] = Id(c)
      /\ \A i \in DOMAIN discoveries : discoveries'[i] = discoveries[i]
  BY <1>1, <1>3, OneMore DEF TypeInv
<1>5. TypeInv'
  BY <1>1, <1>4, TakeTypes DEF TypeInv
<1>6. FromClaims'
  BY <1>1, <1>2, TakeFresh DEF FromClaims
<1> HIDE DEF n
<1>7. SeenReported'
  BY <1>1, <1>2, <1>4 DEF SeenReported
<1>8. Counted'
  <2>1. Outcome(c) \notin Dropped
    BY <1>1 DEF Dropped
  <2>2. Cardinality(DroppedAt) \in Nat /\ Cardinality(DroppedAt)' = Cardinality(DroppedAt)
    BY <1>1, <2>1, TakeDropped
  <2>3. Len(claimed') = Len(claimed) + 1 /\ Len(claimed) \in Nat
    BY <1>1, TakeTypes DEF TypeInv
  <2> QED
    BY <1>1, <1>4, <2>2, <2>3, SMTT(30) DEF Counted, TypeInv
<1> QED
  BY <1>5, <1>6, <1>7, <1>8

(* A claim that is not discovered is not fresh, or was reported before.         *)
LEMMA OtherGround ==
  ASSUME GroundInv, NEW c \in Claims, NEW possible, Take(c, possible),
         Outcome(c) # "discovered", UNCHANGED <<seen, discoveries>>
  PROVE  FromClaims' /\ SeenReported'
<1> USE DEF GroundInv
<1>1. ~IsFresh(c) \/ Id(c) \in seen
  BY OutcomeFresh
<1>2. seen' = seen /\ discoveries' = discoveries
  OBVIOUS
<1>3. FromClaims'
  BY <1>1, <1>2, TakeFresh DEF FromClaims
<1>4. SeenReported'
  BY <1>2 DEF SeenReported
<1> QED
  BY <1>3, <1>4

LEMMA StepGround ==
  ASSUME GroundInv, [Next]_vars
  PROVE  GroundInv'
<1> USE DEF GroundInv
<1>1. ASSUME NEW c \in Claims, NEW possible, Take(c, possible), "discovered" \notin possible,
             UNCHANGED <<seen, discoveries>>, NEW u \in {0, 1}, NEW o \in {0, 1},
             ungrounded' = ungrounded + u, collisions' = collisions + o,
             u + o = IF Outcome(c) \in Dropped THEN 0 ELSE 1
      PROVE  GroundInv'
  <2>1. Outcome(c) # "discovered"
    BY <1>1 DEF Take
  <2>2. FromClaims' /\ SeenReported'
    BY <1>1, <2>1, OtherGround
  <2>3. TypeInv'
    BY <1>1, TakeTypes DEF TypeInv
  <2>4. Counted'
    <3>1. /\ Cardinality(DroppedAt) \in Nat
          /\ Cardinality(DroppedAt)' = Cardinality(DroppedAt) + 1 - (u + o)
      BY <1>1, TakeDropped
    <3>2. Len(claimed') = Len(claimed) + 1 /\ Len(claimed) \in Nat /\ Len(discoveries) \in Nat
      BY <1>1, TakeTypes DEF TypeInv
    <3>3. discoveries' = discoveries /\ ungrounded' = ungrounded + u /\ collisions' = collisions + o
      BY <1>1
    <3>4. ungrounded \in Nat /\ collisions \in Nat
      BY DEF TypeInv
    <3> QED
      BY <3>1, <3>2, <3>3, <3>4 DEF Counted
  <2> QED
    BY <2>2, <2>3, <2>4
<1>2. ASSUME NEW c \in Claims, Discover(c) PROVE GroundInv'
  BY <1>2, DiscoverGround
<1>3. ASSUME NEW c \in Claims, Unfound(c) PROVE GroundInv'
  <2>1. Take(c, {"invalid_or_reference", "not_found"}) /\ UNCHANGED <<seen, discoveries>>
    BY <1>3 DEF Unfound
  <2>2. Outcome(c) \notin Dropped
    BY <2>1 DEF Take, Dropped
  <2>3. ungrounded' = ungrounded + 1 /\ collisions' = collisions + 0
    BY <1>3 DEF Unfound, TypeInv
  <2>4. "discovered" \notin {"invalid_or_reference", "not_found"}
    OBVIOUS
  <2> QED
    BY <1>1, <2>1, <2>2, <2>3, <2>4
<1>4. ASSUME NEW c \in Claims, Overlap(c) PROVE GroundInv'
  <2>1. Take(c, {"detector_overlap"}) /\ UNCHANGED <<seen, discoveries>>
    BY <1>4 DEF Overlap
  <2>2. Outcome(c) \notin Dropped
    BY <2>1 DEF Take, Dropped
  <2>3. ungrounded' = ungrounded + 0 /\ collisions' = collisions + 1
    BY <1>4 DEF Overlap, TypeInv
  <2>4. "discovered" \notin {"detector_overlap"}
    OBVIOUS
  <2> QED
    BY <1>1, <2>1, <2>2, <2>3, <2>4
<1>5. ASSUME NEW c \in Claims, Drop(c) PROVE GroundInv'
  <2>1. Take(c, Dropped) /\ UNCHANGED <<seen, discoveries>>
    BY <1>5 DEF Drop
  <2>2. Outcome(c) \in Dropped
    BY <2>1 DEF Take
  <2>3. ungrounded' = ungrounded + 0 /\ collisions' = collisions + 0
    BY <1>5 DEF Drop, TypeInv
  <2>4. "discovered" \notin Dropped
    BY DEF Dropped
  <2> QED
    BY <1>1, <2>1, <2>2, <2>3, <2>4
<1>6. CASE UNCHANGED vars
  <2>1. /\ diff' = diff /\ taken' = taken /\ claimed' = claimed /\ seen' = seen
        /\ discoveries' = discoveries /\ outcomes' = outcomes
        /\ ungrounded' = ungrounded /\ collisions' = collisions
    BY <1>6 DEF vars
  <2>2. \A d : (IsFresh(d) <=> IsFresh(d)') /\ Id(d)' = Id(d)
    <3>1. ASSUME NEW CONSTANT d PROVE (IsFresh(d) <=> IsFresh(d)') /\ Id(d)' = Id(d)
      BY <2>1, FreshIsFixed
    <3> QED
      BY <3>1
  <2>3. FromClaims'
    BY <2>1, <2>2 DEF FromClaims, FreshAt
  <2>4. TypeInv' /\ SeenReported'
    BY <2>1 DEF TypeInv, SeenReported
  <2>5. DroppedAt' = DroppedAt
    BY <2>1 DEF DroppedAt
  <2>6. Counted'
    BY <2>1, <2>5 DEF Counted
  <2> QED
    BY <2>3, <2>4, <2>6
<1> QED
  BY <1>2, <1>3, <1>4, <1>5, <1>6 DEF Next

(* What is reported and counted is what the claims taken so far come to.    *)
THEOREM GroundInvariant == Spec => []GroundInv
<1>1. Init => GroundInv
  BY InitGround
<1>2. GroundInv /\ [Next]_vars => GroundInv'
  BY StepGround
<1> QED
  BY <1>1, <1>2, PTL DEF Spec

LEMMA DiscoveryIsFresh ==
  ASSUME GroundInv, NEW i \in DOMAIN discoveries
  PROVE  \E k \in DOMAIN claimed :
           claimed[k] \in Claims /\ IsFresh(claimed[k]) /\ discoveries[i] = Id(claimed[k])
<1>1. discoveries[i] \in seen
  BY DEF GroundInv, SeenReported
<1>2. PICK j \in FreshAt : discoveries[i] = Id(claimed[j])
  BY <1>1 DEF GroundInv, FromClaims
<1>3. j \in DOMAIN claimed /\ IsFresh(claimed[j]) /\ claimed \in Seq(Claims)
  BY <1>2 DEF FreshAt, GroundInv, TypeInv
<1>4. j \in 1..Len(claimed)
  BY <1>3
<1>5. claimed[j] \in Claims
  BY <1>3, <1>4, ElementOfSeq
<1> QED
  BY <1>2, <1>3, <1>5

(* A place with one line has that line's text.                                  *)
LEMMA TextAtOnePlace ==
  ASSUME diff \in Diffs, NEW j \in DOMAIN diff, OnePlace(j)
  PROVE  addedLineText(j) = diff[j].text
<1> DEFINE same == {k \in DOMAIN diff : diff[k].file = diff[j].file /\ diff[k].line = diff[j].line}
<1>1. same = {j} /\ j \in Nat
  BY DiffType DEF OnePlace
<1>2. (CHOOSE k \in same : \A m \in same : k <= m) = j
  <2>1. j \in same /\ \A m \in same : j <= m
    BY <1>1
  <2>2. (CHOOSE k \in same : \A m \in same : k <= m) \in same
    <3> HIDE DEF same
    <3> QED
      BY <2>1
  <2> QED
    BY <1>1, <2>2
<1> QED
  BY <1>2 DEF addedLineText

-----------------------------------------------------------------------------
(* Whatever the model claims, a discovery is word for word on an added line, at *)
(* the file and line reported, and there not only a variable's name; it is no   *)
(* sample, not too short and without a substitution; all this of an             *)
(* assignment's value too, which Ground reports without having searched for it. *)
(* The one exception is a value in two pairs of quotes, found without the inner *)
(* pair.                                                                        *)
THEOREM NothingIsMadeUp == Spec => []DiscoveriesAreInTheDiff
<1>1. GroundInv => DiscoveriesAreInTheDiff
  <2> SUFFICES ASSUME GroundInv, NEW i \in DOMAIN discoveries
               PROVE  /\ \E j \in DOMAIN diff :
                           /\ diff[j].file = discoveries[i].file /\ diff[j].line = discoveries[i].line
                           /\ \/ /\ Contains(diff[j].text, discoveries[i].match)
                                 /\ OnePlace(j) => ~onlyInVarReference(diff[j].text, discoveries[i].match)
                              \/ /\ UnseenValue(discoveries[i].match)
                                 /\ Contains(diff[j].text, normalizeCandidate(discoveries[i].match))
                      /\ ~classifySentinel(discoveries[i].match) /\ ~TooShort(discoveries[i].match)
                      /\ ~Holds(discoveries[i].match, "${") /\ ~Holds(discoveries[i].match, "$(")
    BY DEF DiscoveriesAreInTheDiff
  <2>1. PICK k \in DOMAIN claimed :
          claimed[k] \in Claims /\ IsFresh(claimed[k]) /\ discoveries[i] = Id(claimed[k])
    BY DiscoveryIsFresh
  <2> DEFINE c == claimed[k]
             at == Found(c).at
             match == Found(c).match
  <2>2. /\ c \in Claims /\ Refused(c) = "no" /\ at # 0 /\ ~classifySentinel(match)
        /\ ~onlyInVarReference(addedLineText(at), match)
    BY <2>1 DEF IsFresh
  <2>3. diff \in Diffs
    BY DEF GroundInv, TypeInv
  <2>4. /\ at \in DOMAIN diff /\ ~TooShort(match)
        /\ Contains(diff[at].text, match) \/ OnlyNormal(c)
    BY <2>2, <2>3, FoundIsThere
  <2>5. ~Holds(match, "${") /\ ~Holds(match, "$(")
    BY <2>2, FoundPlain
  <2>6. /\ discoveries[i].match = match
        /\ discoveries[i].file = diff[at].file /\ discoveries[i].line = diff[at].line
    BY <2>1 DEF Id, IdAt
  <2>7. OnePlace(at) => ~onlyInVarReference(diff[at].text, match)
    BY <2>2, <2>3, <2>4, TextAtOnePlace
  <2>8. OnlyNormal(c) =>
          UnseenValue(match) /\ Contains(diff[at].text, normalizeCandidate(match))
    BY <2>1, Zenon DEF OnlyNormal, UnseenValue
  <2> HIDE DEF c, at, match
  <2> QED
    BY <2>2, <2>4, <2>5, <2>6, <2>7, <2>8
<1> QED
  BY <1>1, GroundInvariant, PTL

(* The discoveries of a request are those its claims come to one by one, in     *)
(* any order and however often a window repeats one, and every claim is         *)
(* counted or dropped for a reason: what CheckRequest's fixed set of fresh      *)
(* claims stands for.                                                           *)
THEOREM ClaimByClaim == Spec => []ClaimsAreIndependent
<1>1. GroundInv => ClaimsAreIndependent
  BY DEF GroundInv, FromClaims, SeenReported, Counted, ClaimsAreIndependent, FreshAt, DroppedAt
<1> QED
  BY <1>1, GroundInvariant, PTL
=============================================================================
