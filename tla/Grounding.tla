----------------------------- MODULE Grounding -----------------------------
(***************************************************************************)
(* llm.Ground: of the deep read's claims, those that are credentials on an *)
(* added line of the diff and no detector's finding become discoveries.    *)
(*                                                                         *)
(* A text is a sequence of tokens.  A word stands for a shape the code     *)
(* tells apart: "key" and "user", identifiers that do and do not name a    *)
(* secret, which no other word is; "secret"; "filler" (isPlaceholder);     *)
(* "sample" (a value of the sentinel table); "markup" (an HTML element);   *)
(* "call" (a function call); "environ" (os.environ or process.env. and a   *)
(* name); "url" and "testurl" (a URL with a password, in the second one a  *)
(* placeholder); "BEGIN" (a private key's first line) and "PUBLIC"         *)
(* (another PEM delimiter).  Words side by side have a blank or the end of *)
(* a line between them, other tokens nothing.  Six characters are a word:  *)
(* marks alone are shorter.  "quote" is any of the quotes, "$(" one that   *)
(* is not escaped, ";" punctuation.  One claim is one step; confidence and *)
(* reason go with it unchanged.                                            *)
(***************************************************************************)
EXTENDS Integers, Sequences, FiniteSets

CONSTANTS
  Diffs,    \* the added lines of a diff, in order, as WalkDiff places them
  Takens,   \* the detectors' findings
  Claims,   \* what the model may claim
  MaxClaims \* bound: claims of one request

Words == {"key", "user", "secret", "filler", "sample", "markup", "call", "environ", "url",
          "testurl", "BEGIN", "PUBLIC"}
Marks == {"=", ";", ":", "@", "quote", "$", "${", "$(", "}"}
Texts == Seq(Words \cup Marks)
Kinds == {"test_data", "private_key", "credential"}

ASSUME GroundingAssumption ==
  /\ \A d \in Diffs : d \in Seq([file : STRING, line : Nat, text : Texts])
  /\ \A t \in Takens : \A f \in t : f \in [file : STRING, line : Nat, match : Texts]
  /\ \A c \in Claims : c \in [kind : Kinds, value : Texts]
  /\ MaxClaims \in Nat

VARIABLES
  diff,        \* the diff's added lines
  taken,       \* the deduplicated detector findings
  claimed,     \* the claims gone through, in order
  seen,        \* ids of the discoveries
  discoveries, \* the discoveries, in order
  outcomes,    \* what became of each claim
  ungrounded,  \* stats.Ungrounded
  collisions   \* stats.Collisions

vars == <<diff, taken, claimed, seen, discoveries, outcomes, ungrounded, collisions>>

Init ==
  /\ diff \in Diffs /\ taken \in Takens
  /\ claimed = <<>> /\ seen = {} /\ discoveries = <<>> /\ outcomes = <<>>
  /\ ungrounded = 0 /\ collisions = 0

-----------------------------------------------------------------------------
(* Texts *)

Positions(t, n) == {i \in 1..(Len(t) - Len(n) + 1) : SubSeq(t, i, i + Len(n) - 1) = n}
Contains(t, n) == Positions(t, n) # {}
Holds(t, token) == \E i \in DOMAIN t : t[i] = token

TooShort(v) == \A i \in DOMAIN v : v[i] \in Marks

(* Trailing punctuation goes, then one pair of quotes. *)
normalizeCandidate(s) ==
  LET end == CHOOSE n \in 0..Len(s) :
               /\ n > 0 => s[n] # ";"
               /\ \A i \in DOMAIN s : i > n => s[i] = ";"
      quoted == end >= 2 /\ s[1] = "quote" /\ s[end] = "quote"
  IN IF quoted THEN SubSeq(s, 2, end - 1) ELSE SubSeq(s, 1, end)

Rest(s) == SubSeq(s, 3, Len(s))
isAssignment(s) ==
  /\ Len(s) >= 2 /\ s[1] \in {"key", "user"} /\ s[2] = "="
  /\ normalizeCandidate(Rest(s)) # <<>>
assignmentValue(s) == normalizeCandidate(Rest(s))
urlWithCredentials(v) == Holds(v, "url") \/ Holds(v, "testurl")
isSecretKey(key, val) == urlWithCredentials(val) \/ key # "user"

(* Of a URL the password is judged, of the first one if there are more. *)
isPlaceholder(v) ==
  \/ v \in {<<>>, <<"filler">>}
  \/ \E i \in DOMAIN v : v[i] = "testurl" /\ \A j \in 1..(i - 1) : v[j] # "url"

isFormattingText(v) ==
  Holds(v, "markup") /\ ~Holds(v, "BEGIN") /\ ~urlWithCredentials(v)
classifySentinel(v) == v # <<>> /\ v[1] = "sample"

(* The value's first line, when it begins a private key. *)
pemHeaderLine(v) == IF v # <<>> /\ v[1] = "BEGIN" THEN <<"BEGIN">> ELSE <<>>

-----------------------------------------------------------------------------
(* The diff *)

(* LocateInDiff: the first added line that contains n, or 0. *)
LocateInDiff(n) ==
  IF n # <<>> /\ \E i \in DOMAIN diff : Contains(diff[i].text, n)
  THEN CHOOSE i \in DOMAIN diff :
         /\ Contains(diff[i].text, n)
         /\ \A j \in 1..(i - 1) : ~Contains(diff[j].text, n)
  ELSE 0

(* The line found under the place of line i: the first there is. *)
addedLineText(i) ==
  LET same == {j \in DOMAIN diff : diff[j].file = diff[i].file /\ diff[j].line = diff[i].line}
  IN diff[CHOOSE j \in same : \A k \in same : j <= k].text

(* Where the value, or failing that its normal form, is, and which it was. *)
locate(n) ==
  LET as == LocateInDiff(n)
      norm == normalizeCandidate(n)
  IN
  IF as # 0 THEN [at |-> as, match |-> n]
  ELSE IF norm # n /\ ~TooShort(norm) THEN [at |-> LocateInDiff(norm), match |-> norm]
  ELSE [at |-> 0, match |-> <<>>]

(* Every occurrence in the line follows a "$" or "${". *)
onlyInVarReference(t, n) ==
  Contains(t, n) /\ \A i \in Positions(t, n) : i > 1 /\ t[i - 1] \in {"$", "${"}

(* The pairs of positions of the quotes around a literal of the line. *)
Literals(t) ==
  LET Quotes(m, n) == Cardinality({q \in m..n : t[q] = "quote"}) IN
  {p \in (DOMAIN t) \X (DOMAIN t) :
     /\ t[p[1]] = "quote" /\ t[p[2]] = "quote"
     /\ Quotes(1, p[1]) % 2 = 1 /\ p[1] < p[2] /\ Quotes(p[1], p[2]) = 2}

(* functionReferenceRE and a closing bracket. *)
CallShaped(v) == v # <<>> /\ v[1] = "call" /\ v[Len(v)] = "call"
Interpolates(v) == \E i \in DOMAIN v : v[i] \in {"$", "${", "$(", "}"}

(* The text of a call is a literal where it first occurs: alone between    *)
(* quotes, or as the password of "user:password@".                         *)
quotedCallLiteral(v) ==
  /\ CallShaped(v) /\ ~Interpolates(v)
  /\ LocateInDiff(v) # 0
  /\ LET t == addedLineText(LocateInDiff(v))
         first == CHOOSE p \in Positions(t, v) : \A q \in Positions(t, v) : p <= q
     IN /\ Contains(t, v)
        /\ \E p \in Literals(t) :
             LET literal == SubSeq(t, p[1] + 1, p[2] - 1)
                 asPassword == Positions(literal, <<":">> \o v \o <<"@">>)
             IN /\ p[1] < first /\ first + Len(v) <= p[2]
                /\ ~Interpolates(literal)
                /\ literal = v \/ (asPassword # {} /\ 1 \notin asPassword)

(* basicAuthReferenceRE: "user:$NAME", without other colons and blanks. *)
basicAuthReference(v) ==
  LET n == Len(v) - 3 IN
  /\ n > 0 /\ v[n + 1] = ":" /\ v[n + 2] = "$" /\ v[n + 3] \in {"key", "user"}
  /\ \A i \in 1..n : v[i] \notin {":", "url", "testurl", "BEGIN", "PUBLIC"}
  /\ \A i \in 1..(n - 1) : v[i] \in Marks \/ v[i + 1] \in Marks

(* The claim as a whole names a secret.  Its parts are not asked: not the  *)
(* value of an assignment, nor what a pair of quotes is around.            *)
isReference(v) ==
  \/ basicAuthReference(normalizeCandidate(v))
  \/ v # <<>> /\ v[1] \in {"$", "environ"}
  \/ Holds(v, "${") \/ Holds(v, "$(")
  \/ CallShaped(v)

-----------------------------------------------------------------------------
(* One claim *)

(* A private key is searched by its first line, else the value. *)
groundingNeedle(c) == IF c.kind = "private_key" THEN pemHeaderLine(c.value) ELSE c.value

Searchable(c) ==
  LET v == groundingNeedle(c) IN
  /\ c.kind # "private_key" /\ (Holds(v, "BEGIN") \/ Holds(v, "PUBLIC"))
       => pemHeaderLine(v) # <<>>
  /\ ~TooShort(v)
  /\ isReference(v) => quotedCallLiteral(v)

(* An assignment is searched as it stands, then by its value, and is about *)
(* its value.                                                              *)
Found(c) ==
  LET n == groundingNeedle(c)
      whole == locate(n)
      val == assignmentValue(n)
  IN IF ~isAssignment(n) THEN whole
     ELSE [at |-> IF whole.at # 0 THEN whole.at ELSE locate(val).at, match |-> val]

IdAt(found) ==
  [file |-> diff[found.at].file, line |-> diff[found.at].line, match |-> found.match]
Id(c) == IdAt(Found(c))

(* A detector's finding on the same line contains it, or is part of it. *)
collidesWithVerdict(d) ==
  \E f \in taken :
    /\ f.file = d.file /\ f.line = d.line
    /\ Contains(f.match, d.match) \/ Contains(d.match, f.match)

(* The early returns, in order, up to the search. *)
Refused(c) ==
  LET n == groundingNeedle(c)  val == assignmentValue(n) IN
  IF c.kind = "test_data" THEN "test_data"
  ELSE IF ~Searchable(c) THEN "invalid_or_reference"
  ELSE IF isAssignment(n) THEN
         IF ~isSecretKey(n[1], val) \/ isPlaceholder(val) \/ TooShort(val)
         THEN "non_secret_assignment" ELSE "no"
  ELSE IF isPlaceholder(n) THEN "placeholder"
  ELSE IF c.kind # "private_key" /\ isFormattingText(n) THEN "formatting_text"
  ELSE "no"

(* Faulty: a variable's name is a value wherever it stands. *)
OutcomeOfNames(c) ==
  LET found == Found(c)  id == IdAt(found) IN
  IF Refused(c) # "no" THEN Refused(c)
  ELSE IF found.at = 0 THEN "not_found"
  ELSE IF classifySentinel(found.match) THEN "sentinel"
  ELSE IF id \in seen THEN "duplicate"
  ELSE IF collidesWithVerdict(id) THEN "detector_overlap"
  ELSE "discovered"

(* Faulty: a claim on a line that already has a discovery is its duplicate. *)
OutcomeByPlace(c) ==
  LET found == Found(c)  id == IdAt(found) IN
  IF Refused(c) # "no" THEN Refused(c)
  ELSE IF found.at = 0 THEN "not_found"
  ELSE IF classifySentinel(found.match) THEN "sentinel"
  ELSE IF onlyInVarReference(addedLineText(found.at), found.match) THEN "reference"
  ELSE IF \E d \in seen : d.file = id.file /\ d.line = id.line THEN "duplicate"
  ELSE IF collidesWithVerdict(id) THEN "detector_overlap"
  ELSE "discovered"

(* Then those after it. *)
Outcome(c) ==
  LET found == Found(c)  id == IdAt(found) IN
  IF Refused(c) # "no" THEN Refused(c)
  ELSE IF found.at = 0 THEN "not_found"
  ELSE IF classifySentinel(found.match) THEN "sentinel"
  ELSE IF onlyInVarReference(addedLineText(found.at), found.match) THEN "reference"
  ELSE IF id \in seen THEN "duplicate"
  ELSE IF collidesWithVerdict(id) THEN "detector_overlap"
  ELSE "discovered"

Take(c, possible) ==
  LET outcome == Outcome(c) IN
  /\ Len(claimed) < MaxClaims
  /\ outcome \in possible
  /\ claimed' = Append(claimed, c)
  /\ outcomes' = Append(outcomes, outcome)
  /\ UNCHANGED <<diff, taken>>

Discover(c) ==
  /\ Take(c, {"discovered"})
  /\ seen' = seen \cup {Id(c)}
  /\ discoveries' = Append(discoveries, Id(c))
  /\ UNCHANGED <<ungrounded, collisions>>

(* Not searched for, or not in the diff. *)
Unfound(c) ==
  /\ Take(c, {"invalid_or_reference", "not_found"})
  /\ ungrounded' = ungrounded + 1
  /\ UNCHANGED <<seen, discoveries, collisions>>

(* verdicts[] has it. *)
Overlap(c) ==
  /\ Take(c, {"detector_overlap"})
  /\ collisions' = collisions + 1
  /\ UNCHANGED <<seen, discoveries, ungrounded>>

(* Dropped without a count. *)
Dropped == {"test_data", "non_secret_assignment", "placeholder", "formatting_text",
            "sentinel", "reference", "duplicate"}
Drop(c) ==
  /\ Take(c, Dropped)
  /\ UNCHANGED <<seen, discoveries, ungrounded, collisions>>

Next == \E c \in Claims : Discover(c) \/ Unfound(c) \/ Overlap(c) \/ Drop(c)

Spec == Init /\ [][Next]_vars
-----------------------------------------------------------------------------
(* Nothing else stands at the place of line j. *)
OnePlace(j) ==
  \A k \in DOMAIN diff : diff[k].file = diff[j].file /\ diff[k].line = diff[j].line => k = j

(* v is the value of a claimed assignment, and on no line as it is. *)
UnseenValue(v) ==
  /\ LocateInDiff(v) = 0
  /\ \E i \in DOMAIN claimed :
       LET n == groundingNeedle(claimed[i]) IN isAssignment(n) /\ assignmentValue(n) = v

(* What a discovery reports stands on the added line it points at, word    *)
(* for word and not only as the name in a "$NAME" or "${NAME}" (of two     *)
(* lines at one place only the first is looked at), and it is no sample,   *)
(* not too short and without a substitution.  The exception is the value   *)
(* of an assignment in two pairs of quotes: it is found without the inner  *)
(* pair and reported with it.                                              *)
DiscoveriesAreInTheDiff ==
  \A i \in DOMAIN discoveries :
    LET d == discoveries[i] IN
    /\ \E j \in DOMAIN diff :
         /\ diff[j].file = d.file /\ diff[j].line = d.line
         /\ \/ /\ Contains(diff[j].text, d.match)
               /\ OnePlace(j) => ~onlyInVarReference(diff[j].text, d.match)
            \/ UnseenValue(d.match) /\ Contains(diff[j].text, normalizeCandidate(d.match))
    /\ ~classifySentinel(d.match) /\ ~TooShort(d.match)
    /\ ~Holds(d.match, "${") /\ ~Holds(d.match, "$(")

(* What one claim comes to by itself. *)
IsFresh(c) ==
  LET found == Found(c) IN
  /\ Refused(c) = "no" /\ found.at # 0
  /\ ~classifySentinel(found.match)
  /\ ~onlyInVarReference(addedLineText(found.at), found.match)
  /\ ~collidesWithVerdict(IdAt(found))

(* The discoveries are those of the claims taken one by one: neither the   *)
(* order of the windows nor a claim made twice, nor what else was claimed, *)
(* adds or hides one; and the counts add up, the rest being dropped        *)
(* without one.  CheckRequest!Ground, where claims are a set and Fresh a   *)
(* fixed part of it, rests on this.                                        *)
ClaimsAreIndependent ==
  /\ {discoveries[i] : i \in DOMAIN discoveries} =
       {Id(claimed[i]) : i \in {j \in DOMAIN claimed : IsFresh(claimed[j])}}
  /\ Len(claimed) = Len(discoveries) + ungrounded + collisions
                    + Cardinality({i \in DOMAIN outcomes : outcomes[i] \in Dropped})
=============================================================================
