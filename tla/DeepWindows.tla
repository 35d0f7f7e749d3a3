---------------------------- MODULE DeepWindows ----------------------------
(***************************************************************************)
(* The deep read of one diff: DeepReader.Scan with its selection rules,    *)
(* buildDeepWindows and splitBlock, which cut the walker's added lines     *)
(* into windows, and the loop that reads the windows one by one.           *)
(*                                                                         *)
(* The two nested loops of the planner take one block, and in splitBlock   *)
(* one line, per step.  A window or a chunk is a range of added lines with *)
(* its characters: that the ranges are right is what the windows' text     *)
(* being right comes to.  LLMSemaphore models TryAcquire and CheckRequest  *)
(* the windows of concurrent requests; here an attempt succeeds or not.    *)
(***************************************************************************)
EXTENDS DiffWalk

CONSTANTS
  HeaderSize,     \* characters of the line "=== path" that names a file
  WindowTokens,   \* llm.deep_scan.window_tokens
  SharedTokens,   \* input minus output tokens of llm.context_budget
  MinDeepWindowTokens,
  MaxWindows,     \* llm.deep_scan.max_windows, 0 for no limit
  MaxAddedLines   \* llm.deep_scan.max_added_lines, 0 for no limit

ASSUME HeaderAssumption == HeaderSize \in [AllPaths -> Nat \ {0}]
ASSUME BudgetAssumption ==
  WindowTokens \in Int /\ SharedTokens \in Int /\ MinDeepWindowTokens \in Nat \ {0}
ASSUME LimitAssumption == MaxWindows \in Nat /\ MaxAddedLines \in Nat

VARIABLES
  deep,      \* where Scan is, at the end the result's status
  bi,        \* buildDeepWindows: the block at hand
  li,        \* splitBlock: the line at hand, a position in added
  chunk,     \* splitBlock: the piece being built
  cur,       \* buildDeepWindows: the window being built
  windows,   \* buildDeepWindows: the windows finished
  truncated, \* the plan was cut at MaxWindows
  scanned    \* windows read

planVars == <<bi, li, chunk, cur, windows, truncated>>
vars == <<diffVars, deep, planVars, scanned>>

Statuses == {"skipped", "complete", "partial", "deferred", "failed"}
Phases == {"rules", "blocks", "lines", "cut", "reading"} \cup Statuses

(* estimateTokens, three characters a token, rounded up. *)
Tokens(chars) == (chars + 2) \div 3

Budget ==
  LET wanted == IF WindowTokens > 0 THEN WindowTokens ELSE SharedTokens
  IN IF wanted < MinDeepWindowTokens THEN MinDeepWindowTokens ELSE wanted

(* A range of added lines, what it renders to, and the tokens counted for it. *)
Piece(p, from, to, chars, tok) ==
  [path |-> p, from |-> from, to |-> to, chars |-> chars, tok |-> tok]
Pieces == [path : AllPaths, from : Nat, to : Nat, chars : Nat, tok : Nat]

(* An empty one on file p that goes on after line n. *)
Nothing(p, n) == Piece(p, n + 1, n, 0, 0)
(* An empty one that holds the header of file p. *)
Header(p, n) == Piece(p, n + 1, n, HeaderSize[p], Tokens(HeaderSize[p]))

Init ==
  /\ DiffInit
  /\ deep = "rules" /\ bi = 1 /\ li = 1
  /\ chunk = Nothing(NoPath, 0) /\ cur = Nothing(NoPath, 0)
  /\ windows = <<>> /\ truncated = FALSE /\ scanned = 0

Go(from, to) == deep = from /\ deep' = to /\ UNCHANGED diffVars

(* countAddedLines walks the diff anew: a line of every finished block. *)
TooManyLines == MaxAddedLines > 0 /\ Len(added) > MaxAddedLines

(* require_findings without a finding, max_added_lines, or the draw of     *)
(* sample_rate.                                                            *)
Skip ==
  /\ scan = "walked"
  /\ Go("rules", "skipped")
  /\ UNCHANGED <<planVars, scanned>>

Plan ==
  /\ scan = "walked" /\ ~TooManyLines
  /\ Go("rules", "blocks")
  /\ UNCHANGED <<planVars, scanned>>

(* cur.Len() > 0: the window is done. *)
FlushedWindows == IF cur.chars > 0 THEN Append(windows, cur) ELSE windows

(* Faulty: files share a window as long as there is room. *)
ChangeFileKeepsWindow ==
  /\ Go("blocks", "blocks")
  /\ bi <= Len(blocks) /\ blocks[bi].path # cur.path
  /\ cur' = [cur EXCEPT !.path = blocks[bi].path]
  /\ UNCHANGED <<bi, li, chunk, windows, truncated, scanned>>

(* The next block is of another file than the window: one file per window. *)
ChangeFile ==
  /\ Go("blocks", "blocks")
  /\ bi <= Len(blocks) /\ blocks[bi].path # cur.path
  /\ windows' = FlushedWindows
  /\ cur' = Nothing(blocks[bi].path, cur.to)
  /\ UNCHANGED <<bi, li, chunk, truncated, scanned>>

(* Faulty: only a chunk too big by itself begins another window. *)
WriteWithoutSum(c) ==
  LET t == Tokens(c.chars)
      full == cur.tok > 0 /\ t > Budget
  IN /\ windows' = IF full THEN FlushedWindows ELSE windows
     /\ cur' = IF full
               THEN Piece(cur.path, c.from, c.to, c.chars, t)
               ELSE Piece(cur.path, cur.from, c.to, cur.chars + c.chars, cur.tok + t)

(* Write a chunk into the window, into a new one when it does not fit.     *)
Write(c) ==
  LET t == Tokens(c.chars)
      full == cur.tok > 0 /\ cur.tok + t > Budget
  IN /\ windows' = IF full THEN FlushedWindows ELSE windows
     /\ cur' = IF full
               THEN Piece(cur.path, c.from, c.to, c.chars, t)
               ELSE Piece(cur.path, cur.from, c.to, cur.chars + c.chars, cur.tok + t)

Whole(b) == HeaderSize[b.path] + b.size

(* A block that fits a window of its own is one chunk. *)
WriteBlock ==
  LET b == blocks[bi] IN
  /\ Go("blocks", "blocks")
  /\ bi <= Len(blocks) /\ b.path = cur.path
  /\ Tokens(Whole(b)) <= Budget
  /\ Write(Piece(b.path, b.first, b.last, Whole(b), Tokens(Whole(b))))
  /\ bi' = bi + 1
  /\ UNCHANGED <<li, chunk, truncated, scanned>>

(* Any other is split by lines. *)
SplitBlock ==
  LET b == blocks[bi] IN
  /\ Go("blocks", "lines")
  /\ bi <= Len(blocks) /\ b.path = cur.path
  /\ Tokens(Whole(b)) > Budget
  /\ li' = b.first
  /\ chunk' = Header(b.path, b.first - 1)
  /\ UNCHANGED <<bi, cur, windows, truncated, scanned>>

LineTokens(n) == Tokens(Size[added[n].text]) + 1

(* A chunk with one more line and its newline. *)
WithLine(c, n) ==
  Piece(c.path, c.from, n, c.chars + Size[added[n].text] + 1, c.tok + LineTokens(n))

HoldsLine(c) == c.tok > Tokens(HeaderSize[c.path])

(* The next line joins the chunk. *)
AddLine ==
  /\ Go("lines", "lines")
  /\ li <= blocks[bi].last
  /\ ~(HoldsLine(chunk) /\ chunk.tok + LineTokens(li) > Budget)
  /\ chunk' = WithLine(chunk, li)
  /\ li' = li + 1
  /\ UNCHANGED <<bi, cur, windows, truncated, scanned>>

(* The next line begins another chunk under a header of its own. *)
BreakChunk ==
  /\ Go("lines", "lines")
  /\ li <= blocks[bi].last
  /\ HoldsLine(chunk) /\ chunk.tok + LineTokens(li) > Budget
  /\ Write(chunk)
  /\ chunk' = WithLine(Header(chunk.path, li - 1), li)
  /\ li' = li + 1
  /\ UNCHANGED <<bi, truncated, scanned>>

(* Faulty: what is left of the block goes into no chunk. *)
EndBlockDropsRest ==
  /\ Go("lines", "blocks")
  /\ li > blocks[bi].last
  /\ bi' = bi + 1
  /\ UNCHANGED <<li, chunk, windows, cur, truncated, scanned>>

(* The last chunk of the block. *)
EndBlock ==
  /\ Go("lines", "blocks")
  /\ li > blocks[bi].last
  /\ IF HoldsLine(chunk) THEN Write(chunk) ELSE UNCHANGED <<windows, cur>>
  /\ bi' = bi + 1
  /\ UNCHANGED <<li, chunk, truncated, scanned>>

EndPlan ==
  /\ Go("blocks", "cut")
  /\ bi > Len(blocks)
  /\ windows' = FlushedWindows
  /\ cur' = Nothing(cur.path, cur.to)
  /\ UNCHANGED <<bi, li, chunk, truncated, scanned>>

(* The cap; with nothing to read the read is complete. *)
Cut ==
  LET over == MaxWindows > 0 /\ Len(windows) > MaxWindows
      kept == IF over THEN SubSeq(windows, 1, MaxWindows) ELSE windows
  IN
  /\ Go("cut", IF kept = <<>> THEN "complete" ELSE "reading")
  /\ windows' = kept
  /\ truncated' = over
  /\ UNCHANGED <<bi, li, chunk, cur, scanned>>

(* A slot is had, the window is read and its reply parsed. *)
ReadWindow ==
  /\ Go("reading", "reading")
  /\ scanned < Len(windows)
  /\ scanned' = scanned + 1
  /\ UNCHANGED planVars

(* The slot is had but the call or its reply fails: Scan returns the error. *)
ReadFails ==
  /\ Go("reading", "failed")
  /\ scanned < Len(windows)
  /\ UNCHANGED <<planVars, scanned>>

(* Faulty: a read is complete once any of its windows was read. *)
StepAsideComplete ==
  /\ Go("reading", IF scanned = 0 THEN "deferred" ELSE "complete")
  /\ scanned < Len(windows)
  /\ UNCHANGED <<planVars, scanned>>

(* TryAcquire says no: the read steps aside. *)
StepAside ==
  /\ Go("reading", IF scanned = 0 THEN "deferred" ELSE "partial")
  /\ scanned < Len(windows)
  /\ UNCHANGED <<planVars, scanned>>

ReadAll ==
  /\ Go("reading", "complete")
  /\ scanned = Len(windows)
  /\ UNCHANGED <<planVars, scanned>>

Next ==
  \/ ReadLine /\ UNCHANGED <<deep, planVars, scanned>>
  \/ Skip \/ Plan
  \/ ChangeFile \/ WriteBlock \/ SplitBlock
  \/ AddLine \/ BreakChunk \/ EndBlock
  \/ EndPlan \/ Cut
  \/ ReadWindow \/ ReadFails \/ StepAside \/ ReadAll

Spec == Init /\ [][Next]_vars
-----------------------------------------------------------------------------
TypeOK ==
  /\ scan \in {"reading", "stopped", "walked"} /\ read \in 0..MaxRead
  /\ path \in AllPaths /\ newLine \in Nat
  /\ blockBuf \in Seq(Texts) /\ blockSize \in Nat /\ blockStart \in Nat
  /\ blocks \in Seq(Block) /\ added \in Seq(Places)
  /\ ipath \in AllPaths /\ iline \in Nat
  /\ file \in AllPaths /\ line \in Nat /\ files \subseteq AllPaths
  /\ truth \in Seq(Places) /\ tidy \in BOOLEAN
  /\ deep \in Phases /\ bi \in Nat \ {0} /\ li \in Nat
  /\ chunk \in Pieces /\ cur \in Pieces /\ windows \in Seq(Pieces)
  /\ truncated \in BOOLEAN /\ scanned \in Nat

Planned == deep \in {"cut", "reading", "complete", "partial", "deferred", "failed"}

(* The windows of a plan tile the added lines: each window goes on where   *)
(* the one before it ended, none is empty, and unless the plan was cut     *)
(* they end with the last line.  No line is read twice and none is lost    *)
(* between two windows, two chunks or two blocks.                          *)
WindowsTile ==
  Planned =>
    /\ \A w \in DOMAIN windows :
         /\ windows[w].from = (IF w = 1 THEN 1 ELSE windows[w - 1].to + 1)
         /\ windows[w].from <= windows[w].to
    /\ ~truncated => (IF windows = <<>> THEN 0 ELSE windows[Len(windows)].to) = Len(added)

(* A window is within the budget by the estimate of its whole text, or     *)
(* holds a single line: a window that is too big is never one that could   *)
(* have been split.                                                        *)
WindowsFit ==
  \A w \in DOMAIN windows :
    Tokens(windows[w].chars) <= Budget \/ windows[w].from = windows[w].to

(* Every line of a window belongs to the file whose header the window      *)
(* carries: one file per window, and no line under another file's name.    *)
OneFilePerWindow ==
  \A w \in DOMAIN windows :
    \A n \in windows[w].from .. windows[w].to :
      n \in DOMAIN added => added[n].path = windows[w].path

Covered(l) ==
  \E w \in 1..scanned : \E n \in windows[w].from .. windows[w].to : added[n] = l

(* A complete read whose plan was not cut has read every line the author   *)
(* of a tidy diff added.                                                   *)
CompleteReadsTidyDiffs ==
  (tidy /\ deep = "complete" /\ ~truncated) =>
    \A i \in DOMAIN truth : Covered(truth[i])

(* What DeepStatus says: "only Complete means the deep channel covered the *)
(* whole diff".                                                            *)
CompleteCoversDiff ==
  (deep = "complete" /\ ~truncated) => \A i \in DOMAIN truth : Covered(truth[i])
=============================================================================
