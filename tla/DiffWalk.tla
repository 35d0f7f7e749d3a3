------------------------------ MODULE DiffWalk ------------------------------
(***************************************************************************)
(* The two walkers of a unified diff: detector.WalkDiff, whose blocks of   *)
(* added lines feed the detectors and the deep read, and                   *)
(* llm.buildFileIndex, whose index of new-file lines feeds the             *)
(* adjudicator's prompts.  They are two loops over the same bytes with the *)
(* same switch written twice; here they take each line together, each with *)
(* its own variables, next to what the author of the diff meant by it.     *)
(*                                                                         *)
(* A line is its kind and, for an added line, its text.  A block is the    *)
(* range first..last of the sequence added of all lines put into blocks.   *)
(***************************************************************************)
EXTENDS Integers, Sequences

CONSTANTS
  Paths,       \* new-file paths
  NoPath,      \* "": no file, or /dev/null
  OddPath,     \* what parseNewPath makes of an added line that looks like a header
  Starts,      \* hunk starts
  Texts,       \* texts of added lines
  Lookalikes,  \* texts beginning with "++ "
  Overlong,    \* texts of a megabyte and more
  Unchanged,   \* the text of a context line
  Size,        \* characters of a text
  ContextLines, \* llm.context_budget.finding_context_lines
  MaxRead      \* bound: lines of a diff

ASSUME PathAssumption == NoPath \notin Paths
ASSUME StartAssumption == Starts \subseteq Nat
ASSUME SizeAssumption == Size \in [Texts -> Nat]
ASSUME TextAssumption == Lookalikes \subseteq Texts /\ Overlong \subseteq Texts
ASSUME ContextAssumption == ContextLines \in Nat
ASSUME MaxReadAssumption == MaxRead \in Nat

VARIABLES
  scan,       \* "reading", "stopped" by an overlong line, or "walked"
  read,       \* lines read
  path,       \* WalkDiff: the current new file
  newLine,    \* WalkDiff: number of the next new-file line
  blockBuf,   \* WalkDiff: texts of the block being built
  blockSize,  \* their length, each with its newline
  blockStart, \* WalkDiff: line number of the block's first line
  blocks,     \* WalkDiff: finished blocks
  added,      \* the lines of the finished blocks, in order
  ipath,      \* buildFileIndex: the current new file
  iline,      \* buildFileIndex: number of the next new-file line
  index,      \* buildFileIndex: file and line number to text
  file,       \* the author's current new file
  line,       \* the author's next new-file line, 0 outside a hunk
  files,      \* files the author has begun
  truth,      \* the lines the author added, in order
  tidy        \* the diff so far is one git writes, without the texts the walkers misread

walkVars == <<path, newLine, blockBuf, blockSize, blockStart, blocks, added>>
indexVars == <<ipath, iline, index>>
authorVars == <<file, line, files, truth, tidy>>
diffVars == <<scan, read, walkVars, indexVars, authorVars>>

(* parseNewPath: "" for /dev/null. *)
NewPaths == Paths \cup {NoPath}
(* parseHunkNewStart: 0 for a malformed header. *)
HunkStarts == Starts \cup {0}

AllPaths == NewPaths \cup {OddPath}
Place(p, n, t) == [path |-> p, line |-> n, text |-> t]
Places == [path : AllPaths, line : Nat, text : Texts]
Block == [path : AllPaths, start : Nat, first : Nat, last : Nat, size : Nat]

DiffInit ==
  /\ scan = "reading" /\ read = 0
  /\ path = NoPath /\ newLine = 0 /\ blockBuf = <<>> /\ blockSize = 0
  /\ blockStart = 0 /\ blocks = <<>> /\ added = <<>>
  /\ ipath = NoPath /\ iline = 0 /\ index = [k \in {} |-> Unchanged]
  /\ file = NoPath /\ line = 0 /\ files = {} /\ truth = <<>> /\ tidy = TRUE

(* The lines of the block being built, where the walker places them. *)
Building == [i \in 1..Len(blockBuf) |-> Place(path, blockStart + i - 1, blockBuf[i])]

(* Close the block being built; without a file it is dropped. *)
flush ==
  /\ blockBuf' = <<>> /\ blockSize' = 0
  /\ IF blockBuf = <<>> \/ path = NoPath
     THEN UNCHANGED <<blocks, added>>
     ELSE /\ blocks' = Append(blocks,
                 [path |-> path, start |-> blockStart, first |-> Len(added) + 1,
                  last |-> Len(added) + Len(blockBuf), size |-> blockSize])
          /\ added' = added \o Building

(* Record a new-file line. *)
add(t) ==
  index' = IF ipath = NoPath \/ iline <= 0
           THEN index
           ELSE [k \in DOMAIN index \cup {<<ipath, iline>>} |->
                   IF k = <<ipath, iline>> THEN t ELSE index[k]]

(* The lines of a file that a finding on line n is shown with. *)
findingContext(p, n) ==
  {k \in n - ContextLines .. n + ContextLines : <<p, k>> \in DOMAIN index}

Read ==
  /\ scan = "reading" /\ read < MaxRead
  /\ read' = read + 1

(* "diff --git ": another file. *)
DiffGitLine ==
  /\ Read /\ scan' = scan
  /\ flush /\ path' = NoPath /\ newLine' = 0
  /\ ipath' = NoPath /\ iline' = 0
  /\ file' = NoPath /\ line' = 0
  /\ UNCHANGED <<blockStart, index, files, truth, tidy>>

(* What a line that begins with "+++ " does to the walkers. *)
NewPath(p) ==
  /\ flush /\ path' = p /\ ipath' = p
  /\ UNCHANGED <<newLine, blockStart, iline, index>>

(* A file header "+++ p"; NoPath is /dev/null. *)
NewPathLine(p) ==
  /\ Read /\ scan' = scan
  /\ NewPath(p)
  /\ file' = p /\ line' = 0
  /\ files' = files \cup {p}
  /\ tidy' = (tidy /\ (p = NoPath \/ p \notin files))
  /\ UNCHANGED truth

(* "@@ -o,oc +n,nc @@". *)
HunkLine(n) ==
  /\ Read /\ scan' = scan
  /\ flush /\ newLine' = n /\ iline' = n
  /\ line' = n /\ tidy' = (tidy /\ n >= line)
  /\ UNCHANGED <<path, blockStart, ipath, index, file, files, truth>>

(* What an added line means: the next line of the file, if it is in a hunk. *)
AuthorAdds(t, plain) ==
  LET inHunk == line > 0 /\ file # NoPath IN
  /\ truth' = IF inHunk THEN Append(truth, Place(file, line, t)) ELSE truth
  /\ line' = IF line > 0 THEN line + 1 ELSE line
  /\ tidy' = (tidy /\ inHunk /\ plain)
  /\ UNCHANGED <<file, files>>

(* An added line as both walkers understand it. *)
AddedLine(t) ==
  /\ Read /\ scan' = scan
  /\ t \notin Lookalikes \cup Overlong
  /\ blockStart' = IF blockBuf = <<>> THEN newLine ELSE blockStart
  /\ blockBuf' = Append(blockBuf, t)
  /\ blockSize' = blockSize + Size[t] + 1
  /\ newLine' = newLine + 1
  /\ add(t) /\ iline' = iline + 1
  /\ AuthorAdds(t, TRUE)
  /\ UNCHANGED <<path, blocks, added, ipath>>

(* An added line whose text begins with "++ ": with its marker it begins   *)
(* with "+++ ", a case that comes before that of "+".                      *)
AddedLookalike(t) ==
  /\ Read /\ scan' = scan
  /\ t \in Lookalikes \ Overlong
  /\ NewPath(OddPath)
  /\ AuthorAdds(t, FALSE)

(* An added line beyond the scanner's buffer: Scan returns false, both loops end  *)
(* and nobody asks for the scanner's error.                                *)
OverlongLine(t) ==
  /\ Read /\ scan' = "stopped"
  /\ t \in Overlong
  /\ AuthorAdds(t, FALSE)
  /\ UNCHANGED <<walkVars, indexVars>>

(* A header, a context line or a removed line of that length; the author's *)
(* place no longer matters, for nothing after it is read.                  *)
OverlongOther ==
  /\ Read /\ scan' = "stopped" /\ tidy' = FALSE
  /\ UNCHANGED <<walkVars, indexVars, file, line, files, truth>>

AuthorMovesOn ==
  /\ line' = IF line > 0 THEN line + 1 ELSE line
  /\ UNCHANGED <<file, files, truth, tidy>>

(* " text": an unchanged line. *)
ContextLine ==
  /\ Read /\ scan' = scan
  /\ flush /\ newLine' = newLine + 1
  /\ add(Unchanged) /\ iline' = iline + 1
  /\ AuthorMovesOn
  /\ UNCHANGED <<path, blockStart, ipath>>

(* Faulty: WalkDiff counts marked lines only. *)
BareLineNotCounted ==
  /\ Read /\ scan' = scan
  /\ flush
  /\ IF iline > 0 THEN add(Unchanged) /\ iline' = iline + 1
                  ELSE UNCHANGED <<index, iline>>
  /\ AuthorMovesOn
  /\ UNCHANGED <<path, newLine, blockStart, ipath>>

(* Faulty: only WalkDiff counts lines without a marker. *)
BareLineNotIndexed ==
  /\ Read /\ scan' = scan
  /\ flush
  /\ newLine' = IF newLine > 0 THEN newLine + 1 ELSE newLine
  /\ AuthorMovesOn
  /\ UNCHANGED <<path, blockStart, indexVars>>

(* A line with no marker: an unchanged line whose leading blank was lost.  *)
BareLine ==
  /\ Read /\ scan' = scan
  /\ flush
  /\ newLine' = IF newLine > 0 THEN newLine + 1 ELSE newLine
  /\ IF iline > 0 THEN add(Unchanged) /\ iline' = iline + 1
                  ELSE UNCHANGED <<index, iline>>
  /\ AuthorMovesOn
  /\ UNCHANGED <<path, blockStart, ipath>>

(* "-text", "--- path" and "\ No newline at end of file". *)
IgnoredLine ==
  /\ Read /\ scan' = scan
  /\ UNCHANGED <<walkVars, indexVars, authorVars>>

(* The end of the diff, or of what the scanner reads of it. *)
EndOfDiff ==
  /\ scan # "walked" /\ scan' = "walked"
  /\ flush
  /\ UNCHANGED <<read, path, newLine, blockStart, indexVars, authorVars>>

ReadLine ==
  \/ DiffGitLine
  \/ \E p \in NewPaths : NewPathLine(p)
  \/ \E n \in HunkStarts : HunkLine(n)
  \/ \E t \in Texts : AddedLine(t) \/ AddedLookalike(t) \/ OverlongLine(t)
  \/ OverlongOther
  \/ ContextLine
  \/ BareLine
  \/ IgnoredLine
  \/ EndOfDiff
-----------------------------------------------------------------------------
(* Where the walker puts every added line it has read, in order. *)
Walked == IF path = NoPath THEN added ELSE added \o Building

(* In a diff as git writes it, every added line is given its own file and  *)
(* line, once and in order: findings and discoveries point at the line     *)
(* the author wrote, whatever context, removed or unmarked lines and hunks *)
(* lie between.                                                            *)
Located == tidy => Walked = truth

(* The two walkers agree: the lines a finding on a numbered line of a      *)
(* block is shown with include that line, though another loop numbered     *)
(* them; and in a tidy diff it is shown with the text that was added.      *)
IndexAgrees ==
  \A i \in DOMAIN Walked :
    LET l == Walked[i] IN
    l.line > 0 =>
      /\ l.line \in findingContext(l.path, l.line)
      /\ tidy => index[<<l.path, l.line>>] = l.text
=============================================================================
