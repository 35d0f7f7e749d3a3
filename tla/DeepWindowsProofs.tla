------------------------- MODULE DeepWindowsProofs -------------------------
(***************************************************************************)
(* For diffs of any length and shape, and any sizes, budgets and limits:   *)
(* where the walkers place the added lines, and what the windows cut from  *)
(* them hold.                                                              *)
(***************************************************************************)
EXTENDS DeepWindows, SequenceTheorems, TLAPS

-----------------------------------------------------------------------------
(* The walkers *)

WalkTypes ==
  /\ scan \in {"reading", "stopped", "walked"} /\ read \in 0..MaxRead
  /\ path \in AllPaths /\ newLine \in Nat
  /\ blockBuf \in Seq(Texts) /\ blockSize \in Nat /\ blockStart \in Nat
  /\ blocks \in Seq(Block) /\ added \in Seq(Places)
  /\ ipath \in AllPaths /\ iline \in Nat
  /\ file \in AllPaths /\ line \in Nat /\ files \subseteq AllPaths
  /\ truth \in Seq(Places) /\ tidy \in BOOLEAN

(* The two loops count alike, and a block under construction ends at the    *)
(* line they are at.                                                        *)
InStep ==
  /\ ipath = path /\ iline = newLine
  /\ blockBuf # <<>> => newLine = blockStart + Len(blockBuf)
  /\ scan = "walked" => blockBuf = <<>>
  /\ file = NoPath \/ file \in files

(* In a tidy diff they are where the author is, and the lines added to the  *)
(* author's file so far lie before the next one.                            *)
OnTrack ==
  tidy =>
    /\ path = file
    /\ line > 0 => newLine = line
    /\ blockBuf # <<>> => path # NoPath
    /\ Walked = truth
    /\ \A i \in 1..Len(truth) :
         /\ truth[i].path \in files /\ truth[i].path # NoPath /\ truth[i].line > 0
         /\ truth[i].path = file => truth[i].line < line

Indexed(ix, td, l) ==
  l.line > 0 =>
    /\ <<l.path, l.line>> \in DOMAIN ix
    /\ td => ix[<<l.path, l.line>>] = l.text

AllIndexed == \A i \in 1..Len(Walked) : Indexed(index, tidy, Walked[i])

WalkInv == WalkTypes /\ InStep /\ OnTrack /\ AllIndexed

(* The lines of a block, as a sequence.                                     *)
Lines(p, s, buf) == [i \in 1..Len(buf) |-> Place(p, s + i - 1, buf[i])]

LEMMA LinesType ==
  ASSUME NEW p \in AllPaths, NEW s \in Nat, NEW buf \in Seq(Texts)
  PROVE  /\ Lines(p, s, buf) \in Seq(Places)
         /\ Len(Lines(p, s, buf)) = Len(buf)
         /\ buf = <<>> => Lines(p, s, buf) = <<>>
<1> DEFINE L == Lines(p, s, buf)
<1>1. Len(buf) \in Nat /\ \A i \in 1..Len(buf) : buf[i] \in Texts
  OBVIOUS
<1>2. \A i \in 1..Len(buf) : Place(p, s + i - 1, buf[i]) \in Places
  BY <1>1 DEF Place, Places
<1>3. L \in [1..Len(buf) -> Places]
  BY <1>2 DEF Lines
<1>4. L \in Seq(Places)
  BY <1>1, <1>3, SeqDef
<1>5. Len(L) = Len(buf)
  BY <1>1, <1>3, <1>4
<1>6. buf = <<>> => L = <<>>
  BY <1>4, <1>5, EmptySeq
<1> QED
  BY <1>4, <1>5, <1>6

LEMMA LinesAppend ==
  ASSUME NEW p \in AllPaths, NEW s \in Nat, NEW buf \in Seq(Texts), NEW t \in Texts
  PROVE  Lines(p, s, Append(buf, t)) = Append(Lines(p, s, buf), Place(p, s + Len(buf), t))
<1> DEFINE A == Lines(p, s, Append(buf, t))
           x == Place(p, s + Len(buf), t)
           B == Append(Lines(p, s, buf), x)
<1>1. Len(buf) \in Nat /\ x \in Places
  BY DEF Place, Places
<1>2. /\ Append(buf, t) \in Seq(Texts) /\ Len(Append(buf, t)) = Len(buf) + 1
      /\ \A i \in 1..Len(buf) : Append(buf, t)[i] = buf[i]
      /\ Append(buf, t)[Len(buf) + 1] = t
  BY AppendProperties
<1>3. A \in Seq(Places) /\ Len(A) = Len(buf) + 1
  BY <1>2, LinesType
<1>4. Lines(p, s, buf) \in Seq(Places) /\ Len(Lines(p, s, buf)) = Len(buf)
  BY LinesType
<1>5. /\ B \in Seq(Places) /\ Len(B) = Len(buf) + 1
      /\ \A i \in 1..Len(buf) : B[i] = Lines(p, s, buf)[i]
      /\ B[Len(buf) + 1] = x
  BY <1>1, <1>4, AppendProperties
<1>6. ASSUME NEW i \in 1..(Len(buf) + 1) PROVE A[i] = B[i]
  <2>1. A[i] = Place(p, s + i - 1, Append(buf, t)[i])
    BY <1>2, <1>3 DEF Lines
  <2>2. CASE i \in 1..Len(buf)
    BY <2>1, <2>2, <1>2, <1>5 DEF Lines
  <2>3. CASE i = Len(buf) + 1
    <3>1. s + i - 1 = s + Len(buf)
      BY <2>3, <1>1
    <3> QED
      BY <2>1, <2>3, <3>1, <1>2, <1>5
  <2>4. Len(buf) \in Nat => i \in 1..Len(buf) \/ i = Len(buf) + 1
    OBVIOUS
  <2> QED
    BY <2>2, <2>3, <2>4, <1>1
<1> HIDE DEF A, B
<1>7. A = B
  BY <1>3, <1>5, <1>6, SeqEqual
<1> QED
  BY <1>7 DEF A, B

LEMMA WalkedType ==
  WalkTypes => /\ Walked \in Seq(Places)
               /\ Walked = IF path = NoPath THEN added ELSE added \o Lines(path, blockStart, blockBuf)
<1> SUFFICES ASSUME WalkTypes
             PROVE  /\ Walked \in Seq(Places)
                    /\ Walked = IF path = NoPath THEN added
                                ELSE added \o Lines(path, blockStart, blockBuf)
  OBVIOUS
<1>1. Building = Lines(path, blockStart, blockBuf)
  BY DEF Building, Lines
<1>2. Lines(path, blockStart, blockBuf) \in Seq(Places) /\ added \in Seq(Places)
  BY LinesType DEF WalkTypes
<1> QED
  BY <1>1, <1>2, ConcatProperties DEF Walked

(* Closing a block does not move a line.                                    *)
LEMMA FlushKeepsWalked ==
  ASSUME WalkTypes, flush
  PROVE  /\ blockBuf' = <<>> /\ blockBuf' \in Seq(Texts) /\ blockSize' = 0
         /\ added' = Walked /\ added' \in Seq(Places) /\ blocks' \in Seq(Block)
         /\ path' \in AllPaths /\ blockStart' \in Nat => Walked' = Walked
<1> DEFINE L == Lines(path, blockStart, blockBuf)
<1>1. L \in Seq(Places) /\ Len(L) = Len(blockBuf) /\ (blockBuf = <<>> => L = <<>>)
  BY LinesType DEF WalkTypes
<1>2. Walked \in Seq(Places) /\ Walked = (IF path = NoPath THEN added ELSE added \o L)
  BY WalkedType
<1>3. blockBuf' = <<>> /\ blockBuf' \in Seq(Texts) /\ blockSize' = 0
  BY EmptySeq DEF flush
<1>4. added' = Walked
  <2>1. CASE blockBuf = <<>>
    BY <2>1, <1>1, <1>2, ConcatEmptySeq DEF flush, WalkTypes
  <2>2. CASE path = NoPath
    BY <2>2, <1>2 DEF flush
  <2>3. CASE blockBuf # <<>> /\ path # NoPath
    BY <2>3, <1>2 DEF flush, Building, Lines
  <2> QED
    BY <2>1, <2>2, <2>3
<1>5. blocks' \in Seq(Block)
  <2>1. CASE blockBuf = <<>> \/ path = NoPath
    BY <2>1 DEF flush, WalkTypes
  <2>2. CASE ~(blockBuf = <<>> \/ path = NoPath)
    <3> DEFINE b == [path |-> path, start |-> blockStart, first |-> Len(added) + 1,
                     last |-> Len(added) + Len(blockBuf), size |-> blockSize]
    <3>1. b \in Block
      BY DEF Block, WalkTypes
    <3>2. blocks' = Append(blocks, b)
      BY <2>2 DEF flush
    <3> HIDE DEF b
    <3> QED
      BY <3>1, <3>2, AppendProperties DEF WalkTypes
  <2> QED
    BY <2>1, <2>2
<1>6. ASSUME path' \in AllPaths, blockStart' \in Nat PROVE Walked' = Walked
  <2>1. Building' = Lines(path', blockStart', blockBuf')
    BY DEF Building, Lines
  <2>2. Building' = <<>>
    BY <2>1, <1>3, <1>6, LinesType
  <2>3. added' \o <<>> = added'
    BY <1>2, <1>4, ConcatEmptySeq
  <2> QED
    BY <2>2, <2>3, <1>4 DEF Walked
<1> QED
  BY <1>2, <1>3, <1>4, <1>5, <1>6

LEMMA WalkInit == DiffInit => WalkInv
<1> SUFFICES ASSUME DiffInit PROVE WalkInv
  OBVIOUS
<1>1. NoPath \in AllPaths
  BY DEF AllPaths, NewPaths
<1>2. WalkTypes
  BY <1>1, MaxReadAssumption DEF DiffInit, WalkTypes
<1>3. Walked = <<>>
  BY DEF DiffInit, Walked
<1> QED
  BY <1>1, <1>2, <1>3 DEF WalkInv, DiffInit, InStep, OnTrack, AllIndexed

(* What the author did before the next line of his file is not on it.       *)
LEMMA NextLineIsFresh ==
  ASSUME WalkInv, tidy, NEW i \in 1..Len(Walked)
  PROVE  <<Walked[i].path, Walked[i].line>> # <<ipath, iline>>
  BY DEF WalkInv, WalkTypes, InStep, OnTrack

LEMMA AddRecords ==
  ASSUME NEW t, add(t), iline \in Int
  PROVE  /\ DOMAIN index \subseteq DOMAIN index'
         /\ \A k \in DOMAIN index : k # <<ipath, iline>> => index'[k] = index[k]
         /\ ipath # NoPath /\ iline > 0 => /\ <<ipath, iline>> \in DOMAIN index'
                                         /\ index'[<<ipath, iline>>] = t
<1>1. CASE ipath = NoPath \/ iline <= 0
  <2>1. index' = index
    BY <1>1 DEF add
  <2>2. ~(ipath # NoPath /\ iline > 0)
    BY <1>1
  <2> QED
    BY <2>1, <2>2, <1>1
<1>2. CASE ~(ipath = NoPath \/ iline <= 0)
  BY <1>2 DEF add
<1> QED
  BY <1>1, <1>2

LEMMA AddKeepsIndexed ==
  ASSUME WalkInv, NEW t, add(t), tidy' => tidy
  PROVE  \A i \in 1..Len(Walked) : Indexed(index', tidy', Walked[i])
<1> SUFFICES ASSUME NEW i \in 1..Len(Walked) PROVE Indexed(index', tidy', Walked[i])
  OBVIOUS
<1> DEFINE k == <<Walked[i].path, Walked[i].line>>
<1>1. Indexed(index, tidy, Walked[i])
  BY DEF WalkInv, AllIndexed
<1>2. tidy => k # <<ipath, iline>>
  BY NextLineIsFresh
<1>3. DOMAIN index \subseteq DOMAIN index'
  BY AddRecords DEF WalkInv, WalkTypes
<1>4. k \in DOMAIN index /\ k # <<ipath, iline>> => index'[k] = index[k]
  BY AddRecords DEF WalkInv, WalkTypes
<1> HIDE DEF k
<1> QED
  BY <1>1, <1>2, <1>3, <1>4 DEF Indexed, k

LEMMA AuthorTypes ==
  ASSUME WalkTypes, NEW t \in Texts, NEW plain \in BOOLEAN, AuthorAdds(t, plain)
  PROVE  /\ truth' \in Seq(Places) /\ line' \in Nat /\ tidy' \in BOOLEAN
         /\ file' = file /\ files' = files
<1>1. Place(file, line, t) \in Places
  BY DEF WalkTypes, Place, Places
<1>2. Append(truth, Place(file, line, t)) \in Seq(Places)
  BY <1>1, AppendProperties DEF WalkTypes
<1> QED
  BY <1>2 DEF AuthorAdds, WalkTypes

(* The steps that close the block and read no added line.                   *)
LEMMA OtherLines ==
  ASSUME WalkInv,
         \/ DiffGitLine \/ ContextLine \/ BareLine \/ EndOfDiff
         \/ \E p \in NewPaths : NewPathLine(p)
         \/ \E n \in HunkStarts : HunkLine(n)
  PROVE  WalkInv'
<1>1. WalkTypes /\ InStep /\ OnTrack /\ AllIndexed
  BY DEF WalkInv
<1>2. flush
  BY DEF DiffGitLine, ContextLine, BareLine, EndOfDiff, NewPathLine, NewPath, HunkLine
<1>3. /\ blockBuf' = <<>> /\ blockBuf' \in Seq(Texts) /\ blockSize' = 0
      /\ added' \in Seq(Places) /\ blocks' \in Seq(Block)
  BY <1>1, <1>2, FlushKeepsWalked
<1>4. NoPath \in AllPaths /\ NewPaths \subseteq AllPaths /\ HunkStarts \subseteq Nat
  BY StartAssumption DEF AllPaths, NewPaths, HunkStarts
<1>5. (WalkTypes /\ InStep)' /\ truth' = truth /\ (tidy' => tidy)
  <2> USE <1>1, <1>3, <1>4, MaxReadAssumption DEF WalkTypes, InStep, Read
  <2>1. CASE DiffGitLine
    BY <2>1 DEF DiffGitLine
  <2>2. CASE ContextLine
    BY <2>2 DEF ContextLine, AuthorMovesOn
  <2>3. CASE BareLine
    BY <2>3 DEF BareLine, AuthorMovesOn, indexVars
  <2>4. CASE EndOfDiff
    BY <2>4 DEF EndOfDiff, indexVars, authorVars
  <2>5. ASSUME NEW p \in NewPaths, NewPathLine(p)
        PROVE  (WalkTypes /\ InStep)' /\ truth' = truth /\ (tidy' => tidy)
    BY <2>5 DEF NewPathLine, NewPath
  <2>6. ASSUME NEW n \in HunkStarts, HunkLine(n)
        PROVE  (WalkTypes /\ InStep)' /\ truth' = truth /\ (tidy' => tidy)
    BY <2>6 DEF HunkLine
  <2> QED
    BY <2>1, <2>2, <2>3, <2>4, <2>5, <2>6
<1>7. Walked' = Walked
  BY <1>1, <1>2, <1>5, FlushKeepsWalked DEF WalkTypes
<1>8. truth' = truth /\ (tidy' => tidy)
  BY <1>5
<1>9. OnTrack'
  <2> SUFFICES ASSUME tidy'
               PROVE  /\ path' = file' /\ (line' > 0 => newLine' = line')
                      /\ \A i \in 1..Len(truth) :
                           /\ truth[i].path \in files' /\ truth[i].path # NoPath
                           /\ truth[i].line > 0
                           /\ truth[i].path = file' => truth[i].line < line'
    BY <1>1, <1>3, <1>7, <1>8 DEF OnTrack
  <2>1. \A i \in 1..Len(truth) : truth[i].line \in Nat
    <3>1. \A i \in 1..Len(truth) : truth[i] \in Places
      BY <1>1, ElementOfSeq DEF WalkTypes
    <3> QED
      BY <3>1 DEF Places
  <2>2. /\ path = file /\ (line > 0 => newLine = line) /\ line \in Nat /\ newLine \in Nat
        /\ \A i \in 1..Len(truth) :
             /\ truth[i].path \in files /\ truth[i].path # NoPath /\ truth[i].line > 0
             /\ truth[i].path = file => truth[i].line < line
    BY <1>1, <1>8 DEF OnTrack, WalkTypes
  <2>3. CASE DiffGitLine
    BY <2>1, <2>2, <2>3 DEF DiffGitLine
  <2>4. CASE ContextLine \/ BareLine
    <3>1. /\ path' = path /\ file' = file /\ files' = files
          /\ line' = IF line > 0 THEN line + 1 ELSE line
          /\ line > 0 /\ newLine = line => newLine' = newLine + 1
      BY <2>2, <2>4 DEF ContextLine, BareLine, AuthorMovesOn
    <3> QED
      BY <2>1, <2>2, <3>1
  <2>5. CASE EndOfDiff
    BY <2>1, <2>2, <2>5 DEF EndOfDiff, authorVars
  <2>6. ASSUME NEW p \in NewPaths, NewPathLine(p)
        PROVE  /\ path' = file' /\ (line' > 0 => newLine' = line')
               /\ \A i \in 1..Len(truth) :
                    /\ truth[i].path \in files' /\ truth[i].path # NoPath
                    /\ truth[i].line > 0
                    /\ truth[i].path = file' => truth[i].line < line'
    <3>1. p = NoPath \/ p \notin files
      BY <2>6, Zenon DEF NewPathLine
    <3>2. path' = p /\ file' = p /\ line' = 0 /\ files' = files \cup {p}
      BY <2>6 DEF NewPathLine, NewPath
    <3> QED
      BY <2>2, <3>1, <3>2
  <2>7. ASSUME NEW n \in HunkStarts, HunkLine(n)
        PROVE  /\ path' = file' /\ (line' > 0 => newLine' = line')
               /\ \A i \in 1..Len(truth) :
                    /\ truth[i].path \in files' /\ truth[i].path # NoPath
                    /\ truth[i].line > 0
                    /\ truth[i].path = file' => truth[i].line < line'
    <3>1. n >= line
      BY <2>7, Zenon DEF HunkLine
    <3>2. /\ path' = path /\ file' = file /\ files' = files
          /\ line' = n /\ newLine' = n /\ n \in Nat
      BY <1>4, <2>7 DEF HunkLine
    <3> QED
      BY <2>1, <2>2, <3>1, <3>2
  <2> QED
    BY <2>3, <2>4, <2>5, <2>6, <2>7
<1>10. AllIndexed'
  <2>1. CASE index' = index
    BY <2>1, <1>1, <1>7, <1>8 DEF AllIndexed, Indexed
  <2>2. CASE add(Unchanged)
    <3>1. \A i \in 1..Len(Walked) : Indexed(index', tidy', Walked[i])
      BY <2>2, <1>8, AddKeepsIndexed
    <3> QED
      BY <3>1, <1>7 DEF AllIndexed
  <2> QED
    BY <2>1, <2>2
    DEF DiffGitLine, ContextLine, BareLine, EndOfDiff, NewPathLine, NewPath, HunkLine, indexVars
<1> QED
  BY <1>5, <1>9, <1>10 DEF WalkInv

(* An added line takes the next place of the block and of the index.        *)
LEMMA AddedLines ==
  ASSUME WalkInv, NEW t \in Texts, AddedLine(t)
  PROVE  WalkInv'
<1> DEFINE x == Place(path, newLine, t)
           s == IF blockBuf = <<>> THEN newLine ELSE blockStart
           L == Lines(path, s, blockBuf)
<1>1. WalkTypes /\ InStep /\ OnTrack /\ AllIndexed
  BY DEF WalkInv
<1>2. /\ path' = path /\ blockBuf' = Append(blockBuf, t) /\ added' = added
      /\ blockStart' = s /\ newLine' = newLine + 1 /\ blocks' = blocks
      /\ ipath' = ipath /\ iline' = iline + 1 /\ add(t) /\ AuthorAdds(t, TRUE)
      /\ scan = "reading" /\ scan' = scan
  BY DEF AddedLine, Read
<1>3. s \in Nat /\ Len(blockBuf) \in Nat /\ s + Len(blockBuf) = newLine /\ x \in Places
  <2>1. path \in AllPaths /\ newLine \in Nat /\ blockStart \in Nat /\ blockBuf \in Seq(Texts)
    BY <1>1 DEF WalkTypes
  <2>2. x \in Places
    BY <2>1 DEF Place, Places
  <2>3. Len(blockBuf) \in Nat /\ (blockBuf = <<>> => Len(blockBuf) = 0)
    BY <2>1
  <2>4. blockBuf # <<>> => newLine = blockStart + Len(blockBuf)
    BY <1>1 DEF InStep
  <2> QED
    BY <2>1, <2>2, <2>3, <2>4
<1>4. /\ truth' \in Seq(Places) /\ line' \in Nat /\ tidy' \in BOOLEAN
      /\ file' = file /\ files' = files
  BY <1>1, <1>2, AuthorTypes
<1>5. /\ blockBuf' \in Seq(Texts) /\ blockBuf' # <<>> /\ Len(blockBuf') = Len(blockBuf) + 1
  BY <1>1, <1>2, AppendProperties DEF WalkTypes
<1>6. WalkTypes'
  <2>1. blockSize' \in Nat
    BY <1>1, SizeAssumption DEF AddedLine, WalkTypes
  <2>2. read' \in 0..MaxRead
    BY <1>1, MaxReadAssumption DEF AddedLine, Read, WalkTypes
  <2> QED
    BY <1>1, <1>2, <1>3, <1>4, <1>5, <2>1, <2>2 DEF WalkTypes
<1>7. InStep'
  <2>1. ipath' = path' /\ iline' = newLine' /\ scan' # "walked"
    BY <1>1, <1>2 DEF InStep
  <2>2. newLine' = blockStart' + Len(blockBuf')
    <3>1. newLine' = newLine + 1 /\ blockStart' = s
      BY <1>2
    <3> HIDE DEF s
    <3> QED
      BY <1>3, <1>5, <3>1
  <2> QED
    BY <1>1, <1>4, <2>1, <2>2 DEF InStep
<1>8. L \in Seq(Places) /\ Lines(path', blockStart', blockBuf') = Append(L, x)
  <2>1. path \in AllPaths /\ blockBuf \in Seq(Texts)
    BY <1>1 DEF WalkTypes
  <2>2. L \in Seq(Places)
    BY <1>3, <2>1, LinesType
  <2>3. Lines(path, s, Append(blockBuf, t)) = Append(L, Place(path, s + Len(blockBuf), t))
    BY <1>3, <2>1, LinesAppend
  <2> QED
    BY <1>2, <1>3, <2>2, <2>3
<1>9. Walked = IF path = NoPath THEN added ELSE added \o L
  <2>1. blockBuf = <<>> => L = <<>> /\ Lines(path, blockStart, blockBuf) = <<>>
    BY <1>1, <1>3, LinesType DEF WalkTypes
  <2>2. blockBuf # <<>> => s = blockStart
    OBVIOUS
  <2> QED
    BY <1>1, <2>1, <2>2, WalkedType
<1>10. Walked' = IF path = NoPath THEN Walked ELSE Append(Walked, x)
  <2>1. Walked' = IF path' = NoPath THEN added' ELSE added' \o Building'
    BY DEF Walked
  <2>2. Building' = Append(L, x)
    BY <1>8 DEF Building, Lines
  <2>3. added \o Append(L, x) = Append(added \o L, x)
    <3>1. Append(L, x) = L \o <<x>> /\ <<x>> \in Seq(Places)
      BY <1>3, <1>8, AppendIsConcat
    <3>2. added \o (L \o <<x>>) = (added \o L) \o <<x>>
      BY <1>1, <1>8, <3>1, ConcatAssociative, SMTT(30) DEF WalkTypes
    <3>3. added \o L \in Seq(Places)
      BY <1>1, <1>8, ConcatProperties DEF WalkTypes
    <3> QED
      BY <1>3, <3>1, <3>2, <3>3, AppendIsConcat
  <2> QED
    BY <1>2, <1>9, <2>1, <2>2, <2>3
<1>11. Walked \in Seq(Places)
  BY <1>1, WalkedType
<1> HIDE DEF x, s, L
<1>12. ASSUME tidy'
       PROVE  /\ tidy /\ line > 0 /\ file # NoPath
              /\ truth' = Append(truth, Place(file, line, t)) /\ line' = line + 1
  BY <1>2, <1>12 DEF AuthorAdds
<1>13. OnTrack'
  <2> SUFFICES ASSUME tidy'
               PROVE  /\ path' = file' /\ (line' > 0 => newLine' = line') /\ path' # NoPath
                      /\ Walked' = truth'
                      /\ \A i \in 1..Len(truth') :
                           /\ truth'[i].path \in files' /\ truth'[i].path # NoPath
                           /\ truth'[i].line > 0
                           /\ truth'[i].path = file' => truth'[i].line < line'
    BY DEF OnTrack
  <2>1. /\ tidy /\ line > 0 /\ file # NoPath /\ line' = line + 1
        /\ truth' = Append(truth, Place(file, line, t))
    BY <1>12
  <2>2. path = file /\ newLine = line /\ Walked = truth
    BY <1>1, <2>1 DEF OnTrack
  <2>3. x = Place(file, line, t) /\ Walked' = truth'
    BY <1>10, <2>1, <2>2 DEF x
  <2>4. /\ Len(truth') = Len(truth) + 1 /\ Len(truth) \in Nat
        /\ \A i \in 1..Len(truth) : truth'[i] = truth[i]
        /\ truth'[Len(truth) + 1] = Place(file, line, t)
    BY <1>1, <1>3, <2>1, <2>3, AppendProperties DEF WalkTypes
  <2>5. \A i \in 1..Len(truth) :
          /\ truth[i].path \in files /\ truth[i].path # NoPath /\ truth[i].line > 0
          /\ truth[i].path = file => truth[i].line < line
    BY <1>1, <2>1 DEF OnTrack
  <2>6. \A i \in 1..Len(truth) : truth[i].line \in Nat
    <3>1. \A i \in 1..Len(truth) : truth[i] \in Places
      BY <1>1, ElementOfSeq DEF WalkTypes
    <3> QED
      BY <3>1 DEF Places
  <2>7. ASSUME NEW i \in 1..Len(truth')
        PROVE  /\ truth'[i].path \in files' /\ truth'[i].path # NoPath
               /\ truth'[i].line > 0
               /\ truth'[i].path = file' => truth'[i].line < line'
    <3>1. line \in Nat /\ file \in files /\ files' = files /\ file' = file
      BY <1>1, <1>4, <2>1 DEF WalkTypes, InStep
    <3>2. CASE i \in 1..Len(truth)
      BY <2>1, <2>4, <2>5, <2>6, <3>1, <3>2
    <3>3. CASE i = Len(truth) + 1
      BY <2>1, <2>4, <3>1, <3>3 DEF Place
    <3>4. i \in 1..Len(truth) \/ i = Len(truth) + 1
      BY <2>4
    <3> QED
      BY <3>2, <3>3, <3>4
  <2> QED
    BY <1>2, <1>4, <2>1, <2>2, <2>3, <2>7
<1>14. AllIndexed'
  <2>1. \A i \in 1..Len(Walked) : Indexed(index', tidy', Walked[i])
    <3>1. tidy' => tidy
      BY <1>12
    <3> QED
      BY <1>2, <3>1, AddKeepsIndexed
  <2>2. CASE path = NoPath
    BY <1>10, <2>1, <2>2 DEF AllIndexed
  <2>3. CASE path # NoPath
    <3>1. /\ Len(Walked') = Len(Walked) + 1 /\ Len(Walked) \in Nat
          /\ \A i \in 1..Len(Walked) : Walked'[i] = Walked[i]
          /\ Walked'[Len(Walked) + 1] = x
      BY <1>3, <1>10, <1>11, <2>3, AppendProperties
    <3>2. ipath = path /\ iline = newLine /\ iline \in Int
      BY <1>1 DEF InStep, WalkTypes
    <3>3. iline > 0 => <<ipath, iline>> \in DOMAIN index' /\ index'[<<ipath, iline>>] = t
      BY <1>2, <2>3, <3>2, AddRecords
    <3>4. Indexed(index', tidy', x)
      BY <3>2, <3>3 DEF Indexed, x, Place
    <3>5. ASSUME NEW i \in 1..Len(Walked') PROVE Indexed(index', tidy', Walked'[i])
      <4>1. CASE i \in 1..Len(Walked)
        BY <2>1, <3>1, <4>1
      <4>2. CASE i = Len(Walked) + 1
        BY <3>1, <3>4, <4>2
      <4>3. i \in 1..Len(Walked) \/ i = Len(Walked) + 1
        BY <3>1
      <4> QED
        BY <4>1, <4>2, <4>3
    <3> QED
      BY <3>5 DEF AllIndexed
  <2> QED
    BY <2>2, <2>3
<1> QED
  BY <1>6, <1>7, <1>13, <1>14 DEF WalkInv

(* A line the walkers misread costs the diff its tidiness, and moves none   *)
(* of the lines before it.                                                  *)
LEMMA MisreadLines ==
  ASSUME WalkInv, NEW t \in Texts, AddedLookalike(t) \/ OverlongLine(t)
  PROVE  WalkInv'
<1>1. WalkTypes /\ InStep /\ AllIndexed
  BY DEF WalkInv
<1>2. AuthorAdds(t, FALSE)
  BY DEF AddedLookalike, OverlongLine
<1>3. /\ truth' \in Seq(Places) /\ line' \in Nat /\ tidy' = FALSE
      /\ file' = file /\ files' = files /\ index' = index
  BY <1>1, <1>2, AuthorTypes DEF AuthorAdds, AddedLookalike, OverlongLine, NewPath, indexVars
<1>4. (WalkTypes /\ InStep)' /\ Walked' = Walked
  <2>1. CASE AddedLookalike(t)
    <3>1. /\ blockBuf' = <<>> /\ blockBuf' \in Seq(Texts) /\ blockSize' = 0
          /\ added' \in Seq(Places) /\ blocks' \in Seq(Block)
          /\ path' \in AllPaths /\ blockStart' \in Nat => Walked' = Walked
      BY <1>1, <2>1, FlushKeepsWalked DEF AddedLookalike, NewPath
    <3>2. OddPath \in AllPaths
      BY DEF AllPaths
    <3>3. /\ path' = OddPath /\ ipath' = OddPath /\ newLine' = newLine /\ iline' = iline
          /\ blockStart' = blockStart /\ scan' = scan /\ scan = "reading" /\ read' \in 0..MaxRead
      BY <1>1, <2>1, MaxReadAssumption DEF AddedLookalike, NewPath, Read, WalkTypes
    <3>4. WalkTypes'
      BY <1>1, <1>3, <3>1, <3>2, <3>3 DEF WalkTypes
    <3>5. InStep'
      BY <1>1, <1>3, <3>1, <3>3 DEF InStep
    <3> QED
      BY <3>1, <3>4, <3>5 DEF WalkTypes
  <2>2. CASE OverlongLine(t)
    <3>1. UNCHANGED <<walkVars, indexVars>> /\ scan' = "stopped" /\ read' \in 0..MaxRead
      BY <1>1, <2>2, MaxReadAssumption DEF OverlongLine, Read, WalkTypes
    <3>2. Walked' = Walked
      BY <3>1 DEF walkVars, Walked, Building
    <3>3. WalkTypes'
      BY <1>1, <1>3, <3>1 DEF WalkTypes, walkVars, indexVars
    <3>4. InStep'
      BY <1>1, <1>3, <3>1 DEF InStep, walkVars, indexVars
    <3> QED
      BY <3>2, <3>3, <3>4
  <2> QED
    BY <2>1, <2>2
<1> QED
  BY <1>1, <1>3, <1>4 DEF WalkInv, OnTrack, AllIndexed, Indexed

LEMMA WalkStep == WalkInv /\ (ReadLine \/ UNCHANGED diffVars) => WalkInv'
<1> SUFFICES ASSUME WalkInv, ReadLine \/ UNCHANGED diffVars PROVE WalkInv'
  OBVIOUS
<1>1. CASE IgnoredLine \/ UNCHANGED diffVars
  <2>1. UNCHANGED <<walkVars, indexVars, authorVars>> /\ scan' = scan /\ read' \in 0..MaxRead
    BY <1>1, MaxReadAssumption DEF IgnoredLine, Read, diffVars, WalkInv, WalkTypes
  <2>2. Walked' = Walked
    BY <2>1 DEF walkVars, Walked, Building
  <2> QED
    BY <2>1, <2>2
    DEF WalkInv, WalkTypes, InStep, OnTrack, AllIndexed, Indexed, walkVars, indexVars, authorVars
<1>2. ASSUME NEW t \in Texts, AddedLine(t) \/ AddedLookalike(t) \/ OverlongLine(t)
      PROVE  WalkInv'
  BY <1>2, AddedLines, MisreadLines
<1>3. CASE \/ DiffGitLine \/ ContextLine \/ BareLine \/ EndOfDiff
           \/ \E p \in NewPaths : NewPathLine(p)
           \/ \E n \in HunkStarts : HunkLine(n)
  BY <1>3, OtherLines
<1>4. CASE OverlongOther
  <2>1. /\ UNCHANGED <<walkVars, indexVars, file, line, files, truth>>
        /\ scan' = "stopped" /\ tidy' = FALSE /\ read' \in 0..MaxRead
    BY <1>4, MaxReadAssumption DEF OverlongOther, Read, WalkInv, WalkTypes
  <2>2. Walked' = Walked
    BY <2>1 DEF walkVars, Walked, Building
  <2> QED
    BY <2>1, <2>2
    DEF WalkInv, WalkTypes, InStep, OnTrack, AllIndexed, Indexed, walkVars, indexVars
<1> QED
  BY <1>1, <1>2, <1>3, <1>4 DEF ReadLine

-----------------------------------------------------------------------------
(* Blocks *)

(* The last line before block b.                                            *)
Before(bs, b) == IF b = 1 THEN 0 ELSE bs[b - 1].last

BlocksTile ==
  /\ Len(added) = Before(blocks, Len(blocks) + 1)
  /\ \A b \in 1..Len(blocks) :
       /\ blocks[b].first = Before(blocks, b) + 1
       /\ blocks[b].first <= blocks[b].last /\ blocks[b].last <= Len(added)
       /\ \A n \in blocks[b].first .. blocks[b].last : added[n].path = blocks[b].path

LEMMA BlockType ==
  ASSUME WalkTypes, NEW b \in 1..Len(blocks)
  PROVE  /\ blocks[b] \in Block /\ blocks[b].path \in AllPaths /\ blocks[b].size \in Nat
         /\ blocks[b].first \in Nat /\ blocks[b].last \in Nat
<1>1. blocks[b] \in Block
  BY ElementOfSeq DEF WalkTypes
<1> QED
  BY <1>1 DEF Block

LEMMA ReadLineBlocks == ReadLine => flush \/ UNCHANGED <<blocks, added>>
  BY DEF ReadLine, DiffGitLine, NewPathLine, NewPath, HunkLine, AddedLine, AddedLookalike,
         OverlongLine, OverlongOther, ContextLine, BareLine, IgnoredLine, EndOfDiff, walkVars

LEMMA FlushTiles ==
  ASSUME WalkTypes, BlocksTile, flush
  PROVE  BlocksTile'
<1>1. CASE blockBuf = <<>> \/ path = NoPath
  BY <1>1 DEF flush, BlocksTile, Before
<1>2. CASE ~(blockBuf = <<>> \/ path = NoPath)
  <2> DEFINE k == Len(blocks)
             L == Lines(path, blockStart, blockBuf)
             new == [path |-> path, start |-> blockStart, first |-> Len(added) + 1,
                     last |-> Len(added) + Len(blockBuf), size |-> blockSize]
  <2>1. /\ path \in AllPaths /\ blockStart \in Nat /\ blockBuf \in Seq(Texts)
        /\ blockSize \in Nat /\ added \in Seq(Places) /\ blocks \in Seq(Block)
    BY DEF WalkTypes
  <2>2. Len(blockBuf) \in Nat \ {0} /\ Len(added) \in Nat /\ k \in Nat
    BY <1>2, <2>1, EmptySeq
  <2>3. L \in Seq(Places) /\ Len(L) = Len(blockBuf)
    BY <2>1, LinesType
  <2>4. \A i \in 1..Len(blockBuf) : L[i].path = path
    BY DEF Lines, Place
  <2>5. new \in Block
    BY <2>1, <2>2 DEF Block
  <2>6. blocks' = Append(blocks, new) /\ added' = added \o L
    BY <1>2 DEF flush, Building, Lines
  <2>7. new.path = path /\ new.first = Len(added) + 1 /\ new.last = Len(added) + Len(blockBuf)
    OBVIOUS
  <2> HIDE DEF new, L
  <2>8. /\ Len(blocks') = k + 1 /\ blocks'[k + 1] = new
        /\ \A b \in 1..k : blocks'[b] = blocks[b]
    BY <2>1, <2>5, <2>6, AppendProperties
  <2>9. /\ Len(added') = Len(added) + Len(blockBuf)
        /\ \A n \in 1..Len(added) : added'[n] = added[n]
        /\ \A n \in Len(added) + 1 .. Len(added) + Len(blockBuf) :
             added'[n] = L[n - Len(added)]
    <3>1. Len(added \o L) = Len(added) + Len(L)
      BY <2>1, <2>3, ConcatProperties
    <3>2. \A n \in 1..Len(added) + Len(L) :
            (added \o L)[n] = IF n <= Len(added) THEN added[n] ELSE L[n - Len(added)]
      BY <2>1, <2>3, ConcatProperties
    <3> QED
      BY <2>2, <2>3, <2>6, <3>1, <3>2
  <2> HIDE DEF k
  <2>10. \A b \in 1..k : /\ blocks[b].first \in Nat /\ blocks[b].last \in Nat
                         /\ blocks[b].first > 0 /\ Before(blocks, b) \in Nat
    <3> SUFFICES ASSUME NEW b \in 1..k
                 PROVE  /\ blocks[b].first \in Nat /\ blocks[b].last \in Nat
                        /\ blocks[b].first > 0 /\ Before(blocks, b) \in Nat
      OBVIOUS
    <3>1. b # 1 => b - 1 \in 1..k
      BY <2>2
    <3>2. Before(blocks, b) \in Nat
      BY <3>1, BlockType DEF Before, k
    <3> QED
      BY <3>2, BlockType DEF BlocksTile, k
  <2>11. Before(blocks, k + 1) = Len(added)
    BY DEF BlocksTile, k
  <2>12. \A b \in 1..(k + 1) : Before(blocks', b) = Before(blocks, b)
    <3> SUFFICES ASSUME NEW b \in 1..(k + 1) PROVE Before(blocks', b) = Before(blocks, b)
      OBVIOUS
    <3>1. b # 1 => b - 1 \in 1..k
      BY <2>2
    <3> QED
      BY <2>8, <3>1 DEF Before
  <2>13. Len(added') = Before(blocks', Len(blocks') + 1)
    <3>1. k + 2 # 1 /\ (k + 2) - 1 = k + 1 /\ (k + 1) + 1 = k + 2
      BY <2>2
    <3>2. Before(blocks', k + 2) = blocks'[k + 1].last
      BY <3>1 DEF Before
    <3> QED
      BY <2>7, <2>8, <2>9, <3>1, <3>2
  <2>14. ASSUME NEW b \in 1..Len(blocks')
         PROVE  /\ blocks'[b].first = Before(blocks', b) + 1
                /\ blocks'[b].first <= blocks'[b].last /\ blocks'[b].last <= Len(added')
                /\ \A n \in blocks'[b].first .. blocks'[b].last :
                     added'[n].path = blocks'[b].path
    <3>1. CASE b \in 1..k
      <4>1. /\ blocks[b].first = Before(blocks, b) + 1
            /\ blocks[b].first <= blocks[b].last /\ blocks[b].last <= Len(added)
            /\ \A n \in blocks[b].first .. blocks[b].last : added[n].path = blocks[b].path
        BY <3>1 DEF BlocksTile, k
      <4>2. \A n \in blocks[b].first .. blocks[b].last : n \in 1..Len(added)
        BY <2>2, <2>10, <3>1, <4>1
      <4>3. Before(blocks', b) = Before(blocks, b) /\ blocks'[b] = blocks[b]
        BY <2>2, <2>8, <2>12, <3>1
      <4>4. \A n \in blocks[b].first .. blocks[b].last : added'[n].path = blocks[b].path
        BY <2>9, <4>1, <4>2
      <4>5. blocks[b].last <= Len(added')
        BY <2>2, <2>9, <2>10, <3>1, <4>1
      <4> QED
        BY <4>1, <4>3, <4>4, <4>5
    <3>2. CASE b = k + 1
      <4>1. blocks'[b] = new /\ Before(blocks', b) = Len(added)
        BY <2>2, <2>8, <2>11, <2>12, <3>2
      <4>2. ASSUME NEW n \in new.first .. new.last PROVE added'[n].path = path
        <5>1. /\ n \in Len(added) + 1 .. Len(added) + Len(blockBuf)
              /\ n - Len(added) \in 1..Len(blockBuf)
          BY <2>2, <2>7
        <5> QED
          BY <2>4, <2>9, <5>1
      <4> QED
        BY <2>2, <2>7, <2>9, <4>1, <4>2
    <3>3. b \in 1..k \/ b = k + 1
      BY <2>2, <2>8
    <3> QED
      BY <3>1, <3>2, <3>3
  <2> QED
    BY <2>13, <2>14 DEF BlocksTile
<1> QED
  BY <1>1, <1>2

LEMMA BlockStep ==
  WalkInv /\ BlocksTile /\ (ReadLine \/ UNCHANGED diffVars) => BlocksTile'
<1> SUFFICES ASSUME WalkInv, BlocksTile, ReadLine \/ UNCHANGED diffVars PROVE BlocksTile'
  OBVIOUS
<1>1. CASE flush
  BY <1>1, FlushTiles DEF WalkInv
<1>2. CASE UNCHANGED <<blocks, added>>
  BY <1>2 DEF BlocksTile, Before
<1> QED
  <2>1. UNCHANGED diffVars => UNCHANGED <<blocks, added>>
    BY DEF diffVars, walkVars
  <2> QED
    BY <1>1, <1>2, <2>1, ReadLineBlocks

-----------------------------------------------------------------------------
(* Pieces *)

LEMMA TokensType ==
  ASSUME NEW a \in Nat
  PROVE  Tokens(a) \in Nat /\ (a > 0 => Tokens(a) > 0)
  BY DEF Tokens

LEMMA TokensAdd ==
  ASSUME NEW a \in Nat, NEW b \in Nat
  PROVE  Tokens(a + b) <= Tokens(a) + Tokens(b) /\ Tokens(a + 1) <= Tokens(a) + 1
  BY DEF Tokens

LEMMA BudgetType == Budget \in Nat \ {0}
  BY BudgetAssumption DEF Budget

LEMMA PieceType ==
  /\ \A p \in AllPaths, from, to, chars, tok \in Nat : Piece(p, from, to, chars, tok) \in Pieces
  /\ \A c \in Pieces : /\ c.path \in AllPaths /\ c.from \in Nat /\ c.to \in Nat
                       /\ c.chars \in Nat /\ c.tok \in Nat
  BY DEF Piece, Pieces

(* The lines of a piece are of its file.                                    *)
Whose(c, lines) == c.to <= Len(lines) /\ \A n \in c.from .. c.to : lines[n].path = c.path

Fits(c) == Tokens(c.chars) <= Budget \/ c.from = c.to

(* A finished window or chunk.                                              *)
Finished(c, lines) == c.from <= c.to /\ Whose(c, lines) /\ Fits(c)

(* A window that is being built: either nothing, or more than nothing, and  *)
(* then no bigger than its count of tokens says, which is within the budget *)
(* or that of one line.                                                     *)
Growing(c, lines) ==
  /\ c.from <= c.to + 1 /\ Whose(c, lines)
  /\ c.from > c.to => c.chars = 0 /\ c.tok = 0
  /\ c.from <= c.to => /\ c.chars > 0 /\ c.tok > 0 /\ Tokens(c.chars) <= c.tok
                       /\ c.tok <= Budget \/ c.from = c.to

EndOf(ws) == IF ws = <<>> THEN 0 ELSE ws[Len(ws)].to

Tiled(ws) ==
  \A w \in 1..Len(ws) : ws[w].from = (IF w = 1 THEN 1 ELSE ws[w - 1].to + 1)

AllFinished(ws, lines) == \A w \in 1..Len(ws) : Finished(ws[w], lines)

Holds(ws, n) == \E w \in 1..Len(ws) : n \in ws[w].from .. ws[w].to
Covers(ws) == \A n \in 1..EndOf(ws) : Holds(ws, n)

GoodWindows(ws, lines) == ws \in Seq(Pieces) /\ Tiled(ws) /\ AllFinished(ws, lines)

LEMMA NoWindows ==
  ASSUME NEW lines
  PROVE  GoodWindows(<<>>, lines) /\ Covers(<<>>) /\ EndOf(<<>>) = 0
<1>1. <<>> \in Seq(Pieces) /\ Len(<<>>) = 0
  OBVIOUS
<1> QED
  BY <1>1 DEF GoodWindows, Tiled, AllFinished, Covers, EndOf

LEMMA EndOfType ==
  ASSUME NEW ws \in Seq(Pieces)
  PROVE  EndOf(ws) \in Nat /\ Len(ws) \in Nat /\ (Len(ws) = 0 => ws = <<>>)
<1>1. CASE ws = <<>>
  BY <1>1 DEF EndOf
<1>2. CASE ws # <<>>
  <2>1. Len(ws) \in 1..Len(ws) /\ Len(ws) \in Nat
    BY <1>2, EmptySeq
  <2>2. ws[Len(ws)] \in Pieces
    BY <2>1, ElementOfSeq
  <2> QED
    BY <1>2, <2>1, <2>2, PieceType DEF EndOf
<1> QED
  BY <1>1, <1>2

(* A window that goes on after the last one may follow it.                  *)
LEMMA OneMoreWindow ==
  ASSUME NEW lines, NEW ws, GoodWindows(ws, lines),
         NEW c \in Pieces, Finished(c, lines), c.from = EndOf(ws) + 1
  PROVE  /\ GoodWindows(Append(ws, c), lines) /\ EndOf(Append(ws, c)) = c.to
         /\ Covers(ws) => Covers(Append(ws, c))
<1> DEFINE new == Append(ws, c)
           k == Len(ws)
<1>1. ws \in Seq(Pieces) /\ Tiled(ws) /\ AllFinished(ws, lines)
  BY DEF GoodWindows
<1>2. k \in Nat /\ EndOf(ws) \in Nat /\ (k = 0 => ws = <<>>)
  BY <1>1, EndOfType
<1>3. /\ new \in Seq(Pieces) /\ Len(new) = k + 1 /\ new[k + 1] = c
      /\ \A w \in 1..k : new[w] = ws[w]
  BY <1>1, AppendProperties
<1>4. new # <<>>
  BY <1>2, <1>3
<1>5. k > 0 => EndOf(ws) = ws[k].to
  BY <1>1, <1>2, EmptySeq DEF EndOf
<1>6. k = 0 => EndOf(ws) = 0
  BY <1>2 DEF EndOf
<1> HIDE DEF new, k
<1>7. \A w \in 1..Len(new) : w \in 1..k \/ w = k + 1
  BY <1>2, <1>3
<1>8. EndOf(new) = c.to
  BY <1>3, <1>4 DEF EndOf
<1>9. Tiled(new)
  <2> SUFFICES ASSUME NEW w \in 1..Len(new)
               PROVE  new[w].from = (IF w = 1 THEN 1 ELSE new[w - 1].to + 1)
    BY DEF Tiled
  <2>1. CASE w \in 1..k
    <3>1. ws[w].from = (IF w = 1 THEN 1 ELSE ws[w - 1].to + 1)
      BY <1>1, <2>1 DEF Tiled, k
    <3>2. w # 1 => w - 1 \in 1..k
      BY <1>2, <2>1
    <3> QED
      BY <1>3, <2>1, <3>1, <3>2
  <2>2. CASE w = k + 1
    <3>1. CASE k = 0
      BY <1>3, <1>6, <2>2, <3>1
    <3>2. CASE k > 0
      <4>1. w # 1 /\ w - 1 = k /\ k \in 1..k
        BY <1>2, <2>2, <3>2
      <4> QED
        BY <1>3, <1>5, <2>2, <3>2, <4>1
    <3> QED
      BY <1>2, <3>1, <3>2
  <2> QED
    BY <1>7, <2>1, <2>2
<1>10. AllFinished(new, lines)
  BY <1>1, <1>3, <1>7 DEF AllFinished, k
<1>11. ASSUME Covers(ws), NEW n \in 1..c.to PROVE Holds(new, n)
  <2>1. c.to \in Nat /\ c.from \in Nat
    BY PieceType
  <2>2. CASE n <= EndOf(ws)
    <3>1. n \in 1..EndOf(ws)
      BY <1>2, <2>1, <2>2
    <3>2. PICK w \in 1..k : n \in ws[w].from .. ws[w].to
      BY <1>11, <3>1 DEF Covers, Holds, k
    <3>3. w \in 1..Len(new) /\ new[w] = ws[w]
      BY <1>2, <1>3
    <3> QED
      BY <3>2, <3>3 DEF Holds
  <2>3. CASE n > EndOf(ws)
    <3>1. n \in c.from .. c.to
      BY <1>2, <2>1, <2>3
    <3>2. k + 1 \in 1..Len(new)
      BY <1>2, <1>3
    <3> QED
      BY <1>3, <3>1, <3>2 DEF Holds
  <2> QED
    BY <1>2, <2>1, <2>2, <2>3
<1>12. Covers(ws) => Covers(new)
  BY <1>8, <1>11 DEF Covers
<1> QED
  BY <1>3, <1>8, <1>9, <1>10, <1>12 DEF GoodWindows, new

(* The windows up to any one of them.                                       *)
LEMMA FirstWindows ==
  ASSUME NEW lines, NEW ws, GoodWindows(ws, lines), NEW m \in 0..Len(ws)
  PROVE  GoodWindows(SubSeq(ws, 1, m), lines) /\ Len(SubSeq(ws, 1, m)) = m
<1> DEFINE s == SubSeq(ws, 1, m)
<1>1. ws \in Seq(Pieces) /\ Len(ws) \in Nat /\ Tiled(ws) /\ AllFinished(ws, lines)
  BY DEF GoodWindows
<1>2. \A i \in 1..m : i \in 1..Len(ws)
  BY <1>1
<1>3. \A i \in 1..m : ws[i] \in Pieces
  BY <1>1, <1>2, ElementOfSeq
<1>4. s \in Seq(Pieces) /\ Len(s) = m /\ \A i \in 1..m : s[i] = ws[i]
  BY <1>1, <1>3, SubSeqProperties
<1> HIDE DEF s
<1>5. Tiled(s)
  <2> SUFFICES ASSUME NEW w \in 1..m
               PROVE  s[w].from = (IF w = 1 THEN 1 ELSE s[w - 1].to + 1)
    BY <1>4 DEF Tiled
  <2>1. ws[w].from = (IF w = 1 THEN 1 ELSE ws[w - 1].to + 1)
    BY <1>1, <1>2 DEF Tiled
  <2>2. w # 1 => w - 1 \in 1..m
    BY <1>1
  <2> QED
    BY <1>4, <2>1, <2>2
<1>6. AllFinished(s, lines)
  BY <1>1, <1>2, <1>4 DEF AllFinished
<1> QED
  BY <1>4, <1>5, <1>6 DEF GoodWindows, s

-----------------------------------------------------------------------------
(* The plan *)

PlanTypes ==
  /\ deep \in Phases /\ bi \in Nat \ {0} /\ li \in Nat
  /\ chunk \in Pieces /\ cur \in Pieces /\ windows \in Seq(Pieces)
  /\ truncated \in BOOLEAN /\ scanned \in Nat

(* The window being built goes on where the finished ones end.              *)
Continues ==
  /\ Growing(cur, added) /\ cur.from = EndOf(windows) + 1
  /\ bi <= Len(blocks) + 1

(* splitBlock: the chunk goes on where the window ends, within the block.   *)
Splitting ==
  /\ bi <= Len(blocks)
  /\ blocks[bi].path = cur.path /\ chunk.path = cur.path
  /\ chunk.from = cur.to + 1 /\ li = chunk.to + 1 /\ chunk.from <= li
  /\ chunk.from >= blocks[bi].first /\ li <= blocks[bi].last + 1
  /\ chunk.from = li => chunk.tok = Tokens(HeaderSize[chunk.path])
                        /\ chunk.chars = HeaderSize[chunk.path]
  /\ chunk.from < li => /\ chunk.tok > Tokens(HeaderSize[chunk.path])
                        /\ chunk.tok <= Budget \/ chunk.from = chunk.to
  /\ chunk.chars > 0 /\ Tokens(chunk.chars) <= chunk.tok

Early == {"rules", "skipped", "blocks", "lines", "cut"}

PlanInv ==
  /\ WalkInv /\ BlocksTile /\ PlanTypes
  /\ GoodWindows(windows, added)
  /\ deep = "rules" => bi = 1 /\ cur = Nothing(NoPath, 0) /\ windows = <<>>
  /\ deep # "rules" => scan = "walked"
  /\ deep \in {"blocks", "lines"} => Continues
  /\ deep = "blocks" => cur.to = Before(blocks, bi)
  /\ deep = "lines" => Splitting
  /\ deep \in Early => scanned = 0 /\ ~truncated
  /\ ~truncated => Covers(windows)
  /\ (Planned /\ ~truncated) => EndOf(windows) = Len(added)
  /\ scanned <= Len(windows) /\ (deep = "complete" => scanned = Len(windows))

LEMMA PlanInit == Init => PlanInv
<1> SUFFICES ASSUME Init PROVE PlanInv
  OBVIOUS
<1>1. WalkInv
  BY WalkInit DEF Init
<1>2. BlocksTile
  BY DEF Init, DiffInit, BlocksTile, Before
<1>3. Nothing(NoPath, 0) \in Pieces
  <2>1. NoPath \in AllPaths /\ 0 + 1 \in Nat /\ 0 \in Nat
    BY DEF AllPaths, NewPaths
  <2> QED
    BY <2>1, PieceType DEF Nothing
<1>4. PlanTypes
  <2>1. /\ deep = "rules" /\ bi = 1 /\ li = 1 /\ windows = <<>>
        /\ chunk = Nothing(NoPath, 0) /\ cur = Nothing(NoPath, 0)
        /\ truncated = FALSE /\ scanned = 0
    BY DEF Init
  <2>2. "rules" \in Phases /\ <<>> \in Seq(Pieces)
    BY DEF Phases
  <2>3. truncated \in BOOLEAN
    BY <2>1
  <2>4. windows \in Seq(Pieces) /\ deep \in Phases
    BY <2>1, <2>2
  <2>5. bi \in Nat \ {0} /\ li \in Nat /\ scanned \in Nat
    BY <2>1
  <2>6. chunk \in Pieces /\ cur \in Pieces
    BY <1>3, <2>1
  <2> QED
    BY <2>3, <2>4, <2>5, <2>6 DEF PlanTypes
<1>5. GoodWindows(windows, added) /\ Covers(windows) /\ Len(windows) = 0
  BY NoWindows DEF Init
<1>6. ~Planned
  BY DEF Init, Planned
<1> QED
  BY <1>1, <1>2, <1>4, <1>5, <1>6 DEF PlanInv, Init

(* A block lies between its neighbours, and its lines are added lines.      *)
LEMMA BlockBounds ==
  ASSUME WalkInv, BlocksTile, NEW b \in 1..Len(blocks)
  PROVE  /\ blocks[b].path \in AllPaths /\ blocks[b].size \in Nat
         /\ blocks[b].first \in Nat /\ blocks[b].last \in Nat
         /\ blocks[b].first = Before(blocks, b) + 1 /\ Before(blocks, b) \in Nat
         /\ blocks[b].first <= blocks[b].last /\ blocks[b].last <= Len(added)
         /\ \A n \in blocks[b].first .. blocks[b].last :
              n \in 1..Len(added) /\ added[n].path = blocks[b].path
         /\ Before(blocks, b + 1) = blocks[b].last
<1>1. WalkTypes /\ Len(blocks) \in Nat /\ Len(added) \in Nat
  BY DEF WalkInv, WalkTypes
<1>2. /\ blocks[b].path \in AllPaths /\ blocks[b].size \in Nat
      /\ blocks[b].first \in Nat /\ blocks[b].last \in Nat
  BY <1>1, BlockType
<1>3. /\ blocks[b].first = Before(blocks, b) + 1
      /\ blocks[b].first <= blocks[b].last /\ blocks[b].last <= Len(added)
      /\ \A n \in blocks[b].first .. blocks[b].last : added[n].path = blocks[b].path
  BY DEF BlocksTile
<1>4. Before(blocks, b) \in Nat
  <2>1. b # 1 => b - 1 \in 1..Len(blocks)
    BY <1>1
  <2>2. b # 1 => blocks[b - 1].last \in Nat
    BY <1>1, <2>1, BlockType
  <2> QED
    BY <2>2 DEF Before
<1>5. Before(blocks, b + 1) = blocks[b].last
  <2>1. b + 1 # 1 /\ (b + 1) - 1 = b
    BY <1>1
  <2> QED
    BY <2>1 DEF Before
<1>6. \A n \in blocks[b].first .. blocks[b].last : n \in 1..Len(added)
  BY <1>1, <1>2, <1>3, <1>4
<1> QED
  BY <1>2, <1>3, <1>4, <1>5, <1>6

LEMMA PathSizes ==
  \A p \in AllPaths : /\ HeaderSize[p] \in Nat \ {0}
                      /\ Tokens(HeaderSize[p]) \in Nat \ {0}
<1> SUFFICES ASSUME NEW p \in AllPaths
             PROVE  HeaderSize[p] \in Nat \ {0} /\ Tokens(HeaderSize[p]) \in Nat \ {0}
  OBVIOUS
<1>1. HeaderSize[p] \in Nat \ {0}
  BY HeaderAssumption
<1> QED
  BY <1>1, TokensType

(* The window being built is finished, if there is anything in it.          *)
LEMMA Flushed ==
  ASSUME PlanInv, Continues
  PROVE  /\ GoodWindows(FlushedWindows, added) /\ EndOf(FlushedWindows) = cur.to
         /\ Covers(windows) => Covers(FlushedWindows)
<1>1. /\ cur \in Pieces /\ windows \in Seq(Pieces) /\ GoodWindows(windows, added)
      /\ Growing(cur, added) /\ cur.from = EndOf(windows) + 1
  BY DEF PlanInv, PlanTypes, Continues
<1>2. /\ cur.from \in Nat /\ cur.to \in Nat /\ cur.chars \in Nat /\ cur.tok \in Nat
      /\ EndOf(windows) \in Nat /\ Budget \in Nat
  BY <1>1, PieceType, EndOfType, BudgetType
<1>3. CASE cur.from <= cur.to
  <2>1. Whose(cur, added) /\ cur.chars > 0
    BY <1>1, <1>3 DEF Growing
  <2>2. Tokens(cur.chars) <= cur.tok /\ (cur.tok <= Budget \/ cur.from = cur.to)
    BY <1>1, <1>3 DEF Growing
  <2>3. Tokens(cur.chars) \in Nat
    BY <1>2, TokensType
  <2>4. Fits(cur)
    BY <1>2, <2>2, <2>3 DEF Fits
  <2>5. Finished(cur, added)
    BY <1>3, <2>1, <2>4 DEF Finished
  <2> QED
    BY <1>1, <2>1, <2>5, OneMoreWindow DEF FlushedWindows
<1>4. CASE cur.from > cur.to
  <2>1. cur.chars = 0 /\ cur.from <= cur.to + 1
    BY <1>1, <1>4 DEF Growing
  <2>2. EndOf(windows) = cur.to
    BY <1>1, <1>2, <1>4, <2>1
  <2>3. FlushedWindows = windows
    BY <2>1 DEF FlushedWindows
  <2> QED
    BY <1>1, <2>2, <2>3
<1> QED
  BY <1>2, <1>3, <1>4

(* A finished chunk that goes on where the window being built ends.         *)
LEMMA Written ==
  ASSUME PlanInv, Continues, NEW c \in Pieces, Finished(c, added), c.chars > 0,
         c.from = cur.to + 1, c.path = cur.path, Write(c)
  PROVE  /\ cur' \in Pieces /\ cur'.path = cur.path /\ cur'.to = c.to
         /\ Growing(cur', added) /\ cur'.from = EndOf(windows') + 1
         /\ GoodWindows(windows', added)
         /\ Covers(windows) => Covers(windows')
<1> DEFINE t == Tokens(c.chars)
           full == cur.tok > 0 /\ cur.tok + t > Budget
           fresh == Piece(cur.path, c.from, c.to, c.chars, t)
           more == Piece(cur.path, cur.from, c.to, cur.chars + c.chars, cur.tok + t)
<1>1. /\ cur \in Pieces /\ windows \in Seq(Pieces) /\ GoodWindows(windows, added)
      /\ Growing(cur, added) /\ cur.from = EndOf(windows) + 1
  BY DEF PlanInv, PlanTypes, Continues
<1>2. /\ cur.path \in AllPaths /\ cur.from \in Nat /\ cur.to \in Nat
      /\ cur.chars \in Nat /\ cur.tok \in Nat
      /\ c.from \in Nat /\ c.to \in Nat /\ c.chars \in Nat
      /\ EndOf(windows) \in Nat /\ Budget \in Nat
  BY <1>1, PieceType, EndOfType, BudgetType
<1>3. t \in Nat /\ t > 0
  BY <1>2, TokensType
<1>4. /\ c.from <= c.to /\ c.to <= Len(added)
      /\ \A n \in c.from .. c.to : added[n].path = cur.path
      /\ t <= Budget \/ c.from = c.to
  BY DEF Finished, Whose, Fits
<1>5. /\ windows' = IF full THEN FlushedWindows ELSE windows
      /\ cur' = IF full THEN fresh ELSE more
  BY DEF Write
<1>6. fresh \in Pieces /\ more \in Pieces
  <2>1. cur.chars + c.chars \in Nat /\ cur.tok + t \in Nat
    BY <1>2, <1>3
  <2> QED
    BY <1>2, <1>3, <2>1, PieceType
<1>7. /\ fresh.path = cur.path /\ fresh.from = c.from /\ fresh.to = c.to
      /\ fresh.chars = c.chars /\ fresh.tok = t
      /\ more.path = cur.path /\ more.from = cur.from /\ more.to = c.to
      /\ more.chars = cur.chars + c.chars /\ more.tok = cur.tok + t
  BY DEF Piece
<1>8. t = Tokens(c.chars)
  OBVIOUS
<1> HIDE DEF t, fresh, more
<1>9. CASE full
  <2>1. Growing(fresh, added)
    BY <1>2, <1>3, <1>4, <1>7, <1>8, SMTT(30) DEF Growing, Whose
  <2>2. /\ GoodWindows(FlushedWindows, added) /\ EndOf(FlushedWindows) = cur.to
        /\ Covers(windows) => Covers(FlushedWindows)
    BY Flushed
  <2> QED
    BY <1>5, <1>6, <1>7, <1>9, <2>1, <2>2
<1>10. CASE ~full
  <2>1. /\ cur.from <= cur.to + 1 /\ \A n \in cur.from .. cur.to : added[n].path = cur.path
        /\ cur.from > cur.to => cur.chars = 0 /\ cur.tok = 0
        /\ cur.from <= cur.to => cur.tok > 0 /\ Tokens(cur.chars) <= cur.tok
    BY <1>1 DEF Growing, Whose
  <2>2. more.from <= more.to /\ more.chars > 0 /\ more.tok > 0
    <3>1. more.chars > 0
      BY <1>2, <1>7
    <3>2. more.tok > 0
      BY <1>2, <1>3, <1>7
    <3>3. more.from <= more.to
      BY <1>2, <1>4, <1>7, <2>1
    <3> QED
      BY <3>1, <3>2, <3>3
  <2>3. Whose(more, added)
    <3>1. ASSUME NEW n \in cur.from .. c.to PROVE added[n].path = cur.path
      <4>1. n \in cur.from .. cur.to \/ n \in c.from .. c.to
        BY <1>2
      <4> QED
        BY <1>4, <2>1, <4>1
    <3> QED
      BY <1>4, <1>7, <3>1 DEF Whose
  <2>4. Tokens(more.chars) <= more.tok
    <3>1. CASE cur.from > cur.to
      <4>1. more.chars = c.chars /\ more.tok = t
        BY <1>2, <1>3, <1>7, <2>1, <3>1
      <4> QED
        BY <1>3, <1>8, <4>1
    <3>2. CASE cur.from <= cur.to
      <4>1. Tokens(cur.chars + c.chars) <= Tokens(cur.chars) + Tokens(c.chars)
        BY <1>2, TokensAdd
      <4>2. Tokens(cur.chars) \in Nat /\ Tokens(cur.chars + c.chars) \in Nat
        BY <1>2, TokensType
      <4> QED
        BY <1>2, <1>3, <1>7, <1>8, <2>1, <3>2, <4>1, <4>2
    <3> QED
      BY <1>2, <3>1, <3>2
  <2>5. more.tok <= Budget \/ more.from = more.to
    <3>1. CASE cur.tok > 0
      BY <1>2, <1>3, <1>7, <1>10, <3>1
    <3>2. CASE cur.tok = 0
      <4>1. cur.from = c.from
        BY <1>2, <2>1, <3>2
      <4> QED
        BY <1>2, <1>3, <1>4, <1>7, <3>2, <4>1
    <3> QED
      BY <1>2, <3>1, <3>2
  <2>6. Growing(more, added)
    <3>1. more.from \in Nat /\ more.to \in Nat
      BY <1>2, <1>7
    <3> QED
      BY <2>2, <2>3, <2>4, <2>5, <3>1 DEF Growing
  <2> QED
    BY <1>1, <1>5, <1>6, <1>7, <1>10, <2>6
<1> QED
  BY <1>9, <1>10

(* A step of the plan leaves the diff alone.                                *)
LEMMA SameDiff ==
  ASSUME PlanInv, UNCHANGED diffVars
  PROVE  /\ WalkInv' /\ BlocksTile' /\ blocks' = blocks /\ added' = added /\ scan' = scan
         /\ WalkTypes /\ Len(blocks) \in Nat /\ Len(added) \in Nat
<1>1. WalkInv' /\ BlocksTile'
  BY WalkStep, BlockStep DEF PlanInv
<1>2. WalkTypes
  BY DEF PlanInv, WalkInv
<1>3. Len(blocks) \in Nat /\ Len(added) \in Nat
  BY <1>2 DEF WalkTypes
<1> QED
  BY <1>1, <1>2, <1>3 DEF diffVars, walkVars

LEMMA ReadingTheDiff ==
  ASSUME PlanInv, ReadLine, UNCHANGED <<deep, planVars, scanned>>
  PROVE  PlanInv'
<1>1. scan # "walked"
  BY DEF ReadLine, DiffGitLine, NewPathLine, HunkLine, AddedLine, AddedLookalike,
         OverlongLine, OverlongOther, ContextLine, BareLine, IgnoredLine, EndOfDiff, Read
<1>2. deep = "rules"
  BY <1>1 DEF PlanInv
<1>3. bi = 1 /\ cur = Nothing(NoPath, 0) /\ windows = <<>> /\ scanned = 0 /\ ~truncated
  BY <1>2 DEF PlanInv, Early
<1>4. WalkInv' /\ BlocksTile'
  BY WalkStep, BlockStep DEF PlanInv
<1>5. PlanTypes'
  BY DEF PlanInv, PlanTypes, planVars
<1>6. GoodWindows(windows', added') /\ Covers(windows') /\ Len(windows') = 0
  BY <1>3, NoWindows DEF planVars
<1>7. /\ deep' = "rules" /\ bi' = 1 /\ cur' = Nothing(NoPath, 0) /\ windows' = <<>>
      /\ scanned' = 0 /\ ~truncated'
  BY <1>2, <1>3 DEF planVars
<1>8. ~Planned'
  BY <1>7 DEF Planned
<1> QED
  BY <1>4, <1>5, <1>6, <1>7, <1>8 DEF PlanInv

LEMMA StartingOut ==
  ASSUME PlanInv, Skip \/ Plan
  PROVE  PlanInv'
<1>1. /\ deep = "rules" /\ scan = "walked" /\ deep' \in {"skipped", "blocks"}
      /\ UNCHANGED diffVars /\ UNCHANGED <<planVars, scanned>>
  BY DEF Skip, Plan, Go
<1>2. /\ WalkInv' /\ BlocksTile' /\ blocks' = blocks /\ added' = added /\ scan' = scan
      /\ Len(blocks) \in Nat /\ Len(added) \in Nat
  BY <1>1, SameDiff
<1>3. bi = 1 /\ cur = Nothing(NoPath, 0) /\ windows = <<>> /\ scanned = 0 /\ ~truncated
  BY <1>1 DEF PlanInv, Early
<1>4. /\ bi' = 1 /\ cur' = Nothing(NoPath, 0) /\ windows' = <<>> /\ scanned' = 0
      /\ ~truncated'
  BY <1>1, <1>3 DEF planVars
<1>5. deep' \in Phases
  BY <1>1 DEF Phases, Statuses
<1>6. PlanTypes'
  BY <1>1, <1>5 DEF PlanInv, PlanTypes, planVars
<1>7. GoodWindows(windows', added') /\ Covers(windows') /\ EndOf(windows') = 0 /\ Len(windows') = 0
  BY <1>4, NoWindows
<1>8. cur'.from = 1 /\ cur'.to = 0 /\ cur'.chars = 0 /\ cur'.tok = 0
  BY <1>4 DEF Nothing, Piece
<1>9. Continues'
  <2>1. Growing(cur', added')
    BY <1>2, <1>8 DEF Growing, Whose
  <2> QED
    BY <1>2, <1>4, <1>7, <1>8, <2>1 DEF Continues
<1>10. cur'.to = Before(blocks', bi')
  BY <1>4, <1>8 DEF Before
<1>11. ~Planned'
  BY <1>1 DEF Planned
<1> QED
  BY <1>1, <1>2, <1>4, <1>6, <1>7, <1>9, <1>10, <1>11 DEF PlanInv

(* What a step among the blocks begins with, and what it has to show.       *)
LEMMA Planning ==
  ASSUME PlanInv, deep \in {"blocks", "lines"}, UNCHANGED diffVars
  PROVE  /\ Continues /\ scan = "walked" /\ scanned = 0 /\ ~truncated /\ Covers(windows)
         /\ PlanTypes /\ GoodWindows(windows, added)
         /\ Len(blocks) \in Nat /\ Len(added) \in Nat /\ bi \in Nat \ {0}
         /\ blocks' = blocks /\ added' = added
  BY SameDiff DEF PlanInv, Early, PlanTypes

LEMMA StillPlanning ==
  ASSUME PlanInv, deep \in {"blocks", "lines"}, UNCHANGED diffVars,
         deep' \in {"blocks", "lines"}, UNCHANGED <<truncated, scanned>>,
         PlanTypes', GoodWindows(windows', added), Covers(windows'),
         Continues', deep' = "blocks" => cur'.to = Before(blocks, bi'),
         deep' = "lines" => Splitting'
  PROVE  PlanInv'
<1>1. WalkInv' /\ BlocksTile' /\ blocks' = blocks /\ added' = added /\ scan' = scan
  BY SameDiff
<1>2. scan = "walked" /\ scanned = 0 /\ ~truncated
  BY Planning
<1>3. ~Planned' /\ deep' # "rules" /\ deep' # "complete"
  BY DEF Planned
<1>4. scanned' <= Len(windows')
  BY <1>2, EndOfType DEF PlanTypes
<1> QED
  BY <1>1, <1>2, <1>3, <1>4 DEF PlanInv

LEMMA ChangingFile ==
  ASSUME PlanInv, ChangeFile
  PROVE  PlanInv'
<1>1. /\ deep = "blocks" /\ deep' = "blocks" /\ UNCHANGED diffVars
      /\ UNCHANGED <<bi, li, chunk, truncated, scanned>>
      /\ windows' = FlushedWindows /\ cur' = Nothing(blocks[bi].path, cur.to)
      /\ bi <= Len(blocks)
  BY DEF ChangeFile, Go
<1>2. /\ Continues /\ Covers(windows) /\ PlanTypes
      /\ Len(blocks) \in Nat /\ Len(added) \in Nat /\ bi \in Nat \ {0}
      /\ blocks' = blocks /\ added' = added
  BY <1>1, Planning
<1>3. /\ GoodWindows(windows', added) /\ EndOf(windows') = cur.to /\ Covers(windows')
  BY <1>1, <1>2, Flushed
<1>4. blocks[bi].path \in AllPaths /\ cur.to \in Nat /\ cur.to <= Len(added)
  <2>1. bi \in 1..Len(blocks)
    BY <1>1, <1>2
  <2> QED
    BY <1>2, <2>1, BlockBounds, PieceType DEF PlanInv, PlanTypes, Continues, Growing, Whose
<1>5. /\ cur' \in Pieces /\ cur'.from = cur.to + 1 /\ cur'.to = cur.to
      /\ cur'.chars = 0 /\ cur'.tok = 0
  <2>1. cur.to + 1 \in Nat /\ 0 \in Nat
    BY <1>4
  <2> QED
    BY <1>1, <1>4, <2>1, PieceType DEF Nothing, Piece
<1>6. PlanTypes'
  BY <1>1, <1>2, <1>3, <1>5 DEF PlanTypes, GoodWindows
<1>7. Continues'
  <2>1. Growing(cur', added)
    BY <1>4, <1>5 DEF Growing, Whose
  <2> QED
    BY <1>1, <1>2, <1>3, <1>5, <2>1 DEF Continues
<1>8. cur'.to = Before(blocks, bi')
  BY <1>1, <1>5 DEF PlanInv
<1> QED
  BY <1>1, <1>2, <1>3, <1>6, <1>7, <1>8, StillPlanning

LEMMA WritingBlock ==
  ASSUME PlanInv, WriteBlock
  PROVE  PlanInv'
<1> DEFINE b == blocks[bi]
           c == Piece(b.path, b.first, b.last, Whole(b), Tokens(Whole(b)))
<1>1. /\ deep = "blocks" /\ deep' = "blocks" /\ UNCHANGED diffVars
      /\ UNCHANGED <<li, chunk, truncated, scanned>> /\ bi' = bi + 1
      /\ bi <= Len(blocks) /\ b.path = cur.path /\ Tokens(Whole(b)) <= Budget
      /\ Write(c)
  BY DEF WriteBlock, Go
<1>2. /\ Continues /\ Covers(windows) /\ PlanTypes
      /\ Len(blocks) \in Nat /\ Len(added) \in Nat /\ bi \in Nat \ {0}
      /\ blocks' = blocks /\ added' = added
  BY <1>1, Planning
<1>3. /\ b.path \in AllPaths /\ b.size \in Nat /\ b.first \in Nat /\ b.last \in Nat
      /\ b.first = Before(blocks, bi) + 1 /\ Before(blocks, bi) \in Nat
      /\ b.first <= b.last /\ b.last <= Len(added)
      /\ \A n \in b.first .. b.last : added[n].path = b.path
      /\ Before(blocks, bi + 1) = b.last
  <2>1. bi \in 1..Len(blocks)
    BY <1>1, <1>2
  <2> QED
    BY <2>1, BlockBounds DEF PlanInv
<1>4. Whole(b) \in Nat /\ Whole(b) > 0 /\ Tokens(Whole(b)) \in Nat
  <2>1. HeaderSize[b.path] \in Nat \ {0}
    BY <1>3, PathSizes
  <2>2. Whole(b) \in Nat /\ Whole(b) > 0
    BY <1>3, <2>1 DEF Whole
  <2> QED
    BY <2>2, TokensType
<1>5. /\ c \in Pieces /\ c.path = b.path /\ c.from = b.first /\ c.to = b.last
      /\ c.chars = Whole(b)
  BY <1>3, <1>4, PieceType DEF Piece
<1>6. cur.to = Before(blocks, bi)
  BY <1>1 DEF PlanInv
<1>7. b.path = cur.path /\ Tokens(Whole(b)) <= Budget /\ Write(c)
  BY <1>1
<1> HIDE DEF b, c
<1>8. Finished(c, added)
  BY <1>3, <1>5, <1>7 DEF Finished, Whose, Fits
<1>9. /\ cur' \in Pieces /\ cur'.to = c.to
      /\ Growing(cur', added) /\ cur'.from = EndOf(windows') + 1
      /\ GoodWindows(windows', added) /\ (Covers(windows) => Covers(windows'))
  <2>1. c.from = cur.to + 1 /\ c.path = cur.path /\ c.chars > 0
    BY <1>3, <1>4, <1>5, <1>6, <1>7
  <2> QED
    BY <1>2, <1>5, <1>7, <1>8, <2>1, Written
<1>10. PlanTypes'
  <2>1. bi' \in Nat \ {0}
    BY <1>1, <1>2
  <2> QED
    BY <1>1, <1>2, <1>9, <2>1 DEF PlanTypes, GoodWindows
<1>11. Continues'
  <2>1. bi' <= Len(blocks) + 1
    BY <1>1, <1>2
  <2> QED
    BY <1>2, <1>9, <2>1 DEF Continues
<1>12. cur'.to = Before(blocks, bi')
  BY <1>1, <1>3, <1>5, <1>9
<1> QED
  BY <1>1, <1>2, <1>9, <1>10, <1>11, <1>12, StillPlanning

LEMMA SplittingBlock ==
  ASSUME PlanInv, SplitBlock
  PROVE  PlanInv'
<1> DEFINE b == blocks[bi]
<1>1. /\ deep = "blocks" /\ deep' = "lines" /\ UNCHANGED diffVars
      /\ UNCHANGED <<bi, cur, windows, truncated, scanned>>
      /\ bi <= Len(blocks) /\ b.path = cur.path
      /\ li' = b.first /\ chunk' = Header(b.path, b.first - 1)
  BY DEF SplitBlock, Go
<1>2. /\ Continues /\ Covers(windows) /\ PlanTypes /\ GoodWindows(windows, added)
      /\ Len(blocks) \in Nat /\ Len(added) \in Nat /\ bi \in Nat \ {0}
      /\ blocks' = blocks /\ added' = added
  BY <1>1, Planning
<1>3. /\ b.path \in AllPaths /\ b.first \in Nat /\ b.last \in Nat
      /\ b.first = Before(blocks, bi) + 1 /\ Before(blocks, bi) \in Nat
      /\ b.first <= b.last
  <2>1. bi \in 1..Len(blocks)
    BY <1>1, <1>2
  <2> QED
    BY <2>1, BlockBounds DEF PlanInv
<1>4. cur.to = Before(blocks, bi)
  BY <1>1 DEF PlanInv
<1>5. /\ HeaderSize[b.path] \in Nat \ {0} /\ Tokens(HeaderSize[b.path]) \in Nat \ {0}
  BY <1>3, PathSizes
<1>6. b.path = cur.path /\ li' = b.first /\ chunk' = Header(b.path, b.first - 1)
  BY <1>1
<1>7. blocks'[bi'] = b
  BY <1>1, <1>2
<1> HIDE DEF b
<1>8. /\ chunk' \in Pieces /\ chunk'.path = b.path
      /\ chunk'.from = b.first /\ chunk'.to = b.first - 1
      /\ chunk'.chars = HeaderSize[b.path] /\ chunk'.tok = Tokens(HeaderSize[b.path])
  <2>1. b.first - 1 \in Nat /\ (b.first - 1) + 1 = b.first
    BY <1>3
  <2>2. chunk' = Piece(b.path, b.first, b.first - 1, HeaderSize[b.path],
                       Tokens(HeaderSize[b.path]))
    BY <1>6, <2>1 DEF Header
  <2> QED
    BY <1>3, <1>5, <2>1, <2>2, PieceType DEF Piece
<1>9. PlanTypes'
  <2>1. deep' \in Phases /\ li' \in Nat
    BY <1>1, <1>3, <1>6 DEF Phases
  <2>2. UNCHANGED <<bi, cur, windows, truncated, scanned>>
    BY <1>1
  <2>3. PlanTypes
    BY <1>2
  <2> QED
    BY <1>8, <2>1, <2>2, <2>3 DEF PlanTypes
<1>10. Continues' /\ GoodWindows(windows', added) /\ Covers(windows')
  <2>1. windows' = windows /\ cur' = cur /\ bi' = bi /\ blocks' = blocks /\ added' = added
    BY <1>1, <1>2
  <2> QED
    BY <1>2, <2>1 DEF Continues
<1>11. Splitting'
  BY <1>1, <1>2, <1>3, <1>4, <1>5, <1>6, <1>7, <1>8 DEF Splitting
<1>12. /\ deep \in {"blocks", "lines"} /\ deep' = "lines" /\ UNCHANGED diffVars
       /\ UNCHANGED <<truncated, scanned>>
  BY <1>1
<1> QED
  BY <1>9, <1>10, <1>11, <1>12, StillPlanning

(* What splitBlock knows at each line.                                      *)
LEMMA AtALine ==
  ASSUME PlanInv, deep = "lines", UNCHANGED diffVars
  PROVE  /\ bi \in 1..Len(blocks) /\ Splitting /\ Continues /\ Covers(windows)
         /\ GoodWindows(windows, added) /\ PlanTypes
         /\ li \in Nat /\ bi \in Nat \ {0}
         /\ chunk.path \in AllPaths /\ chunk.from \in Nat /\ chunk.to \in Nat
         /\ chunk.chars \in Nat /\ chunk.tok \in Nat
         /\ blocks[bi].first \in Nat /\ blocks[bi].last \in Nat /\ blocks[bi].first > 0
         /\ blocks[bi].last <= Len(added) /\ Len(added) \in Nat /\ Len(blocks) \in Nat
         /\ \A n \in blocks[bi].first .. blocks[bi].last :
              n \in 1..Len(added) /\ added[n].path = blocks[bi].path
         /\ Before(blocks, bi + 1) = blocks[bi].last
         /\ blocks' = blocks /\ added' = added
         /\ HeaderSize[chunk.path] \in Nat \ {0}
         /\ Tokens(HeaderSize[chunk.path]) \in Nat \ {0}
<1>1. /\ Continues /\ Covers(windows) /\ PlanTypes /\ GoodWindows(windows, added)
      /\ Len(blocks) \in Nat /\ Len(added) \in Nat /\ bi \in Nat \ {0}
      /\ blocks' = blocks /\ added' = added
  BY Planning
<1>2. Splitting
  BY DEF PlanInv
<1>3. bi \in 1..Len(blocks)
  BY <1>1, <1>2 DEF Splitting
<1>4. chunk \in Pieces /\ li \in Nat
  BY <1>1 DEF PlanTypes
<1>5. /\ chunk.path \in AllPaths /\ chunk.from \in Nat /\ chunk.to \in Nat
      /\ chunk.chars \in Nat /\ chunk.tok \in Nat
  BY <1>4, PieceType
<1>6. /\ blocks[bi].first \in Nat /\ blocks[bi].last \in Nat
      /\ blocks[bi].first = Before(blocks, bi) + 1 /\ Before(blocks, bi) \in Nat
      /\ blocks[bi].last <= Len(added)
      /\ \A n \in blocks[bi].first .. blocks[bi].last :
           n \in 1..Len(added) /\ added[n].path = blocks[bi].path
      /\ Before(blocks, bi + 1) = blocks[bi].last
  BY <1>3, BlockBounds DEF PlanInv
<1>7. HeaderSize[chunk.path] \in Nat \ {0} /\ Tokens(HeaderSize[chunk.path]) \in Nat \ {0}
  BY <1>5, PathSizes
<1>8. blocks[bi].first > 0
  BY <1>6
<1> QED
  BY <1>1, <1>2, <1>3, <1>4, <1>5, <1>6, <1>7, <1>8

(* One more line in a chunk.                                                *)
LEMMA OneMoreLine ==
  ASSUME WalkTypes, NEW n \in 1..Len(added), NEW c \in Pieces,
         Tokens(c.chars) <= c.tok
  PROVE  /\ LineTokens(n) \in Nat /\ LineTokens(n) > 0
         /\ WithLine(c, n) \in Pieces
         /\ WithLine(c, n).path = c.path /\ WithLine(c, n).from = c.from
         /\ WithLine(c, n).to = n /\ WithLine(c, n).chars > 0
         /\ WithLine(c, n).tok = c.tok + LineTokens(n)
         /\ Tokens(WithLine(c, n).chars) <= WithLine(c, n).tok
<1> DEFINE s == Size[added[n].text]
           w == WithLine(c, n)
<1>1. s \in Nat
  <2>1. added[n] \in Places
    BY ElementOfSeq DEF WalkTypes
  <2>2. added[n].text \in Texts
    BY <2>1 DEF Places
  <2> QED
    BY <2>2, SizeAssumption
<1>2. /\ c.path \in AllPaths /\ c.from \in Nat /\ c.chars \in Nat /\ c.tok \in Nat
      /\ n \in Nat
  BY PieceType DEF WalkTypes
<1>3. Tokens(s) \in Nat /\ LineTokens(n) = Tokens(s) + 1
  BY <1>1, TokensType DEF LineTokens
<1>4. w = Piece(c.path, c.from, n, c.chars + s + 1, c.tok + LineTokens(n))
  BY DEF WithLine
<1> HIDE DEF s, w
<1>5. /\ w.path = c.path /\ w.from = c.from /\ w.to = n
      /\ w.chars = c.chars + s + 1 /\ w.tok = c.tok + LineTokens(n)
  BY <1>4 DEF Piece
<1>6. c.chars + s + 1 \in Nat /\ c.tok + LineTokens(n) \in Nat /\ c.chars + s \in Nat
  BY <1>1, <1>2, <1>3, SMTT(30)
<1>7. w \in Pieces
  BY <1>2, <1>4, <1>6, PieceType
<1>8. Tokens(w.chars) <= w.tok
  <2>1. /\ Tokens(c.chars + s) <= Tokens(c.chars) + Tokens(s)
        /\ Tokens((c.chars + s) + 1) <= Tokens(c.chars + s) + 1
    BY <1>1, <1>2, <1>6, TokensAdd
  <2>2. Tokens(c.chars) \in Nat /\ Tokens(c.chars + s) \in Nat /\ Tokens(w.chars) \in Nat
    BY <1>2, <1>5, <1>6, TokensType
  <2>3. w.chars = (c.chars + s) + 1
    BY <1>1, <1>2, <1>5
  <2> QED
    BY <1>2, <1>3, <1>5, <2>1, <2>2, <2>3
<1>9. w.chars > 0
  BY <1>1, <1>2, <1>5
<1> QED
  BY <1>3, <1>5, <1>7, <1>8, <1>9 DEF w

(* The chunk can be written once it holds a line.                           *)
LEMMA ChunkIsFinished ==
  ASSUME PlanInv, deep = "lines", UNCHANGED diffVars, HoldsLine(chunk)
  PROVE  /\ chunk \in Pieces /\ Finished(chunk, added) /\ chunk.chars > 0
         /\ chunk.from = cur.to + 1 /\ chunk.path = cur.path
<1>1. /\ bi \in 1..Len(blocks) /\ Splitting /\ PlanTypes /\ li \in Nat
      /\ chunk.path \in AllPaths /\ chunk.from \in Nat /\ chunk.to \in Nat
      /\ chunk.chars \in Nat /\ chunk.tok \in Nat
      /\ blocks[bi].first \in Nat /\ blocks[bi].last \in Nat
      /\ blocks[bi].last <= Len(added) /\ Len(added) \in Nat
      /\ \A n \in blocks[bi].first .. blocks[bi].last :
           n \in 1..Len(added) /\ added[n].path = blocks[bi].path
      /\ Tokens(HeaderSize[chunk.path]) \in Nat \ {0}
  BY AtALine
<1>2. /\ blocks[bi].path = cur.path /\ chunk.path = cur.path
      /\ chunk.from = cur.to + 1 /\ li = chunk.to + 1 /\ chunk.from <= li
      /\ chunk.from >= blocks[bi].first /\ li <= blocks[bi].last + 1
      /\ chunk.chars > 0 /\ Tokens(chunk.chars) <= chunk.tok
      /\ chunk.from = li => chunk.tok = Tokens(HeaderSize[chunk.path])
      /\ chunk.from < li => chunk.tok <= Budget \/ chunk.from = chunk.to
  BY <1>1 DEF Splitting
<1>3. chunk.from < li
  BY <1>1, <1>2 DEF HoldsLine
<1>4. chunk.from <= chunk.to
  BY <1>1, <1>2, <1>3
<1>5. Fits(chunk)
  <2>1. Tokens(chunk.chars) \in Nat /\ Budget \in Nat
    BY <1>1, TokensType, BudgetType
  <2> QED
    BY <1>1, <1>2, <1>3, <2>1 DEF Fits
<1>6. Whose(chunk, added)
  <2>1. \A n \in chunk.from .. chunk.to : n \in blocks[bi].first .. blocks[bi].last
    BY <1>1, <1>2, SMTT(30)
  <2>2. chunk.to <= Len(added)
    BY <1>1, <1>2
  <2> QED
    BY <1>1, <1>2, <2>1, <2>2 DEF Whose
<1> QED
  BY <1>1, <1>2, <1>4, <1>5, <1>6 DEF Finished, PlanTypes

LEMMA AddingLine ==
  ASSUME PlanInv, AddLine
  PROVE  PlanInv'
<1>1. /\ deep = "lines" /\ deep' = "lines" /\ UNCHANGED diffVars
      /\ li <= blocks[bi].last /\ ~(HoldsLine(chunk) /\ chunk.tok + LineTokens(li) > Budget)
      /\ chunk' = WithLine(chunk, li) /\ li' = li + 1
      /\ UNCHANGED <<bi, cur, windows, truncated, scanned>>
  BY DEF AddLine, Go
<1>2. /\ Splitting /\ Continues /\ Covers(windows)
      /\ GoodWindows(windows, added) /\ PlanTypes /\ li \in Nat
      /\ chunk.from \in Nat /\ chunk.to \in Nat /\ chunk.tok \in Nat
      /\ blocks[bi].first \in Nat /\ blocks[bi].last \in Nat /\ blocks[bi].first > 0
      /\ \A n \in blocks[bi].first .. blocks[bi].last : n \in 1..Len(added)
      /\ blocks' = blocks /\ added' = added
      /\ Tokens(HeaderSize[chunk.path]) \in Nat \ {0}
  BY <1>1, AtALine
<1>3. /\ bi <= Len(blocks) /\ blocks[bi].path = cur.path /\ chunk.path = cur.path
      /\ chunk.from = cur.to + 1 /\ li = chunk.to + 1 /\ chunk.from <= li
      /\ chunk.from >= blocks[bi].first
      /\ chunk.from = li => chunk.tok = Tokens(HeaderSize[chunk.path])
      /\ chunk.from < li => chunk.tok > Tokens(HeaderSize[chunk.path])
      /\ Tokens(chunk.chars) <= chunk.tok
  BY <1>2 DEF Splitting
<1>4. li \in 1..Len(added)
  <2>1. li \in blocks[bi].first .. blocks[bi].last
    BY <1>1, <1>2, <1>3
  <2> QED
    BY <1>2, <2>1
<1>5. /\ LineTokens(li) \in Nat /\ LineTokens(li) > 0
      /\ chunk' \in Pieces /\ chunk'.path = chunk.path /\ chunk'.from = chunk.from
      /\ chunk'.to = li /\ chunk'.chars > 0 /\ chunk'.tok = chunk.tok + LineTokens(li)
      /\ Tokens(chunk'.chars) <= chunk'.tok
  <2>1. WalkTypes /\ chunk \in Pieces
    BY <1>2 DEF PlanInv, WalkInv, PlanTypes
  <2> QED
    BY <1>1, <1>3, <1>4, <2>1, OneMoreLine
<1>6. li' = li + 1 /\ bi' = bi /\ cur' = cur /\ windows' = windows
  BY <1>1
<1>7. chunk'.tok <= Budget \/ chunk'.from = chunk'.to
  <2>1. CASE HoldsLine(chunk)
    BY <1>1, <1>2, <1>5, <2>1, BudgetType
  <2>2. CASE ~HoldsLine(chunk)
    <3>1. ~(chunk.tok > Tokens(HeaderSize[chunk.path]))
      BY <2>2 DEF HoldsLine
    <3> QED
      BY <1>2, <1>3, <1>5, <3>1
  <2> QED
    BY <2>1, <2>2
<1>8. Splitting'
  <2>1. chunk'.tok > Tokens(HeaderSize[chunk'.path]) /\ chunk'.from < li'
    BY <1>2, <1>3, <1>5, <1>6, SMTT(30)
  <2>2. chunk'.from # li' /\ chunk'.from <= li' /\ li' = chunk'.to + 1
    BY <1>2, <1>3, <1>5, <1>6, SMTT(30)
  <2>3. li' <= blocks[bi].last + 1
    BY <1>1, <1>2, <1>6
  <2>4. blocks'[bi'] = blocks[bi] /\ Len(blocks') = Len(blocks)
    BY <1>2, <1>6
  <2>5. /\ bi' <= Len(blocks') /\ blocks'[bi'].path = cur'.path /\ chunk'.path = cur'.path
        /\ chunk'.from = cur'.to + 1 /\ chunk'.from >= blocks'[bi'].first
        /\ li' <= blocks'[bi'].last + 1
    BY <1>3, <1>5, <1>6, <2>3, <2>4
  <2> QED
    BY <1>5, <1>7, <2>1, <2>2, <2>5 DEF Splitting
<1>9. PlanTypes'
  <2>1. li' \in Nat /\ deep' = deep
    BY <1>1, <1>2
  <2>2. UNCHANGED <<bi, cur, windows, truncated, scanned>>
    BY <1>1
  <2> QED
    BY <1>2, <1>5, <2>1, <2>2 DEF PlanTypes
<1>10. Continues' /\ GoodWindows(windows', added) /\ Covers(windows')
  BY <1>2, <1>6 DEF Continues
<1>11. /\ deep \in {"blocks", "lines"} /\ deep' = "lines" /\ UNCHANGED diffVars
       /\ UNCHANGED <<truncated, scanned>>
  BY <1>1
<1> QED
  BY <1>8, <1>9, <1>10, <1>11, StillPlanning

LEMMA BreakingChunk ==
  ASSUME PlanInv, BreakChunk
  PROVE  PlanInv'
<1> DEFINE h == Header(chunk.path, li - 1)
<1>1. /\ deep = "lines" /\ deep' = "lines" /\ UNCHANGED diffVars
      /\ li <= blocks[bi].last /\ HoldsLine(chunk) /\ Write(chunk)
      /\ chunk' = WithLine(h, li) /\ li' = li + 1
      /\ UNCHANGED <<bi, truncated, scanned>>
  BY DEF BreakChunk, Go
<1>2. /\ Splitting /\ Continues /\ Covers(windows) /\ PlanTypes /\ li \in Nat
      /\ chunk.path \in AllPaths /\ chunk.from \in Nat /\ chunk.to \in Nat
      /\ blocks[bi].first \in Nat /\ blocks[bi].last \in Nat /\ blocks[bi].first > 0
      /\ \A n \in blocks[bi].first .. blocks[bi].last : n \in 1..Len(added)
      /\ blocks' = blocks /\ added' = added
      /\ HeaderSize[chunk.path] \in Nat \ {0}
      /\ Tokens(HeaderSize[chunk.path]) \in Nat \ {0}
  BY <1>1, AtALine
<1>3. /\ bi <= Len(blocks) /\ blocks[bi].path = cur.path /\ chunk.path = cur.path
      /\ li = chunk.to + 1 /\ chunk.from <= li /\ chunk.from >= blocks[bi].first
  BY <1>2 DEF Splitting
<1>4. li \in 1..Len(added)
  <2>1. li \in blocks[bi].first .. blocks[bi].last
    BY <1>1, <1>2, <1>3
  <2> QED
    BY <1>2, <2>1
<1>5. /\ h \in Pieces /\ h.path = chunk.path /\ h.from = li
      /\ h.tok = Tokens(HeaderSize[chunk.path]) /\ h.chars = HeaderSize[chunk.path]
  <2>1. li - 1 \in Nat /\ (li - 1) + 1 = li
    BY <1>2, <1>4
  <2>2. h = Piece(chunk.path, li, li - 1, HeaderSize[chunk.path],
                  Tokens(HeaderSize[chunk.path]))
    BY <2>1 DEF Header
  <2> QED
    BY <1>2, <2>1, <2>2, PieceType DEF Piece
<1>6. chunk' = WithLine(h, li)
  BY <1>1
<1> HIDE DEF h
<1>7. /\ LineTokens(li) \in Nat /\ LineTokens(li) > 0
      /\ chunk' \in Pieces /\ chunk'.path = chunk.path /\ chunk'.from = li
      /\ chunk'.to = li /\ chunk'.chars > 0 /\ chunk'.tok = h.tok + LineTokens(li)
      /\ Tokens(chunk'.chars) <= chunk'.tok
  <2>1. WalkTypes /\ Tokens(h.chars) <= h.tok
    BY <1>2, <1>5 DEF PlanInv, WalkInv
  <2> QED
    BY <1>4, <1>5, <1>6, <2>1, OneMoreLine
<1>8. /\ cur' \in Pieces /\ cur'.path = cur.path /\ cur'.to = chunk.to
      /\ Growing(cur', added) /\ cur'.from = EndOf(windows') + 1
      /\ GoodWindows(windows', added) /\ (Covers(windows) => Covers(windows'))
  <2>1. /\ chunk \in Pieces /\ Finished(chunk, added) /\ chunk.chars > 0
        /\ chunk.from = cur.to + 1 /\ chunk.path = cur.path
    BY <1>1, ChunkIsFinished
  <2> QED
    BY <1>1, <1>2, <2>1, Written
<1>9. li' = li + 1 /\ bi' = bi
  BY <1>1
<1>10. Splitting'
  <2>1. chunk'.tok > Tokens(HeaderSize[chunk'.path]) /\ chunk'.from < li'
    BY <1>2, <1>5, <1>7, <1>9
  <2>2. chunk'.from # li' /\ chunk'.from <= li' /\ li' = chunk'.to + 1 /\ chunk'.from = chunk'.to
    BY <1>2, <1>7, <1>9
  <2>3. li' <= blocks[bi].last + 1 /\ chunk'.from >= blocks[bi].first
        /\ chunk'.from = cur'.to + 1
    BY <1>1, <1>2, <1>3, <1>7, <1>8, <1>9, SMTT(30)
  <2>4. blocks'[bi'] = blocks[bi] /\ Len(blocks') = Len(blocks)
    BY <1>2, <1>9
  <2>5. /\ bi' <= Len(blocks') /\ blocks'[bi'].path = cur'.path /\ chunk'.path = cur'.path
        /\ chunk'.from = cur'.to + 1 /\ chunk'.from >= blocks'[bi'].first
        /\ li' <= blocks'[bi'].last + 1
    BY <1>3, <1>7, <1>8, <1>9, <2>3, <2>4
  <2> QED
    BY <1>7, <2>1, <2>2, <2>5 DEF Splitting
<1>11. PlanTypes'
  <2>1. li' \in Nat /\ deep' = deep
    BY <1>1, <1>2
  <2>2. UNCHANGED <<bi, truncated, scanned>>
    BY <1>1
  <2> QED
    BY <1>2, <1>7, <1>8, <2>1, <2>2 DEF PlanTypes, GoodWindows
<1>12. Continues'
  BY <1>2, <1>8, <1>9 DEF Continues
<1>13. /\ deep \in {"blocks", "lines"} /\ deep' = "lines" /\ UNCHANGED diffVars
       /\ UNCHANGED <<truncated, scanned>>
  BY <1>1
<1> QED
  BY <1>2, <1>8, <1>10, <1>11, <1>12, <1>13, StillPlanning

LEMMA EndingBlock ==
  ASSUME PlanInv, EndBlock
  PROVE  PlanInv'
<1>1. /\ deep = "lines" /\ deep' = "blocks" /\ UNCHANGED diffVars
      /\ li > blocks[bi].last /\ bi' = bi + 1
      /\ UNCHANGED <<li, chunk, truncated, scanned>>
      /\ HoldsLine(chunk) => Write(chunk)
      /\ ~HoldsLine(chunk) => UNCHANGED <<windows, cur>>
  BY DEF EndBlock, Go
<1>2. /\ bi \in 1..Len(blocks) /\ Splitting /\ Continues /\ Covers(windows)
      /\ GoodWindows(windows, added) /\ PlanTypes /\ li \in Nat /\ bi \in Nat \ {0}
      /\ chunk.path \in AllPaths /\ chunk.from \in Nat /\ chunk.to \in Nat
      /\ blocks[bi].first \in Nat /\ blocks[bi].last \in Nat
      /\ Len(blocks) \in Nat /\ blocks' = blocks /\ added' = added
      /\ Before(blocks, bi + 1) = blocks[bi].last
      /\ Tokens(HeaderSize[chunk.path]) \in Nat \ {0}
  BY <1>1, AtALine
<1>3. /\ chunk.from = cur.to + 1 /\ li = chunk.to + 1 /\ chunk.from <= li
      /\ li <= blocks[bi].last + 1 /\ chunk.path = cur.path
      /\ chunk.from < li => chunk.tok > Tokens(HeaderSize[chunk.path])
  BY <1>2 DEF Splitting
<1>4. cur \in Pieces /\ cur.to \in Nat
  BY <1>2, PieceType DEF PlanTypes
<1>5. chunk.to = blocks[bi].last
  BY <1>1, <1>2, <1>3
<1>6. /\ cur' \in Pieces /\ cur'.to = chunk.to
      /\ Growing(cur', added) /\ cur'.from = EndOf(windows') + 1
      /\ GoodWindows(windows', added) /\ Covers(windows')
  <2>1. CASE HoldsLine(chunk)
    <3>1. /\ chunk \in Pieces /\ Finished(chunk, added) /\ chunk.chars > 0
          /\ chunk.from = cur.to + 1 /\ chunk.path = cur.path
      BY <1>1, <2>1, ChunkIsFinished
    <3> QED
      BY <1>1, <1>2, <2>1, <3>1, Written
  <2>2. CASE ~HoldsLine(chunk)
    <3>1. ~(chunk.tok > Tokens(HeaderSize[chunk.path]))
      BY <2>2 DEF HoldsLine
    <3>2. chunk.from = li
      BY <1>2, <1>3, <3>1
    <3>3. chunk.to = cur.to
      BY <1>2, <1>3, <1>4, <3>2, SMTT(30)
    <3>4. cur' = cur /\ windows' = windows
      BY <1>1, <2>2
    <3> QED
      BY <1>2, <1>4, <3>3, <3>4 DEF Continues
  <2> QED
    BY <2>1, <2>2
<1>7. PlanTypes'
  <2>1. bi' \in Nat \ {0} /\ deep' \in Phases
    BY <1>1, <1>2 DEF Phases
  <2>2. UNCHANGED <<li, chunk, truncated, scanned>>
    BY <1>1
  <2> QED
    BY <1>2, <1>6, <2>1, <2>2 DEF PlanTypes, GoodWindows
<1>8. Continues'
  <2>1. bi' <= Len(blocks) + 1
    BY <1>1, <1>2
  <2> QED
    BY <1>2, <1>6, <2>1 DEF Continues
<1>9. cur'.to = Before(blocks, bi')
  BY <1>1, <1>2, <1>5, <1>6
<1>10. /\ deep \in {"blocks", "lines"} /\ deep' = "blocks" /\ UNCHANGED diffVars
       /\ UNCHANGED <<truncated, scanned>>
  BY <1>1
<1> QED
  BY <1>6, <1>7, <1>8, <1>9, <1>10, StillPlanning

LEMMA EndingPlan ==
  ASSUME PlanInv, EndPlan
  PROVE  PlanInv'
<1>1. /\ deep = "blocks" /\ deep' = "cut" /\ UNCHANGED diffVars /\ bi > Len(blocks)
      /\ windows' = FlushedWindows /\ cur' = Nothing(cur.path, cur.to)
      /\ UNCHANGED <<bi, li, chunk, truncated, scanned>>
  BY DEF EndPlan, Go
<1>2. /\ Continues /\ scan = "walked" /\ scanned = 0 /\ ~truncated /\ Covers(windows)
      /\ PlanTypes /\ Len(blocks) \in Nat /\ bi \in Nat \ {0}
  BY <1>1, Planning
<1>3. WalkInv' /\ BlocksTile' /\ blocks' = blocks /\ added' = added /\ scan' = scan
  BY <1>1, SameDiff
<1>4. /\ GoodWindows(windows', added) /\ EndOf(windows') = cur.to /\ Covers(windows')
  BY <1>1, <1>2, Flushed
<1>5. EndOf(windows') = Len(added)
  <2>1. bi = Len(blocks) + 1
    BY <1>1, <1>2 DEF Continues
  <2>2. cur.to = Before(blocks, bi)
    BY <1>1 DEF PlanInv
  <2>3. Len(added) = Before(blocks, Len(blocks) + 1)
    BY DEF PlanInv, BlocksTile
  <2> QED
    BY <1>4, <2>1, <2>2, <2>3
<1>6. cur' \in Pieces
  <2>1. cur.path \in AllPaths /\ cur.to \in Nat
    BY <1>2, PieceType DEF PlanTypes
  <2>2. cur.to + 1 \in Nat /\ 0 \in Nat
    BY <2>1
  <2> QED
    BY <1>1, <2>1, <2>2, PieceType DEF Nothing
<1>7. PlanTypes'
  <2>1. deep' \in Phases
    BY <1>1 DEF Phases
  <2>2. UNCHANGED <<bi, li, chunk, truncated, scanned>>
    BY <1>1
  <2> QED
    BY <1>2, <1>4, <1>6, <2>1, <2>2 DEF PlanTypes, GoodWindows
<1>8. scanned' = 0 /\ ~truncated' /\ scanned' <= Len(windows')
  <2>1. windows' \in Seq(Pieces)
    BY <1>4 DEF GoodWindows
  <2> QED
    BY <1>1, <1>2, <2>1, EndOfType
<1> QED
  BY <1>1, <1>2, <1>3, <1>4, <1>5, <1>7, <1>8 DEF PlanInv

LEMMA Cutting ==
  ASSUME PlanInv, Cut
  PROVE  PlanInv'
<1> DEFINE over == MaxWindows > 0 /\ Len(windows) > MaxWindows
           kept == IF over THEN SubSeq(windows, 1, MaxWindows) ELSE windows
<1>1. /\ deep = "cut" /\ deep' = (IF kept = <<>> THEN "complete" ELSE "reading")
      /\ UNCHANGED diffVars /\ windows' = kept /\ truncated' = over
      /\ UNCHANGED <<bi, li, chunk, cur, scanned>>
  BY DEF Cut, Go
<1>2. WalkInv' /\ BlocksTile' /\ added' = added /\ scan' = scan
  BY <1>1, SameDiff
<1>3. /\ PlanTypes /\ GoodWindows(windows, added) /\ scan = "walked" /\ scanned = 0
      /\ ~truncated /\ Covers(windows) /\ EndOf(windows) = Len(added)
  BY <1>1 DEF PlanInv, Early, Planned
<1>4. Len(windows) \in Nat /\ MaxWindows \in Nat
  BY <1>3, LimitAssumption DEF PlanTypes
<1>5. GoodWindows(kept, added) /\ (~over => kept = windows)
  <2>1. CASE over
    <3>1. MaxWindows \in 0..Len(windows)
      BY <1>4, <2>1
    <3> QED
      BY <1>3, <2>1, <3>1, FirstWindows
  <2>2. CASE ~over
    BY <1>3, <2>2
  <2> QED
    BY <2>1, <2>2
<1>6. over \in BOOLEAN
  BY Zenon
<1> HIDE DEF kept, over
<1>7. kept \in Seq(Pieces) /\ Len(kept) \in Nat /\ (kept = <<>> => Len(kept) = 0)
  BY <1>5, EndOfType DEF GoodWindows
<1>8. PlanTypes'
  <2>1. deep' \in Phases /\ truncated' \in BOOLEAN /\ windows' \in Seq(Pieces)
    BY <1>1, <1>6, <1>7 DEF Phases, Statuses
  <2>2. UNCHANGED <<bi, li, chunk, cur, scanned>>
    BY <1>1
  <2> QED
    BY <1>3, <2>1, <2>2 DEF PlanTypes
<1>9. deep' \in {"complete", "reading"} /\ (deep' = "complete" => kept = <<>>)
  BY <1>1
<1>10. ~truncated' => windows' = windows
  BY <1>1, <1>5
<1>11. deep' \notin Early /\ deep' \notin {"blocks", "lines"} /\ deep' # "rules"
  BY <1>9 DEF Early
<1>12. scanned' = 0 /\ windows' = kept
  BY <1>1, <1>3
<1>13. /\ scanned' <= Len(windows') /\ (deep' = "complete" => scanned' = Len(windows'))
  BY <1>7, <1>9, <1>12
<1> QED
  BY <1>2, <1>3, <1>5, <1>8, <1>10, <1>11, <1>12, <1>13 DEF PlanInv

LEMMA ReadingWindows ==
  ASSUME PlanInv, ReadWindow \/ ReadFails \/ StepAside \/ ReadAll
  PROVE  PlanInv'
<1>1. /\ deep = "reading" /\ UNCHANGED diffVars /\ UNCHANGED planVars
      /\ deep' \in {"reading", "failed", "deferred", "partial", "complete"}
      /\ \/ scanned < Len(windows) /\ scanned' \in {scanned, scanned + 1} /\ deep' # "complete"
         \/ scanned = Len(windows) /\ scanned' = scanned
  BY DEF ReadWindow, ReadFails, StepAside, ReadAll, Go
<1>2. WalkInv' /\ BlocksTile' /\ added' = added /\ scan' = scan
  BY <1>1, SameDiff
<1>3. /\ PlanTypes /\ GoodWindows(windows, added) /\ scan = "walked"
      /\ (~truncated => Covers(windows)) /\ (~truncated => EndOf(windows) = Len(added))
      /\ scanned <= Len(windows)
  BY <1>1 DEF PlanInv, Planned
<1>4. Len(windows) \in Nat /\ scanned \in Nat
  BY <1>3 DEF PlanTypes
<1>5. windows' = windows /\ truncated' = truncated
  BY <1>1 DEF planVars
<1>6. scanned' \in Nat /\ scanned' <= Len(windows') /\ (deep' = "complete" => scanned' = Len(windows'))
  BY <1>1, <1>4, <1>5
<1>7. PlanTypes'
  <2>1. deep' \in Phases
    BY <1>1 DEF Phases, Statuses
  <2>2. UNCHANGED <<bi, li, chunk, windows, cur, truncated>>
    BY <1>1 DEF planVars
  <2> QED
    BY <1>3, <1>6, <2>1, <2>2 DEF PlanTypes
<1>8. deep' \notin Early /\ deep' \notin {"blocks", "lines"} /\ deep' # "rules"
  BY <1>1 DEF Early
<1> QED
  BY <1>2, <1>3, <1>5, <1>6, <1>7, <1>8 DEF PlanInv

LEMMA PlanStep == PlanInv /\ [Next]_vars => PlanInv'
<1> SUFFICES ASSUME PlanInv, [Next]_vars PROVE PlanInv'
  OBVIOUS
<1>1. CASE UNCHANGED vars
  <2>1. UNCHANGED diffVars /\ UNCHANGED <<deep, planVars, scanned>>
    BY <1>1 DEF vars
  <2>2. WalkInv' /\ BlocksTile' /\ blocks' = blocks /\ added' = added /\ scan' = scan
    BY <2>1, SameDiff
  <2>3. UNCHANGED <<deep, bi, li, chunk, cur, windows, truncated, scanned>>
    BY <2>1 DEF planVars
  <2>4. PlanTypes' /\ (Planned' <=> Planned)
    BY <2>3 DEF PlanInv, PlanTypes, Planned
  <2>5. (Continues => Continues') /\ (Splitting => Splitting')
    BY <2>2, <2>3 DEF Continues, Splitting
  <2> QED
    BY <2>2, <2>3, <2>4, <2>5 DEF PlanInv
<1>2. CASE ReadLine /\ UNCHANGED <<deep, planVars, scanned>>
  BY <1>2, ReadingTheDiff
<1>3. CASE Skip \/ Plan
  BY <1>3, StartingOut
<1>4. CASE ChangeFile
  BY <1>4, ChangingFile
<1>5. CASE WriteBlock
  BY <1>5, WritingBlock
<1>6. CASE SplitBlock
  BY <1>6, SplittingBlock
<1>7. CASE AddLine
  BY <1>7, AddingLine
<1>8. CASE BreakChunk
  BY <1>8, BreakingChunk
<1>9. CASE EndBlock
  BY <1>9, EndingBlock
<1>10. CASE EndPlan
  BY <1>10, EndingPlan
<1>11. CASE Cut
  BY <1>11, Cutting
<1>12. CASE ReadWindow \/ ReadFails \/ StepAside \/ ReadAll
  BY <1>12, ReadingWindows
<1> QED
  BY <1>1, <1>2, <1>3, <1>4, <1>5, <1>6, <1>7, <1>8, <1>9, <1>10, <1>11, <1>12 DEF Next

-----------------------------------------------------------------------------
(* What the windows are for *)

(* The variables hold what they should, in every reachable state: in        *)
(* particular no block, chunk or window ever points outside the lines read. *)
THEOREM PlanTypeCorrect == Spec => []TypeOK
<1>1. PlanInv => TypeOK
  BY DEF PlanInv, WalkInv, WalkTypes, PlanTypes, TypeOK
<1> QED
  BY PlanInit, PlanStep, <1>1, PTL DEF Spec

(* In a diff of any length as git writes it, WalkDiff gives each added line *)
(* its own file and line.                                                   *)
THEOREM LinesLocated == Spec => []Located
<1>1. PlanInv => Located
  BY DEF PlanInv, WalkInv, OnTrack, Located
<1> QED
  BY PlanInit, PlanStep, <1>1, PTL DEF Spec

(* On any diff, tidy or not, the lines buildFileIndex shows a finding with  *)
(* include the line WalkDiff found it on, with its text if the diff is tidy.*)
THEOREM WalkersAgree == Spec => []IndexAgrees
<1>1. PlanInv => IndexAgrees
  <2> SUFFICES ASSUME PlanInv, NEW i \in DOMAIN Walked, Walked[i].line > 0
               PROVE  /\ Walked[i].line \in findingContext(Walked[i].path, Walked[i].line)
                      /\ tidy => index[<<Walked[i].path, Walked[i].line>>] = Walked[i].text
    BY DEF IndexAgrees
  <2>1. Walked \in Seq(Places)
    BY WalkedType DEF PlanInv, WalkInv
  <2>2. i \in 1..Len(Walked)
    BY <2>1
  <2>3. Walked[i].line \in Nat
    <3>1. Walked[i] \in Places
      BY <2>1, <2>2, ElementOfSeq
    <3> QED
      BY <3>1 DEF Places
  <2>4. Indexed(index, tidy, Walked[i])
    BY <2>2 DEF PlanInv, WalkInv, AllIndexed
  <2>5. Walked[i].line \in Walked[i].line - ContextLines .. Walked[i].line + ContextLines
    BY <2>3, ContextAssumption
  <2> QED
    BY <2>4, <2>5 DEF Indexed, findingContext
<1> QED
  BY PlanInit, PlanStep, <1>1, PTL DEF Spec

LEMMA WindowBounds ==
  ASSUME PlanInv, NEW w \in DOMAIN windows
  PROVE  /\ w \in 1..Len(windows) /\ windows[w] \in Pieces /\ Finished(windows[w], added)
         /\ windows[w].from = (IF w = 1 THEN 1 ELSE windows[w - 1].to + 1)
<1>1. windows \in Seq(Pieces) /\ Tiled(windows) /\ AllFinished(windows, added)
  BY DEF PlanInv, GoodWindows
<1>2. w \in 1..Len(windows)
  BY <1>1
<1>3. windows[w] \in Pieces
  BY <1>1, <1>2, ElementOfSeq
<1> QED
  BY <1>1, <1>2, <1>3 DEF Tiled, AllFinished

(* buildDeepWindows loses no added line and puts none into two windows,     *)
(* whatever the sizes of lines and headers, the budget and the cap.         *)
THEOREM NoLineLostOrRepeated == Spec => []WindowsTile
<1>1. PlanInv => WindowsTile
  <2> SUFFICES ASSUME PlanInv, Planned PROVE WindowsTile
    BY DEF WindowsTile
  <2>1. \A w \in DOMAIN windows :
          /\ windows[w].from = (IF w = 1 THEN 1 ELSE windows[w - 1].to + 1)
          /\ windows[w].from <= windows[w].to
    BY WindowBounds DEF Finished
  <2>2. ~truncated => EndOf(windows) = Len(added)
    BY DEF PlanInv
  <2> QED
    BY <2>1, <2>2 DEF WindowsTile, EndOf
<1> QED
  BY PlanInit, PlanStep, <1>1, PTL DEF Spec

(* A window exceeds the budget only when it is a single line: the running   *)
(* sums of rounded estimates never fall below the estimate of the sum.      *)
THEOREM WindowsWithinBudget == Spec => []WindowsFit
<1>1. PlanInv => WindowsFit
  BY WindowBounds DEF WindowsFit, Finished, Fits
<1> QED
  BY PlanInit, PlanStep, <1>1, PTL DEF Spec

(* No line is read under another file's name.                               *)
THEOREM WindowsOfOneFile == Spec => []OneFilePerWindow
<1>1. PlanInv => OneFilePerWindow
  BY WindowBounds DEF OneFilePerWindow, Finished, Whose
<1> QED
  BY PlanInit, PlanStep, <1>1, PTL DEF Spec

(* A complete read whose plan was not cut has put every line the author of  *)
(* a tidy diff added before the model: the walkers and the planner together *)
(* lose nothing.                                                            *)
THEOREM CompleteReads == Spec => []CompleteReadsTidyDiffs
<1>1. PlanInv => CompleteReadsTidyDiffs
  <2> SUFFICES ASSUME PlanInv, tidy, deep = "complete", ~truncated, NEW i \in DOMAIN truth
               PROVE  Covered(truth[i])
    BY DEF CompleteReadsTidyDiffs
  <2>1. /\ WalkTypes /\ InStep /\ OnTrack /\ scan = "walked" /\ scanned = Len(windows)
        /\ Covers(windows) /\ EndOf(windows) = Len(added)
    BY DEF PlanInv, WalkInv, Planned
  <2>2. Walked = added
    <3>1. blockBuf = <<>> /\ added \in Seq(Places)
      BY <2>1 DEF InStep, WalkTypes
    <3>2. path # NoPath => Walked = added \o Lines(path, blockStart, blockBuf)
      BY <2>1, WalkedType
    <3>3. Lines(path, blockStart, blockBuf) = <<>>
      BY <2>1, <3>1, LinesType DEF WalkTypes
    <3> QED
      BY <2>1, <3>1, <3>2, <3>3, WalkedType, ConcatEmptySeq
  <2>3. truth = added
    BY <2>1, <2>2 DEF OnTrack
  <2>4. i \in 1..Len(added)
    BY <2>1, <2>3 DEF WalkTypes
  <2>5. PICK w \in 1..scanned : i \in windows[w].from .. windows[w].to
    BY <2>1, <2>4 DEF Covers, Holds
  <2> QED
    BY <2>3, <2>5 DEF Covered
<1> QED
  BY PlanInit, PlanStep, <1>1, PTL DEF Spec
-----------------------------------------------------------------------------
(* The loops end *)

(* The planner has yet to leave the window's file for that of the block.    *)
OtherFile == bi <= Len(blocks) /\ blocks[bi].path # cur.path

FilesToChange == IF OtherFile THEN 1 ELSE 0

(* Steps the planner's loops have left at most: three for each block, to    *)
(* change the file, to begin its split and to end it, and one for a line.   *)
PlanLeft ==
  IF deep = "blocks"
  THEN 3 * (Len(blocks) + 1 - bi) + FilesToChange + (Len(added) - cur.to)
  ELSE 3 * (Len(blocks) + 1 - bi) - 1 + (Len(added) + 1 - li)

(* Steps left for the plan and its reading: a step of the planner makes at  *)
(* most one window more to read.                                            *)
Left ==
  CASE deep = "rules"               -> 2 * (3 * Len(blocks) + Len(added) + 1) + 5
    [] deep \in {"blocks", "lines"} -> 2 * PlanLeft + Len(windows) + 4
    [] deep = "cut"                 -> Len(windows) + 2
    [] deep = "reading"             -> Len(windows) - scanned + 1
    [] OTHER                        -> 0

EndsSooner == Left \in Nat /\ Left' \in Nat /\ Left' < Left

LEMMA OneWindowMore ==
  ASSUME PlanTypes,
         \/ windows' \in {windows, FlushedWindows}
         \/ \E c \in Pieces : Write(c)
  PROVE  Len(windows) \in Nat /\ Len(windows') \in {Len(windows), Len(windows) + 1}
<1>1. windows \in Seq(Pieces) /\ cur \in Pieces
  BY DEF PlanTypes
<1>2. windows' \in {windows, FlushedWindows}
  BY DEF Write
<1>3. windows' = windows \/ windows' = Append(windows, cur)
  BY <1>2 DEF FlushedWindows
<1> QED
  BY <1>1, <1>3

(* What of the plan is left is a number, wherever the planner stands.       *)
LEMMA FilesToChangeType == FilesToChange = 0 \/ FilesToChange = 1
  BY DEF FilesToChange

LEMMA FilesAfter == FilesToChange' = 0 \/ FilesToChange' = 1
  BY DEF FilesToChange

(* One block done, whole or split, and one begun by lines.                  *)
LEMMA StepsFall ==
  ASSUME NEW k \in Int, NEW i \in Int, NEW n \in Int, NEW a \in Int, NEW b \in Int,
         NEW f, f = 0 \/ f = 1, NEW g, g = 0 \/ g = 1
  PROVE  /\ a < b => 3 * (k + 1 - (i + 1)) + g + (n - b) < 3 * (k + 1 - i) + f + (n - a)
         /\ 3 * (k + 1 - (i + 1)) + g + (n - b) < 3 * (k + 1 - i) - 1 + (n + 1 - (b + 1))
         /\ 3 * (k + 1 - i) - 1 + (n + 1 - (a + 1)) < 3 * (k + 1 - i) + f + (n - a)
<1>1. f \in Int /\ g \in Int /\ 0 <= f /\ g <= 1
  OBVIOUS
<1> QED
  BY <1>1

(* At most three for each block and one for a line; a window more is paid   *)
(* for by a step less.                                                      *)
LEMMA StepsAreNat ==
  ASSUME NEW k \in Nat, NEW i \in Nat, i <= k + 1, NEW n \in Nat, NEW t \in Nat, t <= n,
         NEW f, f = 0 \/ f = 1
  PROVE  3 * (k + 1 - i) + f + (n - t) \in Nat
<1>1. k + 1 - i \in Nat /\ n - t \in Nat /\ f \in Nat
  OBVIOUS
<1> QED
  BY <1>1

LEMMA WindowPaidFor ==
  ASSUME NEW p \in Nat, NEW q \in Nat, q < p, NEW w \in Nat, NEW v \in {w, w + 1}
  PROVE  2 * p + w + 4 \in Nat /\ 2 * q + v + 4 \in Nat /\ 2 * q + v + 4 < 2 * p + w + 4
  OBVIOUS

LEMMA StepsToBegin ==
  ASSUME NEW k \in Nat, NEW n \in Nat, NEW g, g = 0 \/ g = 1
  PROVE  LET steps == 3 * (k + 1 - 1) + g + (n - 0) IN
         /\ 2 * steps + 0 + 4 \in Nat /\ 2 * (3 * k + n + 1) + 5 \in Nat
         /\ 2 * steps + 0 + 4 < 2 * (3 * k + n + 1) + 5
  OBVIOUS

LEMMA PlanLeftType ==
  ASSUME PlanInv, deep \in {"blocks", "lines"}
  PROVE  /\ PlanLeft \in Nat /\ Len(windows) \in Nat /\ Left = 2 * PlanLeft + Len(windows) + 4
         /\ Len(blocks) \in Nat /\ Len(added) \in Nat /\ bi \in Nat /\ bi <= Len(blocks) + 1
<1>1. /\ Continues /\ PlanTypes /\ WalkTypes /\ bi \in Nat \ {0} /\ li \in Nat
      /\ cur \in Pieces /\ windows \in Seq(Pieces)
  BY DEF PlanInv, PlanTypes, WalkInv
<1>2. /\ Len(blocks) \in Nat /\ Len(added) \in Nat /\ bi <= Len(blocks) + 1
      /\ Len(windows) \in Nat
  BY <1>1 DEF WalkTypes, Continues
<1>3. Left = 2 * PlanLeft + Len(windows) + 4
  BY DEF Left
<1>4. CASE deep = "blocks"
  <2>1. cur.to \in Nat /\ cur.to <= Len(added)
    BY <1>1, PieceType DEF Continues, Growing, Whose
  <2>2. PlanLeft = 3 * (Len(blocks) + 1 - bi) + FilesToChange + (Len(added) - cur.to)
    BY <1>4 DEF PlanLeft
  <2>3. PlanLeft \in Nat
    <3>1. bi \in Nat
      BY <1>1
    <3> QED
      BY <1>2, <2>1, <2>2, <3>1, FilesToChangeType, StepsAreNat
  <2> QED
    BY <1>1, <1>2, <1>3, <2>3
<1>5. CASE deep = "lines"
  <2>1. /\ bi \in 1..Len(blocks) /\ li <= blocks[bi].last + 1
    BY <1>1, <1>2, <1>5 DEF PlanInv, Splitting
  <2>2. blocks[bi].last \in Nat /\ blocks[bi].last <= Len(added)
    BY <2>1, BlockBounds DEF PlanInv
  <2>3. 3 * (Len(blocks) + 1 - bi) - 1 \in Nat /\ Len(added) + 1 - li \in Nat
    BY <1>1, <1>2, <2>1, <2>2
  <2>4. PlanLeft = (3 * (Len(blocks) + 1 - bi) - 1) + (Len(added) + 1 - li)
    BY <1>5 DEF PlanLeft
  <2>5. PlanLeft \in Nat
    BY <2>3, <2>4
  <2> QED
    BY <1>1, <1>2, <1>3, <2>5
<1> QED
  BY <1>4, <1>5

PlanLeftIsNat == deep \in {"blocks", "lines"} => PlanLeft \in Nat

(* It falls by more than the window that is made.                           *)
LEMMA LessIsLeft ==
  ASSUME PlanInv, PlanLeftIsNat', deep \in {"blocks", "lines"}, deep' \in {"blocks", "lines"},
         PlanLeft' < PlanLeft,
         \/ windows' \in {windows, FlushedWindows}
         \/ \E c \in Pieces : Write(c)
  PROVE  EndsSooner
<1>1. /\ PlanLeft \in Nat /\ Left = 2 * PlanLeft + Len(windows) + 4
  BY PlanLeftType
<1>2. /\ PlanLeft' \in Nat /\ Left' = 2 * PlanLeft' + Len(windows') + 4
  BY DEF PlanLeftIsNat, Left
<1>3. Len(windows) \in Nat /\ Len(windows') \in {Len(windows), Len(windows) + 1}
  BY OneWindowMore DEF PlanInv
<1>4. /\ 2 * PlanLeft + Len(windows) + 4 \in Nat
      /\ 2 * PlanLeft' + Len(windows') + 4 \in Nat
      /\ 2 * PlanLeft' + Len(windows') + 4 < 2 * PlanLeft + Len(windows) + 4
  BY <1>1, <1>2, <1>3, WindowPaidFor
<1> HIDE DEF PlanLeft, Left
<1> QED
  BY <1>1, <1>2, <1>4 DEF EndsSooner

(* Steps among the blocks.                                                  *)
LEMMA BlocksEndSooner ==
  ASSUME PlanInv, PlanInv', PlanLeftIsNat', ChangeFile \/ WriteBlock \/ SplitBlock
  PROVE  EndsSooner
<1>1. /\ deep = "blocks" /\ deep' \in {"blocks", "lines"} /\ UNCHANGED diffVars
      /\ bi <= Len(blocks)
  BY DEF ChangeFile, WriteBlock, SplitBlock, Go
<1>2. /\ Continues /\ PlanTypes /\ Len(blocks) \in Nat /\ Len(added) \in Nat
      /\ bi \in Nat \ {0} /\ blocks' = blocks /\ added' = added
  BY <1>1, Planning
<1>3. bi \in 1..Len(blocks) /\ cur.to = Before(blocks, bi)
  BY <1>1, <1>2 DEF PlanInv
<1>4. /\ blocks[bi].first \in Nat /\ blocks[bi].last \in Nat /\ blocks[bi].first = cur.to + 1
      /\ blocks[bi].first <= blocks[bi].last /\ blocks[bi].last <= Len(added)
      /\ blocks[bi].path \in AllPaths /\ blocks[bi].size \in Nat
      /\ cur.to \in Nat /\ Before(blocks, bi + 1) = blocks[bi].last
  BY <1>3, BlockBounds DEF PlanInv
<1>5. PlanLeft = 3 * (Len(blocks) + 1 - bi) + FilesToChange + (Len(added) - cur.to)
  BY <1>1 DEF PlanLeft
<1>6. CASE ChangeFile
  <2>1. /\ deep' = "blocks" /\ bi' = bi /\ windows' = FlushedWindows /\ OtherFile
        /\ cur' = Nothing(blocks[bi].path, cur.to)
    BY <1>6 DEF ChangeFile, Go, OtherFile
  <2>2. cur'.to = cur.to /\ cur'.path = blocks[bi].path
    BY <2>1 DEF Nothing, Piece
  <2>3. ~OtherFile'
    BY <1>2, <2>1, <2>2 DEF OtherFile
  <2>4. PlanLeft' = 3 * (Len(blocks) + 1 - bi) + (Len(added) - cur.to)
    BY <1>2, <1>4, <2>1, <2>2, <2>3 DEF PlanLeft, FilesToChange
  <2>5. PlanLeft' < PlanLeft
    BY <1>2, <1>3, <1>4, <1>5, <2>1, <2>4 DEF FilesToChange
  <2> QED
    BY <1>1, <2>1, <2>5, LessIsLeft
<1>7. CASE WriteBlock
  <2> DEFINE b == blocks[bi]
             c == Piece(b.path, b.first, b.last, Whole(b), Tokens(Whole(b)))
  <2>1. deep' = "blocks" /\ bi' = bi + 1 /\ Write(c)
    BY <1>7 DEF WriteBlock, Go
  <2>2. c \in Pieces
    <3>1. HeaderSize[b.path] \in Nat
      BY <1>4, PathSizes
    <3>2. Whole(b) \in Nat
      BY <1>4, <3>1 DEF Whole
    <3> QED
      BY <1>4, <3>2, TokensType, PieceType
  <2>3. cur'.to = blocks[bi].last
    BY <1>2, <1>4, <2>1 DEF PlanInv
  <2>4. PlanLeft' = 3 * (Len(blocks) + 1 - (bi + 1)) + FilesToChange'
                      + (Len(added) - blocks[bi].last)
    BY <1>2, <2>1, <2>3 DEF PlanLeft
  <2>5. cur.to < blocks[bi].last
    BY <1>4
  <2>6. /\ Len(blocks) \in Int /\ Len(added) \in Int /\ bi \in Int
        /\ cur.to \in Int /\ blocks[bi].last \in Int
    BY <1>2, <1>4
  <2>7. PlanLeft' < PlanLeft
    BY <1>5, <2>4, <2>5, <2>6, FilesToChangeType, FilesAfter, StepsFall
  <2> QED
    BY <1>1, <2>1, <2>2, <2>7, LessIsLeft
<1>8. CASE SplitBlock
  <2>1. deep' = "lines" /\ bi' = bi /\ li' = blocks[bi].first /\ windows' = windows
    BY <1>8 DEF SplitBlock, Go
  <2>2. PlanLeft' = 3 * (Len(blocks) + 1 - bi) - 1 + (Len(added) + 1 - blocks[bi].first)
    BY <1>2, <2>1 DEF PlanLeft
  <2>3. /\ Len(blocks) \in Int /\ Len(added) \in Int /\ bi \in Int /\ cur.to \in Int
        /\ blocks[bi].first = cur.to + 1
    BY <1>2, <1>4
  <2>4. PlanLeft' < PlanLeft
    BY <1>5, <2>2, <2>3, FilesToChangeType, StepsFall
  <2> QED
    BY <1>1, <2>1, <2>4, LessIsLeft
<1> QED
  BY <1>6, <1>7, <1>8

(* Steps among the lines of one block.                                      *)
LEMMA LinesEndSooner ==
  ASSUME PlanInv, PlanInv', PlanLeftIsNat', AddLine \/ BreakChunk \/ EndBlock
  PROVE  EndsSooner
<1>1. deep = "lines" /\ deep' \in {"blocks", "lines"} /\ UNCHANGED diffVars
  BY DEF AddLine, BreakChunk, EndBlock, Go
<1>2. /\ bi \in 1..Len(blocks) /\ Splitting /\ PlanTypes /\ li \in Nat
      /\ blocks[bi].last \in Nat /\ blocks[bi].last <= Len(added)
      /\ Len(added) \in Nat /\ Len(blocks) \in Nat
      /\ Before(blocks, bi + 1) = blocks[bi].last /\ blocks' = blocks /\ added' = added
  BY <1>1, AtALine
<1>3. chunk \in Pieces /\ li <= blocks[bi].last + 1
  BY <1>2 DEF PlanTypes, Splitting
<1>4. PlanLeft = 3 * (Len(blocks) + 1 - bi) - 1 + (Len(added) + 1 - li)
  BY <1>1 DEF PlanLeft
<1>5. CASE AddLine \/ BreakChunk
  <2>1. /\ deep' = "lines" /\ bi' = bi /\ li' = li + 1
        /\ windows' = windows \/ Write(chunk)
    BY <1>5 DEF AddLine, BreakChunk, Go
  <2>2. PlanLeft' = 3 * (Len(blocks) + 1 - bi) - 1 + (Len(added) + 1 - (li + 1))
    BY <1>2, <2>1 DEF PlanLeft
  <2>3. PlanLeft' < PlanLeft
    BY <1>2, <1>4, <2>2
  <2> QED
    BY <1>1, <1>3, <2>1, <2>3, LessIsLeft
<1>6. CASE EndBlock
  <2>1. /\ deep' = "blocks" /\ bi' = bi + 1 /\ li > blocks[bi].last
        /\ windows' = windows \/ Write(chunk)
    BY <1>6 DEF EndBlock, Go
  <2>2. cur'.to = blocks[bi].last
    BY <1>2, <2>1 DEF PlanInv
  <2>3. li = blocks[bi].last + 1
    BY <1>2, <1>3, <2>1
  <2>4. PlanLeft' = 3 * (Len(blocks) + 1 - (bi + 1)) + FilesToChange'
                      + (Len(added) - blocks[bi].last)
    BY <1>2, <2>1, <2>2 DEF PlanLeft
  <2>5. /\ Len(blocks) \in Int /\ Len(added) \in Int /\ bi \in Int
        /\ blocks[bi].last \in Int
    BY <1>2
  <2>6. PlanLeft' < PlanLeft
    BY <1>4, <2>3, <2>4, <2>5, FilesAfter, StepsFall
  <2> QED
    BY <1>1, <1>3, <2>1, <2>6, LessIsLeft
<1> QED
  BY <1>5, <1>6

(* The start, and what comes once the blocks are done.                      *)
LEMMA RestEndsSooner ==
  ASSUME PlanInv, PlanInv', PlanLeftIsNat',
         Skip \/ Plan \/ EndPlan \/ Cut \/ ReadWindow \/ ReadFails \/ StepAside \/ ReadAll
  PROVE  EndsSooner
<1>1. /\ PlanTypes /\ PlanTypes' /\ Len(blocks) \in Nat /\ Len(added) \in Nat
      /\ scanned <= Len(windows)
  <2>1. PlanTypes /\ PlanTypes' /\ scanned <= Len(windows) /\ WalkTypes
    BY DEF PlanInv, WalkInv
  <2> QED
    BY <2>1 DEF WalkTypes
<1>2. Len(windows) \in Nat /\ Len(windows') \in Nat /\ scanned \in Nat /\ bi \in Nat
  BY <1>1 DEF PlanTypes
<1>3. CASE Skip \/ Plan
  <2>1. /\ deep = "rules" /\ deep' \in {"skipped", "blocks"} /\ UNCHANGED planVars
        /\ UNCHANGED diffVars
    BY <1>3 DEF Skip, Plan, Go
  <2>2. /\ bi' = 1 /\ windows' = <<>> /\ cur' = Nothing(NoPath, 0)
        /\ blocks' = blocks /\ added' = added
    BY <2>1, SameDiff DEF PlanInv, planVars
  <2>3. cur'.to = 0 /\ Len(windows') = 0
    BY <2>2 DEF Nothing, Piece
  <2>4. Left = 2 * (3 * Len(blocks) + Len(added) + 1) + 5
    BY <2>1 DEF Left
  <2>5. CASE deep' = "skipped"
    BY <1>1, <2>4, <2>5 DEF EndsSooner, Left
  <2>6. CASE deep' = "blocks"
    <3>1. PlanLeft' = 3 * (Len(blocks) + 1 - 1) + FilesToChange' + (Len(added) - 0)
      BY <2>2, <2>3, <2>6 DEF PlanLeft
    <3>2. Left' = 2 * PlanLeft' + 0 + 4
      BY <2>3, <2>6 DEF Left
    <3>3. Left' \in Nat /\ Left \in Nat /\ Left' < Left
      BY <1>1, <2>4, <3>1, <3>2, FilesAfter, StepsToBegin
    <3> QED
      BY <3>3 DEF EndsSooner
  <2> QED
    BY <2>1, <2>5, <2>6
<1>4. CASE EndPlan
  <2>1. deep = "blocks" /\ deep' = "cut" /\ windows' = FlushedWindows
    BY <1>4 DEF EndPlan, Go
  <2>2. PlanLeft \in Nat /\ Left = 2 * PlanLeft + Len(windows) + 4
    BY <2>1, PlanLeftType
  <2>3. Len(windows') \in {Len(windows), Len(windows) + 1}
    BY <1>1, <2>1, OneWindowMore
  <2>4. Left' = Len(windows') + 2
    BY <2>1 DEF Left
  <2> QED
    BY <1>2, <2>2, <2>3, <2>4 DEF EndsSooner
<1>5. CASE Cut
  <2>1. /\ deep = "cut" /\ deep' \in {"complete", "reading"} /\ scanned' = scanned /\ scanned = 0
    BY <1>5 DEF Cut, Go, PlanInv, Early
  <2>2. Len(windows') <= Len(windows)
    <3>1. \/ windows' = windows
          \/ Len(windows) > MaxWindows /\ windows' = SubSeq(windows, 1, MaxWindows)
      BY <1>5 DEF Cut
    <3>2. windows \in Seq(Pieces) /\ MaxWindows \in Nat
      BY <1>1, LimitAssumption DEF PlanTypes
    <3>3. CASE Len(windows) > MaxWindows /\ windows' = SubSeq(windows, 1, MaxWindows)
      <4>1. MaxWindows \in 0..Len(windows)
        BY <1>2, <3>2, <3>3
      <4>2. Len(windows') = MaxWindows
        BY <3>2, <3>3, <4>1, SubSeqProperties
      <4> QED
        BY <1>2, <3>2, <3>3, <4>2
    <3> QED
      BY <1>2, <3>1, <3>3
  <2> QED
    BY <1>2, <2>1, <2>2 DEF EndsSooner, Left
<1>6. CASE ReadWindow \/ ReadFails \/ StepAside \/ ReadAll
  <2>1. /\ deep = "reading" /\ windows' = windows
        /\ \/ deep' = "reading" /\ scanned < Len(windows) /\ scanned' = scanned + 1
           \/ deep' \in {"failed", "deferred", "partial", "complete"}
    BY <1>6 DEF ReadWindow, ReadFails, StepAside, ReadAll, Go, planVars
  <2> QED
    BY <1>1, <1>2, <2>1 DEF EndsSooner, Left
<1> QED
  BY <1>3, <1>4, <1>5, <1>6

(* Once the diff is walked each step brings the deep read nearer its end,   *)
(* whatever the diff, the budget and the limits: a line wider than a window *)
(* does not make splitBlock turn on the spot, nor a header wider than one.  *)
ReadEnds == [][scan = "walked" => EndsSooner]_vars

(* Planning and reading come to an end for every diff and all limits.       *)
THEOREM DeepReadEnds == Spec => ReadEnds
<1>1. PlanInv => PlanLeftIsNat
  BY PlanLeftType DEF PlanLeftIsNat
<1>2. PlanInv /\ PlanInv' /\ PlanLeftIsNat' /\ [Next]_vars
        => [scan = "walked" => EndsSooner]_vars
  <2> SUFFICES ASSUME PlanInv, PlanInv', PlanLeftIsNat', Next, scan = "walked" PROVE EndsSooner
    OBVIOUS
  <2>1. ~ReadLine
    BY DEF ReadLine, DiffGitLine, NewPathLine, HunkLine, AddedLine, AddedLookalike,
           OverlongLine, OverlongOther, ContextLine, BareLine, IgnoredLine, EndOfDiff, Read
  <2> QED
    BY <2>1, BlocksEndSooner, LinesEndSooner, RestEndsSooner DEF Next
<1> QED
  BY PlanInit, PlanStep, <1>1, <1>2, PTL DEF Spec, ReadEnds
=============================================================================
