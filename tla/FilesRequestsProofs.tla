------------------------ MODULE FilesRequestsProofs -------------------------
(***************************************************************************)
(* What the tools of a batch leave of the files, and what a provider is    *)
(* sent of a history: the lemmas about FileTools and ModelRequests, for    *)
(* any values of the constants of LoopParts, from which AgentLoopProofs    *)
(* proves AnswersAreRight.                                                 *)
(*                                                                         *)
(* What both compute is computed step by step: patches section by section, *)
(* batches call by call, requests message by message.  Iterations and      *)
(* UpTo take a recursive function from one step to the next.               *)
(***************************************************************************)
EXTENDS LoopParts, FiniteSetTheorems, SequenceTheorems, NaturalsInduction, TLAPS

-----------------------------------------------------------------------------
(* Numbers.                                                                *)

(* A set of numbers has a least one.                                       *)
LEMMA LeastNumber ==
  ASSUME NEW T, T \subseteq Nat, T # {}
  PROVE  \E x \in T : \A y \in T : x <= y
<1> DEFINE R == OpToRel(<, Nat)
<1>1. IsWellFoundedOn(R, Nat)
  BY NatLessThanWellFounded
<1>2. PICK x \in T : \A y \in T : ~ (<<y, x>> \in R)
  <2> HIDE DEF R
  <2> QED
    BY <1>1, WFMin
<1>3. ASSUME NEW y \in T PROVE x <= y
  <2>1. <<y, x>> \notin R
    BY <1>2
  <2>2. <<y, x>> \in Nat \X Nat
    OBVIOUS
  <2> QED
    BY <2>1, <2>2 DEF OpToRel
<1> QED
  BY <1>3

(* A set of numbers that has a bound has a largest one.                    *)
LEMMA LargestNumber ==
  ASSUME NEW n \in Nat, NEW T, T \subseteq 0..n, T # {}
  PROVE  \E x \in T : \A y \in T : x >= y
<1> DEFINE U == {n - x : x \in T}
<1>1. \A x \in T : x \in 0..n /\ n - x \in Nat
  OBVIOUS
<1> U \subseteq Nat /\ U # {}
  BY <1>1
<1>2. PICK u \in U : \A y \in U : u <= y
  BY LeastNumber
<1>3. PICK x \in T : u = n - x
  BY <1>2
<1>4. \A y \in T : n - x <= n - y
  BY <1>2, <1>3
<1> QED
  BY <1>1, <1>4

-----------------------------------------------------------------------------
(* FileTools.  An operation that sections or calls of a batch go through   *)
(* one by one leaves what they leave one after the other, since none of    *)
(* them touches a path that another one holds.                             *)

(* What holds of 0 and of the successor of what it holds of, up to n, holds *)
(* of all of them.                                                         *)
LEMMA UpTo ==
  ASSUME NEW n \in Nat, NEW T, 0 \in T, \A i \in 1..n : i - 1 \in T => i \in T
  PROVE  \A i \in 0..n : i \in T
<1> DEFINE Off == {i \in 0..n : i \notin T}
<1>1. SUFFICES ASSUME Off # {} PROVE FALSE
  OBVIOUS
<1>2. Off \subseteq Nat
  OBVIOUS
<1>3. PICK i \in Off : \A j \in Off : i <= j
  <2> HIDE DEF Off
  <2> QED
    BY <1>1, <1>2, LeastNumber
<1>4. i \in 1..n /\ i - 1 \in 0..n
  BY <1>3
<1>5. i - 1 \notin Off
  BY <1>3, <1>4
<1> QED
  BY <1>3, <1>4, <1>5

(* A function that makes a step from each number to the next is defined.    *)
Iterations(n, S, base, step) ==
  {f \in [0..n -> S] : f[0] = base /\ \A i \in 1..n : f[i] = step[i][f[i - 1]]}

LEMMA StepsExist ==
  ASSUME NEW n \in Nat, NEW S, NEW base \in S, NEW step \in [1..n -> [S -> S]]
  PROVE  Iterations(n, S, base, step) # {}
<1> DEFINE Fits(f, k) == f[0] = base /\ \A i \in 1..k : f[i] = step[i][f[i - 1]]
           T == {k \in 0..n : \E f \in [0..k -> S] : Fits(f, k)}
<1>1. 0 \in T
  <2> DEFINE f == [i \in 0..0 |-> base]
  <2>1. f \in [0..0 -> S] /\ Fits(f, 0) /\ 0 \in 0..n
    OBVIOUS
  <2> HIDE DEF f, Fits
  <2> QED
    BY <2>1
<1>2. ASSUME NEW k \in 1..n, k - 1 \in T PROVE k \in T
  <2>1. PICK g \in [0..(k - 1) -> S] : Fits(g, k - 1)
    BY <1>2
  <2>2. step[k] \in [S -> S] /\ g[k - 1] \in S
    <3>1. k - 1 \in 0..(k - 1)
      OBVIOUS
    <3> QED
      BY <3>1
  <2> DEFINE last == step[k][g[k - 1]]
  <2>3. last \in S
    BY <2>2
  <2> HIDE DEF last
  <2> DEFINE f == [i \in 0..k |-> IF i = k THEN last ELSE g[i]]
  <2>4. f \in [0..k -> S] /\ f[k] = last /\ \A i \in 0..(k - 1) : f[i] = g[i]
    BY <2>3
  <2> HIDE DEF f
  <2>5. ASSUME NEW i \in 1..k PROVE f[i] = step[i][f[i - 1]]
    <3>1. CASE i = k
      BY <2>4, <3>1 DEF last
    <3>2. CASE i # k
      <4>1. i \in 1..(k - 1) /\ i \in 0..(k - 1) /\ i - 1 \in 0..(k - 1)
        BY <3>2
      <4> QED
        BY <2>1, <2>4, <4>1
    <3> QED
      BY <3>1, <3>2
  <2>6. f[0] = base
    BY <2>1, <2>4
  <2>7. Fits(f, k) /\ k \in 0..n
    BY <2>5, <2>6
  <2> HIDE DEF Fits
  <2> QED
    BY <2>4, <2>7
<1> HIDE DEF T
<1>3. \A k \in 0..n : k \in T
  BY <1>1, <1>2, UpTo
<1>4. n \in T
  BY <1>3
<1> QED
  BY <1>4 DEF T, Iterations

(* The last and the rest of a sequence.                                     *)
LEMMA LastOfSeq ==
  ASSUME NEW S, NEW s \in Seq(S), s # <<>>
  PROVE  /\ Len(s) \in Nat \ {0} /\ s[Len(s)] \in S
         /\ SubSeq(s, 1, Len(s) - 1) \in Seq(S)
<1>1. Len(s) \in Nat /\ Len(s) # 0
  OBVIOUS
<1>2. s[Len(s)] \in S
  BY <1>1
<1>3. SubSeq(s, 1, Len(s) - 1) \in Seq(S)
  BY <1>1, SubSeqProperties
<1> QED
  BY <1>1, <1>2, <1>3

-----------------------------------------------------------------------------
(* FileTools.  What a call has done so far is a part of what it does to the *)
(* files it hits, and nobody else touches these until it has returned.     *)

(* A line of a section applied to a file, with the line it was.             *)
PatchedLine == [text : FileText, nl : BOOLEAN, from : Nat]

(* Lines that were run together are lines.                                  *)
LEMMA WrittenIsContent ==
  ASSUME NEW lines \in Seq(PatchedLine)
  PROVE  Files!Written(lines) \in FileContent
<1> DEFINE n == Len(lines)
           write(out, line) ==
             IF out # <<>> /\ ~out[Len(out)].nl
             THEN Append(SubSeq(out, 1, Len(out) - 1),
                         [text |-> out[Len(out)].text \o line.text, nl |-> line.nl])
             ELSE Append(out, [text |-> line.text, nl |-> line.nl])
           IsWritten(f) == f = [i \in 0..n |-> IF i = 0 THEN <<>> ELSE write(f[i - 1], lines[i])]
           written == CHOOSE f : IsWritten(f)
           step == [i \in 1..n |-> [out \in FileContent |-> write(out, lines[i])]]
<1>1. n \in Nat /\ \A i \in 1..n : lines[i] \in PatchedLine
  OBVIOUS
<1>2. Files!Written(lines) = written[n]
  BY DEF Files!Written, Files!Last, Files!Front
<1> HIDE DEF n
<1>3. ASSUME NEW out \in FileContent, NEW i \in 1..n PROVE write(out, lines[i]) \in FileContent
  <2> DEFINE line == lines[i]
  <2>1. line \in PatchedLine
    BY <1>1
  <2> HIDE DEF line
  <2>2. line.text \in FileText /\ line.nl \in BOOLEAN
    BY <2>1 DEF PatchedLine
  <2>3. CASE out # <<>> /\ ~out[Len(out)].nl
    <3>1. out[Len(out)] \in [text : FileText, nl : BOOLEAN]
      BY <2>3, LastOfSeq DEF FileContent
    <3>2. out[Len(out)].text \o line.text \in FileText
      BY <2>2, <3>1 DEF FileText
    <3>3. SubSeq(out, 1, Len(out) - 1) \in FileContent
      BY <2>3, LastOfSeq DEF FileContent
    <3>4. write(out, line) = Append(SubSeq(out, 1, Len(out) - 1),
                                    [text |-> out[Len(out)].text \o line.text, nl |-> line.nl])
      BY <2>3
    <3> HIDE DEF write
    <3> QED
      BY <2>2, <3>2, <3>3, <3>4 DEF FileContent, line
  <2>4. CASE ~(out # <<>> /\ ~out[Len(out)].nl)
    <3>1. write(out, line) = Append(out, [text |-> line.text, nl |-> line.nl])
      BY <2>4
    <3> HIDE DEF write
    <3> QED
      BY <2>2, <3>1 DEF FileContent, line
  <2> QED
    BY <2>3, <2>4
<1> HIDE DEF write
<1>4. <<>> \in FileContent
  BY DEF FileContent
<1>5. step \in [1..n -> [FileContent -> FileContent]]
  BY <1>3
<1>6. PICK f \in [0..n -> FileContent] : f[0] = <<>> /\ \A i \in 1..n : f[i] = step[i][f[i - 1]]
  <2> HIDE DEF step
  <2>1. Iterations(n, FileContent, <<>>, step) # {}
    BY <1>1, <1>4, <1>5, StepsExist
  <2> QED
    BY <2>1 DEF Iterations
<1>7. \A i \in 1..n : f[i] = write(f[i - 1], lines[i])
  <2>1. ASSUME NEW i \in 1..n PROVE f[i] = write(f[i - 1], lines[i])
    <3>1. f[i - 1] \in FileContent
      BY <1>1, <1>6
    <3> QED
      BY <1>6, <3>1
  <2> QED
    BY <2>1
<1>8. IsWritten(f)
  <2>1. \A i \in 0..n : f[i] = IF i = 0 THEN <<>> ELSE write(f[i - 1], lines[i])
    BY <1>1, <1>6, <1>7
  <2> HIDE DEF write
  <2>2. f = [i \in 0..n |-> f[i]]
    BY <1>6
  <2>3. [i \in 0..n |-> f[i]] = [i \in 0..n |-> IF i = 0 THEN <<>> ELSE write(f[i - 1], lines[i])]
    BY <2>1
  <2> QED
    BY <2>2, <2>3
<1>9. IsWritten(written)
  <2> HIDE DEF IsWritten
  <2> QED
    BY <1>8
<1> HIDE DEF written
<1>10. \A i \in 0..n : written[i] \in FileContent
  <2> DEFINE T == {i \in 0..n : written[i] \in FileContent}
  <2>1. 0 \in T
    BY <1>1, <1>4, <1>9
  <2>2. ASSUME NEW i \in 1..n, i - 1 \in T PROVE i \in T
    BY <1>1, <1>3, <1>9, <2>2
  <2> HIDE DEF T
  <2>3. \A i \in 0..n : i \in T
    BY <1>1, <2>1, <2>2, UpTo
  <2> QED
    BY <2>3 DEF T
<1> QED
  BY <1>1, <1>2, <1>10

(* A line of a patch; a header names a path.                                *)
PatchLine == [op : STRING, path : FilePaths \cup {None}, text : FileText]
Header == {"add", "delete", "update", "move"}

(* A patch that parses is a sequence of sections.                           *)
LEMMA SectionsOfPatch ==
  ASSUME FilesAssumption, NEW lines \in Seq(PatchLine),
         \A i \in 1..Len(lines) : lines[i].op \in Header => lines[i].path \in FilePaths
  PROVE  Files!parsePatchSections(lines) \in Seq(FileSection) \cup {None}
<1> DEFINE n == Len(lines)
           Parsed == Seq(FileSection) \cup {None}
           section(line) == [type |-> line.op, path |-> line.path, move |-> None, lines |-> <<>>]
           last(acc) == acc[Len(acc)]
           front(acc) == SubSeq(acc, 1, Len(acc) - 1)
           parse(acc, line) ==
             IF acc = None THEN None
             ELSE IF line.op \in {"add", "delete", "update"} THEN Append(acc, section(line))
             ELSE IF acc = <<>> \/ (line.op = "move" /\ last(acc).type # "update") THEN None
             ELSE Append(front(acc),
                         IF line.op = "move" THEN [last(acc) EXCEPT !.move = line.path]
                         ELSE [last(acc) EXCEPT !.lines = Append(@, [op |-> line.op, text |-> line.text])])
           IsParsed(f) == f = [i \in 0..n |-> IF i = 0 THEN <<>> ELSE parse(f[i - 1], lines[i])]
           parsed == CHOOSE f : IsParsed(f)
           step == [i \in 1..n |-> [acc \in Parsed |-> parse(acc, lines[i])]]
<1>1. n \in Nat /\ \A i \in 1..n : lines[i] \in PatchLine
  OBVIOUS
<1>2. Files!parsePatchSections(lines) = IF parsed[n] = <<>> THEN None ELSE parsed[n]
  BY DEF Files!parsePatchSections, Files!Last, Files!Front
<1>3. \A i \in 1..n : lines[i].op \in Header => lines[i].path \in FilePaths
  OBVIOUS
<1> HIDE DEF n
<1>4. ASSUME NEW acc \in Parsed, NEW i \in 1..n PROVE parse(acc, lines[i]) \in Parsed
  <2> DEFINE line == lines[i]
  <2>1. line \in PatchLine /\ (line.op \in Header => line.path \in FilePaths)
    BY <1>1, <1>3
  <2> HIDE DEF line
  <2>2. /\ line.text \in FileText /\ line.op \in STRING
        /\ line.op \in Header => line.path \in FilePaths
    BY <2>1 DEF PatchLine
  <2>3. CASE acc = None
    BY <2>3
  <2>4. CASE acc # None /\ line.op \in {"add", "delete", "update"}
    <3>1. section(line) \in FileSection
      BY <2>2, <2>4 DEF FileSection, Header
    <3>2. parse(acc, line) = Append(acc, section(line))
      BY <2>4
    <3> HIDE DEF parse, section
    <3> QED
      BY <2>4, <3>1, <3>2 DEF line
  <2>5. CASE acc # None /\ line.op \notin {"add", "delete", "update"}
             /\ (acc = <<>> \/ (line.op = "move" /\ last(acc).type # "update"))
    BY <2>5 DEF line
  <2>6. CASE acc # None /\ line.op \notin {"add", "delete", "update"}
             /\ ~(acc = <<>> \/ (line.op = "move" /\ last(acc).type # "update"))
    <3>1. acc \in Seq(FileSection) /\ acc # <<>>
      BY <2>6
    <3>2. last(acc) \in FileSection /\ front(acc) \in Seq(FileSection)
      BY <3>1, LastOfSeq
    <3>3. PICK it \in FileSection : it = last(acc)
      BY <3>2
    <3>4. CASE line.op = "move"
      <4>1. [it EXCEPT !.move = line.path] \in FileSection
        BY <2>2, <3>4 DEF FileSection, Header
      <4>2. parse(acc, line) = Append(front(acc), [it EXCEPT !.move = line.path])
        BY <2>6, <3>3, <3>4
      <4> HIDE DEF parse, front
      <4> QED
        BY <3>2, <4>1, <4>2 DEF line
    <3>5. CASE line.op # "move"
      <4> DEFINE more == Append(it.lines, [op |-> line.op, text |-> line.text])
      <4>1. more \in Seq([op : STRING, text : FileText])
        BY <2>2 DEF FileSection
      <4>2. [it EXCEPT !.lines = Append(@, [op |-> line.op, text |-> line.text])]
              = [it EXCEPT !.lines = more]
        OBVIOUS
      <4>3. [it EXCEPT !.lines = more] \in FileSection
        <5> HIDE DEF more
        <5> QED
          BY <4>1 DEF FileSection
      <4>4. parse(acc, line) = Append(front(acc), [it EXCEPT !.lines = more])
        BY <2>6, <3>3, <3>5, <4>2
      <4> HIDE DEF parse, front, more
      <4> QED
        BY <3>2, <4>3, <4>4 DEF line
    <3> QED
      BY <3>4, <3>5
  <2> QED
    BY <2>3, <2>4, <2>5, <2>6
<1> HIDE DEF parse
<1>5. <<>> \in Parsed
  OBVIOUS
<1>6. step \in [1..n -> [Parsed -> Parsed]]
  <2> HIDE DEF Parsed
  <2> QED
    BY <1>4
<1> HIDE DEF Parsed
<1>7. PICK f \in [0..n -> Parsed] : f[0] = <<>> /\ \A i \in 1..n : f[i] = step[i][f[i - 1]]
  <2> HIDE DEF step
  <2>1. Iterations(n, Parsed, <<>>, step) # {}
    BY <1>1, <1>5, <1>6, StepsExist
  <2> QED
    BY <2>1 DEF Iterations
<1>8. \A i \in 1..n : f[i] = parse(f[i - 1], lines[i])
  <2>1. ASSUME NEW i \in 1..n PROVE f[i] = parse(f[i - 1], lines[i])
    <3>1. f[i - 1] \in Parsed
      BY <1>1, <1>7
    <3> QED
      BY <1>7, <3>1
  <2> QED
    BY <2>1
<1>9. IsParsed(f)
  <2>1. \A i \in 0..n : f[i] = IF i = 0 THEN <<>> ELSE parse(f[i - 1], lines[i])
    BY <1>1, <1>7, <1>8
  <2>2. f = [i \in 0..n |-> f[i]]
    BY <1>7
  <2>3. [i \in 0..n |-> f[i]] = [i \in 0..n |-> IF i = 0 THEN <<>> ELSE parse(f[i - 1], lines[i])]
    BY <2>1
  <2> QED
    BY <2>2, <2>3
<1>10. IsParsed(parsed)
  <2> HIDE DEF IsParsed
  <2> QED
    BY <1>9
<1> HIDE DEF parsed
<1>11. \A i \in 0..n : parsed[i] \in Parsed
  <2> DEFINE T == {i \in 0..n : parsed[i] \in Parsed}
  <2>1. 0 \in T
    BY <1>1, <1>5, <1>10
  <2>2. ASSUME NEW i \in 1..n, i - 1 \in T PROVE i \in T
    BY <1>1, <1>4, <1>10, <2>2
  <2> HIDE DEF T
  <2>3. \A i \in 0..n : i \in T
    BY <1>1, <2>1, <2>2, UpTo
  <2> QED
    BY <2>3 DEF T
<1>12. parsed[n] \in Parsed
  BY <1>1, <1>11
<1> QED
  BY <1>2, <1>12 DEF Parsed

(* The lines of the file among those of a section that was applied to it,   *)
(* and that they are as they were, in order, up to a position of the file.  *)
KeptLines(out) == {i \in 1..Len(out) : out[i].from # 0}

KeepsTo(old, out, pos, count) ==
  /\ \A i \in KeptLines(out) : out[i].from \in 1..pos /\ out[i].text = old[out[i].from].text
  /\ \A i, j \in KeptLines(out) : i < j => out[i].from < out[j].from
  /\ IsFiniteSet(KeptLines(out)) /\ Cardinality(KeptLines(out)) = count

LineOf(old, i) == [text |-> old[i].text, nl |-> old[i].nl, from |-> i]

(* More lines of the file are kept.                                         *)
LEMMA KeepsMore ==
  ASSUME NEW old \in FileContent, NEW out \in Seq(PatchedLine), NEW pos \in 0..Len(old),
         NEW count, KeepsTo(old, out, pos, count), NEW to \in pos..Len(old)
  PROVE  LET block == [i \in 1..(to - pos) |-> LineOf(old, pos + i)]
         IN /\ block \in Seq(PatchedLine) /\ out \o block \in Seq(PatchedLine)
            /\ KeepsTo(old, out \o block, to, count + (to - pos))
<1> DEFINE block == [i \in 1..(to - pos) |-> LineOf(old, pos + i)]
           all == out \o block
           n == Len(out)
           more == to - pos
<1>1. /\ n \in Nat /\ more \in Nat /\ pos \in Nat /\ to \in Nat /\ to = pos + more
      /\ Len(old) \in Nat /\ to <= Len(old)
  BY DEF FileContent
<1>2. \A i \in 1..Len(old) : LineOf(old, i) \in PatchedLine
  <2>1. \A i \in 1..Len(old) : old[i] \in [text : FileText, nl : BOOLEAN]
    BY ElementOfSeq DEF FileContent
  <2> QED
    BY <1>1, <2>1 DEF LineOf, PatchedLine
<1>3. block \in Seq(PatchedLine) /\ Len(block) = more /\ \A i \in 1..more : block[i] = LineOf(old, pos + i)
  <2>1. \A i \in 1..more : LineOf(old, pos + i) \in PatchedLine
    BY <1>1, <1>2
  <2> QED
    BY <1>1, <2>1
<1> HIDE DEF block, more
<1>4. /\ all \in Seq(PatchedLine) /\ Len(all) = n + more
      /\ \A i \in 1..n : all[i] = out[i]
      /\ \A i \in 1..more : all[n + i] = LineOf(old, pos + i)
  BY <1>1, <1>3
<1> HIDE DEF all, n
<1>5. /\ \A i \in KeptLines(all) : i \in KeptLines(out) \/ i \in (n + 1)..(n + more)
      /\ KeptLines(all) = KeptLines(out) \cup ((n + 1)..(n + more))
      /\ KeptLines(out) \cap ((n + 1)..(n + more)) = {}
  <2>1. ASSUME NEW i \in KeptLines(all) PROVE i \in KeptLines(out) \/ i \in (n + 1)..(n + more)
    BY <1>1, <1>4 DEF KeptLines, n
  <2>2. ASSUME NEW i \in (n + 1)..(n + more) PROVE i \in KeptLines(all) /\ i \notin KeptLines(out)
    <3>1. PICK k \in 1..more : i = n + k
      <4>1. i - n \in 1..more /\ i = n + (i - n)
        BY <1>1
      <4> QED
        BY <4>1
    <3>2. all[i] = LineOf(old, pos + k)
      BY <1>4, <3>1
    <3>3. all[i].from = pos + k
      BY <3>2 DEF LineOf
    <3> QED
      BY <1>1, <1>4, <3>1, <3>3 DEF KeptLines, n
  <2>3. KeptLines(out) \subseteq KeptLines(all)
    BY <1>1, <1>4 DEF KeptLines, n
  <2> QED
    BY <2>1, <2>2, <2>3
<1>6. \A i \in KeptLines(out) : i \in 1..n /\ all[i] = out[i] /\ all[i].from \in 1..pos
                                /\ all[i].text = old[all[i].from].text
  BY <1>4 DEF KeepsTo, KeptLines, n
<1>7. \A i \in (n + 1)..(n + more) : all[i] = LineOf(old, pos + (i - n))
  <2>1. ASSUME NEW i \in (n + 1)..(n + more) PROVE all[i] = LineOf(old, pos + (i - n))
    <3>1. i - n \in 1..more /\ i = n + (i - n)
      BY <1>1
    <3> QED
      BY <1>4, <3>1
  <2> QED
    BY <2>1
<1>8. \A i \in (n + 1)..(n + more) : /\ all[i].from = pos + (i - n)
                                      /\ all[i].text = old[all[i].from].text
  <2>1. ASSUME NEW i \in (n + 1)..(n + more), NEW k, k = pos + (i - n)
        PROVE  all[i].from = k /\ all[i].text = old[k].text
    <3>1. all[i] = LineOf(old, k)
      BY <1>7, <2>1
    <3> QED
      BY <3>1 DEF LineOf
  <2> QED
    BY <2>1
<1>9. \A i \in KeptLines(all) : all[i].from \in 1..to /\ all[i].text = old[all[i].from].text
  <2>1. \A i \in KeptLines(out) : all[i].from \in 1..to
    BY <1>1, <1>6
  <2>2. \A i \in (n + 1)..(n + more) : all[i].from \in 1..to
    BY <1>1, <1>8
  <2> QED
    BY <1>5, <1>6, <1>8, <2>1, <2>2
<1>10. ASSUME NEW i \in KeptLines(all), NEW j \in KeptLines(all), i < j
       PROVE  all[i].from < all[j].from
  <2>1. CASE i \in KeptLines(out) /\ j \in KeptLines(out)
    BY <1>6, <1>10, <2>1 DEF KeepsTo
  <2>2. CASE i \in KeptLines(out) /\ j \in (n + 1)..(n + more)
    <3>1. all[i].from \in 1..pos
      BY <1>6, <2>2
    <3>2. all[j].from = pos + (j - n)
      BY <1>8, <2>2
    <3>3. j - n >= 1 /\ j - n \in Int
      BY <1>1, <2>2
    <3> QED
      BY <1>1, <3>1, <3>2, <3>3
  <2>3. CASE i \in (n + 1)..(n + more) /\ j \in (n + 1)..(n + more)
    BY <1>1, <1>8, <1>10, <2>3
  <2>4. CASE i \in (n + 1)..(n + more) /\ j \in KeptLines(out)
    BY <1>1, <1>6, <1>10, <2>4
  <2> QED
    BY <1>5, <2>1, <2>2, <2>3, <2>4
<1>11. IsFiniteSet(KeptLines(all)) /\ Cardinality(KeptLines(all)) = count + more
  <2>1. /\ IsFiniteSet((n + 1)..(n + more))
        /\ Cardinality((n + 1)..(n + more)) = more
    <3> DEFINE lo == n + 1
               hi == n + more
    <3>1. lo \in Int /\ hi \in Int /\ (lo > hi => more = 0) /\ (~(lo > hi) => hi - lo + 1 = more)
      BY <1>1
    <3> HIDE DEF lo, hi
    <3>2. /\ IsFiniteSet(lo..hi)
          /\ Cardinality(lo..hi) = IF lo > hi THEN 0 ELSE hi - lo + 1
      BY <3>1, FS_Interval
    <3>3. IsFiniteSet(lo..hi) /\ Cardinality(lo..hi) = more
      BY <3>1, <3>2
    <3> QED
      BY <3>3 DEF lo, hi
  <2>2. IsFiniteSet(KeptLines(out)) /\ Cardinality(KeptLines(out)) = count
    BY DEF KeepsTo
  <2>3. /\ IsFiniteSet(KeptLines(all))
        /\ Cardinality(KeptLines(all)) = Cardinality(KeptLines(out)) + Cardinality((n + 1)..(n + more))
             - Cardinality(KeptLines(out) \cap ((n + 1)..(n + more)))
    BY <1>5, <2>1, <2>2, FS_Union
  <2>4. Cardinality(KeptLines(out) \cap ((n + 1)..(n + more))) = 0
    BY <1>5, FS_EmptySet
  <2>5. count \in Nat
    BY <2>2, FS_CardinalityType
  <2> QED
    BY <1>1, <2>1, <2>2, <2>3, <2>4, <2>5
<1>12. KeepsTo(old, all, to, count + more)
  BY <1>9, <1>10, <1>11 DEF KeepsTo
<1> QED
  BY <1>3, <1>4, <1>12 DEF all, block, more

(* A new line leaves those of the file what they are.                       *)
LEMMA KeepsBesideNew ==
  ASSUME NEW old, NEW out \in Seq(PatchedLine), NEW pos, NEW count,
         KeepsTo(old, out, pos, count), NEW text \in FileText
  PROVE  LET line == [text |-> text, nl |-> TRUE, from |-> 0]
         IN Append(out, line) \in Seq(PatchedLine) /\ KeepsTo(old, Append(out, line), pos, count)
<1> DEFINE line == [text |-> text, nl |-> TRUE, from |-> 0]
           all == Append(out, line)
           n == Len(out)
<1>1. line \in PatchedLine /\ line.from = 0
  BY DEF PatchedLine
<1> HIDE DEF line
<1>2. /\ n \in Nat /\ all \in Seq(PatchedLine) /\ Len(all) = n + 1 /\ all[n + 1] = line
      /\ \A i \in 1..n : all[i] = out[i]
  BY <1>1
<1> HIDE DEF all
<1>3. KeptLines(all) = KeptLines(out) /\ \A i \in KeptLines(out) : all[i] = out[i]
  BY <1>1, <1>2 DEF KeptLines
<1>4. KeepsTo(old, all, pos, count)
  BY <1>3 DEF KeepsTo
<1> QED
  BY <1>2, <1>4 DEF all, line

(* A line that is hits comes after the position.                           *)
LEMMA FoundLine ==
  ASSUME NEW old \in FileContent, NEW pos \in 0..Len(old), NEW text
  PROVE  Files!findLine(old, pos, text) \in {0} \cup (pos + 1)..Len(old)
<1> DEFINE hits == {i \in (pos + 1)..Len(old) : old[i].text = text}
<1>1. CASE hits = {}
  BY <1>1 DEF Files!findLine
<1>2. CASE hits # {}
  <2>1. hits \subseteq Nat
    OBVIOUS
  <2>2. Files!findLine(old, pos, text) = Files!Min(hits)
    BY <1>2 DEF Files!findLine
  <2>3. \A i \in hits : i \in (pos + 1)..Len(old)
    OBVIOUS
  <2> HIDE DEF hits
  <2>4. \E i \in hits : \A j \in hits : i <= j
    BY <1>2, <2>1, LeastNumber
  <2>5. Files!Min(hits) \in hits
    BY <2>4 DEF Files!Min
  <2> QED
    BY <2>2, <2>3, <2>5
<1> QED
  BY <1>1, <1>2

(* How far a section has been applied, and a line of it.                    *)
Application(old) == [ok : BOOLEAN, out : Seq(PatchedLine), pos : 0..Len(old)]
SectionLine == [op : STRING, text : FileText]
Removing(patchLines, n) == {i \in 1..n : patchLines[i].op = "-"}

(* An update that succeeds keeps every line it does not remove, in order.   *)
LEMMA UpdateKeeps ==
  ASSUME NEW old \in FileContent, NEW patchLines \in Seq(SectionLine)
  PROVE  LET u == Files!applyUpdateLines(old, patchLines)
             count == Len(old) - Cardinality(Removing(patchLines, Len(patchLines)))
         IN /\ u.ok \in BOOLEAN /\ u.out \in Seq(PatchedLine)
            /\ u.ok => KeepsTo(old, u.out, Len(old), count)
<1> DEFINE n == Len(patchLines)
           Acc == Application(old)
           kept(from, to) == [i \in 1..to - from + 1 |->
                               [text |-> old[from + i - 1].text, nl |-> old[from + i - 1].nl,
                                from |-> from + i - 1]]
           apply(acc, line) ==
             LET idx == Files!findLine(old, acc.pos, line.text)
             IN IF ~acc.ok \/ (line.op = "@@" /\ line.text = <<>>) THEN acc
                ELSE IF line.op = "+"
                THEN [acc EXCEPT !.out = Append(@, [text |-> line.text, nl |-> TRUE, from |-> 0])]
                ELSE IF idx = 0 \/ line.op \notin {"@@", "-", " "} THEN [acc EXCEPT !.ok = FALSE]
                ELSE [acc EXCEPT !.pos = idx,
                                 !.out = @ \o kept(acc.pos + 1, IF line.op = "-" THEN idx - 1 ELSE idx)]
           start == [ok |-> TRUE, out |-> <<>>, pos |-> 0]
           IsApplied(f) == f = [i \in 0..n |-> IF i = 0 THEN start ELSE apply(f[i - 1], patchLines[i])]
           applied == CHOOSE f : IsApplied(f)
           step == [i \in 1..n |-> [acc \in Acc |-> apply(acc, patchLines[i])]]
           end == applied[n]
           Removed(i) == Cardinality(Removing(patchLines, i))
           Keeps(acc, i) == acc.ok => KeepsTo(old, acc.out, acc.pos, acc.pos - Removed(i))
<1>1. n \in Nat /\ (\A i \in 1..n : patchLines[i] \in SectionLine) /\ Len(old) \in Nat
  BY ElementOfSeq DEF FileContent
<1>2. Files!applyUpdateLines(old, patchLines)
        = [end EXCEPT !.out = @ \o kept(end.pos + 1, Len(old))]
  BY DEF Files!applyUpdateLines
<1> HIDE DEF n
<1>3. \A pos \in 0..Len(old), to \in 0..Len(old) :
        pos <= to => kept(pos + 1, to) = [i \in 1..(to - pos) |-> LineOf(old, pos + i)]
  <2>1. ASSUME NEW pos \in 0..Len(old), NEW to \in 0..Len(old), pos <= to
        PROVE  kept(pos + 1, to) = [i \in 1..(to - pos) |-> LineOf(old, pos + i)]
    <3>1. to - (pos + 1) + 1 = to - pos /\ \A i \in 1..(to - pos) : pos + 1 + i - 1 = pos + i
      BY <1>1
    <3> QED
      BY <3>1 DEF LineOf
  <2> QED
    BY <2>1
<1> HIDE DEF kept
<1>4. /\ Removed(0) = 0
      /\ \A i \in 1..n : /\ Removed(i) \in Nat /\ Removed(i - 1) \in Nat
                         /\ patchLines[i].op = "-" => Removed(i) = Removed(i - 1) + 1
                         /\ patchLines[i].op # "-" => Removed(i) = Removed(i - 1)
  <2>1. Removed(0) = 0
    <3>1. Removing(patchLines, 0) = {}
      BY DEF Removing
    <3> QED
      BY <3>1, FS_EmptySet
  <2>2. ASSUME NEW i \in 1..n
        PROVE  /\ Removed(i) \in Nat /\ Removed(i - 1) \in Nat
               /\ patchLines[i].op = "-" => Removed(i) = Removed(i - 1) + 1
               /\ patchLines[i].op # "-" => Removed(i) = Removed(i - 1)
    <3>1. IsFiniteSet(1..n)
      BY <1>1, FS_Interval
    <3>2. Removing(patchLines, i) \subseteq 1..n /\ Removing(patchLines, i - 1) \subseteq 1..n
      BY <1>1 DEF Removing
    <3>3. IsFiniteSet(Removing(patchLines, i)) /\ IsFiniteSet(Removing(patchLines, i - 1))
      BY <3>1, <3>2, FS_Subset
    <3>4. i \notin Removing(patchLines, i - 1)
      BY <1>1 DEF Removing
    <3>5. CASE patchLines[i].op = "-"
      <4>1. Removing(patchLines, i) = Removing(patchLines, i - 1) \cup {i}
        BY <1>1, <3>5 DEF Removing
      <4> QED
        BY <3>3, <3>4, <3>5, <4>1, FS_AddElement, FS_CardinalityType
    <3>6. CASE patchLines[i].op # "-"
      <4>1. Removing(patchLines, i) = Removing(patchLines, i - 1)
        BY <1>1, <3>6 DEF Removing
      <4> QED
        BY <3>3, <3>6, <4>1, FS_CardinalityType
    <3> QED
      BY <3>5, <3>6
  <2> QED
    BY <2>1, <2>2
<1> HIDE DEF Removed
<1>5. ASSUME NEW acc \in Acc, NEW i \in 1..n
      PROVE  /\ apply(acc, patchLines[i]) \in Acc
             /\ Keeps(acc, i - 1) => Keeps(apply(acc, patchLines[i]), i)
  <2> DEFINE line == patchLines[i]
             idx == Files!findLine(old, acc.pos, line.text)
             r == apply(acc, line)
  <2>1. line.op \in STRING /\ line.text \in FileText
    BY <1>1 DEF SectionLine
  <2> HIDE DEF line
  <2>2. /\ acc.ok \in BOOLEAN /\ acc.out \in Seq(PatchedLine) /\ acc.pos \in 0..Len(old)
        /\ acc = [ok |-> acc.ok, out |-> acc.out, pos |-> acc.pos]
    BY DEF Application
  <2>3. idx \in {0} \cup (acc.pos + 1)..Len(old)
    BY <2>2, FoundLine
  <2>4. CASE ~acc.ok \/ (line.op = "@@" /\ line.text = <<>>)
    <3>1. r = acc
      BY <2>4
    <3>2. line.op # "-" \/ ~acc.ok
      BY <2>4
    <3>3. Removed(i) = Removed(i - 1) \/ ~acc.ok
      BY <1>4, <3>2 DEF line
    <3> HIDE DEF apply
    <3> QED
      BY <3>1, <3>3 DEF line
  <2>5. CASE acc.ok /\ line.op = "+"
    <3> DEFINE new == [text |-> line.text, nl |-> TRUE, from |-> 0]
    <3>1. r = [acc EXCEPT !.out = Append(acc.out, new)]
      BY <2>5
    <3> HIDE DEF apply, new
    <3>2. r = [ok |-> acc.ok, out |-> Append(acc.out, new), pos |-> acc.pos]
      BY <2>2, <3>1
    <3>3. r.ok = acc.ok /\ r.out = Append(acc.out, new) /\ r.pos = acc.pos
      BY <3>2
    <3>4. Append(acc.out, new) \in Seq(PatchedLine)
      BY <2>1, <2>2 DEF new, PatchedLine
    <3>5. r \in Acc
      BY <2>2, <3>2, <3>4 DEF Application
    <3>6. Removed(i) = Removed(i - 1)
      BY <1>4, <2>5 DEF line
    <3>7. ASSUME Keeps(acc, i - 1) PROVE Keeps(r, i)
      <4>1. KeepsTo(old, acc.out, acc.pos, acc.pos - Removed(i - 1))
        BY <2>5, <3>7
      <4>2. KeepsTo(old, Append(acc.out, new), acc.pos, acc.pos - Removed(i - 1))
        BY <2>1, <2>2, <4>1, KeepsBesideNew DEF new
      <4> QED
        BY <3>3, <3>6, <4>2
    <3> QED
      BY <3>5, <3>7 DEF line
  <2>6. CASE acc.ok /\ ~(line.op = "@@" /\ line.text = <<>>) /\ line.op # "+"
             /\ (idx = 0 \/ line.op \notin {"@@", "-", " "})
    <3>1. r = [acc EXCEPT !.ok = FALSE]
      BY <2>6
    <3> HIDE DEF apply
    <3>2. r = [ok |-> FALSE, out |-> acc.out, pos |-> acc.pos]
      BY <2>2, <3>1
    <3>3. r \in Acc /\ r.ok = FALSE
      BY <2>2, <3>2 DEF Application
    <3> QED
      BY <3>3 DEF line
  <2>7. CASE acc.ok /\ ~(line.op = "@@" /\ line.text = <<>>) /\ line.op # "+"
             /\ ~(idx = 0 \/ line.op \notin {"@@", "-", " "})
    <3> DEFINE to == IF line.op = "-" THEN idx - 1 ELSE idx
               pos == acc.pos
               block == [k \in 1..(to - pos) |-> LineOf(old, pos + k)]
               count == pos - Removed(i - 1)
    <3>1. /\ pos \in 0..Len(old) /\ pos \in Nat /\ to \in pos..Len(old) /\ to \in 0..Len(old)
          /\ pos <= to /\ to \in Nat /\ idx \in 1..Len(old) /\ to <= idx
      <4>1. acc.pos \in 0..Len(old) /\ idx \in (acc.pos + 1)..Len(old)
        BY <2>2, <2>3, <2>7
      <4> HIDE DEF idx
      <4> QED
        BY <1>1, <4>1
    <3>2. r = [acc EXCEPT !.pos = idx, !.out = acc.out \o kept(pos + 1, to)]
      BY <2>7
    <3> HIDE DEF apply, to, idx, pos
    <3>3. kept(pos + 1, to) = block
      BY <1>3, <3>1
    <3> HIDE DEF block
    <3>4. r = [ok |-> acc.ok, out |-> acc.out \o block, pos |-> idx]
      BY <2>2, <3>2, <3>3
    <3>5. r.ok = acc.ok /\ r.out = acc.out \o block /\ r.pos = idx
      BY <3>4
    <3>6. block \in Seq(PatchedLine)
      <4>1. \A k \in 1..Len(old) : LineOf(old, k) \in PatchedLine
        <5>1. \A k \in 1..Len(old) : old[k] \in [text : FileText, nl : BOOLEAN]
          BY ElementOfSeq DEF FileContent
        <5> QED
          BY <1>1, <5>1 DEF LineOf, PatchedLine
      <4>2. \A k \in 1..(to - pos) : pos + k \in 1..Len(old)
        BY <1>1, <3>1
      <4> QED
        BY <1>1, <3>1, <4>1, <4>2 DEF block
    <3>7. acc.out \o block \in Seq(PatchedLine)
      BY <2>2, <3>6, ConcatProperties
    <3>8. r \in Acc
      <4>1. idx \in 0..Len(old)
        BY <1>1, <3>1
      <4> QED
        BY <2>2, <3>4, <3>7, <4>1 DEF Application
    <3>9. ASSUME Keeps(acc, i - 1) PROVE Keeps(r, i)
      <4>1. KeepsTo(old, acc.out, pos, count)
        BY <2>7, <3>9 DEF pos
      <4> HIDE DEF count
      <4>2. KeepsTo(old, acc.out \o block, to, count + (to - pos))
        BY <2>2, <3>1, <4>1, KeepsMore DEF block
      <4>3. KeepsTo(old, acc.out \o block, idx, count + (to - pos))
        <5>1. \A x \in 1..to : x \in 1..idx
          BY <1>1, <3>1
        <5> QED
          BY <4>2, <5>1 DEF KeepsTo
      <4>4. count + (to - pos) = idx - Removed(i)
        <5>1. Removed(i) \in Nat /\ Removed(i - 1) \in Nat
          BY <1>4
        <5>2. CASE line.op = "-"
          <6>1. to = idx - 1 /\ Removed(i) = Removed(i - 1) + 1
            BY <1>4, <5>2 DEF to, line
          <6> QED
            BY <1>1, <3>1, <5>1, <6>1 DEF count
        <5>3. CASE line.op # "-"
          <6>1. to = idx /\ Removed(i) = Removed(i - 1)
            BY <1>4, <5>3 DEF to, line
          <6> QED
            BY <1>1, <3>1, <5>1, <6>1 DEF count
        <5> QED
          BY <5>2, <5>3
      <4> QED
        BY <3>5, <4>3, <4>4
    <3> QED
      BY <3>8, <3>9 DEF line
  <2> QED
    BY <2>2, <2>4, <2>5, <2>6, <2>7
<1> HIDE DEF apply, Keeps
<1>6. start \in Acc /\ Keeps(start, 0)
  <2>1. KeptLines(<<>>) = {}
    BY DEF KeptLines
  <2>2. KeepsTo(old, <<>>, 0, 0)
    BY <2>1, FS_EmptySet DEF KeepsTo
  <2>3. start \in Acc
    BY <1>1 DEF Application
  <2> QED
    BY <1>4, <2>2, <2>3 DEF Keeps
<1> HIDE DEF start, Acc
<1>7. step \in [1..n -> [Acc -> Acc]]
  BY <1>5
<1>8. PICK f \in [0..n -> Acc] : f[0] = start /\ \A i \in 1..n : f[i] = step[i][f[i - 1]]
  <2> HIDE DEF step
  <2>1. Iterations(n, Acc, start, step) # {}
    BY <1>1, <1>6, <1>7, StepsExist
  <2> QED
    BY <2>1 DEF Iterations
<1>9. \A i \in 1..n : f[i] = apply(f[i - 1], patchLines[i])
  <2>1. ASSUME NEW i \in 1..n PROVE f[i] = apply(f[i - 1], patchLines[i])
    <3>1. f[i - 1] \in Acc
      BY <1>1, <1>8
    <3> QED
      BY <1>8, <3>1
  <2> QED
    BY <2>1
<1>10. IsApplied(f)
  <2>1. \A i \in 0..n : f[i] = IF i = 0 THEN start ELSE apply(f[i - 1], patchLines[i])
    BY <1>1, <1>8, <1>9
  <2>2. f = [i \in 0..n |-> f[i]]
    BY <1>8
  <2>3. [i \in 0..n |-> f[i]] = [i \in 0..n |-> IF i = 0 THEN start ELSE apply(f[i - 1], patchLines[i])]
    BY <2>1
  <2> QED
    BY <2>2, <2>3
<1>11. IsApplied(applied)
  <2> HIDE DEF IsApplied
  <2> QED
    BY <1>10
<1> HIDE DEF applied
<1>12. \A i \in 0..n : applied[i] \in Acc /\ Keeps(applied[i], i)
  <2> DEFINE T == {i \in 0..n : applied[i] \in Acc /\ Keeps(applied[i], i)}
  <2>1. 0 \in T
    BY <1>1, <1>6, <1>11
  <2>2. ASSUME NEW i \in 1..n, i - 1 \in T PROVE i \in T
    <3>1. applied[i] = apply(applied[i - 1], patchLines[i])
      BY <1>1, <1>11
    <3> QED
      BY <1>1, <1>5, <2>2, <3>1
  <2> HIDE DEF T
  <2>3. \A i \in 0..n : i \in T
    BY <1>1, <2>1, <2>2, UpTo
  <2> QED
    BY <2>3 DEF T
<1>13. end \in Acc /\ Keeps(end, n)
  BY <1>1, <1>12
<1> HIDE DEF end
<1>14. /\ end.ok \in BOOLEAN /\ end.out \in Seq(PatchedLine) /\ end.pos \in 0..Len(old)
       /\ end = [ok |-> end.ok, out |-> end.out, pos |-> end.pos]
  BY <1>13 DEF Acc, Application
<1> DEFINE block == [i \in 1..(Len(old) - end.pos) |-> LineOf(old, end.pos + i)]
           u == Files!applyUpdateLines(old, patchLines)
<1>15. u = [ok |-> end.ok, out |-> end.out \o block, pos |-> end.pos]
  <2>1. kept(end.pos + 1, Len(old)) = block
    <3>1. Len(old) \in 0..Len(old) /\ end.pos <= Len(old) /\ end.pos \in 0..Len(old)
      BY <1>1, <1>14
    <3> QED
      BY <1>3, <3>1
  <2> HIDE DEF block
  <2>2. u = [end EXCEPT !.out = end.out \o block]
    BY <1>2, <2>1
  <2> HIDE DEF u
  <2> QED
    BY <1>14, <2>2
<1> HIDE DEF u, block
<1>16. u.ok = end.ok /\ u.out = end.out \o block
  BY <1>15
<1>17. u.out \in Seq(PatchedLine)
  <2>1. \A k \in 1..Len(old) : LineOf(old, k) \in PatchedLine
    <3>1. \A k \in 1..Len(old) : old[k] \in [text : FileText, nl : BOOLEAN]
      BY ElementOfSeq DEF FileContent
    <3> QED
      BY <1>1, <3>1 DEF LineOf, PatchedLine
  <2>2. \A k \in 1..(Len(old) - end.pos) : end.pos + k \in 1..Len(old)
    BY <1>1, <1>14
  <2>3. block \in Seq(PatchedLine)
    <3>1. \A k \in 1..(Len(old) - end.pos) : LineOf(old, end.pos + k) \in PatchedLine
      BY <2>1, <2>2
    <3>2. Len(old) - end.pos \in Nat
      BY <1>1, <1>14
    <3> QED
      BY <3>1, <3>2 DEF block
  <2> QED
    BY <1>14, <1>16, <2>3, ConcatProperties
<1>18. ASSUME u.ok PROVE KeepsTo(old, u.out, Len(old), Len(old) - Removed(n))
  <2> DEFINE count == end.pos - Removed(n)
  <2>1. KeepsTo(old, end.out, end.pos, count)
    BY <1>13, <1>16, <1>18 DEF Keeps
  <2>2. Len(old) \in end.pos..Len(old)
    BY <1>1, <1>14
  <2>3. count + (Len(old) - end.pos) = Len(old) - Removed(n)
    <3>1. Removed(n) \in Nat
      BY <1>1, <1>4
    <3> QED
      BY <1>1, <1>14, <3>1
  <2> HIDE DEF count
  <2>4. KeepsTo(old, end.out \o block, Len(old), count + (Len(old) - end.pos))
    BY <1>14, <2>1, <2>2, KeepsMore DEF block
  <2> QED
    BY <1>16, <2>3, <2>4
<1> QED
  BY <1>14, <1>16, <1>17, <1>18 DEF u, Removed, n

(* What an update leaves is a text.                                         *)
LEMMA VerifiedIsContent ==
  ASSUME NEW tree \in FileTree, NEW section \in FileSection
  PROVE  Files!Verified(section, tree).text \in FileContent
<1> DEFINE old == tree[section.path]
           updated == Files!applyUpdateLines(old, section.lines)
           v == Files!Verified(section, tree)
<1>1. /\ section.lines \in Seq(SectionLine) /\ section.path \in FilePaths
      /\ section.type \in {"add", "delete", "update"}
  BY DEF FileSection, SectionLine
<1>2. old \in FileContent \cup {None}
  BY <1>1 DEF FileTree
<1>3. <<>> \in FileContent
  BY DEF FileContent
<1>4. CASE section.type = "add"
  <2> DEFINE text == [i \in DOMAIN section.lines |-> [text |-> section.lines[i].text, nl |-> TRUE]]
  <2>1. v.text = text
    BY <1>4 DEF Files!Verified
  <2>2. \A i \in 1..Len(section.lines) : section.lines[i].text \in FileText
    <3>1. \A i \in 1..Len(section.lines) : section.lines[i] \in SectionLine
      BY <1>1, ElementOfSeq
    <3> QED
      BY <3>1 DEF SectionLine
  <2>3. DOMAIN section.lines = 1..Len(section.lines) /\ Len(section.lines) \in Nat
    BY <1>1
  <2>4. text \in [1..Len(section.lines) -> [text : FileText, nl : BOOLEAN]]
    BY <2>2, <2>3
  <2>5. text \in FileContent
    <3> DEFINE n == Len(section.lines)
    <3>1. n \in Nat /\ text \in [1..n -> [text : FileText, nl : BOOLEAN]]
      BY <2>3, <2>4
    <3> HIDE DEF n, text
    <3> QED
      BY <3>1, SeqDef DEF FileContent
  <2> QED
    BY <2>1, <2>5
<1>5. CASE section.type = "delete"
  BY <1>3, <1>5 DEF Files!Verified
<1>6. CASE section.type = "update" /\ old = None
  BY <1>3, <1>6 DEF Files!Verified
<1>7. CASE section.type = "update" /\ old # None
  <2>1. v.text = Files!Written(updated.out)
    BY <1>7 DEF Files!Verified
  <2>2. updated.out \in Seq(PatchedLine)
    BY <1>1, <1>2, <1>7, UpdateKeeps
  <2>3. Files!Written(updated.out) \in FileContent
    BY <2>2, WrittenIsContent
  <2> QED
    BY <2>1, <2>3
<1> QED
  BY <1>1, <1>4, <1>5, <1>6, <1>7

(* A section is verified against the file that it names first.              *)
LEMMA VerifiedByPath ==
  ASSUME NEW section, NEW tree, NEW other, tree[section.path] = other[section.path]
  PROVE  Files!Verified(section, tree) = Files!Verified(section, other)
BY DEF Files!Verified

(* A section changes the files that it names, each by itself.               *)
LEMMA AppliedIs ==
  ASSUME FilesAssumption, NEW tree \in FileTree, NEW section \in FileSection
  PROVE  LET text == Files!Verified(section, tree).text
             after == Files!Applied(tree, section)
         IN /\ after \in FileTree
            /\ \A p \in FilePaths :
                 after[p] = IF section.type = "delete"
                            THEN (IF p = section.path THEN None ELSE tree[p])
                            ELSE IF section.move = None
                            THEN (IF p = section.path THEN text ELSE tree[p])
                            ELSE IF p = section.move THEN text
                            ELSE IF p = section.path THEN None ELSE tree[p]
<1> DEFINE text == Files!Verified(section, tree).text
<1>1. text \in FileContent
  BY VerifiedIsContent
<1>2. Files!Applied(tree, section) =
        IF section.type = "delete" THEN [tree EXCEPT ![section.path] = None]
        ELSE IF section.move = None THEN [tree EXCEPT ![section.path] = text]
        ELSE [tree EXCEPT ![section.path] = None, ![section.move] = text]
  BY DEF Files!Applied
<1> HIDE DEF text
<1>3. section.path \in FilePaths /\ section.move \in FilePaths \cup {None} /\ None \notin FilePaths
  BY DEF FileSection, FilesAssumption
<1>4. CASE section.type = "delete"
  <2> DEFINE after == [tree EXCEPT ![section.path] = None]
  <2>1. Files!Applied(tree, section) = after
    BY <1>2, <1>4
  <2>2. after \in FileTree /\ \A p \in FilePaths : after[p] = IF p = section.path THEN None ELSE tree[p]
    BY <1>3 DEF FileTree
  <2> HIDE DEF after
  <2> QED
    BY <1>4, <2>1, <2>2
<1>5. CASE section.type # "delete" /\ section.move = None
  <2> DEFINE after == [tree EXCEPT ![section.path] = text]
  <2>1. Files!Applied(tree, section) = after
    BY <1>2, <1>5
  <2>2. after \in FileTree /\ \A p \in FilePaths : after[p] = IF p = section.path THEN text ELSE tree[p]
    BY <1>1, <1>3 DEF FileTree
  <2> HIDE DEF after
  <2> QED
    BY <1>5, <2>1, <2>2 DEF text
<1>6. CASE section.type # "delete" /\ section.move # None
  <2> DEFINE moved == [tree EXCEPT ![section.path] = None]
             after == [moved EXCEPT ![section.move] = text]
  <2>1. Files!Applied(tree, section) = after
    BY <1>2, <1>6
  <2>2. moved \in FileTree /\ \A p \in FilePaths : moved[p] = IF p = section.path THEN None ELSE tree[p]
    BY <1>3 DEF FileTree
  <2> HIDE DEF moved
  <2>3. /\ after \in FileTree
        /\ \A p \in FilePaths : after[p] = IF p = section.move THEN text ELSE moved[p]
    BY <1>1, <1>3, <1>6, <2>2 DEF FileTree
  <2> HIDE DEF after
  <2> QED
    BY <1>6, <2>1, <2>2, <2>3 DEF text
<1> QED
  BY <1>4, <1>5, <1>6

(* The files after each section are the files.                              *)
LEMMA PatchedIs ==
  ASSUME FilesAssumption, NEW tree \in FileTree, NEW sections \in Seq(FileSection)
  PROVE  LET after == Files!Patched(tree, sections)
         IN /\ after \in [0..Len(sections) -> FileTree] /\ after[0] = tree
            /\ \A i \in 1..Len(sections) : after[i] = Files!Applied(after[i - 1], sections[i])
<1> DEFINE n == Len(sections)
           IsAfter(f) == f = [i \in 0..n |-> IF i = 0 THEN tree ELSE Files!Applied(f[i - 1], sections[i])]
           after == CHOOSE f : IsAfter(f)
           step == [i \in 1..n |-> [t \in FileTree |-> Files!Applied(t, sections[i])]]
<1>1. n \in Nat /\ \A i \in 1..n : sections[i] \in FileSection
  BY ElementOfSeq
<1>2. Files!Patched(tree, sections) = after
  BY DEF Files!Patched
<1> HIDE DEF n
<1>3. step \in [1..n -> [FileTree -> FileTree]]
  BY <1>1, AppliedIs
<1>4. PICK f \in [0..n -> FileTree] : f[0] = tree /\ \A i \in 1..n : f[i] = step[i][f[i - 1]]
  <2> HIDE DEF step
  <2>1. Iterations(n, FileTree, tree, step) # {}
    BY <1>1, <1>3, StepsExist
  <2> QED
    BY <2>1 DEF Iterations
<1>5. \A i \in 1..n : f[i] = Files!Applied(f[i - 1], sections[i])
  <2>1. ASSUME NEW i \in 1..n PROVE f[i] = Files!Applied(f[i - 1], sections[i])
    <3>1. f[i - 1] \in FileTree
      BY <1>1, <1>4
    <3> QED
      BY <1>4, <3>1
  <2> QED
    BY <2>1
<1>6. IsAfter(f)
  <2>1. \A i \in 0..n : f[i] = IF i = 0 THEN tree ELSE Files!Applied(f[i - 1], sections[i])
    BY <1>1, <1>4, <1>5
  <2>2. f = [i \in 0..n |-> f[i]]
    BY <1>4
  <2>3. [i \in 0..n |-> f[i]]
          = [i \in 0..n |-> IF i = 0 THEN tree ELSE Files!Applied(f[i - 1], sections[i])]
    BY <2>1
  <2> QED
    BY <2>2, <2>3
<1>7. IsAfter(after)
  <2> HIDE DEF IsAfter
  <2> QED
    BY <1>6
<1> HIDE DEF after
<1>8. after[0] = tree /\ \A i \in 1..n : after[i] = Files!Applied(after[i - 1], sections[i])
  BY <1>1, <1>7
<1>9. \A i \in 0..n : after[i] \in FileTree
  <2> DEFINE T == {i \in 0..n : after[i] \in FileTree}
  <2>1. 0 \in T
    BY <1>1, <1>8
  <2>2. ASSUME NEW i \in 1..n, i - 1 \in T PROVE i \in T
    BY <1>1, <1>8, <2>2, AppliedIs
  <2> HIDE DEF T
  <2>3. \A i \in 0..n : i \in T
    BY <1>1, <2>1, <2>2, UpTo
  <2> QED
    BY <2>3 DEF T
<1>10. after \in [0..n -> FileTree]
  <2>1. after = [i \in 0..n |-> after[i]]
    BY <1>7
  <2> QED
    BY <1>9, <2>1
<1> QED
  BY <1>2, <1>8, <1>10 DEF n

(* The files that the sections of a patch name, and those of a call.        *)
PatchOf(work) == Files!parsePatchSections(work.lines)
NamedBy(sections) == UNION {Files!PathsOf(sections[i]) : i \in DOMAIN sections}
WorkPaths(work) ==
  IF work.tool # "apply_patch" THEN {work.path}
  ELSE IF PatchOf(work) = None THEN {} ELSE NamedBy(PatchOf(work))

(* A call whose headers name paths.                                         *)
FittingWork ==
  {work \in FileWork :
    work.tool = "apply_patch" =>
      \A i \in DOMAIN work.lines : work.lines[i].op \in Header => work.lines[i].path \in FilePaths}

(* The sections of a call name its files.                                   *)
LEMMA NamedPaths ==
  ASSUME NEW sections \in Seq(FileSection)
  PROVE  /\ NamedBy(sections) \subseteq FilePaths
         /\ \A i \in 1..Len(sections) : Files!PathsOf(sections[i]) \subseteq NamedBy(sections)
<1>1. \A i \in 1..Len(sections) : sections[i] \in FileSection
  BY ElementOfSeq
<1>2. DOMAIN sections = 1..Len(sections)
  OBVIOUS
<1>3. ASSUME NEW i \in 1..Len(sections) PROVE Files!PathsOf(sections[i]) \subseteq FilePaths
  <2>1. sections[i] \in FileSection
    BY <1>1
  <2> QED
    BY <2>1 DEF FileSection, Files!PathsOf
<1> QED
  BY <1>2, <1>3 DEF NamedBy

LEMMA WorkIs ==
  ASSUME FilesAssumption, NEW work \in FittingWork
  PROVE  /\ work.tool \in {"write", "edit", "apply_patch"}
         /\ work.tool # "apply_patch" => work.path \in FilePaths
         /\ work.tool = "write" => work.text \in FileContent
         /\ work.tool = "edit" => work.new \in FileText
         /\ work.tool = "apply_patch" => PatchOf(work) \in Seq(FileSection) \cup {None}
         /\ WorkPaths(work) \subseteq FilePaths
<1>1. CASE work \in [tool : {"write"}, path : FilePaths, text : FileContent]
  BY <1>1 DEF WorkPaths
<1>2. CASE work \in [tool : {"edit"}, path : FilePaths, old : FileText, new : FileText, all : BOOLEAN]
  BY <1>2 DEF WorkPaths
<1>3. CASE work \in [tool : {"apply_patch"},
                     lines : Seq([op : STRING, path : FilePaths \cup {None}, text : FileText])]
  <2>1. work.tool = "apply_patch" /\ work.lines \in Seq(PatchLine)
    BY <1>3 DEF PatchLine
  <2>2. \A i \in 1..Len(work.lines) : work.lines[i].op \in Header => work.lines[i].path \in FilePaths
    <3>1. DOMAIN work.lines = 1..Len(work.lines)
      BY <2>1
    <3> QED
      BY <2>1, <3>1 DEF FittingWork
  <2>3. PatchOf(work) \in Seq(FileSection) \cup {None}
    BY <2>1, <2>2, SectionsOfPatch DEF PatchOf
  <2>4. WorkPaths(work) \subseteq FilePaths
    BY <2>1, <2>3, NamedPaths DEF WorkPaths
  <2> QED
    BY <2>1, <2>3, <2>4
<1>4. work \in FileWork
  BY DEF FittingWork
<1> QED
  BY <1>1, <1>2, <1>3, <1>4 DEF FileWork

(* What a patch leaves of its files depends on them alone, and the others   *)
(* stay.                                                                    *)
LEMMA PatchedByPaths ==
  ASSUME FilesAssumption, NEW tree \in FileTree, NEW other \in FileTree,
         NEW sections \in Seq(FileSection),
         \A p \in NamedBy(sections) : tree[p] = other[p]
  PROVE  \A n \in 0..Len(sections) :
           /\ \A p \in NamedBy(sections) :
                Files!Patched(tree, sections)[n][p] = Files!Patched(other, sections)[n][p]
           /\ \A p \in FilePaths \ NamedBy(sections) : Files!Patched(tree, sections)[n][p] = tree[p]
<1> DEFINE P == NamedBy(sections)
           A == Files!Patched(tree, sections)
           B == Files!Patched(other, sections)
           m == Len(sections)
           T == {n \in 0..m : /\ \A p \in P : A[n][p] = B[n][p]
                              /\ \A p \in FilePaths \ P : A[n][p] = tree[p]}
<1>1. /\ A \in [0..m -> FileTree] /\ A[0] = tree
      /\ \A i \in 1..m : A[i] = Files!Applied(A[i - 1], sections[i])
  BY PatchedIs
<1>2. /\ B \in [0..m -> FileTree] /\ B[0] = other
      /\ \A i \in 1..m : B[i] = Files!Applied(B[i - 1], sections[i])
  BY PatchedIs
<1>3. m \in Nat /\ \A i \in 1..m : sections[i] \in FileSection
  BY ElementOfSeq
<1>4. P \subseteq FilePaths /\ \A i \in 1..m : Files!PathsOf(sections[i]) \subseteq P
  BY NamedPaths
<1>5. \A p \in P : tree[p] = other[p]
  OBVIOUS
<1> HIDE DEF P, A, B, m
<1>6. 0 \in T
  BY <1>1, <1>2, <1>3, <1>5
<1>7. ASSUME NEW i \in 1..m, i - 1 \in T PROVE i \in T
  <2> DEFINE section == sections[i]
             a == A[i - 1]
             b == B[i - 1]
  <2>1. i - 1 \in 0..m
    BY <1>3
  <2>2. a \in FileTree /\ b \in FileTree
    BY <1>1, <1>2, <2>1
  <2>3. section \in FileSection /\ A[i] = Files!Applied(a, section) /\ B[i] = Files!Applied(b, section)
    BY <1>1, <1>2, <1>3
  <2>4. /\ \A p \in P : a[p] = b[p]
        /\ \A p \in FilePaths \ P : a[p] = tree[p]
    BY <1>7
  <2>5. Files!PathsOf(section) \subseteq P
    BY <1>4
  <2> HIDE DEF section, a, b
  <2>6. section.path \in P /\ (section.move # None => section.move \in P)
    BY <2>3, <2>5 DEF FileSection, FilesAssumption, Files!PathsOf
  <2>7. Files!Verified(section, a) = Files!Verified(section, b)
    BY <2>4, <2>6, VerifiedByPath
  <2>8. \A p \in FilePaths :
          A[i][p] = IF section.type = "delete"
                    THEN (IF p = section.path THEN None ELSE a[p])
                    ELSE IF section.move = None
                    THEN (IF p = section.path THEN Files!Verified(section, a).text ELSE a[p])
                    ELSE IF p = section.move THEN Files!Verified(section, a).text
                    ELSE IF p = section.path THEN None ELSE a[p]
    BY <2>2, <2>3, AppliedIs
  <2>9. \A p \in FilePaths :
          B[i][p] = IF section.type = "delete"
                    THEN (IF p = section.path THEN None ELSE b[p])
                    ELSE IF section.move = None
                    THEN (IF p = section.path THEN Files!Verified(section, b).text ELSE b[p])
                    ELSE IF p = section.move THEN Files!Verified(section, b).text
                    ELSE IF p = section.path THEN None ELSE b[p]
    BY <2>2, <2>3, AppliedIs
  <2>10. \A p \in P : A[i][p] = B[i][p]
    BY <1>4, <2>4, <2>7, <2>8, <2>9
  <2>11. \A p \in FilePaths \ P : A[i][p] = tree[p]
    BY <2>4, <2>6, <2>8
  <2> QED
    BY <1>3, <2>10, <2>11
<1> HIDE DEF T
<1>8. \A n \in 0..m : n \in T
  BY <1>3, <1>6, <1>7, UpTo
<1> QED
  BY <1>8 DEF T, P, A, B, m

(* So it is with any call.                                                  *)
LEMMA EditedIsContent ==
  ASSUME NEW work, NEW old \in FileContent, work.new \in FileText
  PROVE  Files!Edited(work, old).text \in FileContent
<1> DEFINE n == Len(old)
           hits == {i \in DOMAIN old : old[i].text = work.old}
           text == [i \in DOMAIN old |-> IF i \in hits THEN [old[i] EXCEPT !.text = work.new] ELSE old[i]]
           Line == [text : FileText, nl : BOOLEAN]
<1>1. Files!Edited(work, old).text = text
  BY DEF Files!Edited
<1>2. n \in Nat /\ DOMAIN old = 1..n /\ \A i \in 1..n : old[i] \in Line
  <2>1. old \in Seq(Line)
    BY DEF FileContent
  <2> HIDE DEF Line
  <2>2. n \in Nat /\ DOMAIN old = 1..n
    BY <2>1
  <2> QED
    BY <2>1, <2>2, ElementOfSeq
<1>3. \A line \in Line : [line EXCEPT !.text = work.new] \in Line
  OBVIOUS
<1> HIDE DEF n, Line, hits
<1>4. text \in [1..n -> Line]
  BY <1>2, <1>3
<1> HIDE DEF text
<1>5. text \in Seq(Line)
  BY <1>2, <1>4, SeqDef
<1> QED
  BY <1>1, <1>5 DEF FileContent, Line

LEMMA EffectIs ==
  ASSUME FilesAssumption, NEW work \in FittingWork, NEW tree \in FileTree
  PROVE  Files!Effect(tree, work) \in FileTree
<1>1. CASE work.tool = "write"
  <2>1. Files!Effect(tree, work) = [tree EXCEPT ![work.path] = work.text]
    BY <1>1 DEF Files!Effect
  <2>2. work.path \in FilePaths /\ work.text \in FileContent
    BY <1>1, WorkIs
  <2> QED
    BY <2>1, <2>2 DEF FileTree
<1>2. CASE work.tool = "edit"
  <2> DEFINE old == tree[work.path]
             text == Files!Edited(work, old).text
  <2>1. Files!Effect(tree, work) = IF old = None THEN tree ELSE [tree EXCEPT ![work.path] = text]
    BY <1>2 DEF Files!Effect
  <2>2. work.path \in FilePaths /\ work.new \in FileText
    BY <1>2, WorkIs
  <2>3. old \in FileContent \cup {None}
    BY <2>2 DEF FileTree
  <2>4. CASE old = None
    BY <2>1, <2>4
  <2>5. CASE old # None
    <3>1. text \in FileContent
      BY <2>2, <2>3, <2>5, EditedIsContent
    <3> HIDE DEF text, old
    <3> QED
      BY <2>1, <2>2, <2>5, <3>1 DEF FileTree
  <2> QED
    BY <2>4, <2>5
<1>3. CASE work.tool = "apply_patch"
  <2> DEFINE sections == PatchOf(work)
  <2>1. Files!Effect(tree, work)
          = IF sections = None THEN tree ELSE Files!Patched(tree, sections)[Len(sections)]
    BY <1>3 DEF Files!Effect, PatchOf
  <2>2. sections \in Seq(FileSection) \cup {None}
    BY <1>3, WorkIs
  <2> HIDE DEF sections
  <2>3. CASE sections = None
    BY <2>1, <2>3
  <2>4. CASE sections # None
    <3>1. Files!Patched(tree, sections) \in [0..Len(sections) -> FileTree] /\ Len(sections) \in Nat
      BY <2>2, <2>4, PatchedIs
    <3> QED
      BY <2>1, <2>4, <3>1
  <2> QED
    BY <2>3, <2>4
<1> QED
  BY <1>1, <1>2, <1>3, WorkIs

LEMMA EffectByPaths ==
  ASSUME FilesAssumption, NEW work \in FittingWork, NEW tree \in FileTree, NEW other \in FileTree,
         \A p \in WorkPaths(work) : tree[p] = other[p]
  PROVE  /\ \A p \in WorkPaths(work) : Files!Effect(tree, work)[p] = Files!Effect(other, work)[p]
         /\ \A p \in FilePaths \ WorkPaths(work) : Files!Effect(tree, work)[p] = tree[p]
<1>1. CASE work.tool = "write"
  <2>1. /\ Files!Effect(tree, work) = [tree EXCEPT ![work.path] = work.text]
        /\ Files!Effect(other, work) = [other EXCEPT ![work.path] = work.text]
    BY <1>1 DEF Files!Effect
  <2>2. work.path \in FilePaths /\ WorkPaths(work) = {work.path}
    BY <1>1, WorkIs DEF WorkPaths
  <2> QED
    BY <2>1, <2>2 DEF FileTree
<1>2. CASE work.tool = "edit"
  <2> DEFINE old == tree[work.path]
             text == Files!Edited(work, old).text
  <2>1. work.path \in FilePaths /\ WorkPaths(work) = {work.path}
    BY <1>2, WorkIs DEF WorkPaths
  <2>2. other[work.path] = old
    BY <2>1
  <2>3. Files!Effect(tree, work) = IF old = None THEN tree ELSE [tree EXCEPT ![work.path] = text]
    BY <1>2 DEF Files!Effect
  <2>4. Files!Effect(other, work) = IF old = None THEN other ELSE [other EXCEPT ![work.path] = text]
    BY <1>2, <2>2 DEF Files!Effect
  <2> HIDE DEF text
  <2> QED
    BY <2>1, <2>2, <2>3, <2>4 DEF FileTree
<1>3. CASE work.tool = "apply_patch"
  <2> DEFINE sections == PatchOf(work)
  <2>1. /\ Files!Effect(tree, work)
             = IF sections = None THEN tree ELSE Files!Patched(tree, sections)[Len(sections)]
        /\ Files!Effect(other, work)
             = IF sections = None THEN other ELSE Files!Patched(other, sections)[Len(sections)]
    BY <1>3 DEF Files!Effect, PatchOf
  <2>2. sections \in Seq(FileSection) \cup {None}
    BY <1>3, WorkIs
  <2>3. WorkPaths(work) = IF sections = None THEN {} ELSE NamedBy(sections)
    BY <1>3 DEF WorkPaths
  <2> HIDE DEF sections
  <2>4. CASE sections = None
    BY <2>1, <2>3, <2>4
  <2>5. CASE sections # None
    <3>1. sections \in Seq(FileSection) /\ Len(sections) \in 0..Len(sections)
      BY <2>2, <2>5
    <3>2. \A p \in NamedBy(sections) : tree[p] = other[p]
      BY <2>3, <2>5
    <3>3. \A n \in 0..Len(sections) :
            /\ \A p \in NamedBy(sections) :
                 Files!Patched(tree, sections)[n][p] = Files!Patched(other, sections)[n][p]
            /\ \A p \in FilePaths \ NamedBy(sections) : Files!Patched(tree, sections)[n][p] = tree[p]
      BY <3>1, <3>2, PatchedByPaths
    <3> QED
      BY <2>1, <2>3, <2>5, <3>1, <3>3
  <2> QED
    BY <2>4, <2>5
<1> QED
  BY <1>1, <1>2, <1>3, WorkIs

(* A call that has begun knows what it may touch, and is where its tool     *)
(* can be.                                                                  *)
FilePlaces == {"called", "read", "write", "move", "remove"}
FileCall ==
  [at : FilePlaces, checked : SUBSET FilePaths, sections : Seq(FileSection), next : Nat \ {0},
   text : FileContent, answer : {None, "ok", "error"}]

(* The files of the section that is being applied.                          *)
Current(it) == IF it.next > Len(it.sections) THEN {} ELSE Files!PathsOf(it.sections[it.next])

CallFits(work, it) ==
  /\ it.at = "called" =>
       it.checked = {} /\ it.sections = <<>> /\ it.next = 1 /\ it.answer # "ok"
  /\ it.at # "called" => it.checked = WorkPaths(work)
  /\ it.at # "called" /\ work.tool # "apply_patch" =>
       it.at \in {"read", "write"} /\ it.sections = <<>> /\ it.next = 1
  /\ it.at # "called" /\ work.tool = "apply_patch" =>
       /\ it.sections = PatchOf(work) /\ it.next <= Len(it.sections) + 1
       /\ it.at \in {"write", "move", "remove"} => it.next <= Len(it.sections)
       /\ it.at = "write" => it.sections[it.next].type # "delete"
       /\ it.at = "move" => it.sections[it.next].type # "delete" /\ it.sections[it.next].move # None
       /\ it.at = "remove" => it.sections[it.next].type = "delete" \/ it.sections[it.next].move # None
       /\ it.answer = "ok" => it.at = "read" /\ it.next = Len(it.sections) + 1

(* The files after what a call has done so far to those it hits.           *)
Progress(base, work, it) ==
  IF work.tool # "apply_patch"
  THEN IF it.answer = "ok" THEN Files!Effect(base, work) ELSE base
  ELSE LET prev == Files!Patched(base, it.sections)[it.next - 1]
           section == it.sections[it.next]
       IN IF it.at = "move" THEN [prev EXCEPT ![section.path] = it.text]
          ELSE IF it.at = "remove" /\ section.type # "delete"
          THEN [prev EXCEPT ![section.path] = it.text, ![section.move] = it.text]
          ELSE prev

(* What a call will write is what it read from those files.                 *)
TextFollows(base, work, it) ==
  /\ work.tool = "write" /\ it.at = "write" => it.text = work.text
  /\ work.tool = "edit" /\ it.at = "write" =>
       base[work.path] # None /\ it.text = Files!Edited(work, base[work.path]).text
  /\ work.tool = "apply_patch" /\ it.at \in {"write", "move", "remove"} =>
       it.text = Files!Verified(it.sections[it.next], Files!Patched(base, it.sections)[it.next - 1]).text

Obeys(tree, P, base, work, it) ==
  /\ \A p \in P : tree[p] = Progress(base, work, it)[p]
  /\ TextFollows(base, work, it)

(* What one step of a call may do to its state and to the files.            *)
StepOf(work, old, new, tree, after) ==
  /\ new \in FileCall /\ CallFits(work, new) /\ after \in FileTree
  /\ old.answer = None /\ (new.at # "called" \/ new.answer # None)
  /\ old.at # "called" => new.at # "called"
  /\ \A p \in FilePaths : after[p] # tree[p] => new.at # "called" /\ p \in WorkPaths(work)
  /\ new.answer = "error" =>
       /\ new.sections = old.sections /\ new.next = old.next
       /\ work.tool = "apply_patch" => \A p \in FilePaths \ Current(new) : after[p] = tree[p]
  /\ new.answer # "error" /\ Files!MovesAway(work) =>
       \A base \in FileTree, P \in SUBSET FilePaths :
         WorkPaths(work) \subseteq P /\ Obeys(tree, P, base, work, old)
           => Obeys(after, P, base, work, new)

(* A patch goes on from files.                                              *)
LEMMA PrevIs ==
  ASSUME FilesAssumption, NEW base \in FileTree, NEW it \in FileCall,
         it.next <= Len(it.sections) + 1
  PROVE  Files!Patched(base, it.sections)[it.next - 1] \in FileTree
<1>1. it.sections \in Seq(FileSection) /\ it.next \in Nat \ {0}
  BY DEF FileCall
<1>2. Len(it.sections) \in Nat
  BY <1>1
<1>3. it.next - 1 \in 0..Len(it.sections)
  BY <1>1, <1>2
<1>4. Files!Patched(base, it.sections) \in [0..Len(it.sections) -> FileTree]
  BY <1>1, PatchedIs
<1> QED
  BY <1>3, <1>4

(* The section that is being applied is one of the patch, and names files   *)
(* of the call.                                                             *)
LEMMA SectionIs ==
  ASSUME FilesAssumption, NEW work \in FittingWork, NEW it \in FileCall, CallFits(work, it),
         it.at # "called", work.tool = "apply_patch", it.next <= Len(it.sections)
  PROVE  LET section == it.sections[it.next]
         IN /\ section \in FileSection /\ Files!PathsOf(section) \subseteq WorkPaths(work)
            /\ section.path \in WorkPaths(work)
            /\ section.move # None => section.move \in WorkPaths(work)
            /\ it.next \in 1..Len(it.sections) /\ Current(it) = Files!PathsOf(section)
<1>1. it.sections \in Seq(FileSection) /\ it.next \in Nat \ {0} /\ it.sections = PatchOf(work)
  BY DEF FileCall, CallFits
<1>2. Len(it.sections) \in Nat
  BY <1>1
<1>3. it.next \in 1..Len(it.sections)
  BY <1>1, <1>2
<1>4. it.sections[it.next] \in FileSection
  BY <1>1, <1>3, ElementOfSeq
<1>5. PatchOf(work) # None
  BY <1>1 DEF FilesAssumption
<1>6. WorkPaths(work) = NamedBy(it.sections)
  BY <1>1, <1>5 DEF WorkPaths
<1>7. Files!PathsOf(it.sections[it.next]) \subseteq WorkPaths(work)
  BY <1>1, <1>3, <1>6, NamedPaths
<1>8. Current(it) = Files!PathsOf(it.sections[it.next])
  BY <1>2, <1>3 DEF Current
<1> QED
  BY <1>3, <1>4, <1>7, <1>8 DEF FileSection, Files!PathsOf, FilesAssumption

(* A call that fails leaves what it has done, and of a section a part.      *)
LEMMA FailFits ==
  ASSUME FilesAssumption, NEW work,
         NEW it \in FileCall, CallFits(work, it), it.answer = None,
         NEW new \in FileCall, new.at = it.at, new.checked = it.checked,
         new.sections = it.sections, new.next = it.next, new.text = it.text, new.answer = "error",
         NEW tree \in FileTree, NEW after \in FileTree,
         \A p \in FilePaths : after[p] # tree[p] =>
           /\ it.at # "called" /\ p \in WorkPaths(work)
           /\ work.tool = "apply_patch" => p \in Current(it)
  PROVE  StepOf(work, it, new, tree, after)
<1>1. Current(new) = Current(it)
  BY DEF Current
<1>2. CallFits(work, new)
  BY DEF CallFits
<1>3. new.answer # None
  BY DEF FilesAssumption
<1> QED
  BY <1>1, <1>2, <1>3 DEF StepOf

(* Permission: the call knows its files, and has done nothing yet.          *)
LEMMA PermissionFits ==
  ASSUME FilesAssumption, NEW work \in FittingWork,
         NEW it \in FileCall, CallFits(work, it), it.at = "called", it.answer = None,
         NEW new \in FileCall, new.at = "read", new.checked = WorkPaths(work),
         work.tool = "apply_patch" => PatchOf(work) # None /\ new.sections = PatchOf(work),
         work.tool # "apply_patch" => new.sections = <<>>,
         new.next = it.next, new.answer = None,
         NEW tree \in FileTree
  PROVE  StepOf(work, it, new, tree, tree)
<1>1. it.sections = <<>> /\ it.next = 1
  BY DEF CallFits
<1>2. new.sections \in Seq(FileSection) /\ Len(new.sections) \in Nat
  BY DEF FileCall
<1>3. CallFits(work, new)
  BY <1>1, <1>2 DEF CallFits, FilesAssumption
<1>4. ASSUME NEW base \in FileTree
      PROVE  Progress(base, work, it) = base /\ Progress(base, work, new) = base
  <2>1. CASE work.tool # "apply_patch"
    BY <2>1 DEF Progress, FilesAssumption
  <2>2. CASE work.tool = "apply_patch"
    <3>1. <<>> \in Seq(FileSection)
      OBVIOUS
    <3>2. Files!Patched(base, <<>>)[0] = base
      BY <3>1, PatchedIs
    <3>3. Files!Patched(base, new.sections)[0] = base
      BY <1>2, PatchedIs
    <3>4. it.next - 1 = 0 /\ new.next - 1 = 0
      BY <1>1
    <3> QED
      BY <1>1, <2>2, <3>2, <3>3, <3>4 DEF Progress
  <2> QED
    BY <2>1, <2>2
<1>5. \A base : TextFollows(base, work, new)
  BY DEF TextFollows
<1>6. ASSUME NEW base \in FileTree, NEW P \in SUBSET FilePaths, Obeys(tree, P, base, work, it)
      PROVE  Obeys(tree, P, base, work, new)
  BY <1>4, <1>5, <1>6 DEF Obeys
<1>7. new.answer # "error"
  BY DEF FilesAssumption
<1> QED
  BY <1>3, <1>6, <1>7 DEF StepOf

(* Read: what the file says is what the call hits.                         *)
LEMMA ReadFits ==
  ASSUME FilesAssumption, NEW work \in FittingWork, work.tool # "apply_patch",
         NEW it \in FileCall, CallFits(work, it), it.at = "read", it.answer = None,
         NEW tree \in FileTree,
         NEW new \in FileCall, new.at = "write", new.checked = it.checked,
         new.sections = it.sections, new.next = it.next, new.answer = None,
         work.tool = "write" => new.text = work.text,
         work.tool = "edit" =>
           tree[work.path] # None /\ new.text = Files!Edited(work, tree[work.path]).text
  PROVE  StepOf(work, it, new, tree, tree)
<1>1. CallFits(work, new)
  BY DEF CallFits, FilesAssumption
<1>2. new.answer # "error" /\ new.answer # "ok" /\ it.answer # "ok"
  BY DEF FilesAssumption
<1>3. ASSUME NEW base \in FileTree, NEW P \in SUBSET FilePaths, WorkPaths(work) \subseteq P,
             Obeys(tree, P, base, work, it)
      PROVE  Obeys(tree, P, base, work, new)
  <2>1. Progress(base, work, it) = base /\ Progress(base, work, new) = base
    BY <1>2 DEF Progress
  <2>2. work.path \in P
    BY <1>3 DEF WorkPaths
  <2>3. tree[work.path] = base[work.path]
    BY <1>3, <2>1, <2>2 DEF Obeys
  <2>4. TextFollows(base, work, new)
    BY <2>3 DEF TextFollows
  <2> QED
    BY <1>3, <2>1, <2>4 DEF Obeys
<1> QED
  BY <1>1, <1>2, <1>3 DEF StepOf

(* WriteFile of edit and write: the call has had its effect.                *)
LEMMA WriteFits ==
  ASSUME FilesAssumption, NEW work \in FittingWork, work.tool # "apply_patch",
         NEW it \in FileCall, CallFits(work, it), it.at = "write", it.answer = None,
         NEW tree \in FileTree, NEW after, after = [tree EXCEPT ![work.path] = it.text],
         NEW new \in FileCall, new.at = it.at, new.checked = it.checked,
         new.sections = it.sections, new.next = it.next, new.text = it.text, new.answer = "ok"
  PROVE  StepOf(work, it, new, tree, after)
<1>1. CallFits(work, new)
  BY DEF CallFits
<1>2. it.answer # "ok" /\ new.answer # None
  BY DEF FilesAssumption
<1>3. /\ work.path \in FilePaths /\ WorkPaths(work) = {work.path} /\ it.text \in FileContent
      /\ work.tool \in {"write", "edit"}
  BY WorkIs DEF WorkPaths, FileCall
<1>4. /\ after \in FileTree
      /\ \A p \in FilePaths : after[p] = IF p = work.path THEN it.text ELSE tree[p]
  BY <1>3 DEF FileTree
<1>5. ASSUME NEW base \in FileTree, NEW P \in SUBSET FilePaths, WorkPaths(work) \subseteq P,
             Obeys(tree, P, base, work, it)
      PROVE  Obeys(after, P, base, work, new)
  <2>1. Progress(base, work, it) = base /\ Progress(base, work, new) = Files!Effect(base, work)
    BY <1>2 DEF Progress
  <2>2. TextFollows(base, work, it)
    BY <1>5 DEF Obeys
  <2>3. TextFollows(base, work, new)
    BY <2>2 DEF TextFollows
  <2>4. \A p \in FilePaths : Files!Effect(base, work)[p] = IF p = work.path THEN it.text ELSE base[p]
    <3>1. CASE work.tool = "write"
      <4>1. Files!Effect(base, work) = [base EXCEPT ![work.path] = it.text]
        BY <2>2, <3>1 DEF Files!Effect, TextFollows
      <4> QED
        BY <1>3, <4>1 DEF FileTree
    <3>2. CASE work.tool = "edit"
      <4>1. base[work.path] # None /\ it.text = Files!Edited(work, base[work.path]).text
        BY <2>2, <3>2 DEF TextFollows
      <4>2. Files!Effect(base, work)
              = [base EXCEPT ![work.path] = Files!Edited(work, base[work.path]).text]
        BY <3>2, <4>1 DEF Files!Effect
      <4>3. Files!Effect(base, work) = [base EXCEPT ![work.path] = it.text]
        BY <4>1, <4>2
      <4> QED
        BY <1>3, <4>3 DEF FileTree
    <3> QED
      BY <1>3, <3>1, <3>2
  <2>5. \A p \in P : after[p] = Files!Effect(base, work)[p]
    BY <1>4, <1>5, <2>1, <2>4 DEF Obeys
  <2> QED
    BY <2>1, <2>3, <2>5 DEF Obeys
<1> QED
  BY <1>1, <1>2, <1>3, <1>4, <1>5 DEF StepOf

(* Section: a section is verified against what is there, or there is none   *)
(* any more.                                                                *)
LEMMA DoneFits ==
  ASSUME FilesAssumption, NEW work \in FittingWork, work.tool = "apply_patch",
         NEW it \in FileCall, CallFits(work, it), it.at = "read", it.answer = None,
         it.next > Len(it.sections), NEW tree \in FileTree,
         NEW new \in FileCall, new.at = it.at, new.checked = it.checked,
         new.sections = it.sections, new.next = it.next, new.text = it.text, new.answer = "ok"
  PROVE  StepOf(work, it, new, tree, tree)
<1>1. it.next = Len(it.sections) + 1
  <2>1. it.next \in Nat /\ Len(it.sections) \in Nat /\ it.next <= Len(it.sections) + 1
    BY DEF FileCall, CallFits
  <2> QED
    BY <2>1
<1>2. CallFits(work, new)
  BY <1>1 DEF CallFits
<1>3. new.answer # None
  BY DEF FilesAssumption
<1>4. \A base : Progress(base, work, new) = Progress(base, work, it) /\ TextFollows(base, work, new)
  BY DEF Progress, TextFollows
<1> QED
  BY <1>2, <1>3, <1>4 DEF StepOf, Obeys

LEMMA SectionFits ==
  ASSUME FilesAssumption, NEW work \in FittingWork, work.tool = "apply_patch",
         NEW it \in FileCall, CallFits(work, it), it.at = "read", it.answer = None,
         it.next <= Len(it.sections), NEW tree \in FileTree,
         NEW new \in FileCall, new.checked = it.checked, new.sections = it.sections,
         new.next = it.next, new.answer = None,
         new.text = Files!Verified(it.sections[it.next], tree).text,
         new.at = IF it.sections[it.next].type = "delete" THEN "remove" ELSE "write"
  PROVE  StepOf(work, it, new, tree, tree)
<1> DEFINE section == it.sections[it.next]
<1>1. section.path \in WorkPaths(work)
  BY SectionIs
<1>2. CallFits(work, new)
  BY DEF CallFits, FilesAssumption
<1>3. new.answer # "error"
  BY DEF FilesAssumption
<1>4. ASSUME NEW base \in FileTree, NEW P \in SUBSET FilePaths, WorkPaths(work) \subseteq P,
             Obeys(tree, P, base, work, it)
      PROVE  Obeys(tree, P, base, work, new)
  <2> DEFINE prev == Files!Patched(base, it.sections)[it.next - 1]
  <2>1. Progress(base, work, it) = prev /\ Progress(base, work, new) = prev
    BY DEF Progress
  <2>2. tree[section.path] = prev[section.path]
    BY <1>1, <1>4, <2>1 DEF Obeys
  <2> HIDE DEF prev
  <2>3. new.text = Files!Verified(section, prev).text
    BY <2>2, VerifiedByPath
  <2>4. TextFollows(base, work, new)
    BY <2>3 DEF TextFollows, prev
  <2> QED
    BY <1>4, <2>1, <2>4 DEF Obeys
<1> QED
  BY <1>2, <1>3, <1>4 DEF StepOf

(* A section that has been applied is the next one that the files went      *)
(* through.                                                                 *)
LEMMA NextIs ==
  ASSUME FilesAssumption, NEW work, work.tool = "apply_patch",
         NEW it \in FileCall, it.next \in 1..Len(it.sections), NEW base \in FileTree,
         NEW new \in FileCall, new.at = "read", new.sections = it.sections, new.next = it.next + 1
  PROVE  /\ Progress(base, work, new)
              = Files!Applied(Files!Patched(base, it.sections)[it.next - 1], it.sections[it.next])
         /\ TextFollows(base, work, new)
<1>1. it.sections \in Seq(FileSection)
  BY DEF FileCall
<1>2. Files!Patched(base, it.sections)[it.next]
        = Files!Applied(Files!Patched(base, it.sections)[it.next - 1], it.sections[it.next])
  BY <1>1, PatchedIs
<1>3. new.next - 1 = it.next
  BY DEF FileCall
<1> QED
  BY <1>2, <1>3 DEF Progress, TextFollows

(* WriteFile of a patch: the file of the section, or the one it moves to.   *)
LEMMA PatchWriteFits ==
  ASSUME FilesAssumption, NEW work \in FittingWork, work.tool = "apply_patch",
         NEW it \in FileCall, CallFits(work, it), it.at = "write", it.answer = None,
         NEW tree \in FileTree, NEW after,
         after = [tree EXCEPT ![it.sections[it.next].path] = it.text],
         NEW new \in FileCall, new.checked = it.checked, new.sections = it.sections,
         new.text = it.text, new.answer = None,
         IF it.sections[it.next].move # None THEN new.at = "move" /\ new.next = it.next
         ELSE new.at = "read" /\ new.next = it.next + 1
  PROVE  StepOf(work, it, new, tree, after)
<1> DEFINE section == it.sections[it.next]
<1>1. /\ it.next \in Nat /\ Len(it.sections) \in Nat /\ it.next <= Len(it.sections)
      /\ section.type # "delete" /\ it.text \in FileContent
  BY DEF FileCall, CallFits
<1>2. /\ section \in FileSection /\ section.path \in WorkPaths(work) /\ section.path \in FilePaths
      /\ it.next \in 1..Len(it.sections)
  BY <1>1, SectionIs, WorkIs
<1>3. CallFits(work, new)
  BY <1>1 DEF CallFits, FilesAssumption
<1>4. new.answer # "error"
  BY DEF FilesAssumption
<1>5. /\ after \in FileTree
      /\ \A p \in FilePaths : after[p] = IF p = section.path THEN it.text ELSE tree[p]
  BY <1>1, <1>2 DEF FileTree
<1>6. ASSUME NEW base \in FileTree, NEW P \in SUBSET FilePaths, WorkPaths(work) \subseteq P,
             Obeys(tree, P, base, work, it)
      PROVE  Obeys(after, P, base, work, new)
  <2> DEFINE prev == Files!Patched(base, it.sections)[it.next - 1]
  <2>1. prev \in FileTree
    BY <1>1, PrevIs
  <2>2. Progress(base, work, it) = prev
    BY DEF Progress
  <2>3. it.text = Files!Verified(section, prev).text
    BY <1>6 DEF Obeys, TextFollows
  <2>4. \A p \in P : tree[p] = prev[p]
    BY <1>6, <2>2 DEF Obeys
  <2>5. CASE section.move # None
    <3>1. Progress(base, work, new) = [prev EXCEPT ![section.path] = it.text]
      BY <2>5 DEF Progress
    <3>2. TextFollows(base, work, new)
      BY <2>3, <2>5 DEF TextFollows
    <3> HIDE DEF prev
    <3>3. \A p \in P : after[p] = [prev EXCEPT ![section.path] = it.text][p]
      BY <1>2, <1>5, <2>1, <2>4 DEF FileTree
    <3> QED
      BY <3>1, <3>2, <3>3 DEF Obeys
  <2>6. CASE section.move = None
    <3>1. Progress(base, work, new) = Files!Applied(prev, section) /\ TextFollows(base, work, new)
      BY <1>2, <2>6, NextIs
    <3> HIDE DEF prev, section
    <3>2. \A p \in FilePaths :
            Files!Applied(prev, section)[p] = IF p = section.path THEN it.text ELSE prev[p]
      BY <1>1, <1>2, <2>1, <2>3, <2>6, AppliedIs
    <3>3. \A p \in P : after[p] = Files!Applied(prev, section)[p]
      BY <1>5, <2>4, <3>2
    <3> QED
      BY <3>1, <3>3 DEF Obeys
  <2> QED
    BY <2>5, <2>6
<1> QED
  BY <1>1, <1>2, <1>3, <1>4, <1>5, <1>6 DEF StepOf

LEMMA PatchMoveFits ==
  ASSUME FilesAssumption, NEW work \in FittingWork, work.tool = "apply_patch",
         NEW it \in FileCall, CallFits(work, it), it.at = "move", it.answer = None,
         NEW tree \in FileTree, NEW after,
         after = [tree EXCEPT ![it.sections[it.next].move] = it.text],
         NEW new \in FileCall, new.checked = it.checked, new.sections = it.sections,
         new.text = it.text, new.answer = None, new.at = "remove", new.next = it.next
  PROVE  StepOf(work, it, new, tree, after)
<1> DEFINE section == it.sections[it.next]
<1>1. /\ it.next \in Nat /\ Len(it.sections) \in Nat /\ it.next <= Len(it.sections)
      /\ section.type # "delete" /\ section.move # None /\ it.text \in FileContent
  BY DEF FileCall, CallFits
<1>2. /\ section.path \in FilePaths
      /\ section.move \in WorkPaths(work) /\ section.move \in FilePaths
  BY <1>1, SectionIs, WorkIs
<1>3. CallFits(work, new)
  BY <1>1 DEF CallFits, FilesAssumption
<1>4. new.answer # "error"
  BY DEF FilesAssumption
<1>5. /\ after \in FileTree
      /\ \A p \in FilePaths : after[p] = IF p = section.move THEN it.text ELSE tree[p]
  BY <1>1, <1>2 DEF FileTree
<1>6. ASSUME NEW base \in FileTree, NEW P \in SUBSET FilePaths, WorkPaths(work) \subseteq P,
             Obeys(tree, P, base, work, it)
      PROVE  Obeys(after, P, base, work, new)
  <2> DEFINE prev == Files!Patched(base, it.sections)[it.next - 1]
             half == [prev EXCEPT ![section.path] = it.text]
             whole == [prev EXCEPT ![section.path] = it.text, ![section.move] = it.text]
  <2>1. prev \in FileTree
    BY <1>1, PrevIs
  <2>2. Progress(base, work, it) = half
    BY DEF Progress
  <2>3. Progress(base, work, new) = whole
    BY <1>1 DEF Progress
  <2>4. TextFollows(base, work, new)
    BY <1>6 DEF Obeys, TextFollows
  <2>5. \A p \in P : tree[p] = half[p]
    BY <1>6, <2>2 DEF Obeys
  <2> HIDE DEF prev, section
  <2>6. \A p \in FilePaths : whole[p] = IF p = section.move THEN it.text ELSE half[p]
    BY <1>2, <2>1 DEF FileTree
  <2> HIDE DEF half, whole
  <2>7. \A p \in P : after[p] = whole[p]
    BY <1>5, <2>5, <2>6
  <2> QED
    BY <2>3, <2>4, <2>7 DEF Obeys
<1> QED
  BY <1>2, <1>3, <1>4, <1>5, <1>6 DEF StepOf

(* RemoveFile: the section is over.                                         *)
LEMMA RemoveFits ==
  ASSUME FilesAssumption, NEW work \in FittingWork, work.tool = "apply_patch",
         NEW it \in FileCall, CallFits(work, it), it.at = "remove", it.answer = None,
         NEW tree \in FileTree, NEW after,
         after = [tree EXCEPT ![it.sections[it.next].path] = None],
         NEW new \in FileCall, new.checked = it.checked, new.sections = it.sections,
         new.text = it.text, new.answer = None, new.at = "read", new.next = it.next + 1
  PROVE  StepOf(work, it, new, tree, after)
<1> DEFINE section == it.sections[it.next]
<1>1. /\ it.next \in Nat /\ Len(it.sections) \in Nat /\ it.next <= Len(it.sections)
      /\ section.type = "delete" \/ section.move # None
      /\ it.text \in FileContent
  BY DEF FileCall, CallFits
<1>2. /\ section \in FileSection /\ section.path \in WorkPaths(work) /\ section.path \in FilePaths
      /\ it.next \in 1..Len(it.sections)
      /\ section.move # None => section.move \in FilePaths
  BY <1>1, SectionIs, WorkIs
<1>3. CallFits(work, new)
  BY <1>1 DEF CallFits, FilesAssumption
<1>4. new.answer # "error"
  BY DEF FilesAssumption
<1>5. /\ after \in FileTree
      /\ \A p \in FilePaths : after[p] = IF p = section.path THEN None ELSE tree[p]
  BY <1>2 DEF FileTree
<1>6. ASSUME Files!MovesAway(work), NEW base \in FileTree,
             NEW P \in SUBSET FilePaths, WorkPaths(work) \subseteq P,
             Obeys(tree, P, base, work, it)
      PROVE  Obeys(after, P, base, work, new)
  <2> DEFINE prev == Files!Patched(base, it.sections)[it.next - 1]
             whole == [prev EXCEPT ![section.path] = it.text, ![section.move] = it.text]
  <2>1. prev \in FileTree
    BY <1>1, PrevIs
  <2>2. Progress(base, work, new) = Files!Applied(prev, section) /\ TextFollows(base, work, new)
    BY <1>2, NextIs
  <2>3. it.text = Files!Verified(section, prev).text
    BY <1>6 DEF Obeys, TextFollows
  <2>4. CASE section.type = "delete"
    <3>1. Progress(base, work, it) = prev
      BY <2>4 DEF Progress
    <3>2. \A p \in P : tree[p] = prev[p]
      BY <1>6, <3>1 DEF Obeys
    <3> HIDE DEF prev, section
    <3>3. \A p \in FilePaths : Files!Applied(prev, section)[p] = IF p = section.path THEN None ELSE prev[p]
      BY <1>2, <2>1, <2>4, AppliedIs
    <3>4. \A p \in P : after[p] = Files!Applied(prev, section)[p]
      BY <1>5, <3>2, <3>3
    <3> QED
      BY <2>2, <3>4 DEF Obeys
  <2>5. CASE section.type # "delete"
    <3>1. Progress(base, work, it) = whole
      BY <2>5 DEF Progress
    <3>2. \A p \in P : tree[p] = whole[p]
      BY <1>6, <3>1 DEF Obeys
    <3>3. section.move # None /\ section.move # section.path
      <4>1. it.sections = PatchOf(work) /\ it.sections \in Seq(FileSection) /\ it.sections # None
        BY DEF CallFits, FileCall, FilesAssumption
      <4>2. it.next \in DOMAIN it.sections
        BY <1>2, <4>1
      <4> QED
        BY <1>1, <1>6, <2>5, <4>1, <4>2 DEF Files!MovesAway, PatchOf
    <3> HIDE DEF prev, section
    <3>4. \A p \in FilePaths : whole[p] = IF p = section.move \/ p = section.path THEN it.text ELSE prev[p]
      BY <1>2, <2>1, <3>3 DEF FileTree
    <3> HIDE DEF whole
    <3>5. \A p \in FilePaths :
            Files!Applied(prev, section)[p] = IF p = section.path THEN None
                                              ELSE IF p = section.move THEN it.text ELSE prev[p]
      BY <1>2, <2>1, <2>3, <2>5, <3>3, AppliedIs
    <3>6. \A p \in P : after[p] = Files!Applied(prev, section)[p]
      BY <1>5, <3>2, <3>4, <3>5
    <3> QED
      BY <2>2, <3>6 DEF Obeys
  <2> QED
    BY <2>4, <2>5
<1> QED
  BY <1>2, <1>3, <1>4, <1>5, <1>6 DEF StepOf

-----------------------------------------------------------------------------
(* The steps of the calls.                                                  *)
FilesTyped ==
  /\ flsMode \in {"sequential", "parallel"} /\ flsBatch \in Seq(FittingWork)
  /\ flsBefore \in FileTree /\ flsFiles \in FileTree
  /\ flsCall \in [DOMAIN flsBatch -> FileCall]
  /\ \A c \in DOMAIN flsBatch : CallFits(flsBatch[c], flsCall[c])

(* One call moves, and what it does fits.                                   *)
Moved(c) ==
  /\ StepOf(flsBatch[c], flsCall[c], flsCall'[c], flsFiles, flsFiles')
  /\ flsCall' = [flsCall EXCEPT ![c] = flsCall'[c]]
  /\ Files!MayStep(c)
  /\ UNCHANGED <<flsMode, flsBatch, flsBefore>>

LEMMA CallIs ==
  ASSUME FilesTyped, NEW c \in DOMAIN flsBatch
  PROVE  /\ flsBatch[c] \in FittingWork /\ flsCall[c] \in FileCall
         /\ CallFits(flsBatch[c], flsCall[c])
         /\ \A state : Files!Set(c, state) =>
              flsCall'[c] = state /\ flsCall' = [flsCall EXCEPT ![c] = flsCall'[c]]
<1>1. flsBatch[c] \in FittingWork
  BY ElementOfSeq DEF FilesTyped
<1> QED
  BY <1>1 DEF FilesTyped, Files!Set

(* A call that is answered keeps the rest of its state.                     *)
LEMMA AnsweredIs ==
  ASSUME NEW it \in FileCall, NEW answer \in {"ok", "error"}
  PROVE  LET new == [it EXCEPT !.answer = answer]
         IN /\ new \in FileCall /\ new.at = it.at /\ new.checked = it.checked
            /\ new.sections = it.sections /\ new.next = it.next /\ new.text = it.text
            /\ new.answer = answer
BY DEF FileCall

LEMMA FailMoves ==
  ASSUME FilesAssumption, FilesTyped, NEW c \in DOMAIN flsBatch, Files!MayStep(c), Files!Fails(c),
         UNCHANGED <<flsMode, flsBatch, flsBefore>>, flsFiles' \in FileTree,
         \A p \in FilePaths : flsFiles'[p] # flsFiles[p] =>
           /\ flsCall[c].at # "called" /\ p \in WorkPaths(flsBatch[c])
           /\ flsBatch[c].tool = "apply_patch" => p \in Current(flsCall[c])
  PROVE  Moved(c)
<1> DEFINE it == flsCall[c]
           work == flsBatch[c]
           new == [it EXCEPT !.answer = "error"]
<1>1. it \in FileCall /\ CallFits(work, it)
  BY CallIs
<1>2. it.answer = None
  BY DEF Files!MayStep
<1>3. Files!Set(c, new)
  BY DEF Files!Fails
<1>4. flsCall'[c] = new /\ flsCall' = [flsCall EXCEPT ![c] = flsCall'[c]]
  BY <1>3, CallIs
<1>5. /\ new \in FileCall /\ new.at = it.at /\ new.checked = it.checked
      /\ new.sections = it.sections /\ new.next = it.next /\ new.text = it.text
      /\ new.answer = "error"
  BY <1>1, AnsweredIs
<1>6. flsFiles \in FileTree
  BY DEF FilesTyped
<1> HIDE DEF new
<1>7. StepOf(work, it, new, flsFiles, flsFiles')
  BY <1>1, <1>2, <1>5, <1>6, FailFits
<1> QED
  BY <1>4, <1>7 DEF Moved

LEMMA PermissionMoves ==
  ASSUME FilesAssumption, FilesTyped, NEW c \in DOMAIN flsBatch, Files!Permission(c)
  PROVE  Moved(c)
<1> DEFINE it == flsCall[c]
           work == flsBatch[c]
           sections == IF work.tool = "apply_patch" THEN PatchOf(work) ELSE <<>>
           paths == IF work.tool = "apply_patch" /\ sections # None
                    THEN UNION {Files!PathsOf(sections[i]) : i \in DOMAIN sections}
                    ELSE IF work.tool = "apply_patch" THEN {} ELSE {work.path}
           new == [it EXCEPT !.at = "read", !.checked = paths, !.sections = sections]
<1>1. /\ Files!MayStep(c) /\ it.at = "called" /\ it.answer = None
      /\ UNCHANGED <<flsMode, flsBatch, flsBefore>> /\ flsFiles' = flsFiles
  BY DEF Files!Permission, Files!MayStep
<1>2. \/ Files!Fails(c)
      \/ sections # None /\ Files!Set(c, new)
  BY DEF Files!Permission, PatchOf
<1>3. it \in FileCall /\ work \in FittingWork /\ CallFits(work, it)
  BY CallIs
<1>4. flsFiles \in FileTree
  BY DEF FilesTyped
<1>5. CASE Files!Fails(c)
  BY <1>1, <1>4, <1>5, FailMoves
<1>6. CASE sections # None /\ Files!Set(c, new)
  <2>1. sections \in Seq(FileSection)
    <3>1. <<>> \in Seq(FileSection)
      OBVIOUS
    <3> QED
      BY <1>3, <1>6, <3>1, WorkIs
  <2>2. paths = WorkPaths(work)
    BY <1>6 DEF WorkPaths, NamedBy
  <2>3. paths \subseteq FilePaths
    BY <1>3, <2>2, WorkIs
  <2>4. work.tool = "apply_patch" => sections = PatchOf(work) /\ PatchOf(work) # None
    BY <1>6
  <2>5. work.tool # "apply_patch" => sections = <<>>
    OBVIOUS
  <2>6. flsCall'[c] = new /\ flsCall' = [flsCall EXCEPT ![c] = flsCall'[c]]
    BY <1>6, CallIs
  <2> HIDE DEF sections, paths
  <2>7. /\ new \in FileCall /\ new.at = "read" /\ new.checked = paths
        /\ new.sections = sections /\ new.next = it.next /\ new.text = it.text
        /\ new.answer = it.answer
    BY <1>3, <2>1, <2>3 DEF FileCall, FilePlaces
  <2> HIDE DEF new
  <2>8. StepOf(work, it, new, flsFiles, flsFiles)
    BY <1>1, <1>3, <1>4, <2>2, <2>4, <2>5, <2>7, PermissionFits
  <2> QED
    BY <1>1, <2>6, <2>8 DEF Moved
<1> QED
  BY <1>2, <1>5, <1>6

LEMMA ReadMoves ==
  ASSUME FilesAssumption, FilesTyped, NEW c \in DOMAIN flsBatch, Files!Read(c)
  PROVE  Moved(c)
<1> DEFINE it == flsCall[c]
           work == flsBatch[c]
           old == flsFiles[work.path]
           edited == IF work.tool = "write" THEN [ok |-> TRUE, text |-> work.text]
                     ELSE IF old = None THEN [ok |-> FALSE, text |-> <<>>] ELSE Files!Edited(work, old)
           new == [it EXCEPT !.at = "write", !.text = edited.text]
<1>1. /\ Files!MayStep(c) /\ it.at = "read" /\ it.answer = None /\ work.tool # "apply_patch"
      /\ UNCHANGED <<flsMode, flsBatch, flsBefore>> /\ flsFiles' = flsFiles
  BY DEF Files!Read, Files!MayStep
<1>2. \/ Files!Fails(c)
      \/ edited.ok /\ Files!Set(c, new)
  BY DEF Files!Read
<1>3. it \in FileCall /\ work \in FittingWork /\ CallFits(work, it)
  BY CallIs
<1>4. flsFiles \in FileTree
  BY DEF FilesTyped
<1>5. CASE Files!Fails(c)
  BY <1>1, <1>4, <1>5, FailMoves
<1>6. CASE edited.ok /\ Files!Set(c, new)
  <2>1. work.path \in FilePaths /\ work.tool \in {"write", "edit"}
    BY <1>1, <1>3, WorkIs
  <2>2. old \in FileContent \cup {None}
    BY <1>4, <2>1 DEF FileTree
  <2>3. work.tool = "write" => edited.text = work.text /\ work.text \in FileContent
    BY <1>3, WorkIs
  <2>4. work.tool = "edit" => old # None /\ edited.text = Files!Edited(work, old).text
    BY <1>6, <2>1
  <2>5. work.tool = "edit" => edited.text \in FileContent
    BY <1>3, <2>2, <2>4, WorkIs, EditedIsContent
  <2>6. flsCall'[c] = new /\ flsCall' = [flsCall EXCEPT ![c] = flsCall'[c]]
    BY <1>6, CallIs
  <2> HIDE DEF edited
  <2>7. /\ new \in FileCall /\ new.at = "write" /\ new.checked = it.checked
        /\ new.sections = it.sections /\ new.next = it.next /\ new.text = edited.text
        /\ new.answer = it.answer
    BY <1>3, <2>1, <2>3, <2>5 DEF FileCall, FilePlaces
  <2> HIDE DEF new
  <2>8. StepOf(work, it, new, flsFiles, flsFiles)
    BY <1>1, <1>3, <1>4, <2>3, <2>4, <2>7, ReadFits
  <2> QED
    BY <1>1, <2>6, <2>8 DEF Moved
<1> QED
  BY <1>2, <1>5, <1>6

LEMMA SectionMoves ==
  ASSUME FilesAssumption, FilesTyped, NEW c \in DOMAIN flsBatch, Files!Section(c)
  PROVE  Moved(c)
<1> DEFINE it == flsCall[c]
           work == flsBatch[c]
           section == it.sections[it.next]
           text == Files!Verified(section, flsFiles).text
           at == IF section.type = "delete" THEN "remove" ELSE "write"
           done == [it EXCEPT !.answer = "ok"]
           new == [it EXCEPT !.text = text, !.at = at]
<1>1. /\ Files!MayStep(c) /\ it.at = "read" /\ it.answer = None /\ work.tool = "apply_patch"
      /\ UNCHANGED <<flsMode, flsBatch, flsBefore>> /\ flsFiles' = flsFiles
  BY DEF Files!Section, Files!MayStep
<1>2. \/ Files!Fails(c)
      \/ it.next > Len(it.sections) /\ Files!Set(c, done)
      \/ ~(it.next > Len(it.sections)) /\ Files!Set(c, new)
  BY DEF Files!Section
<1>3. it \in FileCall /\ work \in FittingWork /\ CallFits(work, it)
  BY CallIs
<1>4. flsFiles \in FileTree
  BY DEF FilesTyped
<1>5. CASE Files!Fails(c)
  BY <1>1, <1>4, <1>5, FailMoves
<1>6. CASE it.next > Len(it.sections) /\ Files!Set(c, done)
  <2>1. flsCall'[c] = done /\ flsCall' = [flsCall EXCEPT ![c] = flsCall'[c]]
    BY <1>6, CallIs
  <2>2. /\ done \in FileCall /\ done.at = it.at /\ done.checked = it.checked
        /\ done.sections = it.sections /\ done.next = it.next /\ done.text = it.text
        /\ done.answer = "ok"
    BY <1>3, AnsweredIs
  <2> HIDE DEF done
  <2>3. StepOf(work, it, done, flsFiles, flsFiles)
    BY <1>1, <1>3, <1>4, <1>6, <2>2, DoneFits
  <2> QED
    BY <1>1, <2>1, <2>3 DEF Moved
<1>7. CASE ~(it.next > Len(it.sections)) /\ Files!Set(c, new)
  <2>1. it.next <= Len(it.sections)
    <3>1. it.next \in Nat /\ Len(it.sections) \in Nat
      BY <1>3 DEF FileCall
    <3> QED
      BY <1>7, <3>1
  <2>2. section \in FileSection
    BY <1>1, <1>3, <2>1, SectionIs
  <2>3. text \in FileContent
    BY <1>4, <2>2, VerifiedIsContent
  <2>4. flsCall'[c] = new /\ flsCall' = [flsCall EXCEPT ![c] = flsCall'[c]]
    BY <1>7, CallIs
  <2>5. at \in {"remove", "write"}
    OBVIOUS
  <2> HIDE DEF text, at
  <2>6. /\ new \in FileCall /\ new.at = at /\ new.checked = it.checked
        /\ new.sections = it.sections /\ new.next = it.next /\ new.text = text
        /\ new.answer = it.answer
    BY <1>3, <2>3, <2>5 DEF FileCall, FilePlaces
  <2> HIDE DEF new
  <2>7. StepOf(work, it, new, flsFiles, flsFiles)
    BY <1>1, <1>3, <1>4, <2>1, <2>6, SectionFits DEF text, at
  <2> QED
    BY <1>1, <2>4, <2>7 DEF Moved
<1> QED
  BY <1>2, <1>5, <1>6, <1>7

(* The file that a call writes or removes is one of its own.                *)
LEMMA FileTargetIs ==
  ASSUME FilesAssumption, FilesTyped, NEW c \in DOMAIN flsBatch,
         flsCall[c].at \in {"write", "move", "remove"}
  PROVE  /\ Files!Target(c) \in FilePaths /\ Files!Target(c) \in WorkPaths(flsBatch[c])
         /\ flsBatch[c].tool = "apply_patch" => Files!Target(c) \in Current(flsCall[c])
<1> DEFINE it == flsCall[c]
           work == flsBatch[c]
           section == it.sections[it.next]
<1>1. it \in FileCall /\ work \in FittingWork /\ CallFits(work, it)
  BY CallIs
<1>2. WorkPaths(work) \subseteq FilePaths
  BY <1>1, WorkIs
<1>3. CASE work.tool # "apply_patch"
  BY <1>2, <1>3 DEF Files!Target, WorkPaths
<1>4. CASE work.tool = "apply_patch"
  <2>1. it.at # "called" /\ it.next <= Len(it.sections) /\ (it.at = "move" => section.move # None)
    BY <1>1, <1>4 DEF CallFits
  <2>2. /\ section.path \in WorkPaths(work)
        /\ section.move # None => section.move \in WorkPaths(work)
        /\ Current(it) = Files!PathsOf(section) /\ section \in FileSection
    BY <1>1, <1>4, <2>1, SectionIs
  <2>3. Files!Target(c) = IF it.at = "move" THEN section.move ELSE section.path
    BY <1>4 DEF Files!Target
  <2> QED
    BY <1>2, <2>1, <2>2, <2>3 DEF Files!PathsOf, FileSection, FilesAssumption
<1> QED
  BY <1>3, <1>4

(* A call goes on from where it was.                                        *)
LEMMA WentOnIs ==
  ASSUME NEW it \in FileCall, NEW at \in FilePlaces
  PROVE  /\ LET new == [it EXCEPT !.at = at]
            IN /\ new \in FileCall /\ new.at = at /\ new.checked = it.checked
               /\ new.sections = it.sections /\ new.next = it.next /\ new.text = it.text
               /\ new.answer = it.answer
         /\ LET new == [it EXCEPT !.at = at, !.next = @ + 1]
            IN /\ new \in FileCall /\ new.at = at /\ new.checked = it.checked
               /\ new.sections = it.sections /\ new.next = it.next + 1 /\ new.text = it.text
               /\ new.answer = it.answer
<1>1. it.next + 1 \in Nat \ {0}
  BY DEF FileCall
<1>2. [it EXCEPT !.at = at, !.next = @ + 1] = [it EXCEPT !.at = at, !.next = it.next + 1]
  OBVIOUS
<1> QED
  BY <1>1, <1>2 DEF FileCall

LEMMA WriteMoves ==
  ASSUME FilesAssumption, FilesTyped, NEW c \in DOMAIN flsBatch, Files!WriteFile(c)
  PROVE  Moved(c)
<1> DEFINE it == flsCall[c]
           work == flsBatch[c]
           target == Files!Target(c)
           section == it.sections[it.next]
<1>1. /\ Files!MayStep(c) /\ it.at \in {"write", "move"} /\ it.answer = None
      /\ UNCHANGED <<flsMode, flsBatch, flsBefore>>
  BY DEF Files!WriteFile, Files!MayStep
<1>2. \/ flsFiles' = [flsFiles EXCEPT ![target] = it.text] /\ Files!Set(c, Files!After(c))
      \/ flsFiles' \in {flsFiles, [flsFiles EXCEPT ![target] = <<>>]} /\ Files!Fails(c)
  BY DEF Files!WriteFile
<1>3. it \in FileCall /\ work \in FittingWork /\ CallFits(work, it)
  BY CallIs
<1>4. flsFiles \in FileTree /\ it.text \in FileContent
  BY <1>3 DEF FilesTyped, FileCall
<1>5. /\ target \in FilePaths /\ target \in WorkPaths(work)
      /\ work.tool = "apply_patch" => target \in Current(it)
  BY <1>1, FileTargetIs
<1>6. CASE flsFiles' \in {flsFiles, [flsFiles EXCEPT ![target] = <<>>]} /\ Files!Fails(c)
  <2>1. <<>> \in FileContent
    BY DEF FileContent
  <2> HIDE DEF target
  <2>2. flsFiles' \in FileTree /\ \A p \in FilePaths : flsFiles'[p] # flsFiles[p] => p = target
    BY <1>4, <1>5, <1>6, <2>1 DEF FileTree
  <2> QED
    BY <1>1, <1>5, <1>6, <2>2, FailMoves
<1>7. CASE flsFiles' = [flsFiles EXCEPT ![target] = it.text] /\ Files!Set(c, Files!After(c))
  <2> DEFINE new == Files!After(c)
  <2>1. flsCall'[c] = new /\ flsCall' = [flsCall EXCEPT ![c] = flsCall'[c]]
    BY <1>7, CallIs
  <2>2. StepOf(work, it, new, flsFiles, flsFiles')
    <3>1. CASE work.tool # "apply_patch"
      <4> DEFINE record == [it EXCEPT !.answer = "ok"]
      <4>1. new = record /\ target = work.path
        BY <3>1 DEF Files!After, Files!Target
      <4>2. /\ record \in FileCall /\ record.at = it.at /\ record.checked = it.checked
            /\ record.sections = it.sections /\ record.next = it.next /\ record.text = it.text
            /\ record.answer = "ok"
        BY <1>3, AnsweredIs
      <4>3. it.at = "write"
        BY <1>1, <1>3, <3>1 DEF CallFits
      <4> HIDE DEF record, new, target
      <4> QED
        BY <1>1, <1>3, <1>4, <1>7, <3>1, <4>1, <4>2, <4>3, WriteFits
    <3>2. CASE work.tool = "apply_patch" /\ it.at = "write" /\ section.move # None
      <4> DEFINE record == [it EXCEPT !.at = "move"]
      <4>1. new = record /\ target = section.path
        BY <3>2 DEF Files!After, Files!Target
      <4>2. /\ record \in FileCall /\ record.at = "move" /\ record.checked = it.checked
            /\ record.sections = it.sections /\ record.next = it.next /\ record.text = it.text
            /\ record.answer = it.answer
        BY <1>3, WentOnIs DEF FilePlaces
      <4> HIDE DEF record, new, target
      <4> QED
        BY <1>1, <1>3, <1>4, <1>7, <3>2, <4>1, <4>2, PatchWriteFits
    <3>3. CASE work.tool = "apply_patch" /\ it.at = "write" /\ section.move = None
      <4> DEFINE record == [it EXCEPT !.at = "read", !.next = @ + 1]
      <4>1. new = record /\ target = section.path
        BY <3>3 DEF Files!After, Files!Target
      <4>2. /\ record \in FileCall /\ record.at = "read" /\ record.checked = it.checked
            /\ record.sections = it.sections /\ record.next = it.next + 1 /\ record.text = it.text
            /\ record.answer = it.answer
        BY <1>3, WentOnIs DEF FilePlaces
      <4> HIDE DEF record, new, target
      <4> QED
        BY <1>1, <1>3, <1>4, <1>7, <3>3, <4>1, <4>2, PatchWriteFits
    <3>4. CASE work.tool = "apply_patch" /\ it.at = "move"
      <4> DEFINE record == [it EXCEPT !.at = "remove"]
      <4>1. new = record /\ target = section.move
        BY <3>4 DEF Files!After, Files!Target
      <4>2. /\ record \in FileCall /\ record.at = "remove" /\ record.checked = it.checked
            /\ record.sections = it.sections /\ record.next = it.next /\ record.text = it.text
            /\ record.answer = it.answer
        BY <1>3, WentOnIs DEF FilePlaces
      <4> HIDE DEF record, new, target
      <4> QED
        BY <1>1, <1>3, <1>4, <1>7, <3>4, <4>1, <4>2, PatchMoveFits
    <3> QED
      BY <1>1, <3>1, <3>2, <3>3, <3>4
  <2> QED
    BY <1>1, <2>1, <2>2 DEF Moved
<1> QED
  BY <1>2, <1>6, <1>7

LEMMA RemoveMoves ==
  ASSUME FilesAssumption, FilesTyped, NEW c \in DOMAIN flsBatch, Files!RemoveFile(c)
  PROVE  Moved(c)
<1> DEFINE it == flsCall[c]
           work == flsBatch[c]
           target == Files!Target(c)
           section == it.sections[it.next]
<1>1. /\ Files!MayStep(c) /\ it.at = "remove" /\ it.answer = None
      /\ UNCHANGED <<flsMode, flsBatch, flsBefore>>
  BY DEF Files!RemoveFile, Files!MayStep
<1>2. \/ flsFiles' = flsFiles /\ Files!Fails(c)
      \/ flsFiles' = [flsFiles EXCEPT ![target] = None] /\ Files!Set(c, Files!After(c))
  BY DEF Files!RemoveFile
<1>3. it \in FileCall /\ work \in FittingWork /\ CallFits(work, it)
  BY CallIs
<1>4. flsFiles \in FileTree
  BY DEF FilesTyped
<1>5. CASE flsFiles' = flsFiles /\ Files!Fails(c)
  BY <1>1, <1>4, <1>5, FailMoves
<1>6. CASE flsFiles' = [flsFiles EXCEPT ![target] = None] /\ Files!Set(c, Files!After(c))
  <2> DEFINE new == Files!After(c)
  <2>1. flsCall'[c] = new /\ flsCall' = [flsCall EXCEPT ![c] = flsCall'[c]]
    BY <1>6, CallIs
  <2>2. work.tool = "apply_patch"
    BY <1>1, <1>3 DEF CallFits
  <2> DEFINE record == [it EXCEPT !.at = "read", !.next = @ + 1]
  <2>3. new = record /\ target = section.path
    BY <1>1, <2>2 DEF Files!After, Files!Target
  <2>4. /\ record \in FileCall /\ record.at = "read" /\ record.checked = it.checked
        /\ record.sections = it.sections /\ record.next = it.next + 1 /\ record.text = it.text
        /\ record.answer = it.answer
    BY <1>3, WentOnIs DEF FilePlaces
  <2> HIDE DEF record, new, target
  <2>5. StepOf(work, it, new, flsFiles, flsFiles')
    BY <1>1, <1>3, <1>4, <1>6, <2>2, <2>3, <2>4, RemoveFits
  <2> QED
    BY <1>1, <2>1, <2>5 DEF Moved, new
<1> QED
  BY <1>2, <1>5, <1>6

-----------------------------------------------------------------------------
(* The invariant.                                                           *)

(* The files after each call of the batch, in the order of the batch.       *)
InOrder == Files!Served([c \in DOMAIN flsBatch |-> c])

Begun(it) == it.at # "called" \/ it.answer # None

(* In sequence no call begins before those before it have been answered.    *)
OneAtATime ==
  flsMode = "sequential" =>
    \A c, d \in DOMAIN flsBatch : d < c /\ Begun(flsCall[c]) => flsCall[d].answer # None

(* While every call succeeds, and no patch moves a file onto itself, the    *)
(* files are those that the calls before left, and what the present one has *)
(* done to them.                                                            *)
InTurn ==
  Files!AllMoveAway /\ (flsMode = "sequential" \/ Len(flsBatch) = 1) =>
    \A c \in DOMAIN flsBatch :
      /\ \A d \in DOMAIN flsBatch : d < c => flsCall[d].answer = "ok"
      /\ \A d \in DOMAIN flsBatch : d > c => ~Begun(flsCall[d])
      /\ flsCall[c].answer # "error"
      => Obeys(flsFiles, FilePaths, InOrder[c - 1], flsBatch[c], flsCall[c])

(* Calls that have no file in common find what was there before.            *)
Apart == \A c, d \in DOMAIN flsBatch : c # d => WorkPaths(flsBatch[c]) \cap WorkPaths(flsBatch[d]) = {}
SideBySide ==
  Files!AllMoveAway /\ Apart =>
    \A c \in DOMAIN flsBatch : flsCall[c].answer # "error" =>
      Obeys(flsFiles, WorkPaths(flsBatch[c]), flsBefore, flsBatch[c], flsCall[c])

ChangedOnly ==
  \A p \in FilePaths : flsFiles[p] # flsBefore[p] => \E c \in DOMAIN flsBatch : p \in flsCall[c].checked

(* A patch that failed has applied the sections before.                     *)
Alone ==
  Files!AllMoveAway /\ Len(flsBatch) = 1 =>
    \A c \in DOMAIN flsBatch : flsBatch[c].tool = "apply_patch" /\ flsCall[c].answer = "error" =>
      \A p \in FilePaths \ Current(flsCall[c]) :
        flsFiles[p] = Files!Patched(flsBefore, flsCall[c].sections)[flsCall[c].next - 1][p]

(* What every step of a batch keeps.                                        *)
FilesIInv == FilesTyped /\ OneAtATime /\ InTurn /\ SideBySide /\ ChangedOnly /\ Alone

LEMMA ServedIs ==
  ASSUME FilesAssumption, FilesTyped
  PROVE  /\ InOrder \in [0..Len(flsBatch) -> FileTree] /\ InOrder[0] = flsBefore
         /\ \A i \in 1..Len(flsBatch) : InOrder[i] = Files!Effect(InOrder[i - 1], flsBatch[i])
<1> DEFINE n == Len(flsBatch)
           IsServed(f) == f = [i \in 0..n |-> IF i = 0 THEN flsBefore
                                              ELSE Files!Effect(f[i - 1], flsBatch[i])]
           step == [i \in 1..n |-> [t \in FileTree |-> Files!Effect(t, flsBatch[i])]]
           order == [c \in DOMAIN flsBatch |-> c]
           IsServedBy(f) == f = [i \in 0..n |-> IF i = 0 THEN flsBefore
                                                ELSE Files!Effect(f[i - 1], flsBatch[order[i]])]
<1>1. /\ n \in Nat /\ DOMAIN flsBatch = 1..n /\ flsBefore \in FileTree
      /\ \A i \in 1..n : flsBatch[i] \in FittingWork
  BY ElementOfSeq DEF FilesTyped
<1>2. InOrder = CHOOSE f : IsServedBy(f)
  BY DEF InOrder, Files!Served
<1> HIDE DEF n
<1>3. step \in [1..n -> [FileTree -> FileTree]]
  BY <1>1, EffectIs
<1>4. PICK f \in [0..n -> FileTree] : f[0] = flsBefore /\ \A i \in 1..n : f[i] = step[i][f[i - 1]]
  <2> HIDE DEF step
  <2>1. Iterations(n, FileTree, flsBefore, step) # {}
    BY <1>1, <1>3, StepsExist
  <2> QED
    BY <2>1 DEF Iterations
<1>5. \A i \in 1..n : f[i] = Files!Effect(f[i - 1], flsBatch[i])
  <2>1. ASSUME NEW i \in 1..n PROVE f[i] = Files!Effect(f[i - 1], flsBatch[i])
    <3>1. f[i - 1] \in FileTree
      BY <1>1, <1>4
    <3> QED
      BY <1>4, <3>1
  <2> QED
    BY <2>1
<1>6. \A i \in 1..n : order[i] = i
  BY <1>1
<1> HIDE DEF order
<1>7. IsServedBy(f)
  <2>1. \A i \in 0..n : f[i] = IF i = 0 THEN flsBefore ELSE Files!Effect(f[i - 1], flsBatch[order[i]])
    BY <1>1, <1>4, <1>5, <1>6
  <2>2. f = [i \in 0..n |-> f[i]]
    BY <1>4
  <2>3. [i \in 0..n |-> f[i]]
          = [i \in 0..n |-> IF i = 0 THEN flsBefore ELSE Files!Effect(f[i - 1], flsBatch[order[i]])]
    BY <2>1
  <2> QED
    BY <2>2, <2>3
<1>8. IsServedBy(InOrder)
  <2> HIDE DEF IsServedBy
  <2> QED
    BY <1>2, <1>7
<1>9. InOrder[0] = flsBefore /\ \A i \in 1..n : InOrder[i] = Files!Effect(InOrder[i - 1], flsBatch[i])
  BY <1>1, <1>6, <1>8
<1>10. \A i \in 0..n : InOrder[i] \in FileTree
  <2> DEFINE T == {i \in 0..n : InOrder[i] \in FileTree}
  <2>1. 0 \in T
    BY <1>1, <1>9
  <2>2. ASSUME NEW i \in 1..n, i - 1 \in T PROVE i \in T
    BY <1>1, <1>9, <2>2, EffectIs
  <2> HIDE DEF T
  <2>3. \A i \in 0..n : i \in T
    BY <1>1, <2>1, <2>2, UpTo
  <2> QED
    BY <2>3 DEF T
<1>11. InOrder \in [0..n -> FileTree]
  <2>1. InOrder = [i \in 0..n |-> InOrder[i]]
    BY <1>8
  <2> QED
    BY <1>10, <2>1
<1> QED
  BY <1>9, <1>11 DEF n

(* A call has its effect when it has succeeded, and none before it begins.  *)
LEMMA ProgressAtEnd ==
  ASSUME FilesAssumption, NEW work \in FittingWork, NEW it \in FileCall, CallFits(work, it),
         it.answer = "ok", NEW base \in FileTree
  PROVE  Progress(base, work, it) = Files!Effect(base, work)
<1>1. CASE work.tool # "apply_patch"
  BY <1>1 DEF Progress
<1>2. CASE work.tool = "apply_patch"
  <2>1. /\ it.at = "read" /\ it.sections = PatchOf(work) /\ it.next = Len(it.sections) + 1
        /\ it.sections \in Seq(FileSection)
    BY <1>2 DEF CallFits, FileCall
  <2>2. it.next - 1 = Len(it.sections) /\ PatchOf(work) # None
    <3>1. Len(it.sections) \in Nat
      BY <2>1
    <3> QED
      BY <2>1, <3>1 DEF FilesAssumption
  <2>3. Files!Effect(base, work) = Files!Patched(base, PatchOf(work))[Len(PatchOf(work))]
    BY <1>2, <2>2 DEF Files!Effect, PatchOf
  <2> QED
    BY <1>2, <2>1, <2>2, <2>3 DEF Progress
<1> QED
  BY <1>1, <1>2

LEMMA FollowsAtFirst ==
  ASSUME FilesAssumption, NEW work, NEW it, CallFits(work, it), ~Begun(it),
         NEW base \in FileTree, NEW P, NEW tree, \A p \in P : tree[p] = base[p]
  PROVE  Obeys(tree, P, base, work, it)
<1>1. it.at = "called" /\ it.answer = None /\ it.sections = <<>> /\ it.next = 1
  BY DEF Begun, CallFits
<1>2. Progress(base, work, it) = base
  <2>1. CASE work.tool # "apply_patch"
    BY <1>1, <2>1 DEF Progress, FilesAssumption
  <2>2. CASE work.tool = "apply_patch"
    <3>1. <<>> \in Seq(FileSection)
      OBVIOUS
    <3>2. Files!Patched(base, <<>>)[0] = base
      BY <3>1, PatchedIs
    <3>3. it.next - 1 = 0
      BY <1>1
    <3> QED
      BY <1>1, <2>2, <3>2, <3>3 DEF Progress
  <2> QED
    BY <2>1, <2>2
<1>3. TextFollows(base, work, it)
  BY <1>1 DEF TextFollows
<1> QED
  BY <1>2, <1>3 DEF Obeys

(* Outside of the present section a patch has done what is before it.       *)
LEMMA ProgressOutside ==
  ASSUME FilesAssumption, NEW work \in FittingWork, work.tool = "apply_patch",
         NEW it \in FileCall, CallFits(work, it), NEW base \in FileTree
  PROVE  \A p \in FilePaths \ Current(it) :
           Progress(base, work, it)[p] = Files!Patched(base, it.sections)[it.next - 1][p]
<1> DEFINE prev == Files!Patched(base, it.sections)[it.next - 1]
           section == it.sections[it.next]
<1>1. CASE it.at \notin {"move", "remove"}
  BY <1>1 DEF Progress
<1>2. CASE it.at \in {"move", "remove"}
  <2>1. it.next <= Len(it.sections) /\ it.at # "called"
    BY <1>2 DEF CallFits
  <2>2. section \in FileSection /\ Current(it) = Files!PathsOf(section)
    BY <2>1, SectionIs
  <2>3. prev \in FileTree
    <3>1. it.next <= Len(it.sections) + 1
      BY <2>1 DEF CallFits
    <3> QED
      BY <3>1, PrevIs
  <2>4. section.path \in Current(it) /\ (section.move # None => section.move \in Current(it))
    BY <2>2 DEF FileSection, FilesAssumption, Files!PathsOf
  <2>5. \/ Progress(base, work, it) = [prev EXCEPT ![section.path] = it.text]
        \/ /\ Progress(base, work, it) = [prev EXCEPT ![section.path] = it.text,
                                                      ![section.move] = it.text]
           /\ section.move # None
        \/ Progress(base, work, it) = prev
    BY <1>2 DEF Progress, CallFits
  <2> HIDE DEF prev, section
  <2>6. \A p \in FilePaths \ Current(it) : Progress(base, work, it)[p] = prev[p]
    BY <2>3, <2>4, <2>5 DEF FileTree
  <2> QED
    BY <2>6 DEF prev
<1> QED
  BY <1>1, <1>2

LEMMA FilesInit == FilesAssumption /\ Files!Init => FilesIInv
<1> SUFFICES ASSUME FilesAssumption, Files!Init PROVE FilesIInv
  OBVIOUS
<1>1. /\ flsMode \in {"sequential", "parallel"} /\ flsBatch \in FileBatches
      /\ flsBefore \in FileTree /\ flsFiles = flsBefore
      /\ flsCall = [c \in DOMAIN flsBatch |-> Files!Idle]
  BY DEF Files!Init, FilesAssumption
<1>2. flsBatch \in Seq(FittingWork)
  <2>1. flsBatch \in Seq(FileWork)
    BY <1>1 DEF FilesAssumption
  <2>2. ASSUME NEW c \in 1..Len(flsBatch) PROVE flsBatch[c] \in FittingWork
    <3>1. flsBatch[c] \in FileWork /\ c \in DOMAIN flsBatch
      BY <2>1, ElementOfSeq
    <3> QED
      BY <1>1, <3>1 DEF FilesAssumption, FittingWork, Header
  <2>3. \A c \in 1..Len(flsBatch) : flsBatch[c] \in FittingWork
    BY <2>2
  <2>4. Len(flsBatch) \in Nat /\ flsBatch = [c \in 1..Len(flsBatch) |-> flsBatch[c]]
    BY <2>1
  <2>5. flsBatch \in [1..Len(flsBatch) -> FittingWork]
    BY <2>3, <2>4
  <2> QED
    BY <2>4, <2>5, SeqDef
<1>3. Files!Idle \in FileCall
  BY DEF Files!Idle, FileCall, FilePlaces, FileContent
<1>4. \A work : CallFits(work, Files!Idle)
  BY DEF CallFits, Files!Idle, FilesAssumption
<1>5. ~Begun(Files!Idle) /\ Files!Idle.answer = None
  BY DEF Begun, Files!Idle
<1>6. FilesTyped
  BY <1>1, <1>2, <1>3, <1>4 DEF FilesTyped
<1>7. \A c \in DOMAIN flsBatch : flsCall[c] = Files!Idle
  BY <1>1
<1>8. OneAtATime
  BY <1>5, <1>7 DEF OneAtATime
<1>9. InTurn
  <2>1. SUFFICES ASSUME NEW c \in DOMAIN flsBatch,
                        \A d \in DOMAIN flsBatch : d < c => flsCall[d].answer = "ok"
                 PROVE  Obeys(flsFiles, FilePaths, InOrder[c - 1], flsBatch[c], flsCall[c])
    BY DEF InTurn
  <2>2. c = 1
    <3>1. DOMAIN flsBatch = 1..Len(flsBatch) /\ Len(flsBatch) \in Nat
      BY <1>2
    <3>2. CASE 1 < c
      <4>1. 1 \in DOMAIN flsBatch
        BY <3>1, <3>2
      <4>2. flsCall[1].answer = "ok" /\ flsCall[1].answer = None
        BY <1>5, <1>7, <2>1, <3>2, <4>1
      <4> QED
        BY <4>2 DEF FilesAssumption
    <3> QED
      BY <3>1, <3>2
  <2>3. InOrder[c - 1] = flsBefore
    BY <1>6, <2>2, ServedIs
  <2> QED
    BY <1>1, <1>4, <1>5, <1>7, <2>3, FollowsAtFirst
<1>10. SideBySide
  BY <1>1, <1>4, <1>5, <1>7, FollowsAtFirst DEF SideBySide
<1>11. ChangedOnly
  BY <1>1 DEF ChangedOnly
<1>12. Alone
  BY <1>5, <1>7 DEF Alone, FilesAssumption
<1> QED
  BY <1>6, <1>8, <1>9, <1>10, <1>11, <1>12 DEF FilesIInv

(* A step of one call keeps the invariant.                                  *)
LEMMA MovedKeeps ==
  ASSUME FilesAssumption, FilesIInv, NEW c \in DOMAIN flsBatch, Moved(c)
  PROVE  FilesIInv'
<1> DEFINE work == flsBatch[c]
           old == flsCall[c]
           new == flsCall'[c]
<1>1. /\ FilesTyped /\ OneAtATime /\ InTurn /\ SideBySide /\ ChangedOnly /\ Alone
  BY DEF FilesIInv
<1>2. /\ StepOf(work, old, new, flsFiles, flsFiles')
      /\ flsCall' = [flsCall EXCEPT ![c] = new] /\ Files!MayStep(c)
      /\ flsMode' = flsMode /\ flsBatch' = flsBatch /\ flsBefore' = flsBefore
  BY DEF Moved
<1>3. /\ flsBatch \in Seq(FittingWork) /\ DOMAIN flsBatch = 1..Len(flsBatch) /\ Len(flsBatch) \in Nat
      /\ \A d \in DOMAIN flsBatch :
           /\ flsBatch[d] \in FittingWork /\ flsCall[d] \in FileCall
           /\ CallFits(flsBatch[d], flsCall[d])
  BY <1>1, CallIs DEF FilesTyped
<1>4. /\ new \in FileCall /\ CallFits(work, new) /\ flsFiles' \in FileTree
      /\ old.answer = None /\ Begun(new)
      /\ old.at # "called" => new.at # "called"
  BY <1>2 DEF StepOf, Begun
<1>5. \A p \in FilePaths : flsFiles'[p] # flsFiles[p] => new.at # "called" /\ p \in WorkPaths(work)
  BY <1>2 DEF StepOf
<1>6. ASSUME NEW base \in FileTree, NEW P \in SUBSET FilePaths, WorkPaths(work) \subseteq P,
             new.answer # "error", Obeys(flsFiles, P, base, work, old), Files!AllMoveAway
      PROVE  Obeys(flsFiles', P, base, work, new)
  BY <1>2, <1>6 DEF StepOf, Files!AllMoveAway
<1>7. /\ \A d \in DOMAIN flsBatch : d # c => flsCall'[d] = flsCall[d]
      /\ flsCall' \in [DOMAIN flsBatch -> FileCall]
  BY <1>1, <1>2, <1>4 DEF FilesTyped
<1>8. InOrder' = InOrder
  BY <1>2 DEF InOrder, Files!Served
<1>9. old.answer # "error" /\ old.answer # "ok"
  BY <1>4 DEF FilesAssumption
<1>10. WorkPaths(work) \subseteq FilePaths
  BY <1>3, WorkIs
<1>11. FilesTyped'
  <2>1. \A d \in DOMAIN flsBatch : CallFits(flsBatch[d], flsCall'[d])
    BY <1>3, <1>4, <1>7
  <2> QED
    BY <1>1, <1>2, <1>4, <1>7, <2>1 DEF FilesTyped
<1>12. OneAtATime'
  <2>1. SUFFICES ASSUME flsMode = "sequential", NEW e \in DOMAIN flsBatch, NEW d \in DOMAIN flsBatch,
                        d < e, Begun(flsCall'[e])
                 PROVE  flsCall'[d].answer # None
    BY <1>2 DEF OneAtATime, Begun
  <2>2. flsCall[d].answer # None
    <3>1. CASE e = c
      <4>1. d \in 1..(c - 1)
        BY <1>3, <2>1, <3>1
      <4> QED
        BY <1>2, <2>1, <4>1 DEF Files!MayStep
    <3>2. CASE e # c
      BY <1>1, <1>7, <2>1, <3>2 DEF OneAtATime
    <3> QED
      BY <3>1, <3>2
  <2>3. d # c
    BY <1>4, <2>2
  <2> QED
    BY <1>7, <2>2, <2>3
<1>13. InTurn'
  <2>1. SUFFICES ASSUME Files!AllMoveAway, flsMode = "sequential" \/ Len(flsBatch) = 1,
                        NEW e \in DOMAIN flsBatch,
                        \A d \in DOMAIN flsBatch : d < e => flsCall'[d].answer = "ok",
                        \A d \in DOMAIN flsBatch : d > e => ~Begun(flsCall'[d]),
                        flsCall'[e].answer # "error"
                 PROVE  Obeys(flsFiles', FilePaths, InOrder[e - 1], flsBatch[e], flsCall'[e])
    <3>1. InTurn' <=>
            (Files!AllMoveAway /\ (flsMode = "sequential" \/ Len(flsBatch) = 1) =>
              \A e \in DOMAIN flsBatch :
                /\ \A d \in DOMAIN flsBatch : d < e => flsCall'[d].answer = "ok"
                /\ \A d \in DOMAIN flsBatch : d > e => ~Begun(flsCall'[d])
                /\ flsCall'[e].answer # "error"
                => Obeys(flsFiles', FilePaths, InOrder[e - 1], flsBatch[e], flsCall'[e]))
      BY <1>2, <1>8 DEF InTurn, Files!AllMoveAway
    <3> QED
      BY <3>1
  <2>2. ASSUME \A d \in DOMAIN flsBatch : d < c => flsCall'[d].answer = "ok",
               \A d \in DOMAIN flsBatch : d > c => ~Begun(flsCall'[d]),
               new.answer # "error"
        PROVE  Obeys(flsFiles', FilePaths, InOrder[c - 1], work, new)
    <3>1. /\ \A d \in DOMAIN flsBatch : d < c => flsCall[d].answer = "ok"
          /\ \A d \in DOMAIN flsBatch : d > c => ~Begun(flsCall[d])
      <4>1. \A d \in DOMAIN flsBatch : d < c => flsCall[d].answer = "ok"
        BY <1>3, <1>7, <2>2
      <4>2. \A d \in DOMAIN flsBatch : d > c => ~Begun(flsCall[d])
        BY <1>3, <1>7, <2>2
      <4> QED
        BY <4>1, <4>2
    <3>2. Obeys(flsFiles, FilePaths, InOrder[c - 1], work, old)
      BY <1>1, <1>9, <2>1, <3>1 DEF InTurn
    <3>3. InOrder[c - 1] \in FileTree
      <4>1. c - 1 \in 0..Len(flsBatch)
        BY <1>3
      <4> QED
        BY <1>1, <4>1, ServedIs
    <3> QED
      BY <1>6, <1>10, <2>1, <2>2, <3>2, <3>3
  <2>3. CASE e = c
    BY <2>1, <2>2, <2>3
  <2>4. CASE e < c
    <3>1. ~Begun(new)
      BY <2>1, <2>4
    <3> QED
      BY <1>4, <3>1
  <2>5. CASE c < e
    <3>1. new.answer = "ok"
      BY <2>1, <2>5
    <3>2. flsMode = "sequential"
      BY <1>3, <2>1, <2>5
    <3>3. \A d \in DOMAIN flsBatch : d > c => ~Begun(flsCall[d]) /\ flsCall'[d] = flsCall[d]
      BY <1>1, <1>3, <1>4, <1>7, <3>2 DEF OneAtATime
    <3>4. e = c + 1
      <4>1. CASE c + 1 < e
        <5>1. c + 1 \in DOMAIN flsBatch /\ c + 1 > c
          BY <1>3, <4>1
        <5>2. flsCall'[c + 1].answer = "ok" /\ flsCall'[c + 1].answer = None
          BY <2>1, <3>3, <4>1, <5>1 DEF Begun
        <5> QED
          BY <5>2 DEF FilesAssumption
      <4> QED
        BY <1>3, <2>5, <4>1
    <3>5. new.answer # "error" /\ \A d \in DOMAIN flsBatch : d < c => flsCall'[d].answer = "ok"
      BY <1>3, <2>1, <2>5, <3>1
    <3>6. \A d \in DOMAIN flsBatch : d > c => ~Begun(flsCall'[d])
      BY <3>3
    <3>7. Obeys(flsFiles', FilePaths, InOrder[c - 1], work, new)
      BY <2>2, <3>5, <3>6
    <3>8. InOrder[c - 1] \in FileTree /\ InOrder[c] \in FileTree
          /\ InOrder[c] = Files!Effect(InOrder[c - 1], work)
      <4>1. c - 1 \in 0..Len(flsBatch) /\ c \in 0..Len(flsBatch) /\ c \in 1..Len(flsBatch)
        BY <1>3
      <4> QED
        BY <1>1, <4>1, ServedIs
    <3>9. Progress(InOrder[c - 1], work, new) = InOrder[c]
      BY <1>3, <1>4, <3>1, <3>8, ProgressAtEnd
    <3>10. \A p \in FilePaths : flsFiles'[p] = InOrder[c][p]
      BY <3>7, <3>9 DEF Obeys
    <3>11. e - 1 = c /\ ~Begun(flsCall[e]) /\ flsCall'[e] = flsCall[e]
      BY <1>3, <2>5, <3>3, <3>4
    <3>12. CallFits(flsBatch[e], flsCall[e])
      BY <1>3
    <3>13. Obeys(flsFiles', FilePaths, InOrder[c], flsBatch[e], flsCall[e])
      BY <3>8, <3>10, <3>11, <3>12, FollowsAtFirst
    <3> QED
      BY <3>11, <3>13
  <2> QED
    BY <1>3, <2>3, <2>4, <2>5
<1>14. SideBySide'
  <2>1. SUFFICES ASSUME Files!AllMoveAway, Apart, NEW e \in DOMAIN flsBatch, flsCall'[e].answer # "error"
                 PROVE  Obeys(flsFiles', WorkPaths(flsBatch[e]), flsBefore, flsBatch[e], flsCall'[e])
    <3>1. SideBySide' <=>
            (Files!AllMoveAway /\ Apart => \A e \in DOMAIN flsBatch : flsCall'[e].answer # "error" =>
               Obeys(flsFiles', WorkPaths(flsBatch[e]), flsBefore, flsBatch[e], flsCall'[e]))
      BY <1>2 DEF SideBySide, Apart, Files!AllMoveAway
    <3> QED
      BY <3>1
  <2>2. CASE e = c
    <3>1. Obeys(flsFiles, WorkPaths(work), flsBefore, work, old)
      BY <1>1, <1>9, <2>1 DEF SideBySide
    <3> QED
      BY <1>1, <1>6, <1>10, <2>1, <2>2, <3>1 DEF FilesTyped
  <2>3. CASE e # c
    <3>1. flsCall'[e] = flsCall[e]
      BY <1>7, <2>3
    <3>2. Obeys(flsFiles, WorkPaths(flsBatch[e]), flsBefore, flsBatch[e], flsCall[e])
      BY <1>1, <2>1, <3>1 DEF SideBySide
    <3>3. \A p \in WorkPaths(flsBatch[e]) : flsFiles'[p] = flsFiles[p]
      <4>1. WorkPaths(flsBatch[e]) \cap WorkPaths(work) = {}
        BY <2>1, <2>3 DEF Apart
      <4>2. WorkPaths(flsBatch[e]) \subseteq FilePaths
        BY <1>3, WorkIs
      <4> QED
        BY <1>5, <4>1, <4>2
    <3> QED
      BY <3>1, <3>2, <3>3 DEF Obeys
  <2> QED
    BY <2>2, <2>3
<1>15. ChangedOnly'
  <2>1. SUFFICES ASSUME NEW p \in FilePaths, flsFiles'[p] # flsBefore[p]
                 PROVE  \E d \in DOMAIN flsBatch : p \in flsCall'[d].checked
    BY <1>2 DEF ChangedOnly
  <2>2. new.at # "called" => new.checked = WorkPaths(work)
    BY <1>4 DEF CallFits
  <2>3. CASE flsFiles'[p] # flsFiles[p]
    BY <1>5, <2>2, <2>3
  <2>4. CASE flsFiles'[p] = flsFiles[p]
    <3>1. PICK d \in DOMAIN flsBatch : p \in flsCall[d].checked
      BY <1>1, <2>1, <2>4 DEF ChangedOnly
    <3>2. CASE d # c
      BY <1>7, <3>1, <3>2
    <3>3. CASE d = c
      <4>1. CallFits(work, old)
        BY <1>3
      <4>2. old.at # "called" /\ old.checked = WorkPaths(work)
        BY <3>1, <3>3, <4>1 DEF CallFits
      <4>3. p \in new.checked
        BY <1>4, <2>2, <3>1, <3>3, <4>2
      <4> QED
        BY <4>3
    <3> QED
      BY <3>2, <3>3
  <2> QED
    BY <2>3, <2>4
<1>16. Alone'
  <2>1. SUFFICES ASSUME Files!AllMoveAway, Len(flsBatch) = 1, NEW e \in DOMAIN flsBatch,
                        flsBatch[e].tool = "apply_patch", flsCall'[e].answer = "error",
                        NEW p \in FilePaths \ Current(flsCall'[e])
                 PROVE  flsFiles'[p]
                          = Files!Patched(flsBefore, flsCall'[e].sections)[flsCall'[e].next - 1][p]
    <3>1. Alone' <=>
            (Files!AllMoveAway /\ Len(flsBatch) = 1 =>
              \A e \in DOMAIN flsBatch :
                flsBatch[e].tool = "apply_patch" /\ flsCall'[e].answer = "error" =>
                  \A p \in FilePaths \ Current(flsCall'[e]) :
                    flsFiles'[p] = Files!Patched(flsBefore, flsCall'[e].sections)[flsCall'[e].next - 1][p])
      BY <1>2 DEF Alone, Files!AllMoveAway
    <3> QED
      BY <3>1
  <2>2. e = 1 /\ c = 1 /\ \A d \in DOMAIN flsBatch : d = 1
    BY <1>3, <2>1
  <2>3. /\ new.sections = old.sections /\ new.next = old.next
        /\ \A q \in FilePaths \ Current(new) : flsFiles'[q] = flsFiles[q]
    BY <1>2, <2>1, <2>2 DEF StepOf
  <2>4. Current(new) = Current(old)
    BY <2>3 DEF Current
  <2>5. InOrder[c - 1] = flsBefore
    BY <1>1, <2>2, ServedIs
  <2>6. Obeys(flsFiles, FilePaths, flsBefore, work, old)
    BY <1>1, <1>9, <2>1, <2>2, <2>5 DEF InTurn
  <2>7. flsFiles[p] = Progress(flsBefore, work, old)[p]
    BY <2>6 DEF Obeys
  <2>8. Progress(flsBefore, work, old)[p] = Files!Patched(flsBefore, old.sections)[old.next - 1][p]
    <3>1. flsBefore \in FileTree
      BY <1>1 DEF FilesTyped
    <3> QED
      BY <1>3, <2>1, <2>2, <2>4, <3>1, ProgressOutside
  <2> QED
    BY <2>1, <2>2, <2>3, <2>4, <2>7, <2>8
<1> QED
  BY <1>11, <1>12, <1>13, <1>14, <1>15, <1>16 DEF FilesIInv

(* What is not a step of a call leaves everything as it is.                 *)
LEMMA FilesStay ==
  ASSUME FilesIInv, UNCHANGED <<flsMode, flsBatch, flsBefore, flsFiles, flsCall>>
  PROVE  FilesIInv'
<1>1. FilesTyped' /\ OneAtATime' /\ ChangedOnly'
  BY DEF FilesIInv, FilesTyped, OneAtATime, ChangedOnly
<1>2. InTurn'
  <2>1. InOrder' = InOrder
    BY DEF InOrder, Files!Served
  <2> QED
    BY <2>1 DEF FilesIInv, InTurn, Files!AllMoveAway
<1>3. SideBySide' /\ Alone'
  BY DEF FilesIInv, SideBySide, Apart, Alone, Files!AllMoveAway
<1> QED
  BY <1>1, <1>2, <1>3 DEF FilesIInv

LEMMA FilesStep ==
  ASSUME FilesAssumption, FilesIInv, Files!Next
  PROVE  FilesIInv'
<1>1. FilesTyped
  BY DEF FilesIInv
<1>2. ASSUME NEW c \in DOMAIN flsBatch,
             \/ Files!Permission(c) \/ Files!Read(c) \/ Files!Section(c)
             \/ Files!WriteFile(c) \/ Files!RemoveFile(c)
      PROVE  Moved(c)
  BY <1>1, <1>2, PermissionMoves, ReadMoves, SectionMoves, WriteMoves, RemoveMoves
<1>3. CASE Files!Cancel
  BY <1>3, FilesStay DEF Files!Cancel
<1> QED
  BY <1>2, <1>3, MovedKeeps DEF Files!Next

-----------------------------------------------------------------------------
(* The files are whole.                                                     *)

LEMMA TreesEqual ==
  ASSUME NEW tree \in FileTree, NEW other \in FileTree, \A p \in FilePaths : tree[p] = other[p]
  PROVE  tree = other
<1>1. tree = [p \in FilePaths |-> tree[p]] /\ other = [p \in FilePaths |-> other[p]]
  BY DEF FileTree
<1>2. [p \in FilePaths |-> tree[p]] = [p \in FilePaths |-> other[p]]
  OBVIOUS
<1> QED
  BY <1>1, <1>2

(* Calls that are apart have, one after the other, each the effect that it  *)
(* has alone.                                                               *)
LEMMA ServedApart ==
  ASSUME FilesAssumption, FilesTyped, Apart
  PROVE  \A p \in FilePaths :
           /\ \A c \in DOMAIN flsBatch : p \in WorkPaths(flsBatch[c]) =>
                InOrder[Len(flsBatch)][p] = Files!Effect(flsBefore, flsBatch[c])[p]
           /\ (\A c \in DOMAIN flsBatch : p \notin WorkPaths(flsBatch[c])) =>
                InOrder[Len(flsBatch)][p] = flsBefore[p]
<1> DEFINE n == Len(flsBatch)
           Right(k) == \A p \in FilePaths :
             /\ \A c \in 1..k : p \in WorkPaths(flsBatch[c]) =>
                  InOrder[k][p] = Files!Effect(flsBefore, flsBatch[c])[p]
             /\ (\A c \in 1..k : p \notin WorkPaths(flsBatch[c])) => InOrder[k][p] = flsBefore[p]
           T == {k \in 0..n : Right(k)}
<1>1. /\ n \in Nat /\ DOMAIN flsBatch = 1..n /\ flsBefore \in FileTree
      /\ \A c \in 1..n : flsBatch[c] \in FittingWork
  BY ElementOfSeq DEF FilesTyped
<1>2. /\ InOrder \in [0..n -> FileTree] /\ InOrder[0] = flsBefore
      /\ \A i \in 1..n : InOrder[i] = Files!Effect(InOrder[i - 1], flsBatch[i])
  BY ServedIs
<1>3. \A c, d \in 1..n : c # d => WorkPaths(flsBatch[c]) \cap WorkPaths(flsBatch[d]) = {}
  BY <1>1 DEF Apart
<1> HIDE DEF n
<1>4. 0 \in T
  <2>1. \A p \in FilePaths : InOrder[0][p] = flsBefore[p]
    BY <1>2
  <2>2. 1..0 = {}
    OBVIOUS
  <2> QED
    BY <1>1, <2>1, <2>2
<1>5. ASSUME NEW k \in 1..n, k - 1 \in T PROVE k \in T
  <2> DEFINE work == flsBatch[k]
             last == InOrder[k - 1]
  <2>1. Right(k - 1)
    BY <1>5
  <2>2. k - 1 \in 0..n /\ \A c \in 1..k : c = k \/ c \in 1..(k - 1)
    BY <1>1
  <2>3. last \in FileTree /\ work \in FittingWork /\ WorkPaths(work) \subseteq FilePaths
        /\ InOrder[k] = Files!Effect(last, work)
    BY <1>1, <1>2, <2>2, WorkIs
  <2>4. \A c \in 1..(k - 1) : c \in 1..n /\ c # k /\ c \in 1..k
    BY <1>1
  <2>5. \A p \in WorkPaths(work) : last[p] = flsBefore[p]
    <3>1. ASSUME NEW p \in WorkPaths(work) PROVE \A c \in 1..(k - 1) : p \notin WorkPaths(flsBatch[c])
      BY <1>3, <2>4
    <3> QED
      BY <2>1, <2>3, <3>1
  <2>6. /\ \A p \in WorkPaths(work) : InOrder[k][p] = Files!Effect(flsBefore, work)[p]
        /\ \A p \in FilePaths \ WorkPaths(work) : InOrder[k][p] = last[p]
    BY <1>1, <2>3, <2>5, EffectByPaths
  <2>7. ASSUME NEW p \in FilePaths
        PROVE  /\ \A c \in 1..k : p \in WorkPaths(flsBatch[c]) =>
                    InOrder[k][p] = Files!Effect(flsBefore, flsBatch[c])[p]
               /\ (\A c \in 1..k : p \notin WorkPaths(flsBatch[c])) => InOrder[k][p] = flsBefore[p]
    <3>1. ASSUME NEW c \in 1..k, p \in WorkPaths(flsBatch[c])
          PROVE  InOrder[k][p] = Files!Effect(flsBefore, flsBatch[c])[p]
      <4>1. CASE c = k
        BY <2>6, <3>1, <4>1
      <4>2. CASE c \in 1..(k - 1)
        <5>1. p \notin WorkPaths(work)
          BY <1>3, <2>4, <3>1, <4>2
        <5>2. last[p] = Files!Effect(flsBefore, flsBatch[c])[p]
          BY <2>1, <3>1, <4>2
        <5> QED
          BY <2>6, <5>1, <5>2
      <4> QED
        BY <2>2, <4>1, <4>2
    <3>2. ASSUME \A c \in 1..k : p \notin WorkPaths(flsBatch[c]) PROVE InOrder[k][p] = flsBefore[p]
      <4>1. p \notin WorkPaths(work) /\ \A c \in 1..(k - 1) : p \notin WorkPaths(flsBatch[c])
        <5>1. k \in 1..k
          BY <1>1
        <5> QED
          BY <2>4, <3>2, <5>1
      <4>2. last[p] = flsBefore[p]
        BY <2>1, <4>1
      <4> QED
        BY <2>6, <4>1, <4>2
    <3> QED
      BY <3>1, <3>2
  <2>8. Right(k)
    BY <2>7
  <2>9. k \in 0..n
    BY <1>1
  <2> QED
    BY <2>8, <2>9
<1> HIDE DEF T
<1>6. \A k \in 0..n : k \in T
  BY <1>1, <1>4, <1>5, UpTo
<1>7. Right(n)
  BY <1>1, <1>6 DEF T
<1> QED
  BY <1>1, <1>7 DEF n

(* Calls that all succeeded, in sequence or apart, leave what they leave    *)
(* one after the other.                                                     *)
LEMMA FilesAreSerial == FilesAssumption /\ FilesIInv => Files!SuccessIsSerial
<1> SUFFICES ASSUME FilesAssumption, FilesIInv, Files!AllMoveAway,
                    \/ flsMode = "sequential"
                    \/ \A c, d \in DOMAIN flsBatch : c # d =>
                         flsCall[c].checked \cap flsCall[d].checked = {},
                    Files!Succeeded = DOMAIN flsBatch
             PROVE  Files!Serial
  BY DEF Files!SuccessIsSerial, Files!NoEditIsLost
<1> DEFINE n == Len(flsBatch)
           order == [c \in DOMAIN flsBatch |-> c]
<1>1. FilesTyped /\ InTurn /\ SideBySide /\ ChangedOnly
  BY DEF FilesIInv
<1>2. /\ n \in Nat /\ DOMAIN flsBatch = 1..n
      /\ \A c \in DOMAIN flsBatch :
           /\ flsBatch[c] \in FittingWork /\ flsCall[c] \in FileCall
           /\ CallFits(flsBatch[c], flsCall[c])
      /\ flsBefore \in FileTree /\ flsFiles \in FileTree
  BY <1>1, CallIs DEF FilesTyped
<1>3. \A c \in DOMAIN flsBatch : flsCall[c].answer = "ok"
  BY DEF Files!Succeeded
<1>4. \A c \in DOMAIN flsBatch : flsCall[c].checked = WorkPaths(flsBatch[c])
  BY <1>2, <1>3 DEF CallFits
<1>5. InOrder[n] \in FileTree /\ InOrder[0] = flsBefore
  BY <1>1, <1>2, ServedIs
<1> HIDE DEF n
<1>6. \A p \in FilePaths : flsFiles[p] = InOrder[n][p]
  <2>1. CASE flsMode = "sequential" /\ n = 0
    <3>1. \A p \in FilePaths : flsFiles[p] = flsBefore[p]
      BY <1>1, <1>2, <2>1 DEF ChangedOnly
    <3> QED
      BY <1>5, <2>1, <3>1
  <2>2. CASE flsMode = "sequential" /\ n # 0
    <3>1. n \in DOMAIN flsBatch /\ n \in 1..Len(flsBatch) /\ n - 1 \in 0..Len(flsBatch)
          /\ \A d \in DOMAIN flsBatch : ~(d > n)
      BY <1>2, <2>2 DEF n
    <3>2. Obeys(flsFiles, FilePaths, InOrder[n - 1], flsBatch[n], flsCall[n])
      <4>1. flsCall[n].answer # "error"
        BY <1>3, <3>1
      <4> QED
        BY <1>1, <1>3, <2>2, <3>1, <4>1 DEF InTurn
    <3>3. InOrder[n - 1] \in FileTree /\ InOrder[n] = Files!Effect(InOrder[n - 1], flsBatch[n])
      BY <1>1, <3>1, ServedIs
    <3>4. Progress(InOrder[n - 1], flsBatch[n], flsCall[n]) = InOrder[n]
      BY <1>2, <1>3, <3>1, <3>3, ProgressAtEnd
    <3> QED
      BY <3>2, <3>4 DEF Obeys
  <2>3. CASE \A c, d \in DOMAIN flsBatch : c # d => flsCall[c].checked \cap flsCall[d].checked = {}
    <3>1. Apart
      BY <1>4, <2>3 DEF Apart
    <3>2. ASSUME NEW p \in FilePaths PROVE flsFiles[p] = InOrder[n][p]
      <4>1. CASE \E c \in DOMAIN flsBatch : p \in WorkPaths(flsBatch[c])
        <5>1. PICK c \in DOMAIN flsBatch : p \in WorkPaths(flsBatch[c])
          BY <4>1
        <5>2. Obeys(flsFiles, WorkPaths(flsBatch[c]), flsBefore, flsBatch[c], flsCall[c])
          <6>1. flsCall[c].answer # "error"
            BY <1>3
          <6> QED
            BY <1>1, <3>1, <6>1 DEF SideBySide
        <5>3. Progress(flsBefore, flsBatch[c], flsCall[c]) = Files!Effect(flsBefore, flsBatch[c])
          BY <1>2, <1>3, ProgressAtEnd
        <5>4. InOrder[n][p] = Files!Effect(flsBefore, flsBatch[c])[p]
          BY <1>1, <3>1, <5>1, ServedApart DEF n
        <5> QED
          BY <5>1, <5>2, <5>3, <5>4 DEF Obeys
      <4>2. CASE \A c \in DOMAIN flsBatch : p \notin WorkPaths(flsBatch[c])
        <5>1. flsFiles[p] = flsBefore[p]
          BY <1>1, <1>4, <4>2 DEF ChangedOnly
        <5>2. InOrder[n][p] = flsBefore[p]
          BY <1>1, <3>1, <4>2, ServedApart DEF n
        <5> QED
          BY <5>1, <5>2
      <4> QED
        BY <4>1, <4>2
    <3> QED
      BY <3>2
  <2> QED
    BY <2>1, <2>2, <2>3
<1>7. flsFiles = InOrder[n]
  BY <1>2, <1>5, <1>6, TreesEqual
<1>8. order \in [DOMAIN flsBatch -> DOMAIN flsBatch] /\ Files!IsInjective(order)
  BY DEF Files!IsInjective
<1>9. flsFiles = Files!Served(order)[Len(flsBatch)]
  BY <1>7 DEF InOrder, n
<1> HIDE DEF order
<1> QED
  BY <1>8, <1>9 DEF Files!Serial

(* Only what was checked changes, and a patch that is alone has applied     *)
(* what is before the present section.                                      *)
LEMMA FilesAreChecked == FilesAssumption /\ FilesIInv => Files!ChangedIsChecked
<1> SUFFICES ASSUME FilesAssumption, FilesIInv PROVE Files!ChangedIsChecked
  OBVIOUS
<1>1. FilesTyped /\ InTurn /\ ChangedOnly /\ Alone
  BY DEF FilesIInv
<1>2. DOMAIN flsFiles = FilePaths /\ flsBefore \in FileTree
  BY <1>1 DEF FilesTyped, FileTree
<1>3. \A p \in DOMAIN flsFiles : flsFiles[p] # flsBefore[p] =>
        \E c \in DOMAIN flsBatch : p \in flsCall[c].checked
  BY <1>1, <1>2 DEF ChangedOnly
<1>4. ASSUME Files!AllMoveAway, Len(flsBatch) = 1, flsBatch[1].tool = "apply_patch"
      PROVE  \A p \in DOMAIN flsFiles \ Current(flsCall[1]) :
               flsFiles[p] = Files!Patched(flsBefore, flsCall[1].sections)[flsCall[1].next - 1][p]
  <2>1. DOMAIN flsBatch = 1..1 /\ 1 \in DOMAIN flsBatch /\ \A d \in DOMAIN flsBatch : d = 1
    BY <1>1, <1>4 DEF FilesTyped
  <2>2. CASE flsCall[1].answer = "error"
    BY <1>1, <1>2, <1>4, <2>1, <2>2 DEF Alone
  <2>3. CASE flsCall[1].answer # "error"
    <3>1. InOrder[1 - 1] = flsBefore
      BY <1>1, ServedIs
    <3>2. /\ \A d \in DOMAIN flsBatch : ~(d < 1) /\ ~(d > 1)
      BY <2>1
    <3>3. Obeys(flsFiles, FilePaths, flsBefore, flsBatch[1], flsCall[1])
      BY <1>1, <1>4, <2>1, <2>3, <3>1, <3>2 DEF InTurn
    <3>4. flsBatch[1] \in FittingWork /\ flsCall[1] \in FileCall /\ CallFits(flsBatch[1], flsCall[1])
      BY <1>1, <2>1, CallIs
    <3>5. \A p \in FilePaths \ Current(flsCall[1]) :
            Progress(flsBefore, flsBatch[1], flsCall[1])[p]
              = Files!Patched(flsBefore, flsCall[1].sections)[flsCall[1].next - 1][p]
      BY <1>2, <1>4, <3>4, ProgressOutside
    <3> QED
      BY <1>2, <3>3, <3>5 DEF Obeys
  <2> QED
    BY <2>2, <2>3
<1> QED
  BY <1>3, <1>4 DEF Files!ChangedIsChecked, Current

(* The instance has its own name for the operator of FiniteSets.            *)
LEMMA FilesCardinality == \A S : Files!Cardinality(S) = Cardinality(S)
BY DEF Files!Cardinality, Cardinality

(* A patch keeps the lines that it does not remove.                         *)
LEMMA FilesKeepTheRest == FilesTyped => Files!RestIsKept
<1> SUFFICES ASSUME FilesTyped PROVE Files!RestIsKept
  OBVIOUS
<1> SUFFICES ASSUME NEW c \in DOMAIN flsBatch, flsCall[c].next <= Len(flsCall[c].sections)
             PROVE  LET section == flsCall[c].sections[flsCall[c].next]
                        old == flsFiles[section.path]
                        updated == Files!applyUpdateLines(old, section.lines)
                        kept == {i \in 1..Len(updated.out) : updated.out[i].from # 0}
                        removed == {i \in 1..Len(section.lines) : section.lines[i].op = "-"}
                    IN section.type = "update" /\ old # None /\ updated.ok =>
                         /\ \A i \in kept : updated.out[i].text = old[updated.out[i].from].text
                         /\ \A i, j \in kept : i < j => updated.out[i].from < updated.out[j].from
                         /\ Files!Cardinality(kept) = Len(old) - Files!Cardinality(removed)
  BY DEF Files!RestIsKept
<1> DEFINE section == flsCall[c].sections[flsCall[c].next]
           old == flsFiles[section.path]
           updated == Files!applyUpdateLines(old, section.lines)
           kept == {i \in 1..Len(updated.out) : updated.out[i].from # 0}
           removed == {i \in 1..Len(section.lines) : section.lines[i].op = "-"}
<1> SUFFICES ASSUME old # None, updated.ok
             PROVE  /\ \A i \in kept : updated.out[i].text = old[updated.out[i].from].text
                    /\ \A i, j \in kept : i < j => updated.out[i].from < updated.out[j].from
                    /\ Cardinality(kept) = Len(old) - Cardinality(removed)
  BY FilesCardinality
<1>1. flsCall[c].sections \in Seq(FileSection) /\ flsCall[c].next \in Nat \ {0}
  BY CallIs DEF FileCall
<1>2. flsCall[c].next \in 1..Len(flsCall[c].sections)
  <2>1. Len(flsCall[c].sections) \in Nat
    BY <1>1
  <2> QED
    BY <1>1, <2>1
<1>3. section \in FileSection
  BY <1>1, <1>2, ElementOfSeq
<1>4. section.path \in FilePaths /\ section.lines \in Seq(SectionLine)
  BY <1>3 DEF FileSection, SectionLine
<1>5. old \in FileContent
  BY <1>4 DEF FilesTyped, FileTree
<1> HIDE DEF section, old
<1>6. KeepsTo(old, updated.out, Len(old), Len(old) - Cardinality(Removing(section.lines, Len(section.lines))))
  BY <1>4, <1>5, UpdateKeeps
<1> HIDE DEF updated
<1> QED
  BY <1>6 DEF KeepsTo, KeptLines, Removing

LEMMA FilesSafe == FilesAssumption /\ FilesIInv => Files!FilesAreWhole
BY FilesAreSerial, FilesAreChecked, FilesKeepTheRest DEF Files!FilesAreWhole, FilesIInv

-----------------------------------------------------------------------------
(* ModelRequests.  What is picked from a sequence, and what is joined.     *)

(* The places in s of what t picks from its first n, at positions of I.    *)
PicksBy(at, t, s, n, I) ==
  /\ at \in [1..Len(t) -> I \cap 1..n]
  /\ \A k \in 1..Len(t) : t[k] = s[at[k]]
  /\ \A k, l \in 1..Len(t) : at[k] = at[l] => k = l
  /\ \A i \in I \cap 1..n : \E k \in 1..Len(t) : at[k] = i

LEMMA PickOne ==
  ASSUME NEW S, NEW s \in Seq(S), NEW I, NEW n \in 1..Len(s), n \in I,
         NEW t \in Seq(S), NEW at, PicksBy(at, t, s, n - 1, I)
  PROVE  /\ Append(t, s[n]) \in Seq(S)
         /\ \E new : PicksBy(new, Append(t, s[n]), s, n, I)
<1> DEFINE u == Append(t, s[n])
           m == Len(t) + 1
           new == [k \in 1..m |-> IF k = m THEN n ELSE at[k]]
<1>1. s[n] \in S /\ Len(s) \in Nat /\ Len(t) \in Nat
  BY ElementOfSeq
<1>2. u \in Seq(S) /\ Len(u) = m /\ u[m] = s[n] /\ \A k \in 1..Len(t) : u[k] = t[k]
  BY <1>1
<1> HIDE DEF u
<1>3. \A k \in 1..Len(t) : at[k] \in I \cap 1..(n - 1)
  BY DEF PicksBy
<1>4. new \in [1..m -> I \cap 1..n]
  BY <1>1, <1>3
<1>5. new[m] = n /\ \A k \in 1..Len(t) : new[k] = at[k]
  BY <1>1
<1> HIDE DEF new
<1>6. \A k \in 1..m : u[k] = s[new[k]]
  BY <1>1, <1>2, <1>5 DEF PicksBy
<1>7. \A k, l \in 1..m : new[k] = new[l] => k = l
  <2>1. \A k \in 1..Len(t) : new[k] # n
    BY <1>1, <1>3, <1>5
  <2>2. \A k, l \in 1..Len(t) : new[k] = new[l] => k = l
    BY <1>5 DEF PicksBy
  <2>3. \A k \in 1..m : k = m \/ k \in 1..Len(t)
    BY <1>1
  <2> QED
    BY <1>5, <2>1, <2>2, <2>3
<1>8. \A i \in I \cap 1..n : \E k \in 1..m : new[k] = i
  <2> SUFFICES ASSUME NEW i \in I \cap 1..n PROVE \E k \in 1..m : new[k] = i
    OBVIOUS
  <2>1. CASE i = n
    BY <1>1, <1>5, <2>1
  <2>2. CASE i # n
    <3>1. i \in I \cap 1..(n - 1)
      BY <1>1, <2>2
    <3>2. PICK k \in 1..Len(t) : at[k] = i
      BY <3>1 DEF PicksBy
    <3> QED
      BY <1>1, <1>5, <3>2
  <2> QED
    BY <2>1, <2>2
<1>9. PicksBy(new, u, s, n, I)
  BY <1>2, <1>4, <1>6, <1>7, <1>8 DEF PicksBy
<1> QED
  BY <1>2, <1>9 DEF u

LEMMA PickNone ==
  ASSUME NEW s, NEW I, NEW n \in Nat \ {0}, n \notin I,
         NEW t, NEW at, PicksBy(at, t, s, n - 1, I)
  PROVE  PicksBy(at, t, s, n, I)
<1>1. I \cap 1..n = I \cap 1..(n - 1)
  OBVIOUS
<1> QED
  BY <1>1 DEF PicksBy

(* Picked(s, I) has the elements of s at positions of I, each once.        *)
LEMMA PickedIs ==
  ASSUME NEW S, NEW s \in Seq(S), NEW I
  PROVE  /\ Bodies!Picked(s, I) \in Seq(S)
         /\ \E at : PicksBy(at, Bodies!Picked(s, I), s, Len(s), I)
<1> DEFINE n == Len(s)
           IsPicked(f) == f = [i \in 0..n |-> IF i = 0 THEN <<>>
                                ELSE IF i \in I THEN Append(f[i - 1], s[i]) ELSE f[i - 1]]
           picked == CHOOSE f : IsPicked(f)
           step == [i \in 1..n |-> [t \in Seq(S) |-> IF i \in I THEN Append(t, s[i]) ELSE t]]
<1>1. n \in Nat /\ \A i \in 1..n : s[i] \in S
  BY ElementOfSeq
<1>2. Bodies!Picked(s, I) = picked[n]
  BY DEF Bodies!Picked
<1>3. step \in [1..n -> [Seq(S) -> Seq(S)]]
  BY <1>1
<1>4. PICK f \in [0..n -> Seq(S)] : f[0] = <<>> /\ \A i \in 1..n : f[i] = step[i][f[i - 1]]
  <2> HIDE DEF step, n
  <2>1. <<>> \in Seq(S)
    OBVIOUS
  <2>2. Iterations(n, Seq(S), <<>>, step) # {}
    BY <1>1, <1>3, <2>1, StepsExist
  <2> QED
    BY <2>2 DEF Iterations
<1> HIDE DEF n
<1>5. \A i \in 1..n : f[i] = IF i \in I THEN Append(f[i - 1], s[i]) ELSE f[i - 1]
  <2> SUFFICES ASSUME NEW i \in 1..n
               PROVE  f[i] = IF i \in I THEN Append(f[i - 1], s[i]) ELSE f[i - 1]
    OBVIOUS
  <2>1. f[i - 1] \in Seq(S)
    BY <1>1, <1>4
  <2> QED
    BY <1>4, <2>1
<1>6. IsPicked(f)
  <2>1. \A i \in 0..n : f[i] = IF i = 0 THEN <<>>
                               ELSE IF i \in I THEN Append(f[i - 1], s[i]) ELSE f[i - 1]
    <3> SUFFICES ASSUME NEW i \in 0..n
                 PROVE  f[i] = IF i = 0 THEN <<>>
                               ELSE IF i \in I THEN Append(f[i - 1], s[i]) ELSE f[i - 1]
      OBVIOUS
    <3>1. CASE i = 0
      BY <1>4, <3>1
    <3>2. CASE i # 0
      <4>1. i \in 1..n
        BY <1>1, <3>2
      <4> QED
        BY <1>5, <3>2, <4>1
    <3> QED
      BY <3>1, <3>2
  <2>2. f = [i \in 0..n |-> f[i]]
    BY <1>4
  <2>3. [i \in 0..n |-> f[i]]
          = [i \in 0..n |-> IF i = 0 THEN <<>>
                            ELSE IF i \in I THEN Append(f[i - 1], s[i]) ELSE f[i - 1]]
    BY <2>1
  <2> QED
    BY <2>2, <2>3
<1>7. IsPicked(picked)
  <2> HIDE DEF IsPicked
  <2> QED
    BY <1>6
<1> HIDE DEF picked
<1>8. picked[0] = <<>> /\ \A i \in 1..n : picked[i] = IF i \in I THEN Append(picked[i - 1], s[i])
                                                      ELSE picked[i - 1]
  <2>1. \A i \in 0..n : picked[i] = IF i = 0 THEN <<>>
                                    ELSE IF i \in I THEN Append(picked[i - 1], s[i])
                                    ELSE picked[i - 1]
    BY <1>7
  <2>2. picked[0] = <<>>
    BY <1>1, <2>1
  <2>3. ASSUME NEW i \in 1..n
        PROVE  picked[i] = IF i \in I THEN Append(picked[i - 1], s[i]) ELSE picked[i - 1]
    <3>1. i \in 0..n /\ i # 0
      BY <1>1
    <3> QED
      BY <2>1, <3>1
  <2> QED
    BY <2>2, <2>3
<1> HIDE DEF IsPicked
<1> DEFINE T == {i \in 0..n : picked[i] \in Seq(S) /\ \E at : PicksBy(at, picked[i], s, i, I)}
<1>9. 0 \in T
  <2>1. <<>> \in Seq(S) /\ 0 \in 0..n
    BY <1>1
  <2>2. PicksBy(<<>>, <<>>, s, 0, I)
    BY DEF PicksBy
  <2>3. picked[0] \in Seq(S) /\ PicksBy(<<>>, picked[0], s, 0, I)
    BY <1>8, <2>1, <2>2
  <2> QED
    BY <2>1, <2>3
<1>10. ASSUME NEW i \in 1..n, i - 1 \in T PROVE i \in T
  <2>1. PICK at : PicksBy(at, picked[i - 1], s, i - 1, I)
    BY <1>10
  <2>2. picked[i - 1] \in Seq(S) /\ i \in Nat \ {0} /\ i \in 0..n
    BY <1>1, <1>10
  <2>3. CASE i \in I
    <3>1. i \in 1..Len(s)
      BY DEF n
    <3>2. /\ Append(picked[i - 1], s[i]) \in Seq(S)
          /\ \E new : PicksBy(new, Append(picked[i - 1], s[i]), s, i, I)
      BY <2>1, <2>2, <2>3, <3>1, PickOne
    <3> QED
      BY <1>8, <2>2, <2>3, <3>2
  <2>4. CASE i \notin I
    <3>1. PicksBy(at, picked[i - 1], s, i, I)
      BY <2>1, <2>2, <2>4, PickNone
    <3> QED
      BY <1>8, <2>2, <2>4, <3>1
  <2> QED
    BY <2>3, <2>4
<1> HIDE DEF T
<1>11. \A i \in 0..n : i \in T
  BY <1>1, <1>9, <1>10, UpTo
<1>12. n \in T
  BY <1>1, <1>11
<1> QED
  BY <1>2, <1>12 DEF T, n

(* The sequences joined up to each place.                                  *)
Joins(j, seqs, S) ==
  /\ j \in [0..Len(seqs) -> Seq(S)] /\ j[0] = <<>>
  /\ \A i \in 1..Len(seqs) : j[i] = j[i - 1] \o seqs[i]

LEMMA JoinedIs ==
  ASSUME NEW S, NEW seqs \in Seq(Seq(S))
  PROVE  \E j : Joins(j, seqs, S) /\ Bodies!Joined(seqs) = j[Len(seqs)]
<1> DEFINE n == Len(seqs)
           IsJoined(f) == f = [i \in 0..n |-> IF i = 0 THEN <<>> ELSE f[i - 1] \o seqs[i]]
           joined == CHOOSE f : IsJoined(f)
           step == [i \in 1..n |-> [t \in Seq(S) |-> t \o seqs[i]]]
<1>1. n \in Nat /\ \A i \in 1..n : seqs[i] \in Seq(S)
  BY ElementOfSeq
<1>2. Bodies!Joined(seqs) = joined[n]
  BY DEF Bodies!Joined
<1>3. step \in [1..n -> [Seq(S) -> Seq(S)]]
  BY <1>1, ConcatProperties
<1>4. PICK f \in [0..n -> Seq(S)] : f[0] = <<>> /\ \A i \in 1..n : f[i] = step[i][f[i - 1]]
  <2> HIDE DEF step, n
  <2>1. <<>> \in Seq(S)
    OBVIOUS
  <2>2. Iterations(n, Seq(S), <<>>, step) # {}
    BY <1>1, <1>3, <2>1, StepsExist
  <2> QED
    BY <2>2 DEF Iterations
<1> HIDE DEF n
<1>5. \A i \in 1..n : f[i] = f[i - 1] \o seqs[i]
  <2> SUFFICES ASSUME NEW i \in 1..n PROVE f[i] = f[i - 1] \o seqs[i]
    OBVIOUS
  <2>1. f[i - 1] \in Seq(S)
    BY <1>1, <1>4
  <2> QED
    BY <1>4, <2>1
<1>6. IsJoined(f)
  <2>1. \A i \in 0..n : f[i] = IF i = 0 THEN <<>> ELSE f[i - 1] \o seqs[i]
    <3> SUFFICES ASSUME NEW i \in 0..n
                 PROVE  f[i] = IF i = 0 THEN <<>> ELSE f[i - 1] \o seqs[i]
      OBVIOUS
    <3>1. CASE i = 0
      BY <1>4, <3>1
    <3>2. CASE i # 0
      <4>1. i \in 1..n
        BY <1>1, <3>2
      <4> QED
        BY <1>5, <3>2, <4>1
    <3> QED
      BY <3>1, <3>2
  <2>2. f = [i \in 0..n |-> f[i]]
    BY <1>4
  <2>3. [i \in 0..n |-> f[i]] = [i \in 0..n |-> IF i = 0 THEN <<>> ELSE f[i - 1] \o seqs[i]]
    BY <2>1
  <2> QED
    BY <2>2, <2>3
<1>7. IsJoined(joined)
  <2> HIDE DEF IsJoined
  <2> QED
    BY <1>6
<1> HIDE DEF joined
<1>8. joined[0] = <<>> /\ \A i \in 1..n : joined[i] = joined[i - 1] \o seqs[i]
  <2>1. \A i \in 0..n : joined[i] = IF i = 0 THEN <<>> ELSE joined[i - 1] \o seqs[i]
    BY <1>7
  <2>2. joined[0] = <<>>
    BY <1>1, <2>1
  <2>3. ASSUME NEW i \in 1..n PROVE joined[i] = joined[i - 1] \o seqs[i]
    <3>1. i \in 0..n /\ i # 0
      BY <1>1
    <3> QED
      BY <2>1, <3>1
  <2> QED
    BY <2>2, <2>3
<1>9. \A i \in 0..n : joined[i] \in Seq(S)
  <2> DEFINE T == {i \in 0..n : joined[i] \in Seq(S)}
  <2>1. 0 \in T
    <3>1. <<>> \in Seq(S) /\ 0 \in 0..n
      BY <1>1
    <3> QED
      BY <1>8, <3>1
  <2>2. ASSUME NEW i \in 1..n, i - 1 \in T PROVE i \in T
    <3>1. i \in 0..n /\ joined[i - 1] \in Seq(S) /\ seqs[i] \in Seq(S)
      BY <1>1, <2>2
    <3>2. joined[i - 1] \o seqs[i] \in Seq(S)
      BY <3>1, ConcatProperties
    <3> QED
      BY <1>8, <3>1, <3>2
  <2> HIDE DEF T
  <2>3. \A i \in 0..n : i \in T
    BY <1>1, <2>1, <2>2, UpTo
  <2> QED
    BY <2>3 DEF T
<1>10. joined \in [0..n -> Seq(S)]
  <2>1. joined = [i \in 0..n |-> joined[i]]
    BY <1>7
  <2> QED
    BY <1>9, <2>1
<1>11. Joins(joined, seqs, S)
  BY <1>8, <1>10 DEF Joins, n
<1> QED
  BY <1>2, <1>11 DEF n

LEMMA JoinedAppend ==
  ASSUME NEW S, NEW seqs \in Seq(Seq(S)), NEW t \in Seq(S)
  PROVE  /\ Bodies!Joined(seqs) \in Seq(S)
         /\ Bodies!Joined(Append(seqs, t)) = Bodies!Joined(seqs) \o t
<1> DEFINE more == Append(seqs, t)
           n == Len(seqs)
<1>1. n \in Nat /\ \A i \in 1..n : seqs[i] \in Seq(S)
  BY ElementOfSeq
<1>2. more \in Seq(Seq(S)) /\ Len(more) = n + 1 /\ more[n + 1] = t /\ \A i \in 1..n : more[i] = seqs[i]
  BY <1>1
<1> HIDE DEF more
<1>3. PICK j : Joins(j, seqs, S) /\ Bodies!Joined(seqs) = j[n]
  BY JoinedIs
<1>4. PICK k : Joins(k, more, S) /\ Bodies!Joined(more) = k[n + 1]
  BY <1>2, JoinedIs
<1> HIDE DEF n
<1>5. \A i \in 0..n : k[i] = j[i]
  <2> DEFINE T == {i \in 0..n : k[i] = j[i]}
  <2>1. 0 \in T
    BY <1>1, <1>3, <1>4 DEF Joins
  <2>2. ASSUME NEW i \in 1..n, i - 1 \in T PROVE i \in T
    <3>1. i \in 1..(n + 1) /\ i \in 0..n
      BY <1>1
    <3>2. k[i] = k[i - 1] \o more[i]
      BY <1>2, <1>4, <3>1 DEF Joins
    <3>3. j[i] = j[i - 1] \o seqs[i]
      BY <1>3 DEF Joins, n
    <3> QED
      BY <1>2, <2>2, <3>1, <3>2, <3>3
  <2> HIDE DEF T
  <2>3. \A i \in 0..n : i \in T
    BY <1>1, <2>1, <2>2, UpTo
  <2> QED
    BY <2>3 DEF T
<1>6. k[n + 1] = k[n] \o t
  <2>1. n + 1 \in 1..Len(more) /\ (n + 1) - 1 = n
    BY <1>1, <1>2
  <2> QED
    BY <1>2, <1>4, <2>1 DEF Joins
<1>7. k[n] = j[n] /\ j[n] \in Seq(S)
  BY <1>1, <1>3, <1>5 DEF Joins, n
<1> QED
  BY <1>3, <1>4, <1>6, <1>7 DEF more

LEMMA JoinedNone ==
  Bodies!Joined(<<>>) = <<>>
<1>1. <<>> \in Seq(Seq({}))
  OBVIOUS
<1>2. PICK j : Joins(j, <<>>, {}) /\ Bodies!Joined(<<>>) = j[Len(<<>>)]
  BY <1>1, JoinedIs
<1> QED
  BY <1>2 DEF Joins

(* Parts and messages, and those of the canonical form.                    *)
Outcomes == {"completed", "error"}
BodyPart ==
  [kind : {"text"}] \cup [kind : {"image"}, data : BOOLEAN]
  \cup [kind : {"reasoning"}, sealedBy : {"responses", "anthropic"}]
  \cup [kind : {"tool"}, call : RequestCalls, state : Outcomes \cup {"unsettled"}]
  \cup [kind : {"call"}, call : RequestCalls]
  \cup [kind : {"result"}, call : RequestCalls, isError : BOOLEAN]
BodyMessage == [role : {"user", "assistant", "tool"}, content : Seq(BodyPart)]
Holders == {"user", "assistant", "tool", "reasoning", "function_call", "function_call_output"}
BodyItem == [in : Holders, item : BodyPart]

OnlyKinds(s, kinds) == \A i \in 1..Len(s) : s[i].kind \in kinds
OncePerCall(s) ==
  \A i, j \in 1..Len(s) :
    s[i].kind \in {"tool", "call"} /\ s[j].kind \in {"tool", "call"} /\ s[i].call = s[j].call => i = j

CanonicalMessage ==
  {m \in BodyMessage :
     \/ m.role = "user" /\ OnlyKinds(m.content, {"text", "image"})
     \/ /\ m.role = "assistant" /\ OnlyKinds(m.content, {"text", "reasoning", "tool"})
        /\ OncePerCall(m.content) /\ Len(m.content) <= 10}

(* The positions of the settled calls of a message.                        *)
SettledPlaces(m) ==
  {i \in 1..Len(m.content) : m.content[i].kind = "tool" /\ m.content[i].state \in Outcomes}

(* q has the settled calls of m, each once.                                *)
AnswersBy(whose, q, kind, m) ==
  /\ q \in Seq(BodyPart) /\ OnlyKinds(q, {kind})
  /\ whose \in [1..Len(q) -> SettledPlaces(m)]
  /\ \A k \in 1..Len(q) : q[k].call = m.content[whose[k]].call
  /\ \A k, l \in 1..Len(q) : whose[k] = whose[l] => k = l
  /\ \A i \in SettledPlaces(m) : \E k \in 1..Len(q) : whose[k] = i

ResolvedIn(m) ==
  {i \in DOMAIN m.content : m.content[i].kind = "tool" => m.content[i].state \in {"completed", "error"}}
KeptOf(m) == Bodies!Picked(m.content, ResolvedIn(m))
AsCall(p) == IF p.kind = "tool" THEN Bodies!ToolCall(p.call) ELSE p
AskedBy(m) == [i \in DOMAIN KeptOf(m) |-> AsCall(KeptOf(m)[i])]
ToolsOf(m) == Bodies!OfKind(KeptOf(m), {"tool"})
OutcomesOf(m) ==
  [i \in DOMAIN ToolsOf(m) |-> Bodies!ToolResult(ToolsOf(m)[i].call, ToolsOf(m)[i].state = "error")]

LEMMA ExpandedMessage ==
  ASSUME NEW m
  PROVE  Bodies!expandMessage(m) =
           IF m.role # "assistant" THEN <<m>>
           ELSE IF KeptOf(m) = <<>> /\ m.content # <<>> THEN <<>>
           ELSE <<[m EXCEPT !.content = AskedBy(m)]>>
                \o (IF OutcomesOf(m) = <<>> THEN <<>> ELSE <<Bodies!Message("tool", OutcomesOf(m))>>)
BY DEF Bodies!expandMessage, KeptOf, ResolvedIn, AskedBy, AsCall, ToolsOf, OutcomesOf, Bodies!MapSeq

LEMMA PartIs ==
  ASSUME NEW p \in BodyPart
  PROVE  /\ p.kind \in {"text", "image", "reasoning", "tool", "call", "result"}
         /\ p.kind = "tool" => p.call \in RequestCalls /\ p.state \in Outcomes \cup {"unsettled"}
         /\ p.kind = "call" => p.call \in RequestCalls
         /\ p.kind = "result" => p.call \in RequestCalls
BY DEF BodyPart

(* The calls that a message is sent with.                                  *)
LEMMA KeptIs ==
  ASSUME NEW m \in CanonicalMessage, m.role = "assistant"
  PROVE  /\ KeptOf(m) \in Seq(BodyPart)
         /\ \E at : PicksBy(at, KeptOf(m), m.content, Len(m.content), ResolvedIn(m))
         /\ \A i \in ResolvedIn(m) \cap 1..Len(m.content) :
              m.content[i].kind = "tool" <=> i \in SettledPlaces(m)
         /\ SettledPlaces(m) \subseteq ResolvedIn(m) \cap 1..Len(m.content)
<1>1. m.content \in Seq(BodyPart)
  BY DEF CanonicalMessage, BodyMessage
<1>2. DOMAIN m.content = 1..Len(m.content)
  BY <1>1
<1>3. /\ KeptOf(m) \in Seq(BodyPart)
      /\ \E at : PicksBy(at, KeptOf(m), m.content, Len(m.content), ResolvedIn(m))
  BY <1>1, PickedIs DEF KeptOf
<1> QED
  BY <1>2, <1>3 DEF ResolvedIn, SettledPlaces, Outcomes

LEMMA AskedIs ==
  ASSUME NEW m \in CanonicalMessage, m.role = "assistant"
  PROVE  /\ AskedBy(m) \in Seq(BodyPart) /\ Len(AskedBy(m)) = Len(KeptOf(m))
         /\ \A i \in 1..Len(KeptOf(m)) :
              /\ KeptOf(m)[i].kind \in {"text", "reasoning", "tool"}
              /\ KeptOf(m)[i].kind = "tool" => AskedBy(m)[i].kind = "call" /\ AskedBy(m)[i].call = KeptOf(m)[i].call
              /\ KeptOf(m)[i].kind # "tool" => AskedBy(m)[i] = KeptOf(m)[i]
<1> DEFINE kept == KeptOf(m)
<1>1. kept \in Seq(BodyPart)
  BY KeptIs
<1>2. PICK at : PicksBy(at, kept, m.content, Len(m.content), ResolvedIn(m))
  BY KeptIs
<1>3. m.content \in Seq(BodyPart) /\ OnlyKinds(m.content, {"text", "reasoning", "tool"})
  BY DEF CanonicalMessage, BodyMessage
<1> HIDE DEF kept
<1>4. ASSUME NEW i \in 1..Len(kept)
      PROVE  /\ kept[i] \in BodyPart /\ kept[i].kind \in {"text", "reasoning", "tool"}
             /\ AsCall(kept[i]) \in BodyPart
             /\ kept[i].kind = "tool" => AsCall(kept[i]).kind = "call" /\ AsCall(kept[i]).call = kept[i].call
             /\ kept[i].kind # "tool" => AsCall(kept[i]) = kept[i]
  <2>1. at[i] \in 1..Len(m.content) /\ kept[i] = m.content[at[i]]
    BY <1>2 DEF PicksBy
  <2>2. kept[i].kind \in {"text", "reasoning", "tool"}
    BY <1>3, <2>1 DEF OnlyKinds
  <2>3. kept[i] \in BodyPart
    BY <1>1, ElementOfSeq
  <2>4. CASE kept[i].kind = "tool"
    <3>1. kept[i].call \in RequestCalls
      BY <2>3, <2>4, PartIs
    <3>2. AsCall(kept[i]) = [kind |-> "call", call |-> kept[i].call]
      BY <2>4 DEF AsCall, Bodies!ToolCall
    <3>3. AsCall(kept[i]) \in [kind : {"call"}, call : RequestCalls]
      BY <3>1, <3>2
    <3>4. AsCall(kept[i]) \in BodyPart
      BY <3>3 DEF BodyPart
    <3> QED
      BY <2>2, <2>3, <2>4, <3>2, <3>4
  <2>5. CASE kept[i].kind # "tool"
    BY <2>2, <2>3, <2>5 DEF AsCall
  <2> QED
    BY <2>4, <2>5
<1>5. DOMAIN kept = 1..Len(kept) /\ Len(kept) \in Nat
  BY <1>1
<1>6. AskedBy(m) = [i \in 1..Len(kept) |-> AsCall(kept[i])]
  BY <1>5 DEF AskedBy, kept
<1>7. \A i \in 1..Len(kept) : AsCall(kept[i]) \in BodyPart
  BY <1>4
<1>8. [i \in 1..Len(kept) |-> AsCall(kept[i])] \in Seq(BodyPart)
  BY <1>5, <1>7, IsASeq
<1>9. Len(AskedBy(m)) = Len(kept)
  BY <1>5, <1>6
<1> QED
  BY <1>4, <1>6, <1>8, <1>9 DEF kept

LEMMA CallsAreAsked ==
  ASSUME NEW m \in CanonicalMessage, m.role = "assistant"
  PROVE  \E whose : AnswersBy(whose, Bodies!OfKind(AskedBy(m), {"call"}), "call", m)
<1> DEFINE kept == KeptOf(m)
           asked == AskedBy(m)
           I == {i \in DOMAIN asked : asked[i].kind \in {"call"}}
           q == Bodies!Picked(asked, I)
<1>1. Bodies!OfKind(AskedBy(m), {"call"}) = q
  BY DEF Bodies!OfKind
<1>2. PICK at : PicksBy(at, kept, m.content, Len(m.content), ResolvedIn(m))
  BY KeptIs
<1>3. kept \in Seq(BodyPart) /\ asked \in Seq(BodyPart) /\ Len(asked) = Len(kept)
  BY KeptIs, AskedIs
<1>4. DOMAIN asked = 1..Len(kept) /\ Len(kept) \in Nat
  BY <1>3
<1>5. q \in Seq(BodyPart) /\ \E by : PicksBy(by, q, asked, Len(asked), I)
  <2> HIDE DEF asked, I
  <2> QED
    BY <1>3, PickedIs
<1>6. PICK by : PicksBy(by, q, asked, Len(asked), I)
  BY <1>5
<1>7. \A i \in 1..Len(kept) :
        /\ i \in I <=> kept[i].kind = "tool"
        /\ kept[i].kind = "tool" => asked[i].kind = "call" /\ asked[i].call = kept[i].call
  BY <1>4, AskedIs
<1> HIDE DEF kept, asked, I, q
<1>8. ASSUME NEW i \in 1..Len(kept)
      PROVE  /\ at[i] \in 1..Len(m.content) /\ kept[i] = m.content[at[i]]
             /\ kept[i].kind = "tool" <=> at[i] \in SettledPlaces(m)
  <2>1. at[i] \in ResolvedIn(m) \cap 1..Len(m.content) /\ kept[i] = m.content[at[i]]
    BY <1>2 DEF PicksBy
  <2> QED
    BY <2>1, KeptIs
<1>9. ASSUME NEW k \in 1..Len(q)
      PROVE  /\ by[k] \in 1..Len(kept) /\ at[by[k]] \in SettledPlaces(m)
             /\ q[k].kind = "call" /\ q[k].call = m.content[at[by[k]]].call
  <2>1. by[k] \in I \cap 1..Len(kept) /\ q[k] = asked[by[k]]
    BY <1>3, <1>6 DEF PicksBy
  <2> QED
    BY <1>7, <1>8, <2>1
<1> DEFINE whose == [k \in 1..Len(q) |-> at[by[k]]]
<1>10. whose \in [1..Len(q) -> SettledPlaces(m)] /\ \A k \in 1..Len(q) : whose[k] = at[by[k]]
  BY <1>9
<1> HIDE DEF whose
<1>11. ASSUME NEW k \in 1..Len(q), NEW l \in 1..Len(q), whose[k] = whose[l] PROVE k = l
  <2>1. by[k] = by[l]
    BY <1>2, <1>9, <1>10, <1>11 DEF PicksBy
  <2> QED
    BY <1>6, <2>1 DEF PicksBy
<1>12. ASSUME NEW i \in SettledPlaces(m) PROVE \E k \in 1..Len(q) : whose[k] = i
  <2>1. i \in ResolvedIn(m) \cap 1..Len(m.content)
    BY KeptIs
  <2>2. PICK j \in 1..Len(kept) : at[j] = i
    BY <1>2, <2>1 DEF PicksBy
  <2>3. j \in I \cap 1..Len(asked)
    BY <1>3, <1>7, <1>8, <2>2
  <2>4. PICK k \in 1..Len(q) : by[k] = j
    BY <1>6, <2>3 DEF PicksBy
  <2> QED
    BY <1>10, <2>2, <2>4
<1>13. AnswersBy(whose, q, "call", m)
  BY <1>5, <1>9, <1>10, <1>11, <1>12 DEF AnswersBy, OnlyKinds
<1> QED
  BY <1>1, <1>13

(* The results that follow them.                                           *)
LEMMA ToolsAre ==
  ASSUME NEW m \in CanonicalMessage, m.role = "assistant"
  PROVE  \E whose : AnswersBy(whose, ToolsOf(m), "tool", m)
<1> DEFINE kept == KeptOf(m)
           I == {i \in DOMAIN kept : kept[i].kind \in {"tool"}}
           q == Bodies!Picked(kept, I)
<1>1. ToolsOf(m) = q
  BY DEF ToolsOf, Bodies!OfKind
<1>2. PICK at : PicksBy(at, kept, m.content, Len(m.content), ResolvedIn(m))
  BY KeptIs
<1>3. kept \in Seq(BodyPart)
  BY KeptIs
<1>4. DOMAIN kept = 1..Len(kept) /\ Len(kept) \in Nat
  BY <1>3
<1>5. q \in Seq(BodyPart) /\ \E by : PicksBy(by, q, kept, Len(kept), I)
  <2> HIDE DEF kept, I
  <2> QED
    BY <1>3, PickedIs
<1>6. PICK by : PicksBy(by, q, kept, Len(kept), I)
  BY <1>5
<1>7. \A i \in 1..Len(kept) : i \in I <=> kept[i].kind = "tool"
  BY <1>4
<1> HIDE DEF kept, I, q
<1>8. ASSUME NEW i \in 1..Len(kept)
      PROVE  /\ at[i] \in 1..Len(m.content) /\ kept[i] = m.content[at[i]]
             /\ kept[i].kind = "tool" <=> at[i] \in SettledPlaces(m)
  <2>1. at[i] \in ResolvedIn(m) \cap 1..Len(m.content) /\ kept[i] = m.content[at[i]]
    BY <1>2 DEF PicksBy
  <2> QED
    BY <2>1, KeptIs
<1>9. ASSUME NEW k \in 1..Len(q)
      PROVE  /\ by[k] \in 1..Len(kept) /\ at[by[k]] \in SettledPlaces(m)
             /\ q[k].kind = "tool" /\ q[k].call = m.content[at[by[k]]].call
  <2>1. by[k] \in I \cap 1..Len(kept) /\ q[k] = kept[by[k]]
    BY <1>6 DEF PicksBy
  <2> QED
    BY <1>7, <1>8, <2>1
<1> DEFINE whose == [k \in 1..Len(q) |-> at[by[k]]]
<1>10. whose \in [1..Len(q) -> SettledPlaces(m)] /\ \A k \in 1..Len(q) : whose[k] = at[by[k]]
  BY <1>9
<1> HIDE DEF whose
<1>11. ASSUME NEW k \in 1..Len(q), NEW l \in 1..Len(q), whose[k] = whose[l] PROVE k = l
  <2>1. by[k] = by[l]
    BY <1>2, <1>9, <1>10, <1>11 DEF PicksBy
  <2> QED
    BY <1>6, <2>1 DEF PicksBy
<1>12. ASSUME NEW i \in SettledPlaces(m) PROVE \E k \in 1..Len(q) : whose[k] = i
  <2>1. i \in ResolvedIn(m) \cap 1..Len(m.content)
    BY KeptIs
  <2>2. PICK j \in 1..Len(kept) : at[j] = i
    BY <1>2, <2>1 DEF PicksBy
  <2>3. j \in I \cap 1..Len(kept)
    BY <1>7, <1>8, <2>2
  <2>4. PICK k \in 1..Len(q) : by[k] = j
    BY <1>6, <2>3 DEF PicksBy
  <2> QED
    BY <1>10, <2>2, <2>4
<1>13. AnswersBy(whose, q, "tool", m)
  BY <1>5, <1>9, <1>10, <1>11, <1>12 DEF AnswersBy, OnlyKinds
<1> QED
  BY <1>1, <1>13

LEMMA OutcomesAre ==
  ASSUME NEW m \in CanonicalMessage, m.role = "assistant"
  PROVE  \E whose : AnswersBy(whose, OutcomesOf(m), "result", m)
<1> DEFINE tools == ToolsOf(m)
           n == Len(tools)
           result(t) == Bodies!ToolResult(t.call, t.state = "error")
<1>1. PICK whose : AnswersBy(whose, tools, "tool", m)
  BY ToolsAre
<1>2. tools \in Seq(BodyPart) /\ n \in Nat /\ DOMAIN tools = 1..n
  BY <1>1 DEF AnswersBy
<1>3. OutcomesOf(m) = [i \in 1..n |-> result(tools[i])]
  BY <1>2 DEF OutcomesOf
<1> HIDE DEF tools
<1>4. ASSUME NEW i \in 1..n
      PROVE  result(tools[i]) \in BodyPart /\ result(tools[i]).kind = "result"
             /\ result(tools[i]).call = tools[i].call
  <2>1. tools[i] \in BodyPart /\ tools[i].kind = "tool"
    BY <1>1, <1>2, ElementOfSeq DEF AnswersBy, OnlyKinds
  <2>2. tools[i].call \in RequestCalls
    BY <2>1, PartIs
  <2>3. result(tools[i]) = [kind |-> "result", call |-> tools[i].call, isError |-> tools[i].state = "error"]
    BY DEF Bodies!ToolResult
  <2>4. result(tools[i]) \in [kind : {"result"}, call : RequestCalls, isError : BOOLEAN]
    <3> DEFINE isError == tools[i].state = "error"
    <3>1. isError \in BOOLEAN
      OBVIOUS
    <3>2. result(tools[i]) = [kind |-> "result", call |-> tools[i].call, isError |-> isError]
      BY <2>3
    <3> HIDE DEF isError, result
    <3> QED
      BY <2>2, <3>1, <3>2
  <2>5. result(tools[i]) \in BodyPart
    BY <2>4 DEF BodyPart
  <2> QED
    BY <2>3, <2>5
<1> HIDE DEF result
<1> DEFINE q == [i \in 1..n |-> result(tools[i])]
<1>5. q \in Seq(BodyPart) /\ Len(q) = n /\ \A i \in 1..n : q[i] = result(tools[i])
  <2>1. \A i \in 1..n : result(tools[i]) \in BodyPart
    BY <1>4
  <2>2. q \in Seq(BodyPart)
    BY <1>2, <2>1, IsASeq
  <2> QED
    BY <1>2, <2>2
<1> HIDE DEF q
<1>6. AnswersBy(whose, q, "result", m)
  <2>1. /\ whose \in [1..n -> SettledPlaces(m)]
        /\ \A k \in 1..n : tools[k].call = m.content[whose[k]].call
        /\ \A k, l \in 1..n : whose[k] = whose[l] => k = l
        /\ \A i \in SettledPlaces(m) : \E k \in 1..n : whose[k] = i
    BY <1>1 DEF AnswersBy
  <2>2. \A k \in 1..n : q[k].kind = "result" /\ q[k].call = m.content[whose[k]].call
    BY <1>4, <1>5, <2>1
  <2> HIDE DEF n
  <2> QED
    BY <1>5, <2>1, <2>2 DEF AnswersBy, OnlyKinds
<1> QED
  BY <1>3, <1>6 DEF q

LEMMA ResultsAreSent ==
  ASSUME NEW m \in CanonicalMessage, m.role = "assistant"
  PROVE  \E whose : AnswersBy(whose, Bodies!OfKind(OutcomesOf(m), {"result"}), "result", m)
<1> DEFINE all == OutcomesOf(m)
           I == {i \in DOMAIN all : all[i].kind \in {"result"}}
           q == Bodies!Picked(all, I)
<1>1. Bodies!OfKind(all, {"result"}) = q
  BY DEF Bodies!OfKind
<1>2. PICK at : AnswersBy(at, all, "result", m)
  BY OutcomesAre
<1>3. all \in Seq(BodyPart)
  BY <1>2 DEF AnswersBy
<1>4. DOMAIN all = 1..Len(all) /\ Len(all) \in Nat
  BY <1>3
<1>5. q \in Seq(BodyPart) /\ \E by : PicksBy(by, q, all, Len(all), I)
  <2> HIDE DEF all, I
  <2> QED
    BY <1>3, PickedIs
<1>6. PICK by : PicksBy(by, q, all, Len(all), I)
  BY <1>5
<1>7. \A i \in 1..Len(all) : i \in I
  BY <1>2, <1>4 DEF AnswersBy, OnlyKinds
<1> HIDE DEF all, I, q
<1>8. ASSUME NEW k \in 1..Len(q)
      PROVE  /\ by[k] \in 1..Len(all) /\ at[by[k]] \in SettledPlaces(m)
             /\ q[k].kind = "result" /\ q[k].call = m.content[at[by[k]]].call
  <2>1. by[k] \in I \cap 1..Len(all) /\ q[k] = all[by[k]]
    BY <1>6 DEF PicksBy
  <2> QED
    BY <1>2, <2>1 DEF AnswersBy, OnlyKinds
<1> DEFINE whose == [k \in 1..Len(q) |-> at[by[k]]]
<1>9. whose \in [1..Len(q) -> SettledPlaces(m)] /\ \A k \in 1..Len(q) : whose[k] = at[by[k]]
  BY <1>8
<1> HIDE DEF whose
<1>10. ASSUME NEW k \in 1..Len(q), NEW l \in 1..Len(q), whose[k] = whose[l] PROVE k = l
  <2>1. by[k] = by[l]
    BY <1>2, <1>8, <1>9, <1>10 DEF AnswersBy
  <2> QED
    BY <1>6, <2>1 DEF PicksBy
<1>11. ASSUME NEW i \in SettledPlaces(m) PROVE \E k \in 1..Len(q) : whose[k] = i
  <2>1. PICK j \in 1..Len(all) : at[j] = i
    BY <1>2 DEF AnswersBy
  <2>2. j \in I \cap 1..Len(all)
    BY <1>7
  <2>3. PICK k \in 1..Len(q) : by[k] = j
    BY <1>6, <2>2 DEF PicksBy
  <2> QED
    BY <1>9, <2>1, <2>3
<1>12. AnswersBy(whose, q, "result", m)
  BY <1>5, <1>8, <1>9, <1>10, <1>11 DEF AnswersBy, OnlyKinds
<1> QED
  BY <1>1, <1>12 DEF all

(* What is sent for a message has each of its settled calls, and behind it *)
(* its result.                                                             *)
SettledFor(m, c) == {u \in SettledPlaces(m) : m.content[u].call = c}
IsAnswered(b, m, c) ==
  \/ /\ Bodies!At(b, "call", c) = {} /\ Bodies!At(b, "result", c) = {}
     /\ SettledFor(m, c) = {}
  \/ \E i, j \in 1..Len(b), u \in 1..10 :
       /\ Bodies!At(b, "call", c) = {i} /\ Bodies!At(b, "result", c) = {j}
       /\ SettledFor(m, c) = {u} /\ i < j
       /\ \A k \in i..j : b[k].item.kind \in {"call", "result"}

LEMMA InIs ==
  ASSUME NEW where \in Holders, NEW q \in Seq(BodyPart)
  PROVE  /\ Bodies!In(where, q) \in Seq(BodyItem) /\ Len(Bodies!In(where, q)) = Len(q)
         /\ \A k \in 1..Len(q) : Bodies!In(where, q)[k].item = q[k]
<1> DEFINE n == Len(q)
           item(p) == [in |-> where, item |-> p]
<1>1. n \in Nat /\ DOMAIN q = 1..n /\ \A k \in 1..n : q[k] \in BodyPart
  BY ElementOfSeq
<1>2. Bodies!In(where, q) = [k \in 1..n |-> item(q[k])]
  BY <1>1 DEF Bodies!In, Bodies!MapSeq
<1>3. \A k \in 1..n : item(q[k]) \in BodyItem /\ item(q[k]).item = q[k]
  BY <1>1 DEF BodyItem
<1> HIDE DEF item, n
<1>4. \A k \in 1..n : item(q[k]) \in BodyItem
  BY <1>3
<1>5. [k \in 1..n |-> item(q[k])] \in Seq(BodyItem)
  BY <1>1, <1>4, IsASeq
<1> QED
  BY <1>1, <1>2, <1>3, <1>5 DEF n

LEMMA SettledOnce ==
  ASSUME NEW m \in CanonicalMessage, NEW c
  PROVE  /\ \A u, v \in SettledFor(m, c) : u = v
         /\ SettledPlaces(m) \subseteq 1..10
         /\ m.role = "user" => SettledPlaces(m) = {}
<1>1. m.content \in Seq(BodyPart) /\ Len(m.content) \in Nat
  BY DEF CanonicalMessage, BodyMessage
<1>2. CASE m.role = "user"
  <2>1. SettledPlaces(m) = {}
    BY <1>2 DEF CanonicalMessage, OnlyKinds, SettledPlaces
  <2> QED
    BY <2>1 DEF SettledFor
<1>3. CASE m.role # "user"
  <2>1. OncePerCall(m.content) /\ Len(m.content) <= 10
    BY <1>3 DEF CanonicalMessage
  <2>2. SettledPlaces(m) \subseteq 1..10
    BY <1>1, <2>1 DEF SettledPlaces
  <2> QED
    BY <1>3, <2>1, <2>2 DEF SettledFor, SettledPlaces, OncePerCall
<1> QED
  BY <1>2, <1>3

LEMMA ConcatIs ==
  ASSUME NEW S, NEW s \in Seq(S), NEW t \in Seq(S)
  PROVE  /\ s \o t \in Seq(S) /\ Len(s \o t) = Len(s) + Len(t)
         /\ \A i \in 1..Len(s) : (s \o t)[i] = s[i]
         /\ \A i \in 1..Len(t) : (s \o t)[Len(s) + i] = t[i]
<1>1. Len(s) \in Nat /\ Len(t) \in Nat
  OBVIOUS
<1>2. /\ s \o t \in Seq(S) /\ Len(s \o t) = Len(s) + Len(t)
      /\ \A i \in 1..Len(s) + Len(t) : (s \o t)[i] = IF i <= Len(s) THEN s[i] ELSE t[i - Len(s)]
  BY ConcatProperties
<1>3. ASSUME NEW i \in 1..Len(s) PROVE (s \o t)[i] = s[i]
  <2>1. i \in 1..Len(s) + Len(t) /\ i <= Len(s)
    BY <1>1
  <2> QED
    BY <1>2, <2>1
<1>4. ASSUME NEW i \in 1..Len(t) PROVE (s \o t)[Len(s) + i] = t[i]
  <2>1. Len(s) + i \in 1..Len(s) + Len(t) /\ ~(Len(s) + i <= Len(s)) /\ (Len(s) + i) - Len(s) = i
    BY <1>1
  <2> QED
    BY <1>2, <2>1
<1> QED
  BY <1>2, <1>3, <1>4

LEMMA ItemsConcat ==
  \A s, t \in Seq(BodyItem) :
    /\ s \o t \in Seq(BodyItem) /\ Len(s \o t) = Len(s) + Len(t)
    /\ \A i \in 1..Len(s) : (s \o t)[i] = s[i]
    /\ \A i \in 1..Len(t) : (s \o t)[Len(s) + i] = t[i]
BY ConcatIs

LEMMA BlockIs ==
  ASSUME NEW m \in CanonicalMessage, NEW pre \in Seq(BodyItem),
         \A i \in 1..Len(pre) : pre[i].item.kind \notin {"call", "result"},
         NEW w \in Holders, NEW v \in Holders, NEW qc, NEW qr, NEW pc, NEW pr,
         AnswersBy(pc, qc, "call", m), AnswersBy(pr, qr, "result", m), NEW c
  PROVE  LET block == (pre \o Bodies!In(w, qc)) \o Bodies!In(v, qr)
         IN block \in Seq(BodyItem) /\ IsAnswered(block, m, c)
<1> DEFINE ic == Bodies!In(w, qc)
           ir == Bodies!In(v, qr)
           first == pre \o ic
           block == first \o ir
           x == Len(pre)
           y == Len(qc)
           z == Len(qr)
<1>1. /\ qc \in Seq(BodyPart) /\ qr \in Seq(BodyPart)
      /\ \A k \in 1..y : qc[k].kind = "call" /\ qc[k].call = m.content[pc[k]].call /\ pc[k] \in SettledPlaces(m)
      /\ \A k \in 1..z : qr[k].kind = "result" /\ qr[k].call = m.content[pr[k]].call /\ pr[k] \in SettledPlaces(m)
  BY DEF AnswersBy, OnlyKinds
<1>2. x \in Nat /\ y \in Nat /\ z \in Nat
  BY <1>1
<1>3. /\ ic \in Seq(BodyItem) /\ Len(ic) = y /\ \A k \in 1..y : ic[k].item = qc[k]
      /\ ir \in Seq(BodyItem) /\ Len(ir) = z /\ \A k \in 1..z : ir[k].item = qr[k]
  BY <1>1, InIs
<1> HIDE DEF ic, ir
<1>4. /\ first \in Seq(BodyItem) /\ Len(first) = x + y
      /\ \A i \in 1..x : first[i] = pre[i]
      /\ \A k \in 1..y : first[x + k] = ic[k]
  <2>1. pre \in Seq(BodyItem) /\ ic \in Seq(BodyItem) /\ Len(ic) = y
    BY <1>3
  <2>2. /\ pre \o ic \in Seq(BodyItem) /\ Len(pre \o ic) = Len(pre) + Len(ic)
        /\ \A i \in 1..Len(pre) : (pre \o ic)[i] = pre[i]
        /\ \A i \in 1..Len(ic) : (pre \o ic)[Len(pre) + i] = ic[i]
    <3> HIDE DEF first, block, x, y, z
    <3> QED
      BY <2>1, ItemsConcat
  <2> QED
    BY <2>1, <2>2
<1> HIDE DEF first
<1>5. /\ block \in Seq(BodyItem) /\ Len(block) = (x + y) + z
      /\ \A i \in 1..(x + y) : block[i] = first[i]
      /\ \A k \in 1..z : block[(x + y) + k] = ir[k]
  <2>1. first \in Seq(BodyItem) /\ ir \in Seq(BodyItem) /\ Len(ir) = z
    BY <1>3, <1>4
  <2>2. /\ first \o ir \in Seq(BodyItem) /\ Len(first \o ir) = Len(first) + Len(ir)
        /\ \A i \in 1..Len(first) : (first \o ir)[i] = first[i]
        /\ \A i \in 1..Len(ir) : (first \o ir)[Len(first) + i] = ir[i]
    <3> HIDE DEF block, x, y, z
    <3> QED
      BY <2>1, ItemsConcat
  <2> QED
    BY <1>4, <2>1, <2>2
<1> HIDE DEF block
<1>6. ASSUME NEW i \in 1..x PROVE block[i].item.kind \notin {"call", "result"}
  <2>1. block[i] = pre[i]
    BY <1>2, <1>4, <1>5
  <2> QED
    BY <2>1
<1>7. ASSUME NEW k \in 1..y PROVE x + k \in 1..((x + y) + z) /\ block[x + k].item = qc[k]
  <2>1. x + k \in 1..(x + y) /\ x + k \in 1..((x + y) + z)
    BY <1>2
  <2> QED
    BY <1>3, <1>4, <1>5, <2>1
<1>8. ASSUME NEW k \in 1..z PROVE (x + y) + k \in 1..((x + y) + z) /\ block[(x + y) + k].item = qr[k]
  <2>1. (x + y) + k \in 1..((x + y) + z)
    BY <1>2
  <2> QED
    BY <1>3, <1>5, <2>1
<1>9. \A i \in 1..((x + y) + z) : \/ i \in 1..x
                                  \/ \E k \in 1..y : i = x + k
                                  \/ \E k \in 1..z : i = (x + y) + k
  <2> SUFFICES ASSUME NEW i \in 1..((x + y) + z), i \notin 1..x, ~(\E k \in 1..y : i = x + k)
               PROVE  \E k \in 1..z : i = (x + y) + k
    OBVIOUS
  <2>1. i > x + y
    <3>1. i > x
      BY <1>2
    <3>2. CASE i <= x + y
      <4>1. i - x \in 1..y /\ i = x + (i - x)
        BY <1>2, <3>1, <3>2
      <4> QED
        BY <4>1
    <3> QED
      BY <1>2, <3>2
  <2>2. i - (x + y) \in 1..z /\ i = (x + y) + (i - (x + y))
    BY <1>2, <2>1
  <2> QED
    BY <2>2
<1>10. DOMAIN block = 1..((x + y) + z)
  BY <1>5
<1>11. ASSUME NEW i \in Bodies!At(block, "call", c)
       PROVE  \E k \in 1..y : i = x + k /\ pc[k] \in SettledFor(m, c)
  <2>1. i \in 1..((x + y) + z) /\ block[i].item.kind = "call" /\ block[i].item.call = c
    BY <1>10 DEF Bodies!At
  <2>2. i \notin 1..x
    BY <1>6, <2>1
  <2>3. ~ \E k \in 1..z : i = (x + y) + k
    BY <1>1, <1>8, <2>1
  <2>4. PICK k \in 1..y : i = x + k
    BY <1>9, <2>1, <2>2, <2>3
  <2> QED
    BY <1>1, <1>7, <2>1, <2>4 DEF SettledFor
<1>12. ASSUME NEW i \in Bodies!At(block, "result", c)
       PROVE  \E k \in 1..z : i = (x + y) + k /\ pr[k] \in SettledFor(m, c)
  <2>1. i \in 1..((x + y) + z) /\ block[i].item.kind = "result" /\ block[i].item.call = c
    BY <1>10 DEF Bodies!At
  <2>2. i \notin 1..x
    BY <1>6, <2>1
  <2>3. ~ \E k \in 1..y : i = x + k
    BY <1>1, <1>7, <2>1
  <2>4. PICK k \in 1..z : i = (x + y) + k
    BY <1>9, <2>1, <2>2, <2>3
  <2> QED
    BY <1>1, <1>8, <2>1, <2>4 DEF SettledFor
<1>13. ASSUME SettledFor(m, c) = {} PROVE IsAnswered(block, m, c)
  <2>1. Bodies!At(block, "call", c) = {}
    BY <1>11, <1>13
  <2>2. Bodies!At(block, "result", c) = {}
    BY <1>12, <1>13
  <2> QED
    BY <1>13, <2>1, <2>2 DEF IsAnswered
<1>14. ASSUME SettledFor(m, c) # {} PROVE IsAnswered(block, m, c)
  <2>1. PICK u : u \in SettledFor(m, c)
    BY <1>14
  <2>2. u \in SettledPlaces(m) /\ m.content[u].call = c
    BY <2>1 DEF SettledFor
  <2>3. SettledFor(m, c) = {u} /\ u \in 1..10
    BY <2>1, <2>2, SettledOnce
  <2>4. PICK k \in 1..y : pc[k] = u
    BY <2>2 DEF AnswersBy
  <2>5. PICK l \in 1..z : pr[l] = u
    BY <2>2 DEF AnswersBy
  <2> DEFINE i == x + k
             j == (x + y) + l
  <2>6. /\ i \in 1..((x + y) + z) /\ block[i].item.kind = "call" /\ block[i].item.call = c
        /\ j \in 1..((x + y) + z) /\ block[j].item.kind = "result" /\ block[j].item.call = c
    <3>1. i \in 1..((x + y) + z) /\ block[i].item = qc[k]
      BY <1>7
    <3>2. j \in 1..((x + y) + z) /\ block[j].item = qr[l]
      BY <1>8
    <3> HIDE DEF i, j
    <3> QED
      BY <1>1, <2>2, <2>4, <2>5, <3>1, <3>2
  <2>7. i \in Bodies!At(block, "call", c) /\ j \in Bodies!At(block, "result", c)
    BY <1>10, <2>6 DEF Bodies!At
  <2>8. ASSUME NEW h \in Bodies!At(block, "call", c) PROVE h = i
    <3>1. PICK k1 \in 1..y : h = x + k1 /\ pc[k1] \in SettledFor(m, c)
      BY <1>11
    <3>2. k1 = k
      BY <2>3, <2>4, <3>1 DEF AnswersBy
    <3> QED
      BY <3>1, <3>2
  <2>9. ASSUME NEW h \in Bodies!At(block, "result", c) PROVE h = j
    <3>1. PICK k1 \in 1..z : h = (x + y) + k1 /\ pr[k1] \in SettledFor(m, c)
      BY <1>12
    <3>2. k1 = l
      BY <2>3, <2>5, <3>1 DEF AnswersBy
    <3> QED
      BY <3>1, <3>2
  <2>10. Bodies!At(block, "call", c) = {i} /\ Bodies!At(block, "result", c) = {j}
    BY <2>7, <2>8, <2>9
  <2>11. i < j
    BY <1>2
  <2>12. ASSUME NEW h \in i..j PROVE block[h].item.kind \in {"call", "result"}
    <3>1. h \in 1..((x + y) + z) /\ h \notin 1..x
      BY <1>2, <2>6
    <3>2. CASE \E k1 \in 1..y : h = x + k1
      <4>1. PICK k1 \in 1..y : h = x + k1
        BY <3>2
      <4>2. block[h].item = qc[k1]
        BY <1>7, <4>1
      <4> QED
        BY <1>1, <4>2
    <3>3. CASE \E k1 \in 1..z : h = (x + y) + k1
      <4>1. PICK k1 \in 1..z : h = (x + y) + k1
        BY <3>3
      <4>2. block[h].item = qr[k1]
        BY <1>8, <4>1
      <4> QED
        BY <1>1, <4>2
    <3> QED
      BY <1>9, <3>1, <3>2, <3>3
  <2> HIDE DEF i, j
  <2>13. i \in 1..Len(block) /\ j \in 1..Len(block)
    BY <1>5, <2>6
  <2>14. \A h \in i..j : block[h].item.kind \in {"call", "result"}
    BY <2>12
  <2> QED
    BY <2>3, <2>10, <2>11, <2>13, <2>14 DEF IsAnswered
<1> QED
  BY <1>5, <1>13, <1>14 DEF block, first, ic, ir

LEMMA HoldersAre ==
  /\ "user" \in Holders /\ "assistant" \in Holders /\ "tool" \in Holders
  /\ "reasoning" \in Holders /\ "function_call" \in Holders /\ "function_call_output" \in Holders
BY DEF Holders

(* The items of a message in the form of a protocol.                       *)
ItemsOf(protocol, m) ==
  CASE protocol = "responses" -> Bodies!responsesItems(m)
    [] protocol = "chat" -> Bodies!chatItems(m)
    [] protocol \in {"anthropic", "gemini"} -> Bodies!blockItems(m)

PlainItems(s) == s \in Seq(BodyItem) /\ \A i \in 1..Len(s) : s[i].item.kind \notin {"call", "result"}

LEMMA PickedKinds ==
  ASSUME NEW s \in Seq(BodyPart), NEW I, NEW kinds, \A i \in I : s[i].kind \in kinds
  PROVE  Bodies!Picked(s, I) \in Seq(BodyPart) /\ OnlyKinds(Bodies!Picked(s, I), kinds)
<1>1. Bodies!Picked(s, I) \in Seq(BodyPart)
  BY PickedIs
<1>2. PICK at : PicksBy(at, Bodies!Picked(s, I), s, Len(s), I)
  BY PickedIs
<1> QED
  BY <1>1, <1>2 DEF PicksBy, OnlyKinds

LEMMA PlainIn ==
  ASSUME NEW where \in Holders, NEW s \in Seq(BodyPart), NEW I, NEW kinds,
         \A i \in I : s[i].kind \in kinds, kinds \cap {"call", "result"} = {}
  PROVE  PlainItems(Bodies!In(where, Bodies!Picked(s, I)))
<1>1. Bodies!Picked(s, I) \in Seq(BodyPart) /\ OnlyKinds(Bodies!Picked(s, I), kinds)
  BY PickedKinds
<1> QED
  BY <1>1, InIs DEF PlainItems, OnlyKinds

LEMMA PlainOfKind ==
  ASSUME NEW where \in Holders, NEW s \in Seq(BodyPart), NEW kinds, kinds \cap {"call", "result"} = {}
  PROVE  PlainItems(Bodies!In(where, Bodies!OfKind(s, kinds)))
<1> DEFINE I == {i \in DOMAIN s : s[i].kind \in kinds}
<1>1. Bodies!OfKind(s, kinds) = Bodies!Picked(s, I)
  BY DEF Bodies!OfKind
<1>2. \A i \in I : s[i].kind \in kinds
  OBVIOUS
<1> HIDE DEF I
<1> QED
  BY <1>1, <1>2, PlainIn

LEMMA PlainConcat ==
  ASSUME NEW s, NEW t, PlainItems(s), PlainItems(t)
  PROVE  PlainItems(s \o t)
<1>1. s \in Seq(BodyItem) /\ t \in Seq(BodyItem)
  BY DEF PlainItems
<1>2. /\ s \o t \in Seq(BodyItem) /\ Len(s \o t) = Len(s) + Len(t)
      /\ \A i \in 1..Len(s) : (s \o t)[i] = s[i]
      /\ \A i \in 1..Len(t) : (s \o t)[Len(s) + i] = t[i]
  BY <1>1, ConcatIs
<1>3. ASSUME NEW i \in 1..Len(s \o t) PROVE (s \o t)[i].item.kind \notin {"call", "result"}
  <2>1. Len(s) \in Nat /\ Len(t) \in Nat
    BY <1>1
  <2>2. CASE i <= Len(s)
    <3>1. i \in 1..Len(s)
      BY <2>1, <2>2
    <3> QED
      BY <1>2, <3>1 DEF PlainItems
  <2>3. CASE ~(i <= Len(s))
    <3>1. i - Len(s) \in 1..Len(t) /\ Len(s) + (i - Len(s)) = i
      BY <1>2, <2>1, <2>3
    <3>2. (s \o t)[i] = t[i - Len(s)]
      BY <1>2, <3>1
    <3> QED
      BY <3>1, <3>2 DEF PlainItems
  <2> QED
    BY <2>2, <2>3
<1> QED
  BY <1>2, <1>3 DEF PlainItems

LEMMA UserItems ==
  ASSUME RequestAssumption, NEW protocol \in RequestProtocols, NEW m \in CanonicalMessage, m.role = "user"
  PROVE  PlainItems(ItemsOf(protocol, m))
<1>1. m.content \in Seq(BodyPart) /\ OnlyKinds(m.content, {"text", "image"})
  BY DEF CanonicalMessage, BodyMessage
<1>2. protocol \in {"responses", "chat", "anthropic", "gemini"}
  BY DEF RequestAssumption
<1>3. CASE protocol \in {"responses", "chat"}
  <2>1. ItemsOf(protocol, m) = Bodies!In("user", Bodies!OfKind(m.content, {"text", "image"}))
    BY <1>3 DEF ItemsOf, Bodies!responsesItems, Bodies!chatItems
  <2>2. {"text", "image"} \cap {"call", "result"} = {}
    OBVIOUS
  <2> QED
    BY <1>1, <2>1, <2>2, PlainOfKind, HoldersAre
<1>4. CASE protocol \in {"anthropic", "gemini"}
  <2> DEFINE I == {i \in DOMAIN m.content :
                     \/ m.content[i].kind = "text"
                     \/ m.content[i].kind = "image" /\ m.content[i].data}
  <2>1. ItemsOf(protocol, m) = Bodies!In("user", Bodies!Picked(m.content, I))
    BY <1>4 DEF ItemsOf, Bodies!blockItems, Bodies!WithData
  <2>2. \A i \in I : m.content[i].kind \in {"text", "image"}
    OBVIOUS
  <2>3. {"text", "image"} \cap {"call", "result"} = {}
    OBVIOUS
  <2> HIDE DEF I
  <2> QED
    BY <1>1, <2>1, <2>2, <2>3, PlainIn, HoldersAre
<1> QED
  BY <1>2, <1>3, <1>4

LEMMA AssistantItems ==
  ASSUME RequestAssumption, NEW protocol \in RequestProtocols, NEW m, m.role = "assistant",
         m.content \in Seq(BodyPart)
  PROVE  \E pre, w : /\ PlainItems(pre) /\ w \in Holders
                     /\ ItemsOf(protocol, m) = pre \o Bodies!In(w, Bodies!OfKind(m.content, {"call"}))
<1>1. protocol \in {"responses", "chat", "anthropic", "gemini"}
  BY DEF RequestAssumption
<1>2. CASE protocol = "responses"
  <2> DEFINE I == {i \in DOMAIN m.content :
                     m.content[i].kind = "reasoning" /\ m.content[i].sealedBy = "responses"}
             r == Bodies!In("reasoning", Bodies!Picked(m.content, I))
             t == Bodies!In("assistant", Bodies!OfKind(m.content, {"text"}))
  <2>1. ItemsOf(protocol, m) = (r \o t) \o Bodies!In("function_call", Bodies!OfKind(m.content, {"call"}))
    BY <1>2 DEF ItemsOf, Bodies!responsesItems, Bodies!SealedBy, Bodies!Calls
  <2>2. PlainItems(r)
    <3>1. \A i \in I : m.content[i].kind \in {"reasoning"}
      OBVIOUS
    <3>2. {"reasoning"} \cap {"call", "result"} = {}
      OBVIOUS
    <3> HIDE DEF I
    <3> QED
      BY <3>1, <3>2, PlainIn, HoldersAre
  <2>3. PlainItems(t)
    <3>1. {"text"} \cap {"call", "result"} = {}
      OBVIOUS
    <3> QED
      BY <3>1, PlainOfKind, HoldersAre
  <2> HIDE DEF r, t
  <2>4. PlainItems(r \o t)
    BY <2>2, <2>3, PlainConcat
  <2> QED
    BY <2>1, <2>4, HoldersAre
<1>3. CASE protocol = "chat"
  <2>1. ItemsOf(protocol, m) = Bodies!In("assistant", Bodies!OfKind(m.content, {"text"}))
                               \o Bodies!In("assistant", Bodies!OfKind(m.content, {"call"}))
    BY <1>3 DEF ItemsOf, Bodies!chatItems, Bodies!Calls
  <2>2. {"text"} \cap {"call", "result"} = {}
    OBVIOUS
  <2>3. PlainItems(Bodies!In("assistant", Bodies!OfKind(m.content, {"text"})))
    BY <2>2, PlainOfKind, HoldersAre
  <2> QED
    BY <2>1, <2>3, HoldersAre
<1>4. CASE protocol \in {"anthropic", "gemini"}
  <2>1. ItemsOf(protocol, m) = Bodies!In("assistant", Bodies!OfKind(m.content, {"text", "reasoning"}))
                               \o Bodies!In("assistant", Bodies!OfKind(m.content, {"call"}))
    BY <1>4 DEF ItemsOf, Bodies!blockItems, Bodies!Calls
  <2>2. {"text", "reasoning"} \cap {"call", "result"} = {}
    OBVIOUS
  <2>3. PlainItems(Bodies!In("assistant", Bodies!OfKind(m.content, {"text", "reasoning"})))
    BY <2>2, PlainOfKind, HoldersAre
  <2> QED
    BY <2>1, <2>3, HoldersAre
<1> QED
  BY <1>1, <1>2, <1>3, <1>4

LEMMA ToolItems ==
  ASSUME RequestAssumption, NEW protocol \in RequestProtocols, NEW m, m.role = "tool"
  PROVE  \E v \in Holders : ItemsOf(protocol, m) = Bodies!In(v, Bodies!OfKind(m.content, {"result"}))
<1>1. protocol \in {"responses", "chat", "anthropic", "gemini"}
  BY DEF RequestAssumption
<1>2. CASE protocol = "responses"
  <2>1. ItemsOf(protocol, m) = Bodies!In("function_call_output", Bodies!OfKind(m.content, {"result"}))
    BY <1>2 DEF ItemsOf, Bodies!responsesItems, Bodies!Results
  <2> QED
    BY <2>1, HoldersAre
<1>3. CASE protocol = "chat"
  <2>1. ItemsOf(protocol, m) = Bodies!In("tool", Bodies!OfKind(m.content, {"result"}))
    BY <1>3 DEF ItemsOf, Bodies!chatItems, Bodies!Results
  <2> QED
    BY <2>1, HoldersAre
<1>4. CASE protocol \in {"anthropic", "gemini"}
  <2>1. ItemsOf(protocol, m) = Bodies!In("user", Bodies!OfKind(m.content, {"result"}))
    BY <1>4 DEF ItemsOf, Bodies!blockItems, Bodies!Results
  <2> QED
    BY <2>1, HoldersAre
<1> QED
  BY <1>1, <1>2, <1>3, <1>4

(* What is sent for a message.                                             *)
SentFor(protocol, m) ==
  IF m.role # "assistant" THEN ItemsOf(protocol, m)
  ELSE IF KeptOf(m) = <<>> /\ m.content # <<>> THEN <<>>
  ELSE IF OutcomesOf(m) = <<>> THEN ItemsOf(protocol, [m EXCEPT !.content = AskedBy(m)])
  ELSE ItemsOf(protocol, [m EXCEPT !.content = AskedBy(m)])
       \o ItemsOf(protocol, Bodies!Message("tool", OutcomesOf(m)))

LEMMA UserIsAnswered ==
  ASSUME NEW b, PlainItems(b), NEW m \in CanonicalMessage, SettledPlaces(m) = {}, NEW c
  PROVE  IsAnswered(b, m, c)
<1>1. DOMAIN b = 1..Len(b)
  BY DEF PlainItems
<1>2. Bodies!At(b, "call", c) = {} /\ Bodies!At(b, "result", c) = {}
  BY <1>1 DEF Bodies!At, PlainItems
<1>3. SettledFor(m, c) = {}
  BY DEF SettledFor
<1> QED
  BY <1>2, <1>3 DEF IsAnswered

LEMMA SentIs ==
  ASSUME RequestAssumption, NEW protocol \in RequestProtocols, NEW m \in CanonicalMessage, NEW c
  PROVE  SentFor(protocol, m) \in Seq(BodyItem) /\ IsAnswered(SentFor(protocol, m), m, c)
<1>1. m.role \in {"user", "assistant"}
  BY DEF CanonicalMessage
<1>2. CASE m.role = "user"
  <2>1. PlainItems(ItemsOf(protocol, m))
    BY <1>2, UserItems
  <2>2. SettledPlaces(m) = {}
    BY <1>2, SettledOnce
  <2>3. IsAnswered(ItemsOf(protocol, m), m, c)
    BY <2>1, <2>2, UserIsAnswered
  <2> QED
    BY <1>2, <2>1, <2>3 DEF SentFor, PlainItems
<1>3. CASE m.role = "assistant" /\ KeptOf(m) = <<>> /\ m.content # <<>>
  <2>1. SettledPlaces(m) = {}
    <3>1. PICK at : PicksBy(at, KeptOf(m), m.content, Len(m.content), ResolvedIn(m))
      BY <1>3, KeptIs
    <3>2. \A i \in ResolvedIn(m) \cap 1..Len(m.content) : FALSE
      BY <1>3, <3>1 DEF PicksBy
    <3> QED
      BY <1>3, <3>2, KeptIs
  <2>2. PlainItems(<<>>)
    BY DEF PlainItems
  <2>3. IsAnswered(<<>>, m, c)
    BY <2>1, <2>2, UserIsAnswered
  <2> QED
    BY <1>3, <2>2, <2>3 DEF SentFor, PlainItems
<1>4. CASE m.role = "assistant" /\ ~(KeptOf(m) = <<>> /\ m.content # <<>>)
  <2> DEFINE a == [m EXCEPT !.content = AskedBy(m)]
             t == Bodies!Message("tool", OutcomesOf(m))
             qc == Bodies!OfKind(AskedBy(m), {"call"})
             qr == Bodies!OfKind(OutcomesOf(m), {"result"})
  <2>1. a.role = "assistant" /\ a.content = AskedBy(m) /\ AskedBy(m) \in Seq(BodyPart)
    BY <1>4, AskedIs DEF CanonicalMessage, BodyMessage
  <2>2. t.role = "tool" /\ t.content = OutcomesOf(m)
    BY DEF Bodies!Message
  <2> HIDE DEF a, t
  <2>3. PICK pre, w : /\ PlainItems(pre) /\ w \in Holders
                      /\ ItemsOf(protocol, a) = pre \o Bodies!In(w, qc)
    BY <2>1, AssistantItems
  <2>4. PICK v \in Holders : ItemsOf(protocol, t) = Bodies!In(v, qr)
    BY <2>2, ToolItems
  <2>5. PICK pc : AnswersBy(pc, qc, "call", m)
    BY <1>4, CallsAreAsked
  <2>6. /\ pre \in Seq(BodyItem)
        /\ \A i \in 1..Len(pre) : pre[i].item.kind \notin {"call", "result"}
    BY <2>3 DEF PlainItems
  <2> HIDE DEF qc, qr
  <2>7. ASSUME OutcomesOf(m) # <<>>
        PROVE  SentFor(protocol, m) \in Seq(BodyItem) /\ IsAnswered(SentFor(protocol, m), m, c)
    <3>1. PICK pr : AnswersBy(pr, qr, "result", m)
      BY <1>4, ResultsAreSent DEF qr
    <3>2. /\ (pre \o Bodies!In(w, qc)) \o Bodies!In(v, qr) \in Seq(BodyItem)
          /\ IsAnswered((pre \o Bodies!In(w, qc)) \o Bodies!In(v, qr), m, c)
      BY <2>3, <2>5, <2>6, <3>1, BlockIs
    <3>3. SentFor(protocol, m) = (pre \o Bodies!In(w, qc)) \o Bodies!In(v, qr)
      BY <1>4, <2>3, <2>4, <2>7 DEF SentFor, a, t
    <3> QED
      BY <3>2, <3>3
  <2>8. ASSUME OutcomesOf(m) = <<>>
        PROVE  SentFor(protocol, m) \in Seq(BodyItem) /\ IsAnswered(SentFor(protocol, m), m, c)
    <3>1. PICK pr : AnswersBy(pr, <<>>, "result", m)
      BY <1>4, <2>8, OutcomesAre
    <3>2. /\ (pre \o Bodies!In(w, qc)) \o Bodies!In("tool", <<>>) \in Seq(BodyItem)
          /\ IsAnswered((pre \o Bodies!In(w, qc)) \o Bodies!In("tool", <<>>), m, c)
      BY <2>3, <2>5, <2>6, <3>1, BlockIs, HoldersAre
    <3>3. Bodies!In("tool", <<>>) = <<>>
      BY DEF Bodies!In, Bodies!MapSeq
    <3>4. pre \o Bodies!In(w, qc) \in Seq(BodyItem)
      <4>1. qc \in Seq(BodyPart)
        BY <2>5 DEF AnswersBy
      <4>2. Bodies!In(w, qc) \in Seq(BodyItem)
        BY <2>3, <4>1, InIs
      <4> QED
        BY <2>6, <4>2, ConcatIs
    <3>5. (pre \o Bodies!In(w, qc)) \o <<>> = pre \o Bodies!In(w, qc)
      BY <3>4, ConcatEmptySeq
    <3>6. SentFor(protocol, m) = pre \o Bodies!In(w, qc)
      BY <1>4, <2>3, <2>8 DEF SentFor, a
    <3> QED
      BY <3>2, <3>3, <3>5, <3>6
  <2> QED
    BY <2>7, <2>8
<1> QED
  BY <1>1, <1>2, <1>3, <1>4

(* What is sent for messages, one after the other.                         *)
SentMessage ==
  {x \in BodyMessage : \A protocol \in RequestProtocols : ItemsOf(protocol, x) \in Seq(BodyItem)}
Lowered(protocol, msgs) == Bodies!Joined([i \in DOMAIN msgs |-> ItemsOf(protocol, msgs[i])])

LEMMA BodyIs ==
  ASSUME NEW protocol, NEW msgs
  PROVE  Bodies!Body(protocol, msgs)
           = Lowered(protocol, Bodies!ExpandToolMessages(Bodies!NormalizeMessages(msgs)))
BY DEF Bodies!Body, Bodies!MapSeq, Lowered, ItemsOf

LEMMA LoweredAppend ==
  ASSUME NEW protocol \in RequestProtocols, NEW msgs \in Seq(SentMessage), NEW x \in SentMessage
  PROVE  /\ Lowered(protocol, msgs) \in Seq(BodyItem)
         /\ Lowered(protocol, Append(msgs, x)) = Lowered(protocol, msgs) \o ItemsOf(protocol, x)
<1> DEFINE n == Len(msgs)
           more == Append(msgs, x)
           s == [i \in 1..n |-> ItemsOf(protocol, msgs[i])]
           t == [i \in 1..(n + 1) |-> ItemsOf(protocol, more[i])]
           items == ItemsOf(protocol, x)
<1>1. n \in Nat /\ DOMAIN msgs = 1..n /\ \A i \in 1..n : msgs[i] \in SentMessage
  BY ElementOfSeq
<1>2. DOMAIN more = 1..(n + 1) /\ more[n + 1] = x /\ \A i \in 1..n : more[i] = msgs[i]
  BY <1>1
<1> HIDE DEF more
<1>3. items \in Seq(BodyItem) /\ \A i \in 1..n : ItemsOf(protocol, msgs[i]) \in Seq(BodyItem)
  BY <1>1 DEF SentMessage
<1>4. s \in Seq(Seq(BodyItem)) /\ Len(s) = n
  <2>1. s \in Seq(Seq(BodyItem))
    BY <1>1, <1>3, IsASeq
  <2> QED
    BY <1>1, <2>1
<1>5. t = Append(s, items)
  <2>1. Append(s, items) = [i \in 1..(n + 1) |-> IF i <= n THEN s[i] ELSE items]
    BY <1>1, <1>3, <1>4
  <2>2. ASSUME NEW i \in 1..(n + 1)
        PROVE  ItemsOf(protocol, more[i]) = IF i <= n THEN s[i] ELSE items
    <3>1. CASE i <= n
      <4>1. i \in 1..n
        BY <1>1, <3>1
      <4>2. more[i] = msgs[i]
        BY <1>2, <4>1
      <4>3. s[i] = ItemsOf(protocol, msgs[i])
        BY <4>1
      <4> QED
        BY <3>1, <4>2, <4>3
    <3>2. CASE ~(i <= n)
      <4>1. i = n + 1
        BY <1>1, <3>2
      <4>2. ItemsOf(protocol, more[i]) = items
        BY <1>2, <4>1
      <4> QED
        BY <3>2, <4>2
    <3> QED
      BY <3>1, <3>2
  <2> HIDE DEF s, items
  <2>3. t = [i \in 1..(n + 1) |-> IF i <= n THEN s[i] ELSE items]
    BY <2>2
  <2> QED
    BY <2>1, <2>3
<1>6. Lowered(protocol, msgs) = Bodies!Joined(s) /\ Lowered(protocol, more) = Bodies!Joined(t)
  BY <1>1, <1>2 DEF Lowered
<1> HIDE DEF s, t, items
<1> QED
  BY <1>3, <1>4, <1>5, <1>6, JoinedAppend DEF more, items

LEMMA ItemsAreItems ==
  ASSUME RequestAssumption, NEW protocol \in RequestProtocols, NEW x \in BodyMessage,
         x.role \in {"assistant", "tool"}
  PROVE  ItemsOf(protocol, x) \in Seq(BodyItem)
<1>1. x.content \in Seq(BodyPart)
  BY DEF BodyMessage
<1>2. \A kinds : Bodies!OfKind(x.content, kinds) \in Seq(BodyPart)
  BY <1>1, PickedIs DEF Bodies!OfKind
<1>3. CASE x.role = "assistant"
  <2>1. PICK pre, w : /\ PlainItems(pre) /\ w \in Holders
                      /\ ItemsOf(protocol, x) = pre \o Bodies!In(w, Bodies!OfKind(x.content, {"call"}))
    BY <1>1, <1>3, AssistantItems
  <2>2. pre \in Seq(BodyItem)
    BY <2>1 DEF PlainItems
  <2>3. Bodies!In(w, Bodies!OfKind(x.content, {"call"})) \in Seq(BodyItem)
    BY <1>2, <2>1, InIs
  <2> QED
    BY <2>1, <2>2, <2>3, ItemsConcat
<1>4. CASE x.role = "tool"
  <2>1. PICK v \in Holders : ItemsOf(protocol, x) = Bodies!In(v, Bodies!OfKind(x.content, {"result"}))
    BY <1>4, ToolItems
  <2> QED
    BY <1>2, <2>1, InIs
<1> QED
  BY <1>3, <1>4

(* The messages that are sent for one.                                     *)
LEMMA PartsAreSent ==
  ASSUME RequestAssumption, NEW m \in CanonicalMessage, m.role = "assistant"
  PROVE  /\ [m EXCEPT !.content = AskedBy(m)] \in SentMessage
         /\ Bodies!Message("tool", OutcomesOf(m)) \in SentMessage
<1> DEFINE a == [m EXCEPT !.content = AskedBy(m)]
           t == Bodies!Message("tool", OutcomesOf(m))
<1>1. m \in BodyMessage
  BY DEF CanonicalMessage
<1>2. AskedBy(m) \in Seq(BodyPart)
  BY AskedIs
<1>3. a \in BodyMessage /\ a.role = "assistant"
  BY <1>1, <1>2 DEF BodyMessage
<1>4. OutcomesOf(m) \in Seq(BodyPart)
  BY OutcomesAre DEF AnswersBy
<1>5. t \in BodyMessage /\ t.role = "tool"
  BY <1>4 DEF Bodies!Message, BodyMessage
<1> HIDE DEF a, t
<1>6. a \in SentMessage /\ t \in SentMessage
  BY <1>3, <1>5, ItemsAreItems DEF SentMessage
<1> QED
  BY <1>6 DEF a, t

LEMMA ExpandedIs ==
  ASSUME RequestAssumption, NEW m \in CanonicalMessage
  PROVE  Bodies!expandMessage(m) \in Seq(SentMessage)
<1> DEFINE a == [m EXCEPT !.content = AskedBy(m)]
           t == Bodies!Message("tool", OutcomesOf(m))
<1>1. m \in BodyMessage /\ m.role \in {"user", "assistant"}
  BY DEF CanonicalMessage
<1>2. CASE m.role = "user"
  <2>1. m \in SentMessage
    BY <1>1, <1>2, UserItems DEF SentMessage, PlainItems
  <2>2. <<m>> \in Seq(SentMessage)
    BY <2>1
  <2> QED
    BY <1>2, <2>2, ExpandedMessage
<1>3. CASE m.role = "assistant"
  <2>1. a \in SentMessage /\ t \in SentMessage
    BY <1>3, PartsAreSent
  <2> HIDE DEF a, t
  <2>2. <<>> \in Seq(SentMessage) /\ <<a>> \in Seq(SentMessage) /\ <<t>> \in Seq(SentMessage)
    BY <2>1
  <2>3. <<a>> \o <<>> \in Seq(SentMessage) /\ <<a>> \o <<t>> \in Seq(SentMessage)
    BY <2>2, ConcatIs
  <2> QED
    BY <1>3, <2>2, <2>3, ExpandedMessage DEF a, t
<1> QED
  BY <1>1, <1>2, <1>3

LEMMA ExpandAppend ==
  ASSUME RequestAssumption, NEW msgs \in Seq(CanonicalMessage), NEW m \in CanonicalMessage
  PROVE  /\ Bodies!ExpandToolMessages(msgs) \in Seq(SentMessage)
         /\ Bodies!ExpandToolMessages(Append(msgs, m))
              = Bodies!ExpandToolMessages(msgs) \o Bodies!expandMessage(m)
<1> DEFINE n == Len(msgs)
           more == Append(msgs, m)
           s == [i \in 1..n |-> Bodies!expandMessage(msgs[i])]
           t == [i \in 1..(n + 1) |-> Bodies!expandMessage(more[i])]
           sent == Bodies!expandMessage(m)
<1>1. n \in Nat /\ DOMAIN msgs = 1..n /\ \A i \in 1..n : msgs[i] \in CanonicalMessage
  BY ElementOfSeq
<1>2. DOMAIN more = 1..(n + 1) /\ more[n + 1] = m /\ \A i \in 1..n : more[i] = msgs[i]
  BY <1>1
<1> HIDE DEF more
<1>3. sent \in Seq(SentMessage) /\ \A i \in 1..n : Bodies!expandMessage(msgs[i]) \in Seq(SentMessage)
  BY <1>1, ExpandedIs
<1>4. s \in Seq(Seq(SentMessage)) /\ Len(s) = n
  <2>1. s \in Seq(Seq(SentMessage))
    BY <1>1, <1>3, IsASeq
  <2> QED
    BY <1>1, <2>1
<1>5. t = Append(s, sent)
  <2>1. Append(s, sent) = [i \in 1..(n + 1) |-> IF i <= n THEN s[i] ELSE sent]
    BY <1>1, <1>3, <1>4
  <2>2. ASSUME NEW i \in 1..(n + 1)
        PROVE  Bodies!expandMessage(more[i]) = IF i <= n THEN s[i] ELSE sent
    <3>1. CASE i <= n
      <4>1. i \in 1..n
        BY <1>1, <3>1
      <4>2. more[i] = msgs[i]
        BY <1>2, <4>1
      <4>3. s[i] = Bodies!expandMessage(msgs[i])
        BY <4>1
      <4> QED
        BY <3>1, <4>2, <4>3
    <3>2. CASE ~(i <= n)
      <4>1. i = n + 1
        BY <1>1, <3>2
      <4>2. Bodies!expandMessage(more[i]) = sent
        BY <1>2, <4>1
      <4> QED
        BY <3>2, <4>2
    <3> QED
      BY <3>1, <3>2
  <2> HIDE DEF s, sent
  <2>3. t = [i \in 1..(n + 1) |-> IF i <= n THEN s[i] ELSE sent]
    BY <2>2
  <2> QED
    BY <2>1, <2>3
<1>6. /\ Bodies!ExpandToolMessages(msgs) = Bodies!Joined(s)
      /\ Bodies!ExpandToolMessages(more) = Bodies!Joined(t)
  BY <1>1, <1>2 DEF Bodies!ExpandToolMessages, Bodies!MapSeq
<1> HIDE DEF s, t, sent
<1> QED
  BY <1>3, <1>4, <1>5, <1>6, JoinedAppend DEF more, sent

LEMMA AppendTwo ==
  ASSUME NEW S, NEW e \in Seq(S), NEW a \in S, NEW t \in S
  PROVE  e \o (<<a>> \o <<t>>) = Append(Append(e, a), t)
<1>1. <<a>> \in Seq(S) /\ <<t>> \in Seq(S)
  OBVIOUS
<1>2. e \o (<<a>> \o <<t>>) = (e \o <<a>>) \o <<t>>
  BY <1>1, ConcatAssociative
<1>3. e \o <<a>> = Append(e, a) /\ Append(e, a) \in Seq(S)
  OBVIOUS
<1>4. Append(e, a) \o <<t>> = Append(Append(e, a), t)
  BY <1>3
<1> QED
  BY <1>2, <1>3, <1>4

LEMMA SentAppend ==
  ASSUME RequestAssumption, NEW protocol \in RequestProtocols,
         NEW msgs \in Seq(CanonicalMessage), NEW m \in CanonicalMessage
  PROVE  /\ Lowered(protocol, Bodies!ExpandToolMessages(msgs)) \in Seq(BodyItem)
         /\ Lowered(protocol, Bodies!ExpandToolMessages(Append(msgs, m)))
              = Lowered(protocol, Bodies!ExpandToolMessages(msgs)) \o SentFor(protocol, m)
<1> DEFINE e == Bodies!ExpandToolMessages(msgs)
           f == Bodies!ExpandToolMessages(Append(msgs, m))
           a == [m EXCEPT !.content = AskedBy(m)]
           t == Bodies!Message("tool", OutcomesOf(m))
           L(s) == Lowered(protocol, s)
<1>1. e \in Seq(SentMessage) /\ f = e \o Bodies!expandMessage(m)
  BY ExpandAppend
<1>2. Bodies!expandMessage(m) \in Seq(SentMessage)
  BY ExpandedIs
<1> HIDE DEF e, f, L
<1>3. \A s \in Seq(SentMessage), x \in SentMessage :
        L(s) \in Seq(BodyItem) /\ L(Append(s, x)) = L(s) \o ItemsOf(protocol, x)
  BY LoweredAppend DEF L
<1>4. \A s \in Seq(SentMessage), x \in SentMessage : Append(s, x) \in Seq(SentMessage) /\ s \o <<x>> = Append(s, x)
  <2> HIDE DEF a, t
  <2> SUFFICES ASSUME NEW s \in Seq(SentMessage), NEW x \in SentMessage
               PROVE  Append(s, x) \in Seq(SentMessage) /\ s \o <<x>> = Append(s, x)
    OBVIOUS
  <2> QED
    OBVIOUS
<1>5. L(e) \in Seq(BodyItem)
  <2>1. \E x : x \in SentMessage
    <3> DEFINE x == [role |-> "tool", content |-> <<>>]
    <3>1. x \in BodyMessage /\ x.role = "tool"
      BY DEF BodyMessage
    <3> HIDE DEF x
    <3>2. x \in SentMessage
      BY <3>1, ItemsAreItems DEF SentMessage
    <3> QED
      BY <3>2
  <2> QED
    BY <1>1, <1>3, <2>1
<1>6. m.role \in {"user", "assistant"}
  BY DEF CanonicalMessage
<1>7. ASSUME m.role = "user" PROVE L(f) = L(e) \o SentFor(protocol, m)
  <2>1. Bodies!expandMessage(m) = <<m>>
    BY <1>7, ExpandedMessage
  <2>2. m \in SentMessage
    BY <1>2, <2>1
  <2> QED
    BY <1>1, <1>3, <1>4, <1>7, <2>1, <2>2 DEF SentFor
<1>8. ASSUME m.role = "assistant" PROVE L(f) = L(e) \o SentFor(protocol, m)
  <2>1. CASE KeptOf(m) = <<>> /\ m.content # <<>>
    <3>1. f = e
      BY <1>1, <1>8, <2>1, ExpandedMessage, ConcatEmptySeq
    <3>2. SentFor(protocol, m) = <<>>
      BY <1>8, <2>1 DEF SentFor
    <3> QED
      BY <1>5, <3>1, <3>2, ConcatEmptySeq
  <2>2. ASSUME ~(KeptOf(m) = <<>> /\ m.content # <<>>), OutcomesOf(m) = <<>>
        PROVE  L(f) = L(e) \o SentFor(protocol, m)
    <3>1. Bodies!expandMessage(m) = <<a>> \o <<>>
      BY <1>8, <2>2, ExpandedMessage
    <3>2. SentFor(protocol, m) = ItemsOf(protocol, a)
      BY <1>8, <2>2 DEF SentFor
    <3>3. a \in SentMessage
      BY <1>8, PartsAreSent
    <3> HIDE DEF a, t
    <3>4. Bodies!expandMessage(m) = <<a>>
      BY <3>1
    <3>5. f = Append(e, a)
      BY <1>1, <1>4, <3>3, <3>4
    <3>6. L(Append(e, a)) = L(e) \o ItemsOf(protocol, a)
      BY <1>1, <1>3, <3>3
    <3> QED
      BY <3>2, <3>5, <3>6
  <2>3. ASSUME ~(KeptOf(m) = <<>> /\ m.content # <<>>), OutcomesOf(m) # <<>>
        PROVE  L(f) = L(e) \o SentFor(protocol, m)
    <3>1. Bodies!expandMessage(m) = <<a>> \o <<t>>
      BY <1>8, <2>3, ExpandedMessage
    <3>2. SentFor(protocol, m) = ItemsOf(protocol, a) \o ItemsOf(protocol, t)
      BY <1>8, <2>3 DEF SentFor
    <3>3. a \in SentMessage /\ t \in SentMessage
      BY <1>8, PartsAreSent
    <3> HIDE DEF a, t
    <3>4. f = Append(Append(e, a), t)
      <4>1. f = e \o (<<a>> \o <<t>>)
        BY <1>1, <3>1
      <4> QED
        BY <1>1, <3>3, <4>1, AppendTwo
    <3>5. Append(e, a) \in Seq(SentMessage)
      BY <1>1, <1>4, <3>3
    <3>6. L(f) = (L(e) \o ItemsOf(protocol, a)) \o ItemsOf(protocol, t)
      BY <1>1, <1>3, <3>3, <3>4, <3>5
    <3>7. ItemsOf(protocol, a) \in Seq(BodyItem) /\ ItemsOf(protocol, t) \in Seq(BodyItem)
      BY <3>3 DEF SentMessage
    <3> QED
      BY <1>5, <3>2, <3>6, <3>7, ConcatAssociative
  <2> QED
    BY <2>1, <2>2, <2>3
<1> QED
  BY <1>5, <1>6, <1>7, <1>8 DEF L, e, f

(* The calls of a request, and their results.                              *)
LEMMA BodiesCardinality == \A S : Bodies!Cardinality(S) = Cardinality(S)
BY DEF Bodies!Cardinality, Cardinality

ResultFor(items, c, i, j) ==
  /\ i < j
  /\ \A k \in i..j : items[k].item.kind \in {"call", "result"}
  /\ \A k \in (i + 1)..(j - 1) : items[k].item.kind = "result" => items[k].item.call # c
AllAnswered(items, c) ==
  \A i \in Bodies!At(items, "call", c) : \E j \in Bodies!At(items, "result", c) : ResultFor(items, c, i, j)
SettledUses(msgs, c) ==
  UNION {{<<n, u>> : u \in SettledFor(msgs[n], c)} : n \in 1..Len(msgs)}
Matched(items, msgs, c) ==
  /\ items \in Seq(BodyItem) /\ AllAnswered(items, c)
  /\ IsFiniteSet(SettledUses(msgs, c))
  /\ IsFiniteSet(Bodies!At(items, "call", c)) /\ IsFiniteSet(Bodies!At(items, "result", c))
  /\ Cardinality(Bodies!At(items, "call", c)) = Cardinality(SettledUses(msgs, c))
  /\ Cardinality(Bodies!At(items, "call", c)) = Cardinality(Bodies!At(items, "result", c))

LEMMA SettledAre ==
  ASSUME NEW msgs \in Seq(CanonicalMessage), NEW c
  PROVE  Bodies!Settled(msgs, c) = SettledUses(msgs, c)
<1>1. DOMAIN msgs = 1..Len(msgs) /\ \A n \in 1..Len(msgs) : msgs[n] \in CanonicalMessage
  BY ElementOfSeq
<1>2. \A n \in 1..Len(msgs) : DOMAIN msgs[n].content = 1..Len(msgs[n].content)
  <2> SUFFICES ASSUME NEW n \in 1..Len(msgs) PROVE DOMAIN msgs[n].content = 1..Len(msgs[n].content)
    OBVIOUS
  <2>1. msgs[n].content \in Seq(BodyPart)
    BY <1>1 DEF CanonicalMessage, BodyMessage
  <2> QED
    BY <2>1
<1>3. \A n \in 1..Len(msgs) : SettledFor(msgs[n], c) \subseteq 1..10
  BY <1>1, SettledOnce DEF SettledFor
<1>4. ASSUME NEW settled \in Bodies!Settled(msgs, c) PROVE settled \in SettledUses(msgs, c)
  <2>1. settled \in (1..Len(msgs)) \X (1..10)
    BY <1>1 DEF Bodies!Settled
  <2>2. PICK n \in 1..Len(msgs), u \in 1..10 : settled = <<n, u>>
    BY <2>1
  <2>3. /\ u \in DOMAIN msgs[n].content /\ msgs[n].content[u].kind = "tool"
        /\ msgs[n].content[u].call = c /\ msgs[n].content[u].state \in {"completed", "error"}
    BY <2>2 DEF Bodies!Settled
  <2>4. u \in SettledFor(msgs[n], c)
    BY <1>2, <2>3 DEF SettledFor, SettledPlaces, Outcomes
  <2> QED
    BY <2>2, <2>4 DEF SettledUses
<1>5. ASSUME NEW settled \in SettledUses(msgs, c) PROVE settled \in Bodies!Settled(msgs, c)
  <2>1. PICK n \in 1..Len(msgs) : \E u \in SettledFor(msgs[n], c) : settled = <<n, u>>
    BY DEF SettledUses
  <2>2. PICK u \in SettledFor(msgs[n], c) : settled = <<n, u>>
    BY <2>1
  <2>3. /\ u \in DOMAIN msgs[n].content /\ msgs[n].content[u].kind = "tool"
        /\ msgs[n].content[u].call = c /\ msgs[n].content[u].state \in {"completed", "error"}
    BY <1>2 DEF SettledFor, SettledPlaces, Outcomes
  <2>4. settled \in (DOMAIN msgs) \X (1..10) /\ settled[1] = n /\ settled[2] = u
    BY <1>1, <1>3, <2>2
  <2> QED
    BY <2>3, <2>4 DEF Bodies!Settled
<1> QED
  BY <1>4, <1>5

LEMMA AtConcat ==
  ASSUME NEW s \in Seq(BodyItem), NEW t \in Seq(BodyItem), NEW kind, NEW c
  PROVE  /\ Bodies!At(s, kind, c) \subseteq 1..Len(s)
         /\ Bodies!At(s \o t, kind, c)
              = Bodies!At(s, kind, c) \cup {Len(s) + i : i \in Bodies!At(t, kind, c)}
<1> DEFINE st == s \o t
           x == Len(s)
           y == Len(t)
<1>1. /\ st \in Seq(BodyItem) /\ Len(st) = x + y
      /\ \A i \in 1..x : st[i] = s[i]
      /\ \A i \in 1..y : st[x + i] = t[i]
  BY ItemsConcat
<1>2. x \in Nat /\ y \in Nat /\ DOMAIN s = 1..x /\ DOMAIN t = 1..y /\ DOMAIN st = 1..(x + y)
  BY <1>1
<1> HIDE DEF st, x, y
<1>3. ASSUME NEW i \in Bodies!At(st, kind, c)
      PROVE  i \in Bodies!At(s, kind, c) \cup {x + k : k \in Bodies!At(t, kind, c)}
  <2>1. i \in 1..(x + y) /\ st[i].item.kind = kind /\ st[i].item.call = c
    BY <1>2 DEF Bodies!At
  <2>2. CASE i <= x
    <3>1. i \in 1..x
      BY <1>2, <2>1, <2>2
    <3> QED
      BY <1>1, <1>2, <2>1, <3>1 DEF Bodies!At
  <2>3. CASE ~(i <= x)
    <3>1. i - x \in 1..y /\ x + (i - x) = i
      BY <1>2, <2>1, <2>3
    <3>2. st[i] = t[i - x]
      BY <1>1, <3>1
    <3>3. i - x \in Bodies!At(t, kind, c)
      BY <1>2, <2>1, <3>1, <3>2 DEF Bodies!At
    <3> QED
      BY <3>1, <3>3
  <2> QED
    BY <2>2, <2>3
<1>4. ASSUME NEW i \in Bodies!At(s, kind, c) PROVE i \in Bodies!At(st, kind, c)
  <2>1. i \in 1..x /\ s[i].item.kind = kind /\ s[i].item.call = c
    BY <1>2 DEF Bodies!At
  <2>2. i \in 1..(x + y) /\ st[i] = s[i]
    BY <1>1, <1>2, <2>1
  <2> QED
    BY <1>2, <2>1, <2>2 DEF Bodies!At
<1>5. ASSUME NEW k \in Bodies!At(t, kind, c) PROVE x + k \in Bodies!At(st, kind, c)
  <2>1. k \in 1..y /\ t[k].item.kind = kind /\ t[k].item.call = c
    BY <1>2 DEF Bodies!At
  <2>2. x + k \in 1..(x + y) /\ st[x + k] = t[k]
    BY <1>1, <1>2, <2>1
  <2> QED
    BY <1>2, <2>1, <2>2 DEF Bodies!At
<1>6. Bodies!At(s, kind, c) \subseteq 1..x
  BY <1>2 DEF Bodies!At
<1>7. Bodies!At(st, kind, c) = Bodies!At(s, kind, c) \cup {x + k : k \in Bodies!At(t, kind, c)}
  BY <1>3, <1>4, <1>5
<1> QED
  BY <1>6, <1>7 DEF st, x

(* The uses of one message more.                                           *)
LEMMA UsesAppend ==
  ASSUME NEW msgs \in Seq(CanonicalMessage), NEW m \in CanonicalMessage, NEW c
  PROVE  SettledUses(Append(msgs, m), c)
           = SettledUses(msgs, c) \cup {<<Len(msgs) + 1, u>> : u \in SettledFor(m, c)}
<1> DEFINE more == Append(msgs, m)
           n == Len(msgs)
<1>1. n \in Nat /\ Len(more) = n + 1 /\ more[n + 1] = m /\ \A i \in 1..n : more[i] = msgs[i]
  OBVIOUS
<1>2. 1..(n + 1) = (1..n) \cup {n + 1}
  BY <1>1
<1> HIDE DEF more, n
<1>3. SettledUses(more, c) = UNION {{<<i, u>> : u \in SettledFor(more[i], c)} : i \in (1..n) \cup {n + 1}}
  BY <1>1, <1>2 DEF SettledUses
<1>4. SettledUses(msgs, c) = UNION {{<<i, u>> : u \in SettledFor(msgs[i], c)} : i \in 1..n}
  BY DEF SettledUses, n
<1>5. ASSUME NEW settled \in SettledUses(more, c)
      PROVE  settled \in SettledUses(msgs, c) \cup {<<n + 1, u>> : u \in SettledFor(m, c)}
  <2>1. PICK i \in (1..n) \cup {n + 1} : settled \in {<<i, u>> : u \in SettledFor(more[i], c)}
    BY <1>3
  <2>2. CASE i \in 1..n
    BY <1>1, <1>4, <2>1, <2>2
  <2>3. CASE i = n + 1
    BY <1>1, <2>1, <2>3
  <2> QED
    BY <2>2, <2>3
<1>6. ASSUME NEW settled \in SettledUses(msgs, c) PROVE settled \in SettledUses(more, c)
  <2>1. PICK i \in 1..n : settled \in {<<i, u>> : u \in SettledFor(msgs[i], c)}
    BY <1>4
  <2> QED
    BY <1>1, <1>3, <2>1
<1>7. ASSUME NEW settled \in {<<n + 1, u>> : u \in SettledFor(m, c)} PROVE settled \in SettledUses(more, c)
  BY <1>1, <1>3
<1> QED
  BY <1>5, <1>6, <1>7 DEF more, n

(* Behind what is matched, what is sent for one message more.              *)
LEMMA AnsweredAppend ==
  ASSUME NEW s \in Seq(BodyItem), NEW b \in Seq(BodyItem), NEW m, NEW c,
         AllAnswered(s, c), IsAnswered(b, m, c)
  PROVE  AllAnswered(s \o b, c)
<1> DEFINE sb == s \o b
           x == Len(s)
           y == Len(b)
<1>1. /\ sb \in Seq(BodyItem) /\ Len(sb) = x + y
      /\ \A i \in 1..x : sb[i] = s[i]
      /\ \A i \in 1..y : sb[x + i] = b[i]
  BY ItemsConcat
<1>2. x \in Nat /\ y \in Nat /\ DOMAIN b = 1..y
  OBVIOUS
<1>3. \A kind : /\ Bodies!At(s, kind, c) \subseteq 1..x
                /\ Bodies!At(sb, kind, c) = Bodies!At(s, kind, c) \cup {x + i : i \in Bodies!At(b, kind, c)}
  BY AtConcat
<1> HIDE DEF sb, x, y
<1> SUFFICES ASSUME NEW i \in Bodies!At(sb, "call", c)
             PROVE  \E j \in Bodies!At(sb, "result", c) : ResultFor(sb, c, i, j)
  BY DEF AllAnswered, sb
<1>4. CASE i \in Bodies!At(s, "call", c)
  <2>1. PICK j \in Bodies!At(s, "result", c) : ResultFor(s, c, i, j)
    BY <1>4 DEF AllAnswered
  <2>2. i \in 1..x /\ j \in 1..x
    BY <1>3, <1>4
  <2>3. \A k \in i..j : k \in 1..x /\ sb[k] = s[k]
    BY <1>1, <1>2, <2>2
  <2>4. \A k \in (i + 1)..(j - 1) : k \in 1..x /\ sb[k] = s[k]
    BY <1>1, <1>2, <2>2
  <2>5. ResultFor(sb, c, i, j)
    BY <2>1, <2>3, <2>4 DEF ResultFor
  <2>6. j \in Bodies!At(sb, "result", c)
    BY <1>3
  <2> QED
    BY <2>5, <2>6
<1>5. CASE i \notin Bodies!At(s, "call", c)
  <2>1. PICK h \in Bodies!At(b, "call", c) : i = x + h
    BY <1>3, <1>5
  <2>2. PICK g, j \in 1..y :
          /\ Bodies!At(b, "call", c) = {g} /\ Bodies!At(b, "result", c) = {j}
          /\ g < j /\ \A k \in g..j : b[k].item.kind \in {"call", "result"}
    BY <2>1 DEF IsAnswered, y
  <2>3. h = g
    BY <2>1, <2>2
  <2>4. x + j \in Bodies!At(sb, "result", c)
    BY <1>3, <2>2
  <2>5. i < x + j
    BY <1>2, <2>1, <2>2, <2>3
  <2>6. ASSUME NEW k \in i..(x + j)
        PROVE  /\ k - x \in g..j /\ k - x \in 1..y /\ x + (k - x) = k /\ sb[k] = b[k - x]
               /\ sb[k].item.kind \in {"call", "result"}
    <3>1. k - x \in g..j /\ k - x \in 1..y /\ x + (k - x) = k
      BY <1>2, <2>1, <2>2, <2>3
    <3>2. sb[k] = b[k - x]
      BY <1>1, <3>1
    <3> QED
      BY <2>2, <3>1, <3>2
  <2>7. ASSUME NEW k \in (i + 1)..((x + j) - 1), sb[k].item.kind = "result"
        PROVE  sb[k].item.call # c
    <3>1. k \in i..(x + j) /\ k - x # j
      BY <1>2, <2>1, <2>2, <2>3
    <3>2. k - x \notin Bodies!At(b, "result", c)
      BY <2>2, <3>1
    <3>3. k - x \in DOMAIN b /\ sb[k] = b[k - x]
      BY <1>2, <2>6, <3>1
    <3> QED
      BY <2>7, <3>2, <3>3 DEF Bodies!At
  <2>8. ResultFor(sb, c, i, x + j)
    BY <2>5, <2>6, <2>7 DEF ResultFor
  <2> QED
    BY <2>4, <2>8
<1> QED
  BY <1>4, <1>5

LEMMA MatchedAppend ==
  ASSUME NEW msgs \in Seq(CanonicalMessage), NEW m \in CanonicalMessage, NEW c,
         NEW s, Matched(s, msgs, c), NEW b \in Seq(BodyItem), IsAnswered(b, m, c)
  PROVE  Matched(s \o b, Append(msgs, m), c)
<1> DEFINE sb == s \o b
           more == Append(msgs, m)
           x == Len(s)
           n == Len(msgs)
           CallsAt == Bodies!At(s, "call", c)
           Results == Bodies!At(s, "result", c)
           Uses == SettledUses(msgs, c)
<1>1. /\ s \in Seq(BodyItem) /\ AllAnswered(s, c)
      /\ IsFiniteSet(Uses) /\ IsFiniteSet(CallsAt) /\ IsFiniteSet(Results)
      /\ Cardinality(CallsAt) = Cardinality(Uses) /\ Cardinality(CallsAt) = Cardinality(Results)
  BY DEF Matched
<1>2. x \in Nat /\ n \in Nat
  BY <1>1
<1>3. sb \in Seq(BodyItem) /\ AllAnswered(sb, c)
  BY <1>1, ItemsConcat, AnsweredAppend
<1>4. /\ CallsAt \subseteq 1..x /\ Results \subseteq 1..x
      /\ Bodies!At(sb, "call", c) = CallsAt \cup {x + i : i \in Bodies!At(b, "call", c)}
      /\ Bodies!At(sb, "result", c) = Results \cup {x + i : i \in Bodies!At(b, "result", c)}
  BY <1>1, AtConcat
<1>5. SettledUses(more, c) = Uses \cup {<<n + 1, u>> : u \in SettledFor(m, c)}
  BY UsesAppend
<1>6. \A settled \in Uses : \E i \in 1..n : \E u : settled = <<i, u>>
  BY DEF SettledUses
<1> HIDE DEF sb, more, x, n, CallsAt, Results, Uses
<1>7. CASE /\ Bodies!At(b, "call", c) = {} /\ Bodies!At(b, "result", c) = {}
           /\ SettledFor(m, c) = {}
  <2>1. /\ Bodies!At(sb, "call", c) = CallsAt /\ Bodies!At(sb, "result", c) = Results
        /\ SettledUses(more, c) = Uses
    BY <1>4, <1>5, <1>7
  <2>2. Matched(sb, more, c)
    BY <1>1, <1>3, <2>1 DEF Matched
  <2> QED
    BY <2>2 DEF sb, more
<1>8. CASE \E i, j \in 1..Len(b), u \in 1..10 :
             /\ Bodies!At(b, "call", c) = {i} /\ Bodies!At(b, "result", c) = {j}
             /\ SettledFor(m, c) = {u}
  <2>1. PICK i, j \in 1..Len(b), u \in 1..10 :
             /\ Bodies!At(b, "call", c) = {i} /\ Bodies!At(b, "result", c) = {j}
             /\ SettledFor(m, c) = {u}
    BY <1>8
  <2>2. /\ Bodies!At(sb, "call", c) = CallsAt \cup {x + i}
        /\ Bodies!At(sb, "result", c) = Results \cup {x + j}
        /\ SettledUses(more, c) = Uses \cup {<<n + 1, u>>}
    BY <1>4, <1>5, <2>1
  <2>3. x + i \notin CallsAt /\ x + j \notin Results
    BY <1>2, <1>4
  <2>4. <<n + 1, u>> \notin Uses
    <3>1. SUFFICES ASSUME <<n + 1, u>> \in Uses PROVE FALSE
      OBVIOUS
    <3>2. PICK k \in 1..n : \E v : <<n + 1, u>> = <<k, v>>
      BY <1>6, <3>1
    <3>3. n + 1 = k
      BY <3>2
    <3> QED
      BY <1>2, <3>3
  <2>5. /\ IsFiniteSet(CallsAt \cup {x + i}) /\ Cardinality(CallsAt \cup {x + i}) = Cardinality(CallsAt) + 1
        /\ IsFiniteSet(Results \cup {x + j}) /\ Cardinality(Results \cup {x + j}) = Cardinality(Results) + 1
        /\ IsFiniteSet(Uses \cup {<<n + 1, u>>}) /\ Cardinality(Uses \cup {<<n + 1, u>>}) = Cardinality(Uses) + 1
    BY <1>1, <2>3, <2>4, FS_AddElement
  <2>6. Matched(sb, more, c)
    BY <1>1, <1>3, <2>2, <2>5 DEF Matched
  <2> QED
    BY <2>6 DEF sb, more
<1> QED
  BY <1>7, <1>8 DEF IsAnswered

(* The first messages, one more each time.                                 *)
LEMMA SubSeqUpTo ==
  ASSUME NEW S, NEW s \in Seq(S)
  PROVE  /\ SubSeq(s, 1, 0) = <<>> /\ SubSeq(s, 1, Len(s)) = s
         /\ \A i \in 1..Len(s) : /\ SubSeq(s, 1, i - 1) \in Seq(S)
                                 /\ SubSeq(s, 1, i) = Append(SubSeq(s, 1, i - 1), s[i])
<1>1. Len(s) \in Nat /\ \A i \in 1..Len(s) : s[i] \in S
  BY ElementOfSeq
<1>2. SubSeq(s, 1, 0) = <<>> /\ SubSeq(s, 1, Len(s)) = s
  BY SubSeqFull, SubSeqEmpty
<1>3. ASSUME NEW i \in 1..Len(s)
      PROVE  /\ SubSeq(s, 1, i - 1) \in Seq(S)
             /\ SubSeq(s, 1, i) = Append(SubSeq(s, 1, i - 1), s[i])
  <2>1. SubSeq(s, 1, i - 1) \in Seq(S)
    <3>1. \A k \in 1..(i - 1) : s[k] \in S
      BY <1>1
    <3> QED
      BY <1>1, <3>1, SubSeqProperties
  <2>2. SubSeq(s, 1, i) = SubSeq(s, 1, i - 1) \o <<s[i]>>
    <3>1. 1 \in 1..Len(s) /\ i \in 1..Len(s)
      BY <1>1
    <3> QED
      BY <3>1, SubSeqRecursiveSecond
  <2>3. \A t \in Seq(S), x \in S : t \o <<x>> = Append(t, x)
    OBVIOUS
  <2>4. s[i] \in S
    BY <1>1
  <2> QED
    BY <2>1, <2>2, <2>3, <2>4
<1> QED
  BY <1>2, <1>3

(* What is sent for messages of the canonical form is matched.             *)
LEMMA SentAreMatched ==
  ASSUME RequestAssumption, NEW protocol \in RequestProtocols, NEW c,
         NEW msgs \in Seq(CanonicalMessage)
  PROVE  Matched(Lowered(protocol, Bodies!ExpandToolMessages(msgs)), msgs, c)
<1> DEFINE n == Len(msgs)
           upTo(i) == SubSeq(msgs, 1, i)
           L(s) == Lowered(protocol, Bodies!ExpandToolMessages(s))
           T == {i \in 0..n : Matched(L(upTo(i)), upTo(i), c)}
<1>1. n \in Nat /\ \A i \in 1..n : msgs[i] \in CanonicalMessage
  BY ElementOfSeq
<1>2. upTo(0) = <<>> /\ upTo(n) = msgs
  BY SubSeqUpTo
<1>3. \A i \in 1..n : upTo(i) = Append(upTo(i - 1), msgs[i]) /\ upTo(i - 1) \in Seq(CanonicalMessage)
  BY SubSeqUpTo
<1> HIDE DEF upTo, L, n
<1>4. 0 \in T
  <2>1. L(<<>>) = <<>>
    <3>1. Bodies!MapSeq(<<>>, Bodies!expandMessage) = <<>>
      BY DEF Bodies!MapSeq
    <3>2. Bodies!ExpandToolMessages(<<>>) = <<>>
      BY <3>1, JoinedNone DEF Bodies!ExpandToolMessages
    <3>3. [i \in DOMAIN <<>> |-> ItemsOf(protocol, <<>>[i])] = <<>>
      OBVIOUS
    <3> QED
      BY <3>2, <3>3, JoinedNone DEF L, Lowered
  <2>2. Bodies!At(<<>>, "call", c) = {} /\ Bodies!At(<<>>, "result", c) = {}
    BY DEF Bodies!At
  <2>3. SettledUses(<<>>, c) = {}
    BY DEF SettledUses
  <2>4. Matched(<<>>, <<>>, c)
    <3>1. <<>> \in Seq(BodyItem) /\ AllAnswered(<<>>, c)
      BY <2>2 DEF AllAnswered
    <3>2. IsFiniteSet({}) /\ Cardinality({}) = 0
      BY FS_EmptySet
    <3> QED
      BY <2>2, <2>3, <3>1, <3>2 DEF Matched
  <2> QED
    BY <1>1, <1>2, <2>1, <2>4
<1>5. ASSUME NEW i \in 1..n, i - 1 \in T PROVE i \in T
  <2> DEFINE s == upTo(i - 1)
             m == msgs[i]
  <2>1. /\ Matched(L(s), s, c) /\ s \in Seq(CanonicalMessage) /\ m \in CanonicalMessage
        /\ upTo(i) = Append(s, m)
    BY <1>1, <1>3, <1>5
  <2> HIDE DEF s, m
  <2>2. L(Append(s, m)) = L(s) \o SentFor(protocol, m)
    BY <2>1, SentAppend DEF L
  <2>3. SentFor(protocol, m) \in Seq(BodyItem) /\ IsAnswered(SentFor(protocol, m), m, c)
    BY <2>1, SentIs
  <2>4. Matched(L(s) \o SentFor(protocol, m), Append(s, m), c)
    BY <2>1, <2>3, MatchedAppend
  <2>5. i \in 0..n
    BY <1>1
  <2> QED
    BY <2>1, <2>2, <2>4, <2>5
<1> HIDE DEF T
<1>6. \A i \in 0..n : i \in T
  BY <1>1, <1>4, <1>5, UpTo
<1>7. n \in T
  BY <1>1, <1>6
<1> QED
  BY <1>2, <1>7 DEF T, L

-----------------------------------------------------------------------------
(* ModelRequests.  Normalization puts what was stored in canonical form.   *)

(* What a session stores: the canonical messages, and those of the older   *)
(* form, with calls in the answers and their results in messages of tools. *)
StoredMessage ==
  {m \in BodyMessage :
     \/ m.role = "user" /\ OnlyKinds(m.content, {"text", "image"})
     \/ /\ m.role = "assistant" /\ OnlyKinds(m.content, {"text", "reasoning", "tool", "call"})
        /\ OncePerCall(m.content) /\ Len(m.content) <= 10
     \/ m.role = "tool" /\ OnlyKinds(m.content, {"result"})}

LEMMA ToolIs ==
  ASSUME NEW c \in RequestCalls, NEW s \in Outcomes \cup {"unsettled"}
  PROVE  /\ Bodies!Tool(c, s) \in BodyPart
         /\ Bodies!Tool(c, s).kind = "tool" /\ Bodies!Tool(c, s).call = c
BY DEF BodyPart, Bodies!Tool

(* A message of parts of its own.                                          *)
LEMMA MessageIs ==
  ASSUME NEW r \in {"user", "assistant", "tool"}, NEW s \in Seq(BodyPart)
  PROVE  /\ Bodies!Message(r, s) \in BodyMessage
         /\ Bodies!Message(r, s).role = r /\ Bodies!Message(r, s).content = s
BY DEF BodyMessage, Bodies!Message

LEMMA OtherContent ==
  ASSUME NEW m \in BodyMessage, NEW s \in Seq(BodyPart)
  PROVE  /\ [m EXCEPT !.content = s] \in BodyMessage
         /\ [m EXCEPT !.content = s].role = m.role /\ [m EXCEPT !.content = s].content = s
BY DEF BodyMessage

(* One use for another of the same call.                                   *)
LEMMA ReplacedPart ==
  ASSUME NEW s \in Seq(BodyPart), NEW i \in 1..Len(s), NEW t \in BodyPart,
         s[i].kind = "tool", t.kind = "tool", t.call = s[i].call
  PROVE  /\ [s EXCEPT ![i] = t] \in Seq(BodyPart) /\ Len([s EXCEPT ![i] = t]) = Len(s)
         /\ \A kinds : OnlyKinds(s, kinds) => OnlyKinds([s EXCEPT ![i] = t], kinds)
         /\ OncePerCall(s) => OncePerCall([s EXCEPT ![i] = t])
<1> DEFINE new == [s EXCEPT ![i] = t]
<1>1. new \in Seq(BodyPart) /\ Len(new) = Len(s) /\ \A j \in 1..Len(s) : new[j] = IF j = i THEN t ELSE s[j]
  BY ExceptSeq
<1> HIDE DEF new
<1>2. \A j \in 1..Len(s) : new[j].kind = s[j].kind
  BY <1>1
<1>3. \A j \in 1..Len(s) : new[j].kind \in {"tool", "call"} => new[j].call = s[j].call
  BY <1>1
<1>4. ASSUME NEW kinds, OnlyKinds(s, kinds) PROVE OnlyKinds(new, kinds)
  BY <1>1, <1>2, <1>4 DEF OnlyKinds
<1>5. ASSUME OncePerCall(s) PROVE OncePerCall(new)
  BY <1>1, <1>2, <1>3, <1>5 DEF OncePerCall
<1> QED
  BY <1>1, <1>4, <1>5 DEF new

(* The same in one message of several.                                     *)
LEMMA ReplacedUse ==
  ASSUME NEW M, NEW msgs \in Seq(M), NEW n \in 1..Len(msgs), NEW i, NEW t,
         [msgs[n] EXCEPT !.content = [@ EXCEPT ![i] = t]] \in M
  PROVE  [msgs EXCEPT ![n].content[i] = t] \in Seq(M)
<1>1. [msgs EXCEPT ![n].content[i] = t] = [msgs EXCEPT ![n] = [msgs[n] EXCEPT !.content = [@ EXCEPT ![i] = t]]]
  OBVIOUS
<1> QED
  BY <1>1, ExceptSeq

LEMMA StoredIs ==
  /\ CanonicalMessage \subseteq StoredMessage
  /\ \A m \in StoredMessage : m \in BodyMessage /\ m.content \in Seq(BodyPart)
  /\ \A m \in StoredMessage : m.role # "tool" /\ OnlyKinds(m.content, {"text", "image", "reasoning", "tool"})
                                => m \in CanonicalMessage
<1>1. \A s : OnlyKinds(s, {"text", "reasoning", "tool"}) => OnlyKinds(s, {"text", "reasoning", "tool", "call"})
  BY DEF OnlyKinds
<1>2. \A s : OnlyKinds(s, {"text", "reasoning", "tool", "call"})
               => (OnlyKinds(s, {"text", "image", "reasoning", "tool"})
                     => OnlyKinds(s, {"text", "reasoning", "tool"}))
  <2> SUFFICES ASSUME NEW s, OnlyKinds(s, {"text", "reasoning", "tool", "call"}),
                      OnlyKinds(s, {"text", "image", "reasoning", "tool"})
               PROVE  OnlyKinds(s, {"text", "reasoning", "tool"})
    OBVIOUS
  <2>1. ASSUME NEW i \in 1..Len(s) PROVE s[i].kind \in {"text", "reasoning", "tool"}
    BY DEF OnlyKinds
  <2> QED
    BY <2>1 DEF OnlyKinds
<1>3. CanonicalMessage \subseteq StoredMessage
  BY <1>1 DEF CanonicalMessage, StoredMessage
<1>4. \A m \in StoredMessage : m \in BodyMessage /\ m.content \in Seq(BodyPart)
  BY DEF StoredMessage, BodyMessage
<1>5. ASSUME NEW m \in StoredMessage, m.role # "tool",
             OnlyKinds(m.content, {"text", "image", "reasoning", "tool"})
      PROVE  m \in CanonicalMessage
  BY <1>2, <1>5 DEF CanonicalMessage, StoredMessage
<1> QED
  BY <1>3, <1>4, <1>5

LEMMA ReplacedInMessage ==
  ASSUME NEW m \in StoredMessage, m.role = "assistant", NEW i \in 1..Len(m.content), NEW t \in BodyPart,
         m.content[i].kind = "tool", t.kind = "tool", t.call = m.content[i].call
  PROVE  /\ [m EXCEPT !.content = [@ EXCEPT ![i] = t]] \in StoredMessage
         /\ m \in CanonicalMessage => [m EXCEPT !.content = [@ EXCEPT ![i] = t]] \in CanonicalMessage
<1> DEFINE s == m.content
           r == [s EXCEPT ![i] = t]
           new == [m EXCEPT !.content = r]
<1>1. s \in Seq(BodyPart) /\ m \in BodyMessage
  BY StoredIs
<1>2. /\ OnlyKinds(s, {"text", "reasoning", "tool", "call"}) /\ OncePerCall(s) /\ Len(s) <= 10
      /\ m \in CanonicalMessage => OnlyKinds(s, {"text", "reasoning", "tool"})
  BY DEF StoredMessage, CanonicalMessage
<1>3. i \in 1..Len(s) /\ s[i].kind = "tool" /\ t.call = s[i].call
  OBVIOUS
<1> HIDE DEF s
<1>4. /\ r \in Seq(BodyPart) /\ Len(r) = Len(s)
      /\ \A kinds : OnlyKinds(s, kinds) => OnlyKinds(r, kinds)
      /\ OncePerCall(s) => OncePerCall(r)
  BY <1>1, <1>3, ReplacedPart
<1> HIDE DEF r
<1>5. new \in BodyMessage /\ new.role = "assistant" /\ new.content = r
  BY <1>1, <1>4, OtherContent
<1> HIDE DEF new
<1>6. new \in StoredMessage /\ (m \in CanonicalMessage => new \in CanonicalMessage)
  BY <1>2, <1>4, <1>5 DEF StoredMessage, CanonicalMessage
<1> QED
  BY <1>6 DEF new, r, s

(* Where a result is put.                                                  *)
LEMMA UseIs ==
  ASSUME NEW msgs \in Seq(CanonicalMessage), NEW c, NEW w \in Bodies!UseOf(msgs, c)
  PROVE  /\ w[1] \in 1..Len(msgs) /\ msgs[w[1]].role = "assistant"
         /\ w[2] \in 1..Len(msgs[w[1]].content)
         /\ msgs[w[1]].content[w[2]].kind = "tool" /\ msgs[w[1]].content[w[2]].call = c
<1> DEFINE Uses == {u \in (DOMAIN msgs) \X (1..10) :
                      /\ msgs[u[1]].role = "assistant" /\ u[2] \in DOMAIN msgs[u[1]].content
                      /\ msgs[u[1]].content[u[2]].kind = "tool" /\ msgs[u[1]].content[u[2]].call = c}
<1>1. w \in Uses
  BY DEF Bodies!UseOf
<1>2. /\ w[1] \in DOMAIN msgs /\ msgs[w[1]].role = "assistant"
      /\ w[2] \in DOMAIN msgs[w[1]].content
      /\ msgs[w[1]].content[w[2]].kind = "tool" /\ msgs[w[1]].content[w[2]].call = c
  BY <1>1
<1> HIDE DEF Uses
<1>3. w[1] \in 1..Len(msgs)
  BY <1>2
<1>4. msgs[w[1]] \in CanonicalMessage
  BY <1>3, ElementOfSeq
<1>5. msgs[w[1]].content \in Seq(BodyPart)
  BY <1>4, StoredIs
<1> QED
  BY <1>2, <1>3, <1>5

LEMMA PlacedResult ==
  ASSUME NEW msgs \in Seq(CanonicalMessage), NEW q \in BodyPart, q.kind = "result"
  PROVE  Bodies!placeResult(msgs, q) \in Seq(CanonicalMessage)
<1> DEFINE s == IF q.isError THEN "error" ELSE "completed"
           t == Bodies!Tool(q.call, s)
           uses == Bodies!UseOf(msgs, q.call)
           w == CHOOSE u \in uses : TRUE
<1>1. q.call \in RequestCalls
  BY PartIs
<1>2. s \in Outcomes \cup {"unsettled"}
  BY DEF Outcomes
<1> HIDE DEF s
<1>3. t \in BodyPart /\ t.kind = "tool" /\ t.call = q.call
  BY <1>1, <1>2, ToolIs
<1>4. Bodies!placeResult(msgs, q)
        = IF uses = {} THEN Append(msgs, Bodies!Message("assistant", <<t>>))
          ELSE [msgs EXCEPT ![w[1]].content[w[2]] = t]
  BY DEF Bodies!placeResult, s
<1> HIDE DEF t
<1>5. CASE uses = {}
  <2> DEFINE one == <<t>>
             m == Bodies!Message("assistant", one)
  <2>1. one \in Seq(BodyPart) /\ Len(one) = 1 /\ one[1] = t
    BY <1>3
  <2> HIDE DEF one
  <2>2. OnlyKinds(one, {"text", "reasoning", "tool"}) /\ OncePerCall(one)
    BY <1>3, <2>1 DEF OnlyKinds, OncePerCall
  <2>3. m \in BodyMessage /\ m.role = "assistant" /\ m.content = one
    BY <2>1, MessageIs
  <2> HIDE DEF m
  <2>4. m \in CanonicalMessage
    <3>1. OnlyKinds(m.content, {"text", "reasoning", "tool"}) /\ OncePerCall(m.content)
      BY <2>2, <2>3
    <3>2. Len(m.content) <= 10
      BY <2>1, <2>3
    <3> QED
      BY <2>3, <3>1, <3>2 DEF CanonicalMessage
  <2>5. Append(msgs, m) \in Seq(CanonicalMessage)
    BY <2>4, AppendProperties
  <2> QED
    BY <1>4, <1>5, <2>5 DEF m, one
<1>6. CASE uses # {}
  <2>1. w \in uses
    BY <1>6
  <2> HIDE DEF w
  <2>2. /\ w[1] \in 1..Len(msgs) /\ msgs[w[1]].role = "assistant"
        /\ w[2] \in 1..Len(msgs[w[1]].content)
        /\ msgs[w[1]].content[w[2]].kind = "tool" /\ msgs[w[1]].content[w[2]].call = q.call
    BY <2>1, UseIs
  <2>3. msgs[w[1]] \in CanonicalMessage /\ msgs[w[1]] \in StoredMessage
    BY <2>2, ElementOfSeq, StoredIs
  <2>4. [msgs[w[1]] EXCEPT !.content = [@ EXCEPT ![w[2]] = t]] \in CanonicalMessage
    BY <1>3, <2>2, <2>3, ReplacedInMessage
  <2>5. [msgs EXCEPT ![w[1]].content[w[2]] = t] \in Seq(CanonicalMessage)
    BY <2>2, <2>4, ReplacedUse
  <2> QED
    BY <1>4, <1>6, <2>5
<1> QED
  BY <1>5, <1>6

(* Several results, one after the other.                                   *)
LEMMA PlacedResults ==
  ASSUME NEW msgs \in Seq(CanonicalMessage), NEW results \in Seq(BodyPart), OnlyKinds(results, {"result"})
  PROVE  Bodies!placeResults(msgs, results) \in Seq(CanonicalMessage)
<1> DEFINE n == Len(results)
           S == Seq(CanonicalMessage)
           put(t, i) == Bodies!placeResult(t, results[i])
           IsPlaced(f) == f = [i \in 0..n |-> IF i = 0 THEN msgs ELSE put(f[i - 1], i)]
           placed == CHOOSE f : IsPlaced(f)
           step == [i \in 1..n |-> [t \in S |-> put(t, i)]]
<1>1. n \in Nat /\ msgs \in S
  OBVIOUS
<1>2. Bodies!placeResults(msgs, results) = placed[n]
  BY DEF Bodies!placeResults
<1>3. \A i \in 1..n, t \in S : put(t, i) \in S
  <2> SUFFICES ASSUME NEW i \in 1..n, NEW t \in S PROVE put(t, i) \in S
    OBVIOUS
  <2>1. results[i] \in BodyPart /\ results[i].kind = "result"
    BY ElementOfSeq DEF OnlyKinds
  <2> QED
    BY <2>1, PlacedResult
<1> HIDE DEF put, S
<1>4. step \in [1..n -> [S -> S]]
  BY <1>3
<1>5. PICK f \in [0..n -> S] : f[0] = msgs /\ \A i \in 1..n : f[i] = step[i][f[i - 1]]
  <2> HIDE DEF step, n
  <2>1. Iterations(n, S, msgs, step) # {}
    BY <1>1, <1>4, StepsExist
  <2> QED
    BY <2>1 DEF Iterations
<1> HIDE DEF n
<1>6. IsPlaced(f)
  <2>1. ASSUME NEW i \in 0..n PROVE f[i] = IF i = 0 THEN msgs ELSE put(f[i - 1], i)
    <3>1. CASE i = 0
      BY <1>5, <3>1
    <3>2. CASE i # 0
      <4>1. i \in 1..n /\ f[i - 1] \in S
        BY <1>1, <1>5, <3>2
      <4>2. f[i] = step[i][f[i - 1]]
        BY <1>5, <4>1
      <4> QED
        BY <3>2, <4>1, <4>2
    <3> QED
      BY <3>1, <3>2
  <2>2. f = [i \in 0..n |-> f[i]]
    BY <1>5
  <2>3. [i \in 0..n |-> f[i]] = [i \in 0..n |-> IF i = 0 THEN msgs ELSE put(f[i - 1], i)]
    BY <2>1
  <2> QED
    BY <2>2, <2>3
<1>7. IsPlaced(placed)
  <2> HIDE DEF IsPlaced
  <2> QED
    BY <1>6
<1> HIDE DEF placed
<1>8. placed[0] = msgs /\ \A i \in 1..n : placed[i] = put(placed[i - 1], i)
  <2>1. \A i \in 0..n : placed[i] = IF i = 0 THEN msgs ELSE put(placed[i - 1], i)
    BY <1>7
  <2>2. placed[0] = msgs
    BY <1>1, <2>1
  <2>3. ASSUME NEW i \in 1..n PROVE placed[i] = put(placed[i - 1], i)
    <3>1. i \in 0..n /\ i # 0
      BY <1>1
    <3> QED
      BY <2>1, <3>1
  <2> QED
    BY <2>2, <2>3
<1> HIDE DEF IsPlaced
<1> DEFINE T == {i \in 0..n : placed[i] \in S}
<1>9. 0 \in T
  BY <1>1, <1>8
<1>10. \A i \in 1..n : i - 1 \in T => i \in T
  BY <1>1, <1>3, <1>8
<1> HIDE DEF T
<1>11. \A i \in 0..n : i \in T
  BY <1>1, <1>9, <1>10, UpTo
<1>12. n \in T
  BY <1>1, <1>11
<1> QED
  BY <1>2, <1>12 DEF T, S

(* A message of the older form, with its calls as uses of tools.           *)
AsTool(p) == IF p.kind = "call" THEN Bodies!Tool(p.call, "unsettled") ELSE p

LEMMA NormalizedContent ==
  ASSUME NEW m \in StoredMessage, m.role # "tool"
  PROVE  /\ [m EXCEPT !.content = Bodies!normalizeToolCalls(@)] \in CanonicalMessage
         /\ m \in CanonicalMessage => [m EXCEPT !.content = Bodies!normalizeToolCalls(@)] = m
<1> DEFINE s == m.content
           r == Bodies!normalizeToolCalls(s)
           new == [m EXCEPT !.content = r]
           n == Len(s)
<1>1. s \in Seq(BodyPart) /\ m \in BodyMessage /\ n \in Nat
  BY StoredIs
<1>2. /\ m.role = "user" => OnlyKinds(s, {"text", "image"})
      /\ m.role = "assistant" => /\ OnlyKinds(s, {"text", "reasoning", "tool", "call"})
                                 /\ OncePerCall(s) /\ n <= 10
      /\ m.role \in {"user", "assistant"}
  BY DEF StoredMessage
<1>3. m \in CanonicalMessage => OnlyKinds(s, {"text", "image", "reasoning", "tool"})
  BY DEF CanonicalMessage, OnlyKinds
<1> HIDE DEF s, n
<1>4. r = [i \in 1..n |-> AsTool(s[i])]
  BY <1>1 DEF Bodies!normalizeToolCalls, Bodies!MapSeq, AsTool, n
<1>5. ASSUME NEW i \in 1..n
      PROVE  /\ AsTool(s[i]) \in BodyPart
             /\ s[i].kind = "call" => AsTool(s[i]).kind = "tool" /\ AsTool(s[i]).call = s[i].call
             /\ s[i].kind # "call" => AsTool(s[i]) = s[i]
  <2>1. s[i] \in BodyPart
    BY <1>1, ElementOfSeq DEF n
  <2>2. CASE s[i].kind = "call"
    <3>1. s[i].call \in RequestCalls
      BY <2>1, <2>2, PartIs
    <3>2. "unsettled" \in Outcomes \cup {"unsettled"}
      OBVIOUS
    <3> QED
      BY <2>2, <3>1, <3>2, ToolIs DEF AsTool
  <2>3. CASE s[i].kind # "call"
    BY <2>1, <2>3 DEF AsTool
  <2> QED
    BY <2>2, <2>3
<1> HIDE DEF r
<1>6. r \in Seq(BodyPart) /\ Len(r) = n /\ \A i \in 1..n : r[i] = AsTool(s[i])
  BY <1>1, <1>4, <1>5
<1>7. new \in BodyMessage /\ new.role = m.role /\ new.content = r
  BY <1>1, <1>6, OtherContent
<1>8. ASSUME m.role = "user" PROVE new \in CanonicalMessage
  <2>1. \A i \in 1..n : r[i] = s[i]
    BY <1>2, <1>5, <1>6, <1>8 DEF OnlyKinds, n
  <2>2. OnlyKinds(r, {"text", "image"})
    BY <1>2, <1>6, <1>8, <2>1 DEF OnlyKinds, n
  <2> HIDE DEF new
  <2> QED
    BY <1>7, <1>8, <2>2 DEF CanonicalMessage
<1>9. ASSUME m.role = "assistant" PROVE new \in CanonicalMessage
  <2>1. OnlyKinds(s, {"text", "reasoning", "tool", "call"}) /\ OncePerCall(s) /\ n <= 10
    BY <1>2, <1>9
  <2>2. \A i \in 1..n : /\ r[i].kind \in {"text", "reasoning", "tool"}
                        /\ r[i].kind = "tool" => /\ s[i].kind \in {"tool", "call"}
                                                 /\ r[i].call = s[i].call
    BY <1>5, <1>6, <2>1 DEF OnlyKinds, n
  <2>3. OnlyKinds(r, {"text", "reasoning", "tool"})
    BY <1>6, <2>2 DEF OnlyKinds
  <2>4. OncePerCall(r)
    <3> SUFFICES ASSUME NEW i \in 1..n, NEW j \in 1..n,
                        r[i].kind \in {"tool", "call"}, r[j].kind \in {"tool", "call"}, r[i].call = r[j].call
                 PROVE  i = j
      BY <1>6 DEF OncePerCall
    <3>1. r[i].kind = "tool" /\ r[j].kind = "tool"
      BY <2>2
    <3>2. /\ s[i].kind \in {"tool", "call"} /\ s[j].kind \in {"tool", "call"}
          /\ s[i].call = s[j].call
      BY <2>2, <3>1
    <3> QED
      BY <2>1, <3>2 DEF OncePerCall, n
  <2> HIDE DEF new
  <2> QED
    BY <1>6, <1>7, <1>9, <2>1, <2>3, <2>4 DEF CanonicalMessage
<1>10. ASSUME m \in CanonicalMessage PROVE new = m
  <2>1. \A i \in 1..n : s[i].kind # "call"
    BY <1>3, <1>10 DEF OnlyKinds, n
  <2>2. \A i \in 1..n : r[i] = s[i]
    BY <1>5, <1>6, <2>1
  <2>3. r = s
    BY <1>1, <1>6, <2>2, SeqEqual DEF n
  <2>4. [m EXCEPT !.content = m.content] = m
    BY <1>1 DEF BodyMessage
  <2> QED
    BY <2>3, <2>4 DEF s
<1>11. new \in CanonicalMessage
  BY <1>2, <1>8, <1>9
<1> QED
  BY <1>10, <1>11 DEF new, r, s

LEMMA NormalizedOne ==
  ASSUME NEW msgs \in Seq(CanonicalMessage), NEW m \in StoredMessage
  PROVE  /\ Bodies!normalizeOne(msgs, m) \in Seq(CanonicalMessage)
         /\ m \in CanonicalMessage => Bodies!normalizeOne(msgs, m) = Append(msgs, m)
<1>1. CASE m.role = "tool"
  <2> DEFINE results == Bodies!OfKind(m.content, {"result"})
  <2>1. m.content \in Seq(BodyPart)
    BY StoredIs
  <2>2. \A i \in {i \in DOMAIN m.content : m.content[i].kind \in {"result"}} :
          m.content[i].kind \in {"result"}
    OBVIOUS
  <2>3. results \in Seq(BodyPart) /\ OnlyKinds(results, {"result"})
    BY <2>1, <2>2, PickedKinds DEF Bodies!OfKind
  <2>4. Bodies!normalizeOne(msgs, m) = Bodies!placeResults(msgs, results)
    BY <1>1 DEF Bodies!normalizeOne
  <2> HIDE DEF results
  <2>5. Bodies!placeResults(msgs, results) \in Seq(CanonicalMessage)
    BY <2>3, PlacedResults
  <2>6. m \notin CanonicalMessage
    BY <1>1 DEF CanonicalMessage
  <2> QED
    BY <2>4, <2>5, <2>6
<1>2. CASE m.role # "tool"
  <2> DEFINE new == [m EXCEPT !.content = Bodies!normalizeToolCalls(@)]
  <2>1. Bodies!normalizeOne(msgs, m) = Append(msgs, new)
    BY <1>2 DEF Bodies!normalizeOne
  <2>2. new \in CanonicalMessage /\ (m \in CanonicalMessage => new = m)
    BY <1>2, NormalizedContent
  <2> HIDE DEF new
  <2> QED
    BY <2>1, <2>2, AppendProperties
<1> QED
  BY <1>1, <1>2

(* What is normalized of the first messages, one after the other.          *)
Normalizes(f, msgs) ==
  /\ f \in [0..Len(msgs) -> Seq(CanonicalMessage)] /\ f[0] = <<>>
  /\ \A i \in 1..Len(msgs) : f[i] = Bodies!normalizeOne(f[i - 1], msgs[i])

LEMMA NormalizedIs ==
  ASSUME NEW msgs \in Seq(StoredMessage)
  PROVE  \E f : Normalizes(f, msgs) /\ Bodies!NormalizeMessages(msgs) = f[Len(msgs)]
<1> DEFINE n == Len(msgs)
           S == Seq(CanonicalMessage)
           put(t, i) == Bodies!normalizeOne(t, msgs[i])
           IsNormalized(f) == f = [i \in 0..n |-> IF i = 0 THEN <<>> ELSE put(f[i - 1], i)]
           normalized == CHOOSE f : IsNormalized(f)
           step == [i \in 1..n |-> [t \in S |-> put(t, i)]]
<1>1. n \in Nat /\ <<>> \in S
  OBVIOUS
<1>2. Bodies!NormalizeMessages(msgs) = normalized[n]
  BY DEF Bodies!NormalizeMessages
<1>3. \A i \in 1..n, t \in S : put(t, i) \in S
  <2> SUFFICES ASSUME NEW i \in 1..n, NEW t \in S PROVE put(t, i) \in S
    OBVIOUS
  <2>1. msgs[i] \in StoredMessage
    BY ElementOfSeq
  <2> QED
    BY <2>1, NormalizedOne
<1> DEFINE OfPut(f) == \A i \in 1..n : f[i] = put(f[i - 1], i)
<1>4. \A f : OfPut(f) => \A i \in 1..n : f[i] = Bodies!normalizeOne(f[i - 1], msgs[i])
  OBVIOUS
<1> HIDE DEF put, S
<1>5. step \in [1..n -> [S -> S]]
  BY <1>3
<1>6. PICK f \in [0..n -> S] : f[0] = <<>> /\ \A i \in 1..n : f[i] = step[i][f[i - 1]]
  <2> HIDE DEF step, n
  <2>1. Iterations(n, S, <<>>, step) # {}
    BY <1>1, <1>5, StepsExist
  <2> QED
    BY <2>1 DEF Iterations
<1> HIDE DEF n
<1>7. IsNormalized(f)
  <2>1. ASSUME NEW i \in 0..n PROVE f[i] = IF i = 0 THEN <<>> ELSE put(f[i - 1], i)
    <3>1. CASE i = 0
      BY <1>6, <3>1
    <3>2. CASE i # 0
      <4>1. i \in 1..n /\ f[i - 1] \in S
        BY <1>1, <1>6, <3>2
      <4>2. f[i] = step[i][f[i - 1]]
        BY <1>6, <4>1
      <4> QED
        BY <3>2, <4>1, <4>2
    <3> QED
      BY <3>1, <3>2
  <2>2. f = [i \in 0..n |-> f[i]]
    BY <1>6
  <2>3. [i \in 0..n |-> f[i]] = [i \in 0..n |-> IF i = 0 THEN <<>> ELSE put(f[i - 1], i)]
    BY <2>1
  <2> QED
    BY <2>2, <2>3
<1>8. IsNormalized(normalized)
  <2> HIDE DEF IsNormalized
  <2> QED
    BY <1>7
<1> HIDE DEF normalized
<1>9. normalized[0] = <<>> /\ \A i \in 1..n : normalized[i] = put(normalized[i - 1], i)
  <2>1. \A i \in 0..n : normalized[i] = IF i = 0 THEN <<>> ELSE put(normalized[i - 1], i)
    BY <1>8
  <2>2. normalized[0] = <<>>
    BY <1>1, <2>1
  <2>3. ASSUME NEW i \in 1..n PROVE normalized[i] = put(normalized[i - 1], i)
    <3>1. i \in 0..n /\ i # 0
      BY <1>1
    <3> QED
      BY <2>1, <3>1
  <2> QED
    BY <2>2, <2>3
<1>10. DOMAIN normalized = 0..n /\ normalized = [i \in 0..n |-> normalized[i]]
  BY <1>8
<1> HIDE DEF IsNormalized
<1> DEFINE T == {i \in 0..n : normalized[i] \in S}
<1>11. 0 \in T
  BY <1>1, <1>9
<1>12. \A i \in 1..n : i - 1 \in T => i \in T
  BY <1>1, <1>3, <1>9
<1> HIDE DEF T
<1>13. \A i \in 0..n : i \in T
  BY <1>1, <1>11, <1>12, UpTo
<1>14. normalized \in [0..n -> S]
  <2>1. \A i \in 0..n : normalized[i] \in S
    BY <1>13 DEF T
  <2> QED
    BY <1>10, <2>1
<1>15. \A i \in 1..n : normalized[i] = Bodies!normalizeOne(normalized[i - 1], msgs[i])
  BY <1>4, <1>9
<1>16. Normalizes(normalized, msgs)
  BY <1>9, <1>14, <1>15 DEF Normalizes, n, S
<1> QED
  BY <1>2, <1>16 DEF n

(* The canonical form is canonical, and is its own.                        *)
LEMMA NormalIsCanonical ==
  ASSUME NEW msgs \in Seq(StoredMessage)
  PROVE  Bodies!NormalizeMessages(msgs) \in Seq(CanonicalMessage)
<1>1. PICK f : Normalizes(f, msgs) /\ Bodies!NormalizeMessages(msgs) = f[Len(msgs)]
  BY NormalizedIs
<1>2. Len(msgs) \in 0..Len(msgs)
  OBVIOUS
<1> QED
  BY <1>1, <1>2 DEF Normalizes

LEMMA NormalOnce ==
  ASSUME NEW msgs \in Seq(CanonicalMessage)
  PROVE  Bodies!NormalizeMessages(msgs) = msgs
<1> DEFINE n == Len(msgs)
           upTo(i) == SubSeq(msgs, 1, i)
<1>1. n \in Nat /\ msgs \in Seq(StoredMessage) /\ \A i \in 1..n : msgs[i] \in CanonicalMessage
  <2>1. \A i \in 1..n : msgs[i] \in StoredMessage
    BY ElementOfSeq, StoredIs
  <2>2. n \in Nat /\ msgs \in [1..n -> StoredMessage]
    BY <2>1
  <2>3. \A i \in 1..n : msgs[i] \in CanonicalMessage
    BY ElementOfSeq
  <2> QED
    BY <2>2, <2>3
<1>2. PICK f : Normalizes(f, msgs) /\ Bodies!NormalizeMessages(msgs) = f[n]
  BY <1>1, NormalizedIs
<1>3. /\ f[0] = <<>>
      /\ \A i \in 1..n : f[i] = Bodies!normalizeOne(f[i - 1], msgs[i])
  BY <1>2 DEF Normalizes
<1>4. /\ upTo(0) = <<>> /\ upTo(n) = msgs
      /\ \A i \in 1..n : upTo(i - 1) \in Seq(CanonicalMessage) /\ upTo(i) = Append(upTo(i - 1), msgs[i])
  BY SubSeqUpTo
<1> HIDE DEF n, upTo
<1> DEFINE T == {i \in 0..n : f[i] = upTo(i)}
<1>5. 0 \in T
  BY <1>1, <1>3, <1>4
<1>6. ASSUME NEW i \in 1..n, i - 1 \in T PROVE i \in T
  <2>1. f[i - 1] = upTo(i - 1) /\ upTo(i - 1) \in Seq(CanonicalMessage)
    BY <1>4, <1>6
  <2>2. msgs[i] \in CanonicalMessage /\ msgs[i] \in StoredMessage
    BY <1>1, StoredIs
  <2>3. Bodies!normalizeOne(upTo(i - 1), msgs[i]) = Append(upTo(i - 1), msgs[i])
    BY <2>1, <2>2, NormalizedOne
  <2>4. f[i] = Bodies!normalizeOne(f[i - 1], msgs[i])
    BY <1>3
  <2>5. f[i] = Append(upTo(i - 1), msgs[i])
    BY <2>1, <2>3, <2>4
  <2>6. upTo(i) = Append(upTo(i - 1), msgs[i])
    BY <1>4
  <2>7. i \in 0..n
    BY <1>1
  <2> QED
    BY <2>5, <2>6, <2>7
<1> HIDE DEF T
<1>7. \A i \in 0..n : i \in T
  BY <1>1, <1>5, <1>6, UpTo
<1>8. n \in T
  BY <1>1, <1>7
<1> QED
  BY <1>2, <1>4, <1>8 DEF T

-----------------------------------------------------------------------------
(* ModelRequests: the history has messages that are stored.                *)
RequestsIInv == reqHistory \in Seq(StoredMessage)

LEMMA RequestsInit == Bodies!Init => RequestsIInv
BY DEF Bodies!Init, RequestsIInv

LEMMA RequestsStay ==
  ASSUME RequestsIInv, UNCHANGED reqVars
  PROVE  RequestsIInv'
BY DEF RequestsIInv, reqVars

(* Calls with ids of their own make content of an answer.                  *)
LEMMA AskedIsStored ==
  ASSUME NEW asked \in Bodies!Asked
  PROVE  /\ asked \in Seq(RequestCalls) /\ Len(asked) <= 2
         /\ \A i, j \in 1..Len(asked) : asked[i] = asked[j] => i = j
<1>1. PICK n \in 0..2 : asked \in [1..n -> RequestCalls]
  BY DEF Bodies!Asked
<1>2. asked \in Seq(RequestCalls) /\ Len(asked) = n
  BY <1>1
<1>3. \A i, j \in DOMAIN asked : asked[i] = asked[j] => i = j
  BY DEF Bodies!Asked, Bodies!IsInjective
<1> QED
  BY <1>2, <1>3

(* Parts of the same kinds, and of the same calls, for those of a message. *)
LEMMA AlikeIsStored ==
  ASSUME NEW m \in StoredMessage, NEW r \in Seq(BodyPart), Len(r) = Len(m.content),
         \A i \in 1..Len(r) : /\ r[i].kind = m.content[i].kind
                              /\ r[i].kind \in {"tool", "call"} => r[i].call = m.content[i].call
  PROVE  [m EXCEPT !.content = r] \in StoredMessage
<1> DEFINE s == m.content
           new == [m EXCEPT !.content = r]
<1>1. m \in BodyMessage /\ Len(r) = Len(s)
  BY StoredIs
<1>2. new \in BodyMessage /\ new.role = m.role /\ new.content = r
  BY <1>1, OtherContent
<1>3. \A kinds : OnlyKinds(s, kinds) => OnlyKinds(r, kinds)
  BY DEF OnlyKinds
<1>4. OncePerCall(s) => OncePerCall(r)
  BY DEF OncePerCall
<1> HIDE DEF s, new
<1>5. /\ m.role = "user" => OnlyKinds(s, {"text", "image"})
      /\ m.role = "assistant" => /\ OnlyKinds(s, {"text", "reasoning", "tool", "call"})
                                 /\ OncePerCall(s) /\ Len(s) <= 10
      /\ m.role = "tool" => OnlyKinds(s, {"result"})
      /\ m.role \in {"user", "assistant", "tool"}
  BY DEF StoredMessage, s
<1>6. CASE m.role = "user"
  BY <1>2, <1>3, <1>5, <1>6 DEF StoredMessage, new
<1>7. CASE m.role = "assistant"
  BY <1>1, <1>2, <1>3, <1>4, <1>5, <1>7 DEF StoredMessage, new
<1>8. CASE m.role = "tool"
  BY <1>2, <1>3, <1>5, <1>8 DEF StoredMessage, new
<1> QED
  BY <1>5, <1>6, <1>7, <1>8

(* What a run begins with: what an earlier one left unsettled, settled.    *)
AsSettled(p) == IF p.kind = "tool" /\ p.state = "unsettled" THEN [p EXCEPT !.state = "error"] ELSE p
Finalized(m) ==
  IF m.role = "assistant"
  THEN [m EXCEPT !.content = [i \in DOMAIN m.content |-> AsSettled(m.content[i])]] ELSE m

LEMMA SettledPart ==
  ASSUME NEW p \in BodyPart
  PROVE  /\ AsSettled(p) \in BodyPart /\ AsSettled(p).kind = p.kind
         /\ p.kind \in {"tool", "call"} => AsSettled(p).call = p.call
<1>1. CASE p.kind = "tool" /\ p.state = "unsettled"
  <2>1. p \in [kind : {"tool"}, call : RequestCalls, state : Outcomes \cup {"unsettled"}]
    BY <1>1 DEF BodyPart
  <2>2. [p EXCEPT !.state = "error"] \in [kind : {"tool"}, call : RequestCalls, state : Outcomes \cup {"unsettled"}]
    BY <2>1 DEF Outcomes
  <2>3. [p EXCEPT !.state = "error"].kind = p.kind /\ [p EXCEPT !.state = "error"].call = p.call
    BY <2>1
  <2> QED
    BY <1>1, <2>2, <2>3 DEF AsSettled, BodyPart
<1>2. CASE ~(p.kind = "tool" /\ p.state = "unsettled")
  BY <1>2 DEF AsSettled
<1> QED
  BY <1>1, <1>2

LEMMA FinalizedIs ==
  ASSUME NEW m \in StoredMessage
  PROVE  Finalized(m) \in StoredMessage
<1> DEFINE s == m.content
           r == [i \in DOMAIN s |-> AsSettled(s[i])]
<1>1. s \in Seq(BodyPart)
  BY StoredIs
<1>2. Finalized(m) = IF m.role = "assistant" THEN [m EXCEPT !.content = r] ELSE m
  BY DEF Finalized
<1> HIDE DEF s
<1>3. \A i \in 1..Len(s) : s[i] \in BodyPart
  BY <1>1, ElementOfSeq
<1>4. r = [i \in 1..Len(s) |-> AsSettled(s[i])] /\ Len(s) \in Nat
  BY <1>1
<1> HIDE DEF r
<1>5. /\ r \in Seq(BodyPart) /\ Len(r) = Len(s)
      /\ \A i \in 1..Len(s) : r[i] = AsSettled(s[i])
  BY <1>3, <1>4, SettledPart
<1>6. \A i \in 1..Len(r) : /\ r[i].kind = s[i].kind
                           /\ r[i].kind \in {"tool", "call"} => r[i].call = s[i].call
  BY <1>3, <1>5, SettledPart
<1>7. [m EXCEPT !.content = r] \in StoredMessage
  BY <1>5, <1>6, AlikeIsStored DEF s
<1> QED
  BY <1>2, <1>7

LEMMA RequestsStart ==
  ASSUME RequestsIInv, Bodies!StartRun
  PROVE  RequestsIInv'
<1>1. PICK content \in {<<Bodies!Text>>, <<Bodies!Image(TRUE), Bodies!Image(FALSE)>>} :
        reqHistory' = Append([i \in DOMAIN reqHistory |-> Finalized(reqHistory[i])],
                             Bodies!Message("user", content))
  BY DEF Bodies!StartRun, Bodies!MapSeq, Finalized, AsSettled
<1> DEFINE h == [i \in DOMAIN reqHistory |-> Finalized(reqHistory[i])]
           m == Bodies!Message("user", content)
<1>2. h \in Seq(StoredMessage)
  <2>1. Len(reqHistory) \in Nat /\ DOMAIN reqHistory = 1..Len(reqHistory)
    BY DEF RequestsIInv
  <2>2. \A i \in 1..Len(reqHistory) : Finalized(reqHistory[i]) \in StoredMessage
    BY ElementOfSeq, FinalizedIs DEF RequestsIInv
  <2>3. h \in [1..Len(reqHistory) -> StoredMessage]
    BY <2>1, <2>2
  <2> HIDE DEF h
  <2> QED
    BY <2>1, <2>3
<1>3. content \in Seq(BodyPart) /\ OnlyKinds(content, {"text", "image"})
  <2>1. Bodies!Text \in BodyPart /\ Bodies!Text.kind = "text"
    BY DEF Bodies!Text, BodyPart
  <2>2. \A data \in BOOLEAN : Bodies!Image(data) \in BodyPart /\ Bodies!Image(data).kind = "image"
    BY DEF Bodies!Image, BodyPart
  <2>3. CASE content = <<Bodies!Text>>
    BY <2>1, <2>3 DEF OnlyKinds
  <2>4. CASE content = <<Bodies!Image(TRUE), Bodies!Image(FALSE)>>
    <3> DEFINE a == Bodies!Image(TRUE)
               b == Bodies!Image(FALSE)
    <3>1. a \in BodyPart /\ a.kind = "image" /\ b \in BodyPart /\ b.kind = "image"
      BY <2>2
    <3>2. content = <<a, b>>
      BY <2>4
    <3> HIDE DEF a, b
    <3>3. <<a, b>> \in Seq(BodyPart) /\ Len(<<a, b>>) = 2 /\ <<a, b>>[1] = a /\ <<a, b>>[2] = b
      BY <3>1
    <3>4. \A i \in 1..2 : <<a, b>>[i].kind = "image"
      BY <3>1, <3>3
    <3>5. OnlyKinds(<<a, b>>, {"text", "image"})
      BY <3>3, <3>4 DEF OnlyKinds
    <3> QED
      BY <3>2, <3>3, <3>5
  <2> QED
    BY <2>3, <2>4
<1>4. m \in BodyMessage /\ m.role = "user" /\ m.content = content
  BY <1>3, MessageIs
<1> HIDE DEF h, m
<1>5. m \in StoredMessage
  BY <1>3, <1>4 DEF StoredMessage
<1>6. Append(h, m) \in Seq(StoredMessage)
  BY <1>2, <1>5, AppendProperties
<1> QED
  BY <1>1, <1>6 DEF RequestsIInv, h, m

(* An answer: what leads it, and its calls.                                *)
LEMMA LeadIs ==
  ASSUME NEW lead \in Bodies!Leads
  PROVE  lead \in Seq(BodyPart) /\ Len(lead) <= 2 /\ OnlyKinds(lead, {"text", "reasoning"})
<1>1. Bodies!Text \in BodyPart /\ Bodies!Text.kind = "text"
  BY DEF Bodies!Text, BodyPart
<1>2. \A w \in {"responses", "anthropic"} :
        Bodies!Reasoning(w) \in BodyPart /\ Bodies!Reasoning(w).kind = "reasoning"
  BY DEF Bodies!Reasoning, BodyPart
<1> DEFINE a == Bodies!Reasoning("responses")
           b == Bodies!Text
           d == Bodies!Reasoning("anthropic")
<1>3. lead \in {<<>>, <<a, b>>, <<d>>}
  BY DEF Bodies!Leads
<1>4. /\ a \in BodyPart /\ a.kind = "reasoning" /\ b \in BodyPart /\ b.kind = "text"
      /\ d \in BodyPart /\ d.kind = "reasoning"
  BY <1>1, <1>2
<1> HIDE DEF a, b, d
<1>5. CASE lead = <<>>
  BY <1>5 DEF OnlyKinds
<1>6. CASE lead = <<a, b>>
  <2>1. lead \in Seq(BodyPart) /\ Len(lead) = 2 /\ lead[1] = a /\ lead[2] = b
    BY <1>4, <1>6
  <2>2. \A i \in 1..2 : lead[i].kind \in {"text", "reasoning"}
    BY <1>4, <2>1
  <2> QED
    BY <2>1, <2>2 DEF OnlyKinds
<1>7. CASE lead = <<d>>
  <2>1. lead \in Seq(BodyPart) /\ Len(lead) = 1 /\ lead[1] = d
    BY <1>4, <1>7
  <2>2. \A i \in 1..1 : lead[i].kind \in {"text", "reasoning"}
    BY <1>4, <2>1
  <2> QED
    BY <2>1, <2>2 DEF OnlyKinds
<1> QED
  BY <1>3, <1>5, <1>6, <1>7

LEMMA UsesAreStored ==
  ASSUME NEW lead \in Seq(BodyPart), Len(lead) <= 2, OnlyKinds(lead, {"text", "reasoning"}),
         NEW uses \in Seq(BodyPart), Len(uses) <= 2, OnlyKinds(uses, {"tool", "call"}), OncePerCall(uses)
  PROVE  Bodies!Message("assistant", lead \o uses) \in StoredMessage
<1> DEFINE s == lead \o uses
           m == Bodies!Message("assistant", s)
           k == Len(lead)
<1>1. /\ s \in Seq(BodyPart) /\ Len(s) = k + Len(uses) /\ k \in Nat /\ Len(uses) \in Nat
      /\ \A i \in 1..k : s[i] = lead[i]
      /\ \A i \in 1..Len(uses) : s[k + i] = uses[i]
  BY ConcatIs
<1> HIDE DEF s
<1>2. \A i \in 1..k : s[i].kind \in {"text", "reasoning"}
  BY <1>1 DEF OnlyKinds
<1>3. ASSUME NEW i \in 1..Len(s), i \notin 1..k
      PROVE  /\ i - k \in 1..Len(uses) /\ s[i] = uses[i - k]
             /\ s[i].kind \in {"tool", "call"}
  <2>1. i - k \in 1..Len(uses) /\ k + (i - k) = i
    BY <1>1, <1>3
  <2>2. s[i] = uses[i - k]
    BY <1>1, <2>1
  <2> QED
    BY <2>1, <2>2 DEF OnlyKinds
<1> HIDE DEF k
<1>4. OnlyKinds(s, {"text", "reasoning", "tool", "call"})
  <2>1. ASSUME NEW i \in 1..Len(s) PROVE s[i].kind \in {"text", "reasoning", "tool", "call"}
    <3>1. CASE i \in 1..k
      BY <1>2, <3>1
    <3>2. CASE i \notin 1..k
      BY <1>3, <3>2
    <3> QED
      BY <3>1, <3>2
  <2> QED
    BY <2>1 DEF OnlyKinds
<1>5. OncePerCall(s)
  <2> SUFFICES ASSUME NEW i \in 1..Len(s), NEW j \in 1..Len(s),
                      s[i].kind \in {"tool", "call"}, s[j].kind \in {"tool", "call"}, s[i].call = s[j].call
               PROVE  i = j
    BY DEF OncePerCall
  <2>1. i \notin 1..k /\ j \notin 1..k
    BY <1>2
  <2>2. /\ i - k \in 1..Len(uses) /\ s[i] = uses[i - k]
        /\ j - k \in 1..Len(uses) /\ s[j] = uses[j - k]
    BY <1>3, <2>1
  <2>3. i - k = j - k
    BY <2>2 DEF OncePerCall
  <2> QED
    BY <1>1, <2>3
<1>6. Len(s) <= 10
  BY <1>1 DEF k
<1>7. m \in BodyMessage /\ m.role = "assistant" /\ m.content = s
  BY <1>1, MessageIs
<1> HIDE DEF m
<1>8. m \in StoredMessage
  BY <1>4, <1>5, <1>6, <1>7 DEF StoredMessage
<1> QED
  BY <1>8 DEF m, s

LEMMA RequestsAnswered ==
  ASSUME RequestsIInv, Bodies!Answer
  PROVE  RequestsIInv'
<1>1. PICK lead \in Bodies!Leads, asked \in Bodies!Asked :
        reqHistory' = Append(reqHistory,
          Bodies!Message("assistant", lead \o [i \in DOMAIN asked |-> Bodies!Tool(asked[i], "unsettled")]))
  BY DEF Bodies!Answer
<1> DEFINE uses == [i \in DOMAIN asked |-> Bodies!Tool(asked[i], "unsettled")]
           m == Bodies!Message("assistant", lead \o uses)
<1>2. /\ asked \in Seq(RequestCalls) /\ Len(asked) <= 2
      /\ \A i, j \in 1..Len(asked) : asked[i] = asked[j] => i = j
  BY AskedIsStored
<1>3. \A i \in 1..Len(asked) : /\ Bodies!Tool(asked[i], "unsettled") \in BodyPart
                               /\ Bodies!Tool(asked[i], "unsettled").kind = "tool"
                               /\ Bodies!Tool(asked[i], "unsettled").call = asked[i]
  <2>1. \A i \in 1..Len(asked) : asked[i] \in RequestCalls
    BY <1>2, ElementOfSeq
  <2>2. "unsettled" \in Outcomes \cup {"unsettled"}
    OBVIOUS
  <2> QED
    BY <2>1, <2>2, ToolIs
<1>4. uses = [i \in 1..Len(asked) |-> Bodies!Tool(asked[i], "unsettled")] /\ Len(asked) \in Nat
  BY <1>2
<1> HIDE DEF uses
<1>5. /\ uses \in Seq(BodyPart) /\ Len(uses) = Len(asked)
      /\ \A i \in 1..Len(asked) : uses[i].kind = "tool" /\ uses[i].call = asked[i]
  BY <1>3, <1>4
<1>6. OnlyKinds(uses, {"tool", "call"}) /\ OncePerCall(uses) /\ Len(uses) <= 2
  BY <1>2, <1>5 DEF OnlyKinds, OncePerCall
<1>7. lead \in Seq(BodyPart) /\ Len(lead) <= 2 /\ OnlyKinds(lead, {"text", "reasoning"})
  BY LeadIs
<1>8. m \in StoredMessage
  BY <1>5, <1>6, <1>7, UsesAreStored
<1> HIDE DEF m
<1>9. Append(reqHistory, m) \in Seq(StoredMessage)
  BY <1>8, AppendProperties DEF RequestsIInv
<1> QED
  BY <1>1, <1>9 DEF RequestsIInv, m, uses

LEMMA RequestsSettled ==
  ASSUME RequestsIInv, Bodies!ToolSettles
  PROVE  RequestsIInv'
<1> DEFINE n == Len(reqHistory)
           m == reqHistory[n]
<1>1. /\ reqHistory # <<>> /\ m.role = "assistant"
      /\ \E i \in DOMAIN m.content, s \in {"completed", "error"} :
           /\ m.content[i].kind = "tool"
           /\ reqHistory' = [reqHistory EXCEPT ![n].content[i].state = s]
  BY DEF Bodies!ToolSettles, Bodies!LastIsAnswer, Bodies!LastOf
<1>2. n \in 1..Len(reqHistory) /\ m \in StoredMessage
  <2>1. n \in 1..Len(reqHistory)
    BY <1>1 DEF RequestsIInv
  <2> QED
    BY <2>1, ElementOfSeq DEF RequestsIInv
<1>3. PICK i \in DOMAIN m.content, s \in {"completed", "error"} :
        /\ m.content[i].kind = "tool"
        /\ reqHistory' = [reqHistory EXCEPT ![n].content[i].state = s]
  BY <1>1
<1> DEFINE p == m.content[i]
           t == [p EXCEPT !.state = s]
<1>4. m.content \in Seq(BodyPart) /\ i \in 1..Len(m.content)
  BY <1>2, StoredIs
<1>5. p \in BodyPart /\ p.kind = "tool"
  BY <1>3, <1>4, ElementOfSeq
<1>6. reqHistory' = [reqHistory EXCEPT ![n].content[i] = t]
  BY <1>3
<1>7. t \in BodyPart /\ t.kind = "tool" /\ t.call = p.call
  <2> HIDE DEF p
  <2>1. p \in [kind : {"tool"}, call : RequestCalls, state : Outcomes \cup {"unsettled"}]
    BY <1>5 DEF BodyPart
  <2>2. t \in [kind : {"tool"}, call : RequestCalls, state : Outcomes \cup {"unsettled"}]
    BY <2>1 DEF Outcomes
  <2>3. t.kind = "tool" /\ t.call = p.call
    BY <2>1
  <2> QED
    BY <2>2, <2>3 DEF BodyPart
<1> HIDE DEF t
<1>8. m.role = "assistant" /\ m.content[i].kind = "tool" /\ t.call = m.content[i].call
  BY <1>1, <1>3, <1>7
<1> HIDE DEF p
<1>9. [m EXCEPT !.content = [@ EXCEPT ![i] = t]] \in StoredMessage
  <2> HIDE DEF m
  <2> QED
    BY <1>2, <1>4, <1>7, <1>8, ReplacedInMessage
<1>10. [reqHistory EXCEPT ![n].content[i] = t] \in Seq(StoredMessage)
  <2>1. reqHistory \in Seq(StoredMessage)
    BY DEF RequestsIInv
  <2> HIDE DEF n
  <2> QED
    BY <1>2, <1>9, <2>1, ReplacedUse
<1> QED
  BY <1>6, <1>10 DEF RequestsIInv

LEMMA RequestsBegin ==
  ASSUME RequestsIInv, Bodies!AddLegacyTurn
  PROVE  RequestsIInv'
<1>1. PICK asked \in Bodies!Asked \ {<<>>}, answered \in Bodies!Asked, isError \in BOOLEAN :
        reqHistory' = reqHistory \o
          <<Bodies!Message("assistant", [i \in DOMAIN asked |-> Bodies!ToolCall(asked[i])]),
            Bodies!Message("tool", [i \in DOMAIN answered |-> Bodies!ToolResult(answered[i], isError)])>>
  BY DEF Bodies!AddLegacyTurn
<1> DEFINE calls == [i \in DOMAIN asked |-> Bodies!ToolCall(asked[i])]
           results == [i \in DOMAIN answered |-> Bodies!ToolResult(answered[i], isError)]
           a == Bodies!Message("assistant", calls)
           b == Bodies!Message("tool", results)
<1>2. a \in StoredMessage
  <2>1. /\ asked \in Seq(RequestCalls) /\ Len(asked) <= 2
        /\ \A i, j \in 1..Len(asked) : asked[i] = asked[j] => i = j
    BY AskedIsStored
  <2>2. \A i \in 1..Len(asked) : /\ Bodies!ToolCall(asked[i]) \in BodyPart
                                 /\ Bodies!ToolCall(asked[i]).kind = "call"
                                 /\ Bodies!ToolCall(asked[i]).call = asked[i]
    <3> SUFFICES ASSUME NEW i \in 1..Len(asked)
                 PROVE  /\ Bodies!ToolCall(asked[i]) \in BodyPart
                        /\ Bodies!ToolCall(asked[i]).kind = "call"
                        /\ Bodies!ToolCall(asked[i]).call = asked[i]
      OBVIOUS
    <3>1. asked[i] \in RequestCalls
      BY <2>1, ElementOfSeq
    <3> QED
      BY <3>1 DEF Bodies!ToolCall, BodyPart
  <2>3. calls = [i \in 1..Len(asked) |-> Bodies!ToolCall(asked[i])] /\ Len(asked) \in Nat
    BY <2>1
  <2> HIDE DEF calls
  <2>4. /\ calls \in Seq(BodyPart) /\ Len(calls) = Len(asked)
        /\ \A i \in 1..Len(asked) : calls[i].kind = "call" /\ calls[i].call = asked[i]
    BY <2>2, <2>3
  <2>5. OnlyKinds(calls, {"tool", "call"}) /\ OncePerCall(calls) /\ Len(calls) <= 2
    BY <2>1, <2>4 DEF OnlyKinds, OncePerCall
  <2> DEFINE none == <<>>
  <2>6. none \in Seq(BodyPart) /\ Len(none) <= 2 /\ OnlyKinds(none, {"text", "reasoning"})
    BY DEF OnlyKinds
  <2>7. none \o calls = calls
    BY <2>4
  <2> HIDE DEF none
  <2>8. Bodies!Message("assistant", none \o calls) \in StoredMessage
    BY <2>4, <2>5, <2>6, UsesAreStored
  <2> QED
    BY <2>7, <2>8
<1>3. b \in StoredMessage
  <2>1. answered \in Seq(RequestCalls)
    BY AskedIsStored
  <2>2. \A i \in 1..Len(answered) : /\ Bodies!ToolResult(answered[i], isError) \in BodyPart
                                    /\ Bodies!ToolResult(answered[i], isError).kind = "result"
    <3> SUFFICES ASSUME NEW i \in 1..Len(answered)
                 PROVE  /\ Bodies!ToolResult(answered[i], isError) \in BodyPart
                        /\ Bodies!ToolResult(answered[i], isError).kind = "result"
      OBVIOUS
    <3>1. answered[i] \in RequestCalls
      BY <2>1, ElementOfSeq
    <3> QED
      BY <3>1 DEF Bodies!ToolResult, BodyPart
  <2>3. results = [i \in 1..Len(answered) |-> Bodies!ToolResult(answered[i], isError)] /\ Len(answered) \in Nat
    BY <2>1
  <2> HIDE DEF results
  <2>4. /\ results \in Seq(BodyPart) /\ Len(results) = Len(answered)
        /\ \A i \in 1..Len(answered) : results[i].kind = "result"
    BY <2>2, <2>3
  <2>5. OnlyKinds(results, {"result"})
    BY <2>4 DEF OnlyKinds
  <2>6. b \in BodyMessage /\ b.role = "tool" /\ b.content = results
    BY <2>4, MessageIs
  <2> HIDE DEF b
  <2> QED
    BY <2>5, <2>6 DEF StoredMessage
<1>4. reqHistory' = reqHistory \o <<a, b>>
  BY <1>1
<1> HIDE DEF a, b
<1>5. <<a, b>> \in Seq(StoredMessage)
  BY <1>2, <1>3
<1>6. reqHistory \o <<a, b>> \in Seq(StoredMessage)
  BY <1>5, ConcatIs DEF RequestsIInv
<1> QED
  BY <1>4, <1>6 DEF RequestsIInv

LEMMA RequestsLoaded ==
  ASSUME RequestsIInv, Bodies!Hydrate
  PROVE  RequestsIInv'
<1>1. reqHistory' = Bodies!NormalizeMessages(reqHistory)
  BY DEF Bodies!Hydrate
<1>2. reqHistory' \in Seq(CanonicalMessage)
  BY <1>1, NormalIsCanonical DEF RequestsIInv
<1>3. \A i \in 1..Len(reqHistory') : reqHistory'[i] \in StoredMessage
  BY <1>2, ElementOfSeq, StoredIs
<1>4. Len(reqHistory') \in Nat /\ reqHistory' \in [1..Len(reqHistory') -> StoredMessage]
  BY <1>2, <1>3
<1> QED
  BY <1>4 DEF RequestsIInv

LEMMA RequestsStep ==
  ASSUME RequestsIInv, Bodies!Next
  PROVE  RequestsIInv'
BY RequestsStart, RequestsAnswered, RequestsSettled, RequestsBegin, RequestsLoaded DEF Bodies!Next

(* What every provider is sent.                                            *)
LEMMA RequestsSafe ==
  ASSUME RequestAssumption, RequestsIInv
  PROVE  Bodies!CallsAreAnswered
<1> DEFINE n == Bodies!NormalizeMessages(reqHistory)
           settled == [c \in RequestCalls |-> Bodies!Cardinality(Bodies!Settled(n, c))]
<1>1. n \in Seq(CanonicalMessage)
  BY NormalIsCanonical DEF RequestsIInv
<1>2. Bodies!NormalizeMessages(n) = n
  BY <1>1, NormalOnce
<1>3. ASSUME NEW p \in RequestProtocols, NEW c \in RequestCalls
      PROVE  /\ Bodies!Cardinality(Bodies!At(Bodies!Body(p, reqHistory), "call", c)) = settled[c]
             /\ Bodies!Cardinality(Bodies!At(Bodies!Body(p, reqHistory), "call", c))
                  = Bodies!Cardinality(Bodies!At(Bodies!Body(p, reqHistory), "result", c))
             /\ \A i \in Bodies!At(Bodies!Body(p, reqHistory), "call", c) :
                  \E j \in Bodies!At(Bodies!Body(p, reqHistory), "result", c) :
                    /\ i < j
                    /\ \A k \in i..j : Bodies!Body(p, reqHistory)[k].item.kind \in {"call", "result"}
                    /\ \A k \in (i + 1)..(j - 1) : k \notin Bodies!At(Bodies!Body(p, reqHistory), "result", c)
  <2> DEFINE sent == Bodies!Body(p, reqHistory)
  <2>1. sent = Lowered(p, Bodies!ExpandToolMessages(n))
    BY BodyIs
  <2>2. Matched(sent, n, c)
    BY <1>1, <2>1, SentAreMatched
  <2>3. Bodies!Settled(n, c) = SettledUses(n, c)
    BY <1>1, SettledAre
  <2> HIDE DEF n, sent
  <2>4. settled[c] = Bodies!Cardinality(SettledUses(n, c))
    BY <2>3
  <2> HIDE DEF settled
  <2>5. /\ Bodies!Cardinality(Bodies!At(sent, "call", c)) = settled[c]
        /\ Bodies!Cardinality(Bodies!At(sent, "call", c))
             = Bodies!Cardinality(Bodies!At(sent, "result", c))
        /\ AllAnswered(sent, c)
    BY <2>2, <2>4, BodiesCardinality DEF Matched
  <2>6. ASSUME NEW k \in Bodies!At(sent, "result", c)
        PROVE  sent[k].item.kind = "result" /\ sent[k].item.call = c
    BY <2>6 DEF Bodies!At
  <2>7. ASSUME NEW i \in Bodies!At(sent, "call", c), NEW j \in Bodies!At(sent, "result", c),
               ResultFor(sent, c, i, j)
        PROVE  /\ i < j
               /\ \A k \in i..j : sent[k].item.kind \in {"call", "result"}
               /\ \A k \in (i + 1)..(j - 1) : k \notin Bodies!At(sent, "result", c)
    BY <2>6, <2>7 DEF ResultFor
  <2>8. \A i \in Bodies!At(sent, "call", c) : \E j \in Bodies!At(sent, "result", c) : ResultFor(sent, c, i, j)
    BY <2>5 DEF AllAnswered
  <2> QED
    BY <2>5, <2>7, <2>8 DEF sent
<1> HIDE DEF n, settled
<1> QED
  BY <1>2, <1>3 DEF Bodies!CallsAreAnswered, n, settled
=============================================================================
