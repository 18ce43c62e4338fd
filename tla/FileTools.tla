----------------------------- MODULE FileTools -------------------------------
(***************************************************************************)
(* The tools of one turn that change files: edit, write and apply_patch    *)
(* (tool/edit.go, write.go, apply_patch.go), each with the reads and the   *)
(* writes it makes, in sequence or side by side as the run dispatches the  *)
(* batch, over files that fail.                                            *)
(*                                                                         *)
(* A file is a sequence of lines, [text, nl]; the last may lack its end.   *)
(* A text is a sequence of words, so that two lines can run together.      *)
(***************************************************************************)
EXTENDS Naturals, Sequences, FiniteSets, FiniteSetsExt, SequencesExt

CONSTANTS Batches,    \* bound: the calls of a turn, a sequence of them
          Trees,      \* bound: the files there are before
          Outside,    \* the paths that are not under the working directory
          MaxFaults,  \* bound: calls of the file system that fail
          None

VARIABLES mode,       \* of the batch: "sequential" or "parallel"
          batch, before,
          files,      \* path -> content, or None
          call,       \* of each call: [at, checked, sections, next, text, answer]
          faults, cancelled

toolVars == <<mode, batch, before, files, call, faults, cancelled>>

Idle == [at |-> "called", checked |-> {}, sections |-> <<>>, next |-> 1, text |-> <<>>, answer |-> None]

\* None of these tools declares itself sequential; another call of the batch may.
Init ==
  /\ mode \in {"sequential", "parallel"} /\ batch \in Batches /\ before \in Trees
  /\ files = before
  /\ call = [c \in DOMAIN batch |-> Idle]
  /\ faults = 0 /\ cancelled = FALSE

-----------------------------------------------------------------------------
(* Texts. *)

\* The lines as the file holds them: one without an end takes in what follows it.
Written(lines) ==
  LET write(out, line) ==
        IF out # <<>> /\ ~Last(out).nl
        THEN Append(Front(out), [text |-> Last(out).text \o line.text, nl |-> line.nl])
        ELSE Append(out, [text |-> line.text, nl |-> line.nl])
      written[n \in 0..Len(lines)] ==
        IF n = 0 THEN <<>> ELSE write(written[n - 1], lines[n])
  IN written[Len(lines)]

\* The first line after pos that has the text, or 0.
findLine(lines, pos, text) ==
  LET found == {i \in pos + 1..Len(lines) : lines[i].text = text}
  IN IF found = {} THEN 0 ELSE Min(found)

\* The lines of a section applied to a file: [ok, out, pos], where each line of out
\* says which line of the file it is, and 0 says that it is new.
applyUpdateLines(old, patchLines) ==
  LET kept(from, to) == [i \in 1..to - from + 1 |->
                          [text |-> old[from + i - 1].text, nl |-> old[from + i - 1].nl, from |-> from + i - 1]]
      step(acc, line) ==
        LET idx == findLine(old, acc.pos, line.text)
        IN IF ~acc.ok \/ (line.op = "@@" /\ line.text = <<>>) THEN acc
           ELSE IF line.op = "+"
           THEN [acc EXCEPT !.out = Append(@, [text |-> line.text, nl |-> TRUE, from |-> 0])]
           ELSE IF idx = 0 \/ line.op \notin {"@@", "-", " "} THEN [acc EXCEPT !.ok = FALSE]
           ELSE [acc EXCEPT !.pos = idx,
                            !.out = @ \o kept(acc.pos + 1, IF line.op = "-" THEN idx - 1 ELSE idx)]
      applied[n \in 0..Len(patchLines)] ==
        IF n = 0 THEN [ok |-> TRUE, out |-> <<>>, pos |-> 0]
        ELSE step(applied[n - 1], patchLines[n])
      end == applied[Len(patchLines)]
  IN [end EXCEPT !.out = @ \o kept(end.pos + 1, Len(old))]

-----------------------------------------------------------------------------
(* Patches. *)

\* A patch is a sequence of lines, [op, path, text]; None when it does not parse.
parsePatchSections(lines) ==
  LET section(line) == [type |-> line.op, path |-> line.path, move |-> None, lines |-> <<>>]
      step(acc, line) ==
        IF acc = None THEN None
        ELSE IF line.op \in {"add", "delete", "update"} THEN Append(acc, section(line))
        ELSE IF acc = <<>> \/ (line.op = "move" /\ Last(acc).type # "update") THEN None
        ELSE Append(Front(acc),
                    IF line.op = "move" THEN [Last(acc) EXCEPT !.move = line.path]
                    ELSE [Last(acc) EXCEPT !.lines = Append(@, [op |-> line.op, text |-> line.text])])
      sections[n \in 0..Len(lines)] ==
        IF n = 0 THEN <<>> ELSE step(sections[n - 1], lines[n])
  IN IF sections[Len(lines)] = <<>> THEN None ELSE sections[Len(lines)]

\* The files a section names, which are the resources of the call.
PathsOf(section) == {section.path, section.move} \ {None}

\* What a section verifies before it writes: [ok, text].
Verified(section, tree) ==
  LET old == tree[section.path]
      updated == applyUpdateLines(old, section.lines)
  IN CASE section.type = "add" ->
            [ok |-> old = None /\ \A i \in DOMAIN section.lines : section.lines[i].op = "+",
             text |-> [i \in DOMAIN section.lines |-> [text |-> section.lines[i].text, nl |-> TRUE]]]
       [] section.type = "delete" -> [ok |-> old # None, text |-> <<>>]
       [] section.type = "update" ->
            IF old = None THEN [ok |-> FALSE, text |-> <<>>]
            ELSE [ok |-> updated.ok, text |-> Written(updated.out)]

\* edit replaces its string, which has to be there once unless it replaces all.
Edited(work, old) ==
  LET found == {i \in DOMAIN old : old[i].text = work.old}
  IN [ok |-> found # {} /\ (work.all \/ Cardinality(found) = 1),
      text |-> [i \in DOMAIN old |-> IF i \in found THEN [old[i] EXCEPT !.text = work.new] ELSE old[i]]]

-----------------------------------------------------------------------------
(* The calls.  *)

\* In sequence a call begins when the one before it has been answered.
MayStep(c) ==
  /\ call[c].answer = None
  /\ mode = "sequential" => \A d \in 1..c - 1 : call[d].answer # None

Set(c, state) == call' = [call EXCEPT ![c] = state]
Fails(c) == Set(c, [call[c] EXCEPT !.answer = "error"])

\* apply_patch derives its resources from the patch; the other two name a path.
Permission(c) ==
  LET work == batch[c]
      sections == IF work.tool = "apply_patch" THEN parsePatchSections(work.lines) ELSE <<>>
      paths == IF work.tool = "apply_patch" /\ sections # None
               THEN UNION {PathsOf(sections[i]) : i \in DOMAIN sections}
               ELSE IF work.tool = "apply_patch" THEN {} ELSE {work.path}
  IN /\ MayStep(c) /\ call[c].at = "called"
     /\ IF sections = None \/ paths \cap Outside # {} THEN Fails(c)
        ELSE Set(c, [call[c] EXCEPT !.at = "read", !.checked = paths, !.sections = sections])
     /\ UNCHANGED <<mode, batch, before, files, faults, cancelled>>

\* edit and write: what is there is read, then it is written over.
Read(c) ==
  LET work == batch[c]
      old == files[work.path]
      edited == IF work.tool = "write" THEN [ok |-> TRUE, text |-> work.text]
                ELSE IF old = None THEN [ok |-> FALSE, text |-> <<>>] ELSE Edited(work, old)
  IN /\ MayStep(c) /\ call[c].at = "read" /\ work.tool # "apply_patch"
     /\ IF cancelled \/ ~edited.ok THEN Fails(c)
        ELSE Set(c, [call[c] EXCEPT !.at = "write", !.text = edited.text])
     /\ UNCHANGED <<mode, batch, before, files, faults, cancelled>>

\* apply_patch: the next section is verified, when those before it have been applied.
Section(c) ==
  LET section == call[c].sections[call[c].next]
      verified == Verified(section, files)
  IN /\ MayStep(c) /\ call[c].at = "read" /\ batch[c].tool = "apply_patch"
     /\ IF call[c].next > Len(call[c].sections) THEN Set(c, [call[c] EXCEPT !.answer = "ok"])
        ELSE IF cancelled \/ ~verified.ok THEN Fails(c)
        ELSE Set(c, [call[c] EXCEPT !.text = verified.text,
                                    !.at = IF section.type = "delete" THEN "remove" ELSE "write"])
     /\ UNCHANGED <<mode, batch, before, files, faults, cancelled>>

Target(c) ==
  IF batch[c].tool # "apply_patch" THEN batch[c].path
  ELSE LET section == call[c].sections[call[c].next]
       IN IF call[c].at = "move" THEN section.move ELSE section.path

\* Where a call goes on from a write or a remove that succeeded.
After(c) ==
  IF batch[c].tool # "apply_patch" THEN [call[c] EXCEPT !.answer = "ok"]
  ELSE LET moves == call[c].sections[call[c].next].move # None
       IN IF call[c].at = "write" /\ moves THEN [call[c] EXCEPT !.at = "move"]
          ELSE IF call[c].at = "move" THEN [call[c] EXCEPT !.at = "remove"]
          ELSE [call[c] EXCEPT !.at = "read", !.next = @ + 1]

\* os.WriteFile, which empties the file before it can fail.
WriteFile(c) ==
  /\ MayStep(c) /\ call[c].at \in {"write", "move"}
  /\ \/ /\ files' = [files EXCEPT ![Target(c)] = call[c].text]
        /\ Set(c, After(c)) /\ UNCHANGED faults
     \/ /\ faults < MaxFaults /\ faults' = faults + 1
        /\ files' \in {files, [files EXCEPT ![Target(c)] = <<>>]}
        /\ Fails(c)
  /\ UNCHANGED <<mode, batch, before, cancelled>>

RemoveFile(c) ==
  /\ MayStep(c) /\ call[c].at = "remove"
  /\ IF files[Target(c)] = None THEN Fails(c) /\ UNCHANGED <<files, faults>>
     ELSE \/ /\ files' = [files EXCEPT ![Target(c)] = None]
             /\ Set(c, After(c)) /\ UNCHANGED faults
          \/ /\ faults < MaxFaults /\ faults' = faults + 1 /\ UNCHANGED files
             /\ Fails(c)
  /\ UNCHANGED <<mode, batch, before, cancelled>>

Cancel ==
  /\ ~cancelled /\ cancelled' = TRUE
  /\ UNCHANGED <<mode, batch, before, files, call, faults>>

Next ==
  \/ \E c \in DOMAIN batch : Permission(c) \/ Read(c) \/ Section(c) \/ WriteFile(c) \/ RemoveFile(c)
  \/ Cancel

Spec == Init /\ [][Next]_toolVars

-----------------------------------------------------------------------------
(* What a call says that it does. *)

Applied(tree, section) ==
  LET text == Verified(section, tree).text
  IN IF section.type = "delete" THEN [tree EXCEPT ![section.path] = None]
     ELSE IF section.move = None THEN [tree EXCEPT ![section.path] = text]
     ELSE [tree EXCEPT ![section.path] = None, ![section.move] = text]

\* The files after each of the sections.
Patched(tree, sections) ==
  LET after[n \in 0..Len(sections)] ==
        IF n = 0 THEN tree ELSE Applied(after[n - 1], sections[n])
  IN after

Effect(tree, work) ==
  CASE work.tool = "write" -> [tree EXCEPT ![work.path] = work.text]
    [] work.tool = "edit" ->
         IF tree[work.path] = None THEN tree ELSE [tree EXCEPT ![work.path] = Edited(work, @).text]
    [] work.tool = "apply_patch" ->
         LET sections == parsePatchSections(work.lines)
         IN IF sections = None THEN tree ELSE Patched(tree, sections)[Len(sections)]

(* The one patch that does not do what it says has a section that moves its *)
(* file onto itself: the text is written, written again and then removed,   *)
(* and the call succeeds.                                                   *)
MovesAway(work) ==
  LET sections == parsePatchSections(work.lines)
  IN work.tool = "apply_patch" /\ sections # None =>
       \A i \in DOMAIN sections : sections[i].move # sections[i].path
AllMoveAway == \A c \in DOMAIN batch : MovesAway(batch[c])

Succeeded == {c \in DOMAIN batch : call[c].answer = "ok"}
AllAnswered == \A c \in DOMAIN batch : call[c].answer # None

\* The files after each of the calls of the batch, one after the other.
Served(order) ==
  LET after[n \in 0..Len(batch)] ==
        IF n = 0 THEN before ELSE Effect(after[n - 1], batch[order[n]])
  IN after

Serial ==
  \E order \in [DOMAIN batch -> DOMAIN batch] :
    IsInjective(order) /\ files = Served(order)[Len(batch)]

(* Calls that have all succeeded leave what they leave one after the other *)
(* (Execute of edit, write and apply_patch): what tool.go:36 asks of tools *)
(* that mutate the file system.                                            *)
NoEditIsLost == AllAnswered /\ Succeeded = DOMAIN batch => Serial

(* ... which they do in sequence, and side by side on files of their own,  *)
(* if no patch moves a file onto itself.  Side by side on one file they do  *)
(* not: what one has read the other may have changed.                      *)
SuccessIsSerial ==
  /\ AllMoveAway
  /\ \/ mode = "sequential"
     \/ \A c, d \in DOMAIN batch : c # d => call[c].checked \cap call[d].checked = {}
  => NoEditIsLost

(* Only files that the call was checked for are changed, also when it      *)
(* fails half-way, and then the sections before the one that failed have   *)
(* been applied, if none moves a file onto itself (applyPatchSection,      *)
(* Permission).                                                            *)
ChangedIsChecked ==
  /\ \A p \in DOMAIN files : files[p] # before[p] => \E c \in DOMAIN batch : p \in call[c].checked
  /\ AllMoveAway /\ Len(batch) = 1 /\ batch[1].tool = "apply_patch" =>
       LET applied == Patched(before, call[1].sections)[call[1].next - 1]
           current == IF call[1].next > Len(call[1].sections) THEN {}
                      ELSE PathsOf(call[1].sections[call[1].next])
       IN \A p \in DOMAIN files \ current : files[p] = applied[p]

(* A patch keeps the lines it does not remove, each once and in order      *)
(* (applyUpdateLines, findLine).                                           *)
RestIsKept ==
  \A c \in DOMAIN batch : call[c].at = "read" /\ call[c].next <= Len(call[c].sections) =>
    LET section == call[c].sections[call[c].next]
        old == files[section.path]
        updated == applyUpdateLines(old, section.lines)
        kept == {i \in 1..Len(updated.out) : updated.out[i].from # 0}
        removed == {i \in 1..Len(section.lines) : section.lines[i].op = "-"}
    IN section.type = "update" /\ old # None /\ updated.ok =>
         /\ \A i \in kept : updated.out[i].text = old[updated.out[i].from].text
         /\ \A i, j \in kept : i < j => updated.out[i].from < updated.out[j].from
         /\ Cardinality(kept) = Len(old) - Cardinality(removed)

FilesAreWhole == SuccessIsSerial /\ ChangedIsChecked /\ RestIsKept
=============================================================================
