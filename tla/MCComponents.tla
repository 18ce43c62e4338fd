---------------------------- MODULE MCComponents ----------------------------
(***************************************************************************)
(* Values for the constants of Components that are functions, or sets of   *)
(* records.                                                                *)
(***************************************************************************)
EXTENDS Components, TLC

(* two ports: p3 is not managed and shares the port of p1, which a client  *)
(* may still know                                                          *)
Ports == [p \in {"p1", "p2", "p3"} |-> IF p = "p2" THEN 2 ELSE 1]
Versions == [p \in {"p1", "p2", "p3"} |-> IF p = "p2" THEN "new" ELSE "old"]

(* a release, and two later builds that differ in the migration they add *)
Embedded == [p \in {"p1", "p2", "p3"} |->
  <<"a", "b">> \o CASE p = "p1" -> <<>> [] p = "p2" -> <<"c">> [] p = "p3" -> <<"d">>]
Histories == {<<"">>, <<"a">>, <<"", "">>, <<"x">>, <<"", "x">>}

(* the configurations of an agent, and the calls that they are asked about *)
Rule(action, resource, effect) == [action |-> action, resource |-> resource, effect |-> effect]
UnderA == <<"a", "*">>
Forms ==
  {[kind |-> "effect", effect |-> e] : e \in {"ask", "bad"}}
  \cup {[kind |-> "array", rules |-> <<Rule(a, r, e)>>] :
          a \in {<<"e">>, <<"w">>}, r \in {<<>>, UnderA}, e \in {"deny", "ask", "allow"}}
  \cup {[kind |-> "object", actions |-> <<[action |-> <<"e">>, resources |->
            <<[resource |-> <<"*">>, effect |-> e], [resource |-> UnderA, effect |-> f]>>]>>] :
          e, f \in {"ask", "allow", "deny"}}
CheckedCalls ==
  {[action |-> <<"e">>, resources |-> rs] :
     rs \in {<<>>, <<<<"a">>>>, <<<<"a">>, <<"b">>>>, <<<<"b">>, <<"a", "b">>, <<"a">>>>,
            <<<<"a", "*", "b">>>>}}

(* trees of files of one or two lines, patches and edits of them *)
Line(text, nl) == [text |-> <<text>>, nl |-> nl]
Trees ==
  {[p \in {"f", "g", "h", "out"} |->
      CASE p = "f" -> <<Line("x", TRUE), Line("y", TRUE)>> [] p = "g" -> <<Line("x", FALSE)>>
        [] OTHER -> None],
   [p \in {"f", "g", "h", "out"} |->
      CASE p = "f" -> <<Line("y", TRUE), Line("x", TRUE), Line("x", TRUE)>> [] p = "h" -> <<>>
        [] OTHER -> None]}
Header(op, path) == [op |-> op, path |-> path, text |-> <<>>]
Diff(op, text) == [op |-> op, path |-> None, text |-> <<text>>]
ReplaceX == <<Header("update", "f"), Diff("-", "x"), Diff("+", "z")>>
Patches ==
  {ReplaceX \o <<Header("add", "h"), Diff("+", "y")>>,
   <<Header("update", "f"), Header("move", "g"), Diff(" ", "x"), Diff("+", "z"), Header("delete", "f")>>,
   <<Header("update", "f"), Diff("@@", "y"), Diff("+", "z"),
     Header("update", "g"), Header("move", "g"), Diff("-", "x")>>,
   <<Header("add", "h"), Diff("-", "x")>>,
   <<Header("delete", "g"), Header("move", "h")>>,
   <<Header("add", "out"), Diff("+", "y")>>,
   <<Header("delete", "g"), Header("add", "g"), Diff("+", "w")>>}
Patch(lines) == [tool |-> "apply_patch", lines |-> lines]
Edit(path, old, new) == [tool |-> "edit", path |-> path, old |-> <<old>>, new |-> <<new>>, all |-> FALSE]
Write(path) == [tool |-> "write", path |-> path, text |-> <<Line("w", TRUE)>>]
Batches ==
  {<<Patch(lines)>> : lines \in Patches}
  \cup {<<Edit("f", "x", "a"), Edit("f", "y", "b")>>, <<Edit("f", "x", "a"), Edit("g", "x", "b")>>,
        <<Edit("f", "x", "a"), Write("f")>>, <<Patch(ReplaceX), Edit("f", "y", "b")>>,
        <<Patch(<<Header("delete", "g")>>), Patch(<<Header("delete", "g"), Header("add", "h")>>)>>,
        <<Write("out")>>}

(* the ids of the calls are interchangeable *)
CallSymmetry == Permutations(RequestCalls)
=============================================================================
