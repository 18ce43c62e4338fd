---------------------------- MODULE MCFileTools -----------------------------
(* FileTools for TLC: two edits of one file, each of a line of its own.      *)
EXTENDS FileTools

Line(text) == [text |-> <<text>>, nl |-> TRUE]

TwoLines == {[p \in {"f", "g"} |-> IF p = "f" THEN <<Line("x"), Line("y")>> ELSE None]}

Edit(old, new) == [tool |-> "edit", path |-> "f", old |-> <<old>>, new |-> <<new>>, all |-> FALSE]

TwoEdits == {<<Edit("x", "a"), Edit("y", "b")>>}
=============================================================================
