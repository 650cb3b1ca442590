------------------------------ MODULE MCMethods ------------------------------
(* Constants for model checking Methods. *)
EXTENDS Methods

MCFile(fn, text) == [fn |-> fn, text |-> text]

\* Files of equal texts under different names, and one that cannot be read.
MCFileLists ==
  LET F == {MCFile(fn, text) : fn \in {"f", "g"}, text \in {"bad", "good", "none"}}
  IN UNION {[1 .. n -> F] : n \in 0 .. 2}

\* A package in the root, one in a directory of it, and a file.
MCPaths == {"a", "a/b", "c"}
MCDirOf == [p \in MCPaths |-> IF p = "a/b" THEN "a" ELSE "root"]
MCGoFiles ==
  [p \in MCPaths \cup {"root"} |->
     CASE p = "root" -> {} [] p = "a" -> {"ideal", "main", "other"}
       [] p = "a/b" -> {"like ideal", "main", "other"} [] OTHER -> {"other"}]

\* Trees with a directory whose files disagree.
MCGoFile(dir, name, ok) == [dir |-> dir, name |-> name, ok |-> ok]
MCTrees ==
  {<<>>, <<MCGoFile("p", "main", TRUE)>>,
   <<MCGoFile("p", "p", FALSE), MCGoFile("p", "main", TRUE), MCGoFile("p", "p", TRUE)>>,
   <<MCGoFile("p", "p", TRUE), MCGoFile("p", "main", TRUE), MCGoFile("q", "q", TRUE)>>,
   <<MCGoFile("p", "main", TRUE), MCGoFile("q", "p", TRUE), MCGoFile("p", "p", TRUE)>>}

\* One call that edits declarations of every shape, and calls that all want packages.
MCSpecs == UNION {[1 .. n -> {"x", "y", "C"}] : n \in 0 .. 2}
MCEdit(decls, add, del) ==
  [decls |-> decls, parses |-> TRUE, add |-> add, del |-> del, autoinst |-> FALSE]
MCNoEdit == MCEdit(<<>>, {}, {})
MCWant   == [MCEdit(<<<<"x", "C">>>>, {"y"}, {}) EXCEPT !.autoinst = TRUE]
MCToggles ==
  {[c \in ImportCalls |-> IF c = 1 THEN MCEdit(decls, add, del) ELSE MCNoEdit] :
     decls \in UNION {[1 .. n -> MCSpecs] : n \in 0 .. 2},
     add \in SUBSET {"x", "y"}, del \in SUBSET {"x", "y"}}
  \cup {[c \in ImportCalls |-> MCWant],
        [c \in ImportCalls |-> IF c = 1 THEN [MCWant EXCEPT !.parses = FALSE] ELSE MCWant]}
=============================================================================
