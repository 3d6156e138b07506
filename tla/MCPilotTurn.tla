---------------------------- MODULE MCPilotTurn ----------------------------
(***************************************************************************)
(* One stream and two tasks, so that a message can arrive while a turn is  *)
(* under way.  Two files: a.rs is in main and holds a locked interface.    *)
(* The blocks cover the branches of a turn: a commit that needs the format *)
(* fix, one that puts a banned pattern into another file, and blocks whose *)
(* second operation fails unless the first commit went through.            *)
(***************************************************************************)
EXTENDS PilotTurn

MCFiles == {"a.rs", "b.rs"}

MCMain == [f \in MCFiles |-> IF f = "a.rs" THEN "clean" ELSE "absent"]

Write(f, c) == [op |-> "write", path |-> f, content |-> c]

Replace(f, old, new) == [op |-> "replace", path |-> f, find |-> old, content |-> new]

Delete(f) == [op |-> "delete", path |-> f]

Block(kind, ops) == [kind |-> kind, ops |-> ops]

MCBlocks == [s \in {"s1"} |-> {
    Block("commit", <<Write("b.rs", "unformatted")>>),
    Block("commit", <<Write("a.rs", "banned"), Replace("b.rs", "clean", "clean")>>),
    Block("plain", <<Delete("a.rs"), Delete("b.rs")>>),
    Block("approved", <<>>), Block("done", <<>>), Block("incomplete", <<>>), Block("garbled", <<>>)}]
=============================================================================
