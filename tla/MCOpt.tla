-------------------------------- MODULE MCOpt ---------------------------------
(* Small bodies for Opt.tla: three blocks, the return place, one argument and   *)
(* one temporary.                                                               *)
EXTENDS Opt

Const(v) == [kind |-> "const", value |-> v]
Whole(l) == [kind |-> "read", local |-> l, field |-> FALSE]
Field(l) == [kind |-> "read", local |-> l, field |-> TRUE]
Set(l, kind, ops) == [local |-> l, field |-> FALSE, rv |-> [kind |-> kind, ops |-> ops]]
Term(kind, op, dest, targets, cleanup) ==
    [kind |-> kind, op |-> op, dest |-> dest, targets |-> targets, cleanup |-> cleanup]

\* Constants, copies, folds and the reads that dce does not count.
MCStmts ==
    {<<>>,
     <<Set(2, "use", <<Const(1)>>)>>,
     <<Set(2, "and", <<Whole(1), Whole(1)>>), Set(0, "and", <<Whole(2), Const(1)>>)>>,
     <<Set(2, "not", <<Whole(2)>>)>>,
     <<Set(0, "use", <<Field(2)>>), [Set(2, "use", <<Const(0)>>) EXCEPT !.field = TRUE]>>,
     <<Set(0, "use", <<Const(0)>>), Set(2, "inspect", <<Whole(1)>>)>>,
     <<Set(2, "add", <<Const(1), Whole(1)>>), Set(0, "less", <<Whole(1), Whole(2)>>)>>,
     <<Set(2, "add", <<Const(2), Const(2)>>), Set(0, "div", <<Whole(2), Const(2)>>)>>,
     <<Set(2, "add", <<Const(1), Const(1)>>), Set(0, "div", <<Whole(2), Const(2)>>)>>,
     <<Set(0, "div", <<Const(1), Const(0)>>), Set(2, "use", <<Whole(1)>>)>>,
     <<Set(2, "narrow", <<Const(1)>>)>>, <<Set(2, "narrow", <<Const(2)>>)>>, <<Set(2, "repeat", <<Const(0)>>)>>}

Folding ==
    {<<>>,
     <<Set(2, "and", <<Whole(1), Whole(1)>>), Set(0, "and", <<Whole(2), Const(1)>>)>>,
     <<Set(2, "not", <<Whole(2)>>)>>,
     <<Set(0, "use", <<Field(2)>>), [Set(2, "use", <<Const(0)>>) EXCEPT !.field = TRUE]>>}

Reading == {<<>>, <<Set(0, "use", <<Whole(2)>>)>>}

MCTerms ==
    {Term("goto", Const(0), 0, <<2>>, <<>>),
     Term("switch", Whole(1), 0, <<2, 3>>, <<>>), Term("switch", Whole(2), 0, <<3, 3>>, <<>>),
     Term("call", Whole(2), 2, <<2>>, <<>>), Term("call", Whole(1), 2, <<2>>, <<3>>),
     Term("assert", Whole(1), 0, <<2>>, <<3>>), Term("drop", Whole(2), 0, <<3>>, <<>>)}

Ending ==
    {Term("return", Const(0), 0, <<>>, <<>>)} \cup {Term("goto", Const(0), 0, <<i>>, <<>>) : i \in 1..3}

Block(stmts, term) == [stmts |-> stmts, term |-> term]

MCBodies ==
    {<<Block(s1, t1), Block(s2, t2), Block(s3, t3)>> :
        s1 \in MCStmts, s2 \in Folding, s3 \in Reading, t1 \in MCTerms, t2, t3 \in Ending}
==============================================================================
