--------------------------- MODULE AnalysisPromise ---------------------------
(***************************************************************************)
(* What a dataflow analysis of the borrow checker promises its caller: one *)
(* step from no answer to an answer that is correct for the body it was    *)
(* given, after which neither changes.  How the answer is found, and in    *)
(* how many turns of which worklist, is the detailed module's business.    *)
(***************************************************************************)
CONSTANTS
    Inputs,
    Correct(_, _)     \* Correct(input, answer)

VARIABLES input, result

NotYet == <<>>

Init == input \in Inputs /\ result = NotYet

Answer ==
    /\ result = NotYet
    /\ Correct(input, result')
    /\ UNCHANGED input

Spec == Init /\ [][Answer]_<<input, result>>
=============================================================================
