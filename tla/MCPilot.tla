------------------------------ MODULE MCPilot ------------------------------
(***************************************************************************)
(* Three streams in a chain and one provider with one slot; each stream    *)
(* can have one turn, so that it has a session to be marked as merged.     *)
(***************************************************************************)
EXTENDS Pilot

MCStreams == {"s1", "s2", "s3"}

MCUpstream == [s \in MCStreams |-> CASE s = "s1" -> {} [] s = "s2" -> {"s1"} [] s = "s3" -> {"s2"}]

MCMain == [f \in {"a.rs"} |-> "clean"]

MCBlocks == [s \in MCStreams |-> {[kind |-> "plain", ops |-> <<>>]}]

MCMaxConcurrent == [p \in {"p1"} |-> 1]
=============================================================================
