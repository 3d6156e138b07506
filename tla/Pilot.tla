------------------------------- MODULE Pilot -------------------------------
(***************************************************************************)
(* The pilot as a whole: the server of PilotTurn, the browser extension,   *)
(* and the agent commands (cli/agent.rs), which are processes of their own *)
(* that read the server's state file and post to its HTTP port.            *)
(*                                                                         *)
(* Streams depend on one another (streams.json); compute_waves sorts them  *)
(* into waves, and `agent wave --next` starts the first wave that has a    *)
(* stream whose pull request is not marked as merged.                      *)
(***************************************************************************)
EXTENDS PilotTurn, FiniteSetsExt

CONSTANTS
    Upstream,       \* stream -> the streams it depends on
    Providers,
    MaxConcurrent,  \* provider -> its slots
    MaxWaves        \* bound: how often `agent wave --next` is run

ASSUME WaveConstants ==
    /\ IsFiniteSet(Streams) /\ Upstream \in [Streams -> SUBSET Streams]
    /\ MaxConcurrent \in [Providers -> Nat] /\ MaxWaves \in Nat

VARIABLES
    tabs,           \* the streams the extension has a session for
    cli,            \* agent wave: [phase, todo, free]
    assigned,       \* <<stream, provider>>: its run_stream task has not posted yet
    by_wave,        \* history: the assignments a wave posted to the server
    waves           \* how often the command was run

agent == <<tabs, cli, assigned, by_wave, waves>>

pilotVars == <<vars, agent>>

\* The agent's records have the right shape.
AgentOK ==
    /\ tabs \subseteq Streams /\ waves \in Nat
    /\ cli \in [phase : {"idle", "assign"}, todo : SUBSET Streams, free : [Providers -> Nat]]
    /\ assigned \subseteq Streams \X Providers /\ by_wave \subseteq Streams \X Providers

IdleCli == [phase |-> "idle", todo |-> {}, free |-> MaxConcurrent]

PilotInit ==
    /\ Init
    /\ tabs = {} /\ cli = IdleCli /\ assigned = {} /\ by_wave = {} /\ waves = 0

(***************************************************************************)
(* compute_waves: raise each stream above its upstreams until nothing      *)
(* changes.  For streams without a cycle that is after as many rounds as   *)
(* there are streams, in whatever order they are visited; with a cycle the *)
(* loop never ends and the command starts nothing.                         *)
(***************************************************************************)
Raise(w) == [s \in Streams |-> Max({w[s]} \cup {1} \cup {w[u] + 1 : u \in Upstream[s]})]

ComputeWaves ==
    LET after[n \in 0..Cardinality(Streams)] ==
            IF n = 0 THEN [s \in Streams |-> 0] ELSE Raise(after[n - 1])
    IN  after[Cardinality(Streams)]

WavesSettle == Raise(ComputeWaves) = ComputeWaves

\* Mutant: a stream without a session counts as merged.
GetPrMergedUnknown(s) == disk[s] = None \/ disk[s].pr_merged

\* get_pr_merged on a StatePersistence loaded from the file; FALSE for an unknown session.
GetPrMerged(s) == disk[s] # None /\ disk[s].pr_merged

\* The first wave with a stream that is not merged; wave 0, which is empty, if there is none.
CurrentWave ==
    LET open == {ComputeWaves[s] : s \in {x \in Streams : ~GetPrMerged(x)}}
    IN  IF open = {} THEN 0 ELSE Min(open)

\* run_wave(next): a new ProviderPool; streams of the wave that are merged or under way are
\* dispatched again with the others.
WaveNext ==
    /\ cli.phase = "idle" /\ waves < MaxWaves /\ WavesSettle
    /\ waves' = waves + 1
    /\ cli' = [phase |-> "assign", todo |-> {s \in Streams : ComputeWaves[s] = CurrentWave},
               free |-> MaxConcurrent]
    /\ UNCHANGED <<vars, tabs, assigned, by_wave>>

\* most_slots_available: any of the providers with the most free slots.
MostSlotsAvailable ==
    {p \in Providers : cli.free[p] > 0 /\ \A q \in Providers : cli.free[q] <= cli.free[p]}

\* dispatch_wave, MostSlotsFirst: allocate a slot and give it to the next stream.
Assign(s, p) ==
    /\ cli.phase = "assign" /\ s \in cli.todo /\ p \in MostSlotsAvailable
    /\ cli' = [cli EXCEPT !.todo = @ \ {s}, !.free[p] = @ - 1]
    /\ assigned' = assigned \cup {<<s, p>>}
    /\ UNCHANGED <<vars, tabs, by_wave, waves>>

\* No slot or no stream is left; streams without a slot are forgotten.
AssignEnds ==
    /\ cli.phase = "assign" /\ (cli.todo = {} \/ MostSlotsAvailable = {})
    /\ cli' = IdleCli
    /\ UNCHANGED <<vars, tabs, assigned, by_wave, waves>>

\* session_start_handler broadcasts SessionStart; it is lost when no extension is connected.
SessionStart(s) == tabs' \in {tabs, tabs \cup {s}}

\* A spawned run_stream task posts its start request.
PostStart(a) ==
    /\ a \in assigned /\ assigned' = assigned \ {a}
    /\ SessionStart(a[1])
    /\ by_wave' = by_wave \cup {a}
    /\ UNCHANGED <<vars, cli, waves>>

\* run_wave does not wait for the tasks: they end with the process.
CliExits ==
    /\ cli.phase = "idle" /\ assigned # {}
    /\ assigned' = {}
    /\ UNCHANGED <<vars, tabs, cli, by_wave, waves>>

\* agent run and session start: any stream, whatever its upstreams.
RunStream(s) ==
    /\ SessionStart(s)
    /\ UNCHANGED <<vars, cli, assigned, by_wave, waves>>

\* The extension sends what a tab answered, as often as it likes.
SendOps(s, b) == s \in tabs /\ OpsReady(s, b) /\ UNCHANGED agent

Server == ServerNext /\ UNCHANGED agent

AgentNext ==
    \/ WaveNext \/ AssignEnds \/ CliExits
    \/ \E s \in Streams : RunStream(s) \/ \E p \in Providers : Assign(s, p)
    \/ \E a \in assigned : PostStart(a)

PilotNext ==
    \/ Server
    \/ AgentNext
    \/ \E s \in Streams : \E b \in Blocks[s] : SendOps(s, b)

PilotSpec == PilotInit /\ [][PilotNext]_pilotVars

(***************************************************************************)
(* Properties.                                                             *)
(***************************************************************************)
WithUpstreams(S) == S \cup UNION {Upstream[u] : u \in S}

\* The streams that s depends on, directly or not.
Ancestors(s) ==
    LET above[n \in 0..Cardinality(Streams)] ==
            IF n = 0 THEN Upstream[s] ELSE WithUpstreams(above[n - 1])
    IN  above[Cardinality(Streams)]

\* A wave starts no stream before the pull requests of all the streams it depends on, directly
\* or not, are marked as merged in the state file.
UpstreamsMergedFirst ==
    \A a \in by_wave \cup assigned : \A u \in Ancestors(a[1]) : disk[u] # None /\ disk[u].pr_merged

=============================================================================
