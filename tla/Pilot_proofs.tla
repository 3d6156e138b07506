---------------------------- MODULE Pilot_proofs ----------------------------
(***************************************************************************)
(* Proofs about the pilot.  First about PilotTurn, for every number of     *)
(* streams, tasks, files, messages, faults and crashes: the safety         *)
(* invariants of the run and the inductive invariant behind them.  Then    *)
(* about Pilot for every set of streams, whatever they depend on: waves    *)
(* keep the order of the dependencies, and go on doing so while the server *)
(* runs turns, saves, crashes and restarts.                                *)
(***************************************************************************)
EXTENDS Pilot, ProofBasics

(***************************************************************************)
(* The operators on worktrees yield worktrees.                             *)
(***************************************************************************)
\* cargo fmt and a rollback keep the files of the tree.
LEMMA FormattedType ==
    ASSUME NEW w \in Trees
    PROVE  Formatted(w) \in Trees
BY DEF Formatted, Trees, Content

\* A rollback of a turn that has taken its backup gives a worktree.
LEMMA RollbackType ==
    ASSUME TypeOK, NEW t \in Tasks, task[t].phase # "idle"
    PROVE  Rollback(t) \in Trees
<1>1. task[t].backup \in Trees /\ work[task[t].stream] \in Trees
  BY DEF TypeOK, Task
<1> QED
  BY <1>1 DEF Rollback, Trees

\* An operation of a block writes one file.
LEMMA OpResultType ==
    ASSUME NEW op \in FileOps, NEW w \in Trees
    PROVE  OpResult(op, w) \in Trees /\ op.path \in Files
<1>1. "absent" \in Content
  BY DEF Content
<1>2. op.path \in Files
  BY DEF FileOps
<1>3. op.op # "delete" => op.content \in Content
  BY DEF FileOps
<1> QED
  BY <1>1, <1>2, <1>3 DEF OpResult, Trees

\* The blocks of a stream are lists of operations.
LEMMA BlockType ==
    ASSUME NEW s \in Streams, NEW b \in Blocks[s]
    PROVE  b \in AllBlocks /\ b.ops \in Seq(FileOps)
BY PilotConstants DEF AllBlocks

\* The part of TypeOK about tasks.
TasksOK ==
    /\ task \in [Tasks -> Task]
    /\ \A t \in Tasks : task[t].phase # "idle" =>
           task[t].stream \in Streams /\ task[t].block \in Blocks[task[t].stream]

\* A step that writes the record of one task.
LEMMA UpdateType ==
    ASSUME TasksOK, NEW t \in Tasks, NEW r \in Task,
           r.phase # "idle" => r.stream \in Streams /\ r.block \in Blocks[r.stream],
           task' = [task EXCEPT ![t] = r]
    PROVE  /\ TasksOK'
           /\ \A u \in Tasks : u # t => task'[u] = task[u]
           /\ task'[t] = r
BY DEF TasksOK

\* A step that only takes one task to another phase.
LEMMA GotoType ==
    ASSUME TasksOK, NEW t \in Tasks, NEW phase \in Phases, task[t].phase # "idle", Goto(t, phase)
    PROVE  /\ TasksOK'
           /\ \A u \in Tasks : u # t => task'[u] = task[u]
           /\ task'[t] = [task[t] EXCEPT !.phase = phase]
<1> DEFINE r == [task[t] EXCEPT !.phase = phase]
<1>1. task[t] \in Task /\ task[t].stream \in Streams /\ task[t].block \in Blocks[task[t].stream]
  BY DEF TasksOK
<1>2. r \in Task /\ r.stream = task[t].stream /\ r.block = task[t].block
  BY <1>1 DEF Task
<1>3. task' = [task EXCEPT ![t] = r]
  BY DEF Goto
<1> HIDE DEF r
<1>4. TasksOK' /\ (\A u \in Tasks : u # t => task'[u] = task[u]) /\ task'[t] = r
  BY <1>1, <1>2, <1>3, UpdateType
<1> QED
  BY <1>4 DEF r

\* The values that tasks, loop and sessions start with.
LEMMA IdleType ==
    IdleTask \in Task /\ IdleLoop \in Loop /\ SessionNew \in Session
<1>1. Main \in Trees
  BY PilotConstants
<1> QED
  BY <1>1 DEF IdleTask, IdleLoop, SessionNew, Session, Task, Loop, LoopPhases, Phases

(***************************************************************************)
(* Type correctness.                                                       *)
(***************************************************************************)
\* Every task is idle and no stream has a session.
LEMMA TypeInit == Init => TypeOK
<1> SUFFICES ASSUME Init PROVE TypeOK
  OBVIOUS
<1>1. Main \in Trees
  BY PilotConstants
<1>2. task \in [Tasks -> Task] /\ \A t \in Tasks : task[t].phase = "idle"
  BY IdleType DEF Init, IdleTask
<1>3. loop \in Loop /\ loop.phase = "idle"
  BY IdleType DEF Init, IdleLoop
<1> QED
  BY <1>1, <1>2, <1>3 DEF Init, TypeOK

\* Saving a state of the right type, or failing to.
LEMMA SaveType ==
    ASSUME TypeOK, NEW new \in [Streams -> Session \cup {None}], Save(new) \/ SaveFails(new)
    PROVE  /\ mem' \in [Streams -> Session \cup {None}] /\ disk' \in [Streams -> Session \cup {None}]
           /\ faults' \in Nat
BY DEF TypeOK, Save, SaveFails

\* What a command does to the fault counter and to the orphans.
LEMMA CommandType ==
    ASSUME TypeOK, NEW s \in Streams, NEW cmd \in Commands, Succeeds \/ Fails \/ TimesOut(s, cmd)
    PROVE  faults' \in Nat /\ orphans' \subseteq [stream : Streams, cmd : Commands]
BY DEF TypeOK, Succeeds, Fails, TimesOut

\* Spawning a turn for a block of the stream.
LEMMA SpawnType ==
    ASSUME TypeOK, NEW s \in Streams, NEW b \in Blocks[s], Spawn(s, b)
    PROVE  TasksOK' /\ loop' = IdleLoop
<1> DEFINE idle == {t \in Tasks : task[t].phase = "idle"}
           x == CHOOSE y \in idle : TRUE
           r == [IdleTask EXCEPT !.phase = "spawned", !.stream = s, !.block = b, !.ops = b.ops]
<1>1. x \in Tasks
  BY DEF Spawn
<1>2. b \in AllBlocks /\ b.ops \in Seq(FileOps)
  BY BlockType
<1>3. r \in Task /\ r.stream = s /\ r.block = b
  BY <1>2, IdleType DEF Task, Phases, IdleTask
<1>4. task' = [task EXCEPT ![x] = r] /\ loop' = IdleLoop
  BY DEF Spawn
<1>5. TasksOK
  BY DEF TypeOK, TasksOK
<1> HIDE DEF r, x, idle
<1> QED
  BY <1>1, <1>3, <1>4, <1>5, UpdateType

\* The steps of a turn keep the types.
LEMMA TurnType ==
    ASSUME TypeOK, NEW t \in Tasks, TurnStep(t)
    PROVE  TypeOK'
<1> USE DEF state, git, counters, history
<1> DEFINE s == task[t].stream
<1>0. TasksOK
  BY DEF TypeOK, TasksOK
<1>a. task[t].phase # "idle"
  BY DEF TurnStep, Enter, EnterTimesOut, ApplyOp, Decide, RecordTurn, PushBranch, CreatePr, SetPrUrl,
         DoneGates, Gates, FmtFix, RetryGates, GitAdd, GitCommit, Leave, LeaveTimesOut
<1>b. s \in Streams /\ task[t] \in Task
  BY <1>0, <1>a DEF TasksOK
<1>c. ASSUME NEW phase \in Phases, Goto(t, phase) PROVE TasksOK'
  BY <1>0, <1>a, <1>c, GotoType
<1>d. ASSUME task' = [task EXCEPT ![t] = IdleTask] PROVE TasksOK'
  BY <1>0, <1>d, IdleType, UpdateType DEF IdleTask
<1>e. TasksOK' /\ UNCHANGED loop /\ sent' \in Nat /\ crashes' \in Nat => 
        (TypeOK' <=>
           /\ mem' \in [Streams -> Session \cup {None}] /\ disk' \in [Streams -> Session \cup {None}]
           /\ processing' \subseteq Streams /\ acked' \subseteq Streams
           /\ tree' \in [Streams -> {"none", "detached", "branch"}]
           /\ work' \in [Streams -> Trees] /\ index' \in [Streams -> Trees] /\ head' \in [Streams -> Trees]
           /\ pushed' \in [Streams -> Trees \cup {None}] /\ pr' \in [Streams -> BOOLEAN]
           /\ orphans' \subseteq [stream : Streams, cmd : Commands]
           /\ faults' \in Nat
           /\ gated' \in [Streams -> SUBSET Trees] /\ late' \subseteq Streams
           /\ failures' \in [Streams -> Nat])
  BY DEF TypeOK, TasksOK
<1>f. ASSUME NEW cmd \in Commands, Succeeds \/ Fails \/ TimesOut(s, cmd)
      PROVE  faults' \in Nat /\ orphans' \subseteq [stream : Streams, cmd : Commands]
  BY <1>b, <1>f, CommandType
<1>g. ASSUME Succeeds \/ Fails
      PROVE  faults' \in Nat /\ orphans' \subseteq [stream : Streams, cmd : Commands]
  BY <1>g DEF Succeeds, Fails, TypeOK
<1>1. CASE Enter(t)
  <2>1. CASE s \in processing
    BY <1>1, <2>1, <1>d, <1>e DEF Enter, TypeOK
  <2>2. CASE s \notin processing
    <3> DEFINE r == [task[t] EXCEPT !.phase = IF task[t].block.kind = "garbled" THEN "leave" ELSE "apply",
                                    !.backup = work[s]]
    <3>1. work[s] \in Trees
      BY <1>b DEF TypeOK
    <3>2. r \in Task /\ r.stream = s /\ r.block = task[t].block
      BY <1>b, <3>1 DEF Task, Phases
    <3>3. task' = [task EXCEPT ![t] = r] /\ processing' = processing \cup {s}
      BY <1>1, <2>2 DEF Enter
    <3>4. s \in Streams /\ task[t].block \in Blocks[s]
      BY <1>0, <1>a DEF TasksOK
    <3> HIDE DEF r
    <3>5. TasksOK'
      BY <1>0, <3>2, <3>3, <3>4, UpdateType
    <3> QED
      BY <1>1, <1>e, <3>3, <3>4, <3>5 DEF Enter, TypeOK
  <2> QED
    BY <2>1, <2>2
<1>2. CASE EnterTimesOut(t) \/ LeaveTimesOut(t)
  BY <1>2, <1>d, <1>e DEF EnterTimesOut, LeaveTimesOut, Fails, TypeOK
<1>3. CASE ApplyOp(t)
  <2> DEFINE op == Head(task[t].ops)
  <2>1. op \in FileOps /\ Tail(task[t].ops) \in Seq(FileOps) /\ work[s] \in Trees
    BY <1>3, <1>b DEF ApplyOp, Task, TypeOK
  <2>2. OpResult(op, work[s]) \in Trees /\ op.path \in Files /\ Rollback(t) \in Trees
    BY <1>a, <2>1, OpResultType, RollbackType
  <2>3. CASE OpApplies(op, work[s])
    <3> DEFINE r == [task[t] EXCEPT !.ops = Tail(@), !.applied = @ \cup {op.path}]
    <3>1. r \in Task /\ r.stream = s /\ r.block = task[t].block
      BY <1>b, <2>1, <2>2 DEF Task
    <3>2. task' = [task EXCEPT ![t] = r] /\ work' = [work EXCEPT ![s] = OpResult(op, work[s])]
      BY <1>3, <2>3 DEF ApplyOp
    <3>3. s \in Streams /\ task[t].block \in Blocks[s]
      BY <1>0, <1>a DEF TasksOK
    <3> HIDE DEF r, op
    <3>4. TasksOK'
      BY <1>0, <3>1, <3>2, <3>3, UpdateType
    <3> QED
      BY <1>3, <1>e, <2>2, <3>2, <3>4 DEF ApplyOp, TypeOK
  <2>4. CASE ~OpApplies(op, work[s])
    <3>1. Goto(t, "leave") /\ work' = [work EXCEPT ![s] = Rollback(t)]
      BY <1>3, <2>4 DEF ApplyOp, Goto
    <3> QED
      BY <1>3, <1>c, <1>e, <2>2, <3>1 DEF ApplyOp, TypeOK, Phases
  <2> QED
    BY <2>3, <2>4
<1>4. CASE Decide(t)
  <2> DEFINE next == CASE task[t].block.kind = "approved" -> "push"
                       [] task[t].block.kind = "done" -> "done_gates"
                       [] task[t].block.kind = "incomplete" -> "leave"
                       [] task[t].block.kind = "commit" -> "gates"
                       [] OTHER -> "record_turn"
  <2>1. next \in Phases
    BY DEF Phases
  <2>2. Goto(t, next)
    BY <1>4 DEF Decide
  <2> QED
    BY <1>4, <1>c, <1>e, <2>1, <2>2 DEF Decide, TypeOK
<1>5. CASE RecordTurn(t)
  <2>1. CASE mem[s] = None
    BY <1>5, <2>1, <1>c, <1>e DEF RecordTurn, TypeOK, Phases
  <2>2. CASE mem[s] # None
    <3>1. [mem EXCEPT ![s].turn = @ + 1] \in [Streams -> Session \cup {None}]
      BY <1>b, <2>2 DEF TypeOK, Session
    <3>2. mem' \in [Streams -> Session \cup {None}] /\ disk' \in [Streams -> Session \cup {None}]
          /\ faults' \in Nat
      BY <1>5, <2>2, <3>1, SaveType DEF RecordTurn
    <3> QED
      BY <1>5, <1>c, <1>e, <3>2 DEF RecordTurn, TypeOK, Phases
  <2> QED
    BY <2>1, <2>2
<1>6. CASE PushBranch(t)
  <2>1. TasksOK'
    BY <1>6, <1>c DEF PushBranch, Phases
  <2>2. faults' \in Nat /\ orphans' \subseteq [stream : Streams, cmd : Commands]
    BY <1>6, <1>f DEF PushBranch, Commands
  <2> QED
    BY <1>6, <1>e, <2>1, <2>2 DEF PushBranch, TypeOK
<1>7. CASE CreatePr(t)
  <2>1. TasksOK'
    BY <1>7, <1>c DEF CreatePr, Phases
  <2>2. faults' \in Nat /\ orphans' \subseteq [stream : Streams, cmd : Commands]
    BY <1>7, <1>f DEF CreatePr, Commands
  <2> QED
    BY <1>7, <1>e, <2>1, <2>2 DEF CreatePr, TypeOK
<1>8. CASE SetPrUrl(t)
  <2>1. CASE mem[s] = None
    BY <1>8, <2>1, <1>c, <1>e DEF SetPrUrl, TypeOK, Phases
  <2>2. CASE mem[s] # None
    <3>1. [mem EXCEPT ![s].pr_url = TRUE] \in [Streams -> Session \cup {None}]
      BY <1>b, <2>2 DEF TypeOK, Session
    <3>2. mem' \in [Streams -> Session \cup {None}] /\ disk' \in [Streams -> Session \cup {None}]
          /\ faults' \in Nat
      BY <1>8, <2>2, <3>1, SaveType DEF SetPrUrl
    <3> QED
      BY <1>8, <1>c, <1>e, <3>2 DEF SetPrUrl, TypeOK, Phases
  <2> QED
    BY <2>1, <2>2
<1>9. CASE DoneGates(t)
  BY <1>9, <1>c, <1>e, <1>g DEF DoneGates, TypeOK, Phases
<1>10. CASE Gates(t) \/ RetryGates(t)
  <2>1. TasksOK'
    BY <1>10, <1>c DEF Gates, RetryGates, Pass, CommitRefused, Phases
  <2>2. faults' \in Nat /\ orphans' \subseteq [stream : Streams, cmd : Commands]
    BY <1>10, <1>g DEF Gates, RetryGates
  <2>3. gated' \in [Streams -> SUBSET Trees] /\ failures' \in [Streams -> Nat]
    BY <1>10, <1>b DEF Gates, RetryGates, Pass, CommitRefused, TypeOK
  <2> QED
    BY <1>10, <1>e, <2>1, <2>2, <2>3 DEF Gates, RetryGates, TypeOK
<1>11. CASE FmtFix(t)
  <2>1. TasksOK'
    BY <1>11, <1>c DEF FmtFix, CommitRefused, Phases
  <2>2. faults' \in Nat /\ orphans' \subseteq [stream : Streams, cmd : Commands]
    BY <1>11, <1>f DEF FmtFix, Commands
  <2>3. Formatted(work[s]) \in Trees
    BY <1>b, FormattedType DEF TypeOK
  <2>4. work' \in [Streams -> Trees] /\ failures' \in [Streams -> Nat]
    BY <1>11, <2>3 DEF FmtFix, CommitRefused, TypeOK
  <2> QED
    BY <1>11, <1>e, <2>1, <2>2, <2>4 DEF FmtFix, TypeOK
<1>12. CASE GitAdd(t)
  <2>1. TasksOK'
    BY <1>12, <1>c DEF GitAdd, Phases
  <2>2. faults' \in Nat /\ orphans' \subseteq [stream : Streams, cmd : Commands]
    BY <1>12, <1>f DEF GitAdd, Commands
  <2>3. index' \in [Streams -> Trees]
    BY <1>12 DEF GitAdd, TypeOK
  <2> QED
    BY <1>12, <1>e, <2>1, <2>2, <2>3 DEF GitAdd, TypeOK
<1>13. CASE GitCommit(t)
  <2>1. TasksOK'
    BY <1>13, <1>c DEF GitCommit, Phases
  <2>2. faults' \in Nat /\ orphans' \subseteq [stream : Streams, cmd : Commands]
    BY <1>13, <1>f DEF GitCommit, Commands
  <2>3. head' \in [Streams -> Trees] /\ failures' \in [Streams -> Nat]
    BY <1>13 DEF GitCommit, TypeOK
  <2> QED
    BY <1>13, <1>e, <2>1, <2>2, <2>3 DEF GitCommit, TypeOK
<1>14. CASE Leave(t)
  BY <1>14, <1>d, <1>e DEF Leave, TypeOK
<1> QED
  BY <1>1, <1>2, <1>3, <1>4, <1>5, <1>6, <1>7, <1>8, <1>9, <1>10, <1>11, <1>12, <1>13, <1>14 DEF TurnStep

\* Every step keeps the types.
LEMMA TypeStep == TypeOK /\ [Next]_vars => TypeOK'
<1> SUFFICES ASSUME TypeOK, [Next]_vars PROVE TypeOK'
  OBVIOUS
<1> USE DEF state, git, counters, history
<1>1. CASE UNCHANGED vars
  BY <1>1 DEF vars, TypeOK
<1>2. ASSUME NEW s \in Streams, NEW b \in Blocks[s], OpsReady(s, b) PROVE TypeOK'
  <2>1. CASE mem[s] # None
    BY <1>2, <2>1, SpawnType, IdleType DEF OpsReady, TypeOK, TasksOK, IdleLoop
  <2>2. CASE mem[s] = None
    BY <1>2, <2>2, BlockType DEF OpsReady, TypeOK, Loop, LoopPhases
  <2> QED
    BY <2>1, <2>2
<1>3. ASSUME NEW s \in Streams, MarkPrMerged(s) PROVE TypeOK'
  <2>1. [mem EXCEPT ![s].pr_merged = TRUE] \in [Streams -> Session \cup {None}]
    BY <1>3 DEF MarkPrMerged, TypeOK, Session
  <2>2. mem' \in [Streams -> Session \cup {None}] /\ disk' \in [Streams -> Session \cup {None}]
        /\ faults' \in Nat
    BY <1>3, <2>1, SaveType DEF MarkPrMerged
  <2> QED
    BY <1>3, <2>2 DEF MarkPrMerged, TypeOK
<1>4. CASE WorktreeAdd
  <2>1. loop.stream \in Streams /\ "worktree" \in Commands
    BY <1>4 DEF WorktreeAdd, TypeOK, Commands
  <2>2. faults' \in Nat /\ orphans' \subseteq [stream : Streams, cmd : Commands]
    BY <1>4, <2>1, CommandType DEF WorktreeAdd
  <2>3. loop' \in Loop /\ (loop'.phase # "idle" => loop'.stream = loop.stream /\ loop'.block = loop.block)
    BY <1>4, IdleType DEF WorktreeAdd, TypeOK, Loop, LoopPhases, GiveUp, IdleLoop
  <2>4. tree' \in [Streams -> {"none", "detached", "branch"}]
    BY <1>4 DEF WorktreeAdd, TypeOK
  <2> QED
    BY <1>4, <2>2, <2>3, <2>4 DEF WorktreeAdd, TypeOK
<1>5. CASE CheckoutBranch
  <2>1. loop.stream \in Streams /\ "checkout" \in Commands
    BY <1>5 DEF CheckoutBranch, TypeOK, Commands
  <2>2. faults' \in Nat /\ orphans' \subseteq [stream : Streams, cmd : Commands]
    BY <1>5, <2>1, CommandType DEF CheckoutBranch
  <2>3. loop' \in Loop /\ (loop'.phase # "idle" => loop'.stream = loop.stream /\ loop'.block = loop.block)
    BY <1>5, IdleType DEF CheckoutBranch, TypeOK, Loop, LoopPhases, GiveUp, IdleLoop
  <2>4. tree' \in [Streams -> {"none", "detached", "branch"}]
    BY <1>5 DEF CheckoutBranch, TypeOK
  <2> QED
    BY <1>5, <2>2, <2>3, <2>4 DEF CheckoutBranch, TypeOK
<1>6. CASE AddSession
  <2>1. [mem EXCEPT ![loop.stream] = SessionNew] \in [Streams -> Session \cup {None}]
    BY IdleType DEF TypeOK
  <2>2. mem' \in [Streams -> Session \cup {None}] /\ disk' \in [Streams -> Session \cup {None}]
        /\ faults' \in Nat
    BY <1>6, <2>1, SaveType DEF AddSession
  <2>3. loop' \in Loop /\ loop'.stream = loop.stream /\ loop'.block = loop.block
    BY <1>6 DEF AddSession, TypeOK, Loop, LoopPhases
  <2> QED
    BY <1>6, <2>2, <2>3 DEF AddSession, TypeOK
<1>7. CASE SpawnTurn
  BY <1>7, SpawnType, IdleType DEF SpawnTurn, TypeOK, TasksOK, IdleLoop
<1>8. ASSUME NEW t \in Tasks, TurnStep(t) PROVE TypeOK'
  BY <1>8, TurnType
<1>9. ASSUME NEW o \in orphans, OrphanRuns(o) PROVE TypeOK'
  <2>1. o.stream \in Streams
    BY DEF TypeOK
  <2>2. Formatted(work[o.stream]) \in Trees /\ work[o.stream] \in Trees
    BY <2>1, FormattedType DEF TypeOK
  <2>3. work' \in [Streams -> Trees] /\ index' \in [Streams -> Trees] /\ head' \in [Streams -> Trees]
    BY <1>9, <2>1, <2>2 DEF OrphanRuns, TypeOK
  <2>4. tree' \in [Streams -> {"none", "detached", "branch"}]
    BY <1>9 DEF OrphanRuns, TypeOK
  <2>5. pushed' \in [Streams -> Trees \cup {None}] /\ pr' \in [Streams -> BOOLEAN]
    BY <1>9 DEF OrphanRuns, TypeOK
  <2>6. late' \subseteq Streams /\ orphans' \subseteq orphans
    BY <1>9, <2>1 DEF OrphanRuns, TypeOK
  <2> QED
    BY <1>9, <2>3, <2>4, <2>5, <2>6 DEF OrphanRuns, TypeOK
<1>10. CASE CrashAndRestart
  <2>1. Running \subseteq [stream : Streams, cmd : Commands]
    BY DEF Running, TypeOK, Commands
  <2>2. TasksOK' /\ loop' = IdleLoop
    BY <1>10, IdleType DEF CrashAndRestart, TasksOK, IdleTask
  <2>3. orphans' \subseteq [stream : Streams, cmd : Commands]
    BY <1>10, <2>1 DEF CrashAndRestart, TypeOK
  <2> QED
    BY <1>10, <2>2, <2>3, IdleType DEF CrashAndRestart, Load, TypeOK, TasksOK, IdleLoop
<1> QED
  BY <1>1, <1>2, <1>3, <1>4, <1>5, <1>6, <1>7, <1>8, <1>9, <1>10 DEF Next, ServerNext, LoopStep

(***************************************************************************)
(* The inductive invariant.                                                *)
(***************************************************************************)
\* The task is between its entry into `processing` and its end.
Active(t) == task[t].phase \notin {"idle", "spawned"}

\* `processing` keeps the turns of one stream apart.
OneTurn ==
    /\ \A t \in Tasks : Active(t) => task[t].stream \in processing
    /\ \A t, u \in Tasks : t # u /\ Active(t) /\ Active(u) => task[t].stream # task[u].stream

\* A tree that passed the pipeline is formatted, so that a late cargo fmt does not change it; the
\* worktree is such a tree while git add runs, and the index holds one or was written by an orphan.
CommitInv ==
    /\ \A s \in Streams : \A w \in gated[s] : Formatted(w) = w
    /\ \A t \in Tasks : task[t].phase = "add" => work[task[t].stream] \in gated[task[t].stream]
    /\ \A s \in Streams : index[s] \in gated[s] \cup {Main} \/ s \in late
    /\ CommittedIsGated

\* While operations are left the worktree differs from the backup only in files that the turn
\* has written; afterwards nothing is left of the block.
ApplyInv ==
    /\ \A t \in Tasks : task[t].phase \notin {"spawned", "apply", "leave"} => task[t].ops = <<>>
    /\ \A t \in Tasks : task[t].phase = "apply" => \A f \in Files \ task[t].applied :
           Formatted(work[task[t].stream])[f] = Formatted(task[t].backup)[f]
    /\ FailedApplyChangesNothing

MergedIn(sessions, s) == sessions[s] # None /\ sessions[s].pr_merged

\* A session is only made where there is none, and the state in memory knows the merges of the
\* state file too.
MergeInv ==
    /\ loop.phase \in {"worktree", "checkout", "add_session"} => mem[loop.stream] = None
    /\ \A s \in Streams : MergedIn(disk, s) => MergedIn(mem, s)
    /\ AckedMergeIsDurable

\* What a step may not do to the state file.
MergesStay == \A s \in Streams : MergedIn(disk, s) => MergedIn(disk', s)

IInv == TypeOK /\ OneTurn /\ CommitInv /\ ApplyInv /\ MergeInv

\* Every action of a turn works on its own task and on the worktree of its stream: either the
\* task ends, or it is active afterwards, for the same stream and block.
LEMMA TurnFrame ==
    ASSUME TypeOK, NEW t \in Tasks, TurnStep(t)
    PROVE  /\ task[t].stream \in Streams /\ task[t].phase # "idle"
           /\ \A u \in Tasks \ {t} : task'[u] = task[u]
           /\ \/ task'[t] = IdleTask
              \/ /\ Active(t)'
                 /\ task'[t].stream = task[t].stream /\ task'[t].block = task[t].block
           /\ Active(t) \/ Enter(t) \/ EnterTimesOut(t)
           /\ \A s \in Streams : s # task[t].stream \/ ~Active(t) =>
                 work'[s] = work[s] /\ index'[s] = index[s] /\ head'[s] = head[s]
           /\ \A s \in Streams : gated[s] \subseteq gated'[s]
           /\ UNCHANGED <<loop, acked, late>>
<1> USE DEF state, git, counters, history
<1>1. /\ TasksOK /\ task[t].phase # "idle" /\ task[t].stream \in Streams
      /\ Active(t) \/ Enter(t) \/ EnterTimesOut(t)
  BY DEF TypeOK, TasksOK, TurnStep, Active, Enter, EnterTimesOut, ApplyOp, Decide, RecordTurn, PushBranch,
         CreatePr, SetPrUrl, DoneGates, Gates, FmtFix, RetryGates, GitAdd, GitCommit, Leave, LeaveTimesOut
<1>2. UNCHANGED <<loop, acked, late>>
  BY DEF TurnStep, Enter, EnterTimesOut, ApplyOp, Decide, RecordTurn, PushBranch,
         CreatePr, SetPrUrl, DoneGates, Gates, FmtFix, RetryGates, GitAdd, GitCommit, Leave, LeaveTimesOut
<1>3. /\ \A u \in Tasks \ {t} : task'[u] = task[u]
      /\ \/ task'[t] = IdleTask
         \/ /\ Active(t)'
            /\ task'[t].stream = task[t].stream /\ task'[t].block = task[t].block
  <2>1. ASSUME NEW phase \in Phases \ {"idle", "spawned"}, Goto(t, phase)
        PROVE  /\ \A u \in Tasks \ {t} : task'[u] = task[u]
               /\ Active(t)' /\ task'[t].stream = task[t].stream /\ task'[t].block = task[t].block
    <3>1. (\A u \in Tasks : u # t => task'[u] = task[u]) /\ task'[t] = [task[t] EXCEPT !.phase = phase]
      BY <1>1, <2>1, GotoType
    <3>2. task[t] \in Task
      BY <1>1 DEF TasksOK
    <3> QED
      BY <3>1, <3>2 DEF Active, Task
  <2>2. ASSUME task' = [task EXCEPT ![t] = IdleTask]
        PROVE  (\A u \in Tasks \ {t} : task'[u] = task[u]) /\ task'[t] = IdleTask
    BY <1>1, <2>2 DEF TasksOK
  <2>3. CASE Enter(t)
    <3>1. CASE task[t].stream \in processing
      BY <2>2, <2>3, <3>1 DEF Enter
    <3>2. CASE task[t].stream \notin processing
      BY <1>1, <2>3, <3>2 DEF Enter, Active, TasksOK, Task
    <3> QED
      BY <3>1, <3>2
  <2>4. CASE EnterTimesOut(t) \/ Leave(t) \/ LeaveTimesOut(t)
    BY <2>2, <2>4 DEF EnterTimesOut, Leave, LeaveTimesOut
  <2>5. CASE ApplyOp(t)
    BY <1>1, <2>5 DEF ApplyOp, Active, TasksOK, Task
  <2>6. CASE Decide(t)
    <3> DEFINE next == CASE task[t].block.kind = "approved" -> "push"
                         [] task[t].block.kind = "done" -> "done_gates"
                         [] task[t].block.kind = "incomplete" -> "leave"
                         [] task[t].block.kind = "commit" -> "gates"
                         [] OTHER -> "record_turn"
    <3>1. next \in Phases \ {"idle", "spawned"}
      BY DEF Phases
    <3>2. Goto(t, next)
      BY <2>6 DEF Decide
    <3> QED
      BY <2>1, <3>1, <3>2
  <2>7. CASE RecordTurn(t) \/ PushBranch(t) \/ CreatePr(t) \/ SetPrUrl(t) \/ DoneGates(t)
             \/ Gates(t) \/ FmtFix(t) \/ RetryGates(t) \/ GitAdd(t) \/ GitCommit(t)
    <3>1. \E phase \in Phases \ {"idle", "spawned"} : Goto(t, phase)
      BY <2>7 DEF Phases, RecordTurn, PushBranch, CreatePr, SetPrUrl, DoneGates, Gates, FmtFix, RetryGates,
                  GitAdd, GitCommit, Pass, CommitRefused
    <3> QED
      BY <2>1, <3>1
  <2> QED
    BY <2>3, <2>4, <2>5, <2>6, <2>7 DEF TurnStep
<1>4. \A s \in Streams : s # task[t].stream \/ ~Active(t) =>
         work'[s] = work[s] /\ index'[s] = index[s] /\ head'[s] = head[s]
  BY DEF TypeOK, TurnStep, Active, Enter, EnterTimesOut, ApplyOp, Decide, RecordTurn, PushBranch,
         CreatePr, SetPrUrl, DoneGates, Gates, FmtFix, RetryGates, GitAdd, GitCommit, Leave, LeaveTimesOut
<1>5. \A s \in Streams : gated[s] \subseteq gated'[s]
  BY DEF TypeOK, TurnStep, Enter, EnterTimesOut, ApplyOp, Decide, RecordTurn, PushBranch, CreatePr, SetPrUrl,
         DoneGates, Gates, FmtFix, RetryGates, GitAdd, GitCommit, Leave, LeaveTimesOut, Pass
<1> QED
  BY <1>1, <1>2, <1>3, <1>4, <1>5

\* Spawning and the steps of the loop leave the active turns alone.
LEMMA LoopFrame ==
    ASSUME TypeOK, \/ \E s \in Streams : \E b \in Blocks[s] : OpsReady(s, b)
                   \/ \E s \in Streams : MarkPrMerged(s)
                   \/ LoopStep
    PROVE  /\ \A u \in Tasks : task'[u] = task[u] \/ (task[u].phase = "idle" /\ task'[u].phase = "spawned")
           /\ UNCHANGED <<processing, work, index, head, history>>
<1> USE DEF state, git, counters, history
<1>1. ASSUME NEW s, NEW b, Spawn(s, b)
      PROVE  \A u \in Tasks : task'[u] = task[u] \/ (task[u].phase = "idle" /\ task'[u].phase = "spawned")
  <2> DEFINE idle == {t \in Tasks : task[t].phase = "idle"}
             x == CHOOSE y \in idle : TRUE
  <2>1. x \in idle
    BY <1>1 DEF Spawn
  <2>2. task' = [task EXCEPT ![x] = [IdleTask EXCEPT !.phase = "spawned", !.stream = s, !.block = b, !.ops = b.ops]]
    BY <1>1 DEF Spawn
  <2> HIDE DEF x
  <2> QED
    BY <2>1, <2>2 DEF TypeOK, IdleTask
<1>2. CASE \E s \in Streams : \E b \in Blocks[s] : OpsReady(s, b)
  BY <1>1, <1>2 DEF OpsReady
<1>3. CASE (\E s \in Streams : MarkPrMerged(s)) \/ WorktreeAdd \/ CheckoutBranch \/ AddSession
  BY <1>3 DEF MarkPrMerged, WorktreeAdd, CheckoutBranch, AddSession
<1>4. CASE SpawnTurn
  BY <1>1, <1>4 DEF SpawnTurn
<1> QED
  BY <1>2, <1>3, <1>4 DEF LoopStep

\* Formatting is idempotent, and a formatted tree is one without unformatted files.
LEMMA FormattedFacts ==
    ASSUME NEW w \in Trees
    PROVE  /\ Formatted(Formatted(w)) = Formatted(w)
           /\ (\A f \in Files : w[f] # "unformatted") => Formatted(w) = w
           /\ \A v \in Trees : \A f \in Files :
                 v[f] = w[f] => Formatted(v)[f] = Formatted(w)[f]
BY DEF Formatted, Trees, Content

\* A child that outlived its timeout does nothing to tasks, and to a worktree only what cargo fmt does.
LEMMA OrphanFrame ==
    ASSUME TypeOK, NEW o \in orphans, OrphanRuns(o)
    PROVE  /\ UNCHANGED <<state, processing, task, loop, acked, gated>>
           /\ late \subseteq late'
           /\ \A s \in Streams :
                 /\ work'[s] = work[s] \/ work'[s] = Formatted(work[s])
                 /\ index'[s] = index[s] \/ s \in late'
                 /\ head'[s] = head[s] \/ head'[s] = index[s]
<1>1. o.stream \in Streams
  BY DEF TypeOK
<1> QED
  BY <1>1 DEF TypeOK, OrphanRuns, state, counters

\* One active turn per stream.
LEMMA OneTurnStep == TypeOK /\ OneTurn /\ [Next]_vars => OneTurn'
<1> SUFFICES ASSUME TypeOK, OneTurn, [Next]_vars PROVE OneTurn'
  OBVIOUS
<1>1. CASE UNCHANGED vars
  BY <1>1 DEF vars, OneTurn, Active
<1>2. CASE \/ \E s \in Streams : \E b \in Blocks[s] : OpsReady(s, b)
           \/ \E s \in Streams : MarkPrMerged(s)
           \/ LoopStep
  BY <1>2, LoopFrame DEF OneTurn, Active
<1>3. ASSUME NEW t \in Tasks, TurnStep(t) PROVE OneTurn'
  <2>1. /\ \A u \in Tasks \ {t} : task'[u] = task[u]
        /\ task'[t] = IdleTask \/ (Active(t)' /\ task'[t].stream = task[t].stream)
        /\ Active(t) \/ Enter(t) \/ EnterTimesOut(t)
    BY <1>3, TurnFrame
  <2>2. CASE Enter(t)
    <3>1. CASE task[t].stream \in processing
      <4>1. processing' = processing /\ task'[t].phase = "idle"
        BY <2>2, <3>1 DEF Enter, IdleTask, TypeOK
      <4> QED
        BY <2>1, <4>1 DEF OneTurn, Active
    <3>2. CASE task[t].stream \notin processing
      <4>1. processing' = processing \cup {task[t].stream}
        BY <2>2, <3>2 DEF Enter
      <4>2. task'[t].phase = "idle" \/ task'[t].stream = task[t].stream
        BY <2>1 DEF IdleTask
      <4>3. \A u \in Tasks \ {t} : Active(u) => task[u].stream # task[t].stream
        BY <3>2 DEF OneTurn
      <4> QED
        BY <2>1, <4>1, <4>2, <4>3 DEF OneTurn, Active
    <3> QED
      BY <3>1, <3>2
  <2>3. CASE Leave(t)
    <3>1. Active(t) /\ task'[t].phase = "idle" /\ processing' = processing \ {task[t].stream}
      BY <2>3 DEF Leave, Active, IdleTask, TypeOK
    <3> QED
      BY <2>1, <3>1 DEF OneTurn, Active
  <2>4. CASE ~Enter(t) /\ ~Leave(t)
    <3>1. processing' = processing
      BY <1>3, <2>4 DEF TurnStep, EnterTimesOut, ApplyOp, Decide, RecordTurn, PushBranch, CreatePr, SetPrUrl,
             DoneGates, Gates, FmtFix, RetryGates, GitAdd, GitCommit, LeaveTimesOut
    <3>2. task'[t] = IdleTask \/ Active(t)
      BY <1>3, <2>1, <2>4 DEF EnterTimesOut, TypeOK
    <3> QED
      BY <2>1, <3>1, <3>2 DEF OneTurn, Active, IdleTask
  <2> QED
    BY <2>2, <2>3, <2>4
<1>4. ASSUME NEW o \in orphans, OrphanRuns(o) PROVE OneTurn'
  BY <1>4, OrphanFrame DEF OneTurn, Active
<1>5. CASE CrashAndRestart
  BY <1>5 DEF CrashAndRestart, OneTurn, Active, IdleTask
<1> QED
  BY <1>1, <1>2, <1>3, <1>4, <1>5 DEF Next, ServerNext

\* What is committed passed the gates, or the index was written by an orphan.
LEMMA CommitStep == TypeOK /\ OneTurn /\ CommitInv /\ [Next]_vars => CommitInv'
<1> SUFFICES ASSUME TypeOK, OneTurn, CommitInv, [Next]_vars PROVE CommitInv'
  OBVIOUS
<1> USE DEF state, git, counters, history
<1>1. CASE UNCHANGED vars
  BY <1>1 DEF vars, CommitInv, CommittedIsGated
<1>2. CASE \/ \E s \in Streams : \E b \in Blocks[s] : OpsReady(s, b)
           \/ \E s \in Streams : MarkPrMerged(s)
           \/ LoopStep
  BY <1>2, LoopFrame DEF CommitInv, CommittedIsGated
<1>3. ASSUME NEW t \in Tasks, TurnStep(t) PROVE CommitInv'
  <2> DEFINE s == task[t].stream
  <2>1. /\ s \in Streams /\ task[t].phase # "idle"
        /\ \A u \in Tasks \ {t} : task'[u] = task[u]
        /\ task'[t] = IdleTask \/ (Active(t)' /\ task'[t].stream = s)
        /\ \A r \in Streams : r # s \/ ~Active(t) =>
              work'[r] = work[r] /\ index'[r] = index[r] /\ head'[r] = head[r]
        /\ \A r \in Streams : gated[r] \subseteq gated'[r]
        /\ late' = late
    BY <1>3, TurnFrame
  <2>2. \A r \in Streams : \A w \in gated'[r] : Formatted(w) = w
    <3>1. CASE gated' = gated
      BY <3>1 DEF CommitInv
    <3>2. CASE (Gates(t) \/ RetryGates(t)) /\ MayPass(s) /\ Pass(t)
      <4>1. work[s] \in Trees /\ Formatted(work[s]) = work[s]
        BY <2>1, <3>2, FormattedFacts DEF TypeOK, MayPass, FmtPasses
      <4> QED
        BY <2>1, <3>2, <4>1 DEF Pass, CommitInv, TypeOK
    <3> QED
      BY <1>3, <3>1, <3>2 DEF TurnStep, Enter, EnterTimesOut, ApplyOp, Decide, RecordTurn, PushBranch,
             CreatePr, SetPrUrl, DoneGates, Gates, FmtFix, RetryGates, GitAdd, GitCommit, Leave, LeaveTimesOut
  <2>3. ASSUME NEW u \in Tasks \ {t}, task'[u].phase = "add"
        PROVE  work'[task'[u].stream] \in gated'[task'[u].stream]
    <3>1. task'[u] = task[u] /\ Active(u) /\ task[u].stream \in Streams
      BY <2>1, <2>3 DEF Active, TypeOK
    <3>2. work'[task[u].stream] = work[task[u].stream]
      BY <2>1, <3>1 DEF OneTurn
    <3> QED
      BY <2>1, <2>3, <3>1, <3>2 DEF CommitInv
  <2>4. task'[t].phase = "add" => work'[task'[t].stream] \in gated'[task'[t].stream]
    <3>1. CASE Gates(t) \/ RetryGates(t)
      <4>1. (work' = work /\ task'[t].stream = s) \/ task'[t] = IdleTask
        BY <2>1, <3>1 DEF Gates, RetryGates
      <4>2. Pass(t) \/ Goto(t, "fmt_fix") \/ Goto(t, "leave")
        BY <3>1 DEF Gates, RetryGates, CommitRefused
      <4>3. CASE Pass(t)
        BY <2>1, <3>1, <4>1, <4>3 DEF Pass, TypeOK, IdleTask, Gates, RetryGates
      <4>4. CASE Goto(t, "fmt_fix") \/ Goto(t, "leave")
        BY <4>4 DEF Goto, TypeOK, Task
      <4> QED
        BY <4>2, <4>3, <4>4
    <3>2. CASE ~Gates(t) /\ ~RetryGates(t)
      <4>1. task'[t].phase # "add"
        <5>1. CASE Enter(t) \/ EnterTimesOut(t) \/ Leave(t) \/ LeaveTimesOut(t)
          <6>1. task'[t].phase \in {"idle", "leave", "apply"}
            <7>1. CASE task' = [task EXCEPT ![t] = IdleTask]
              BY <7>1 DEF TypeOK, IdleTask
            <7>2. CASE Enter(t) /\ s \notin processing
              BY <7>2 DEF TypeOK, Enter, Task
            <7> QED
              BY <5>1, <7>1, <7>2 DEF Enter, EnterTimesOut, Leave, LeaveTimesOut
          <6> QED
            BY <6>1
        <5>2. CASE ApplyOp(t)
          <6>1. task[t].phase = "apply" /\ task[t] \in Task /\ task \in [Tasks -> Task]
            BY <5>2 DEF TypeOK, ApplyOp
          <6>2. CASE OpApplies(Head(task[t].ops), work[s])
            BY <5>2, <6>1, <6>2 DEF ApplyOp, Task
          <6>3. CASE ~OpApplies(Head(task[t].ops), work[s])
            BY <5>2, <6>1, <6>3 DEF ApplyOp, Task
          <6> QED
            BY <6>2, <6>3
        <5>3. ASSUME NEW phase, Goto(t, phase), phase # "add" PROVE task'[t].phase # "add"
          BY <5>3 DEF TypeOK, Goto, Task
        <5>4. CASE Decide(t)
          <6> DEFINE next == CASE task[t].block.kind = "approved" -> "push"
                               [] task[t].block.kind = "done" -> "done_gates"
                               [] task[t].block.kind = "incomplete" -> "leave"
                               [] task[t].block.kind = "commit" -> "gates"
                               [] OTHER -> "record_turn"
          <6>1. next # "add"
            OBVIOUS
          <6>2. Goto(t, next)
            BY <5>4 DEF Decide
          <6> QED
            BY <5>3, <6>1, <6>2
        <5>5. CASE RecordTurn(t) \/ PushBranch(t) \/ CreatePr(t) \/ SetPrUrl(t) \/ DoneGates(t) \/ FmtFix(t)
                   \/ GitAdd(t) \/ GitCommit(t)
          BY <5>3, <5>5 DEF RecordTurn, PushBranch, CreatePr, SetPrUrl, DoneGates, FmtFix, CommitRefused,
                            GitAdd, GitCommit
        <5> QED
          BY <1>3, <3>2, <5>1, <5>2, <5>4, <5>5 DEF TurnStep
      <4> QED
        BY <4>1
    <3> QED
      BY <3>1, <3>2
  <2>5. \A r \in Streams : index'[r] \in gated'[r] \cup {Main} \/ r \in late'
    <3>1. CASE index' = index
      BY <2>1, <3>1 DEF CommitInv
    <3>2. CASE GitAdd(t) /\ index' = [index EXCEPT ![s] = work[s]]
      <4>1. work[s] \in gated[s]
        BY <3>2 DEF GitAdd, CommitInv
      <4> QED
        BY <2>1, <3>2, <4>1 DEF CommitInv, TypeOK
    <3> QED
      BY <1>3, <3>1, <3>2 DEF TurnStep, Enter, EnterTimesOut, ApplyOp, Decide, RecordTurn, PushBranch,
             CreatePr, SetPrUrl, DoneGates, Gates, FmtFix, RetryGates, GitAdd, GitCommit, Leave, LeaveTimesOut
  <2>6. CommittedIsGated'
    <3>1. CASE head' = head
      BY <2>1, <3>1 DEF CommitInv, CommittedIsGated
    <3>2. CASE head' = [head EXCEPT ![s] = index[s]]
      BY <2>1, <3>2 DEF CommitInv, CommittedIsGated, TypeOK
    <3> QED
      BY <1>3, <3>1, <3>2 DEF TurnStep, Enter, EnterTimesOut, ApplyOp, Decide, RecordTurn, PushBranch,
             CreatePr, SetPrUrl, DoneGates, Gates, FmtFix, RetryGates, GitAdd, GitCommit, Leave, LeaveTimesOut
  <2> QED
    BY <2>2, <2>3, <2>4, <2>5, <2>6 DEF CommitInv
<1>4. ASSUME NEW o \in orphans, OrphanRuns(o) PROVE CommitInv'
  <2>1. /\ UNCHANGED <<task, gated>> /\ late \subseteq late'
        /\ \A s \in Streams :
              /\ work'[s] = work[s] \/ work'[s] = Formatted(work[s])
              /\ index'[s] = index[s] \/ s \in late'
              /\ head'[s] = head[s] \/ head'[s] = index[s]
    BY <1>4, OrphanFrame
  <2> QED
    BY <2>1 DEF CommitInv, CommittedIsGated, TypeOK
<1>5. CASE CrashAndRestart
  BY <1>5 DEF CrashAndRestart, CommitInv, CommittedIsGated, IdleTask
<1> QED
  BY <1>1, <1>2, <1>3, <1>4, <1>5 DEF Next, ServerNext

\* A turn whose block fails leaves no trace.
LEMMA ApplyStep == TypeOK /\ OneTurn /\ ApplyInv /\ [Next]_vars => ApplyInv'
<1> SUFFICES ASSUME TypeOK, OneTurn, ApplyInv, [Next]_vars PROVE ApplyInv'
  OBVIOUS
<1> DEFINE Ok(r, w) ==
               /\ r.phase \notin {"spawned", "apply", "leave"} => r.ops = <<>>
               /\ r.phase = "apply" => \A f \in Files \ r.applied :
                     Formatted(w[r.stream])[f] = Formatted(r.backup)[f]
               /\ r.phase = "leave" /\ r.ops # <<>> /\ r.block.kind # "garbled" =>
                     Formatted(w[r.stream]) = Formatted(r.backup)
<1>a. ApplyInv <=> \A u \in Tasks : Ok(task[u], work)
  BY DEF ApplyInv, FailedApplyChangesNothing
<1>b. ApplyInv' <=> \A u \in Tasks : Ok(task'[u], work')
  BY DEF ApplyInv, FailedApplyChangesNothing
<1>1. CASE UNCHANGED vars
  BY <1>1, <1>a, <1>b DEF vars, git
<1>2. CASE \/ \E s \in Streams : \E b \in Blocks[s] : OpsReady(s, b)
           \/ \E s \in Streams : MarkPrMerged(s)
           \/ LoopStep
  <2>1. /\ \A u \in Tasks : task'[u] = task[u] \/ (task[u].phase = "idle" /\ task'[u].phase = "spawned")
        /\ work' = work
    BY <1>2, LoopFrame
  <2> QED
    BY <2>1, <1>a, <1>b
<1>3. ASSUME NEW t \in Tasks, TurnStep(t) PROVE ApplyInv'
  <2> DEFINE s == task[t].stream
  <2>1. /\ s \in Streams /\ task[t].phase # "idle"
        /\ \A u \in Tasks \ {t} : task'[u] = task[u]
        /\ \A r \in Streams : r # s \/ ~Active(t) => work'[r] = work[r]
    BY <1>3, TurnFrame
  <2>2. ASSUME NEW u \in Tasks \ {t} PROVE Ok(task'[u], work')
    <3>1. task'[u] = task[u] /\ Ok(task[u], work)
      BY <2>1, <1>a
    <3>2. CASE Active(u)
      <4>1. task[u].stream \in Streams
        BY <3>2 DEF Active, TypeOK
      <4>2. work'[task[u].stream] = work[task[u].stream]
        BY <2>1, <3>2, <4>1 DEF OneTurn
      <4> QED
        BY <3>1, <4>2
    <3>3. CASE ~Active(u)
      BY <3>1, <3>3 DEF Active
    <3> QED
      BY <3>2, <3>3
  <2>3. Ok(task[t], work) /\ task[t] \in Task /\ task \in [Tasks -> Task] /\ work[s] \in Trees
    BY <1>a, <2>1 DEF TypeOK
  <2>4. CASE task' = [task EXCEPT ![t] = IdleTask]
    <3>1. Ok(task'[t], work')
      BY <2>3, <2>4 DEF IdleTask
    <3> QED
      BY <2>2, <3>1, <1>b
  <2>5. CASE Enter(t) /\ s \notin processing
    <3>1. /\ task'[t].phase = IF task[t].block.kind = "garbled" THEN "leave" ELSE "apply"
          /\ task'[t].backup = work[s] /\ task'[t].stream = s /\ task'[t].block = task[t].block
          /\ work' = work
      BY <2>3, <2>5 DEF Enter, Task, git
    <3>2. Ok(task'[t], work')
      BY <3>1
    <3> QED
      BY <2>2, <3>2, <1>b
  <2>6. CASE ApplyOp(t)
    <3> DEFINE op == Head(task[t].ops)
    <3>0. task[t].phase = "apply" /\ op \in FileOps /\ task[t].backup \in Trees
      BY <2>3, <2>6 DEF ApplyOp, Task
    <3>1. CASE OpApplies(op, work[s])
      <4>1. /\ task'[t].phase = "apply" /\ task'[t].stream = s /\ task'[t].backup = task[t].backup
            /\ task'[t].applied = task[t].applied \cup {op.path}
        BY <2>3, <2>6, <3>0, <3>1 DEF ApplyOp, Task
      <4>2. work'[s] = OpResult(op, work[s])
        BY <2>1, <2>6, <3>1 DEF ApplyOp, TypeOK
      <4>3. OpResult(op, work[s]) \in Trees
        BY <2>3, <3>0, OpResultType
      <4>4. \A f \in Files \ {op.path} : OpResult(op, work[s])[f] = work[s][f]
        BY <2>3 DEF OpResult, Trees
      <4>5. \A f \in Files \ {op.path} : Formatted(work'[s])[f] = Formatted(work[s])[f]
        BY <2>3, <4>2, <4>3, <4>4, FormattedFacts
      <4>6. \A f \in Files \ task'[t].applied : Formatted(work'[s])[f] = Formatted(task'[t].backup)[f]
        BY <2>3, <3>0, <4>1, <4>5
      <4>7. Ok(task'[t], work')
        BY <4>1, <4>6
      <4> QED
        BY <2>2, <4>7, <1>b
    <3>2. CASE ~OpApplies(op, work[s])
      <4>1. /\ task'[t].phase = "leave" /\ task'[t].stream = s /\ task'[t].backup = task[t].backup
        BY <2>3, <2>6, <3>0, <3>2 DEF ApplyOp, Task
      <4>2. work'[s] = Rollback(t) /\ Rollback(t) \in Trees
        BY <2>1, <2>6, <3>2, RollbackType DEF ApplyOp, TypeOK
      <4>3. \A f \in Files : Formatted(Rollback(t))[f] = Formatted(task[t].backup)[f]
        BY <2>3, <3>0 DEF Rollback, Formatted
      <4>4. Formatted(Rollback(t)) = Formatted(task[t].backup)
        BY <4>3 DEF Formatted
      <4>5. Ok(task'[t], work')
        BY <4>1, <4>2, <4>4
      <4> QED
        BY <2>2, <4>5, <1>b
    <3> QED
      BY <3>1, <3>2
  <2>7. ASSUME NEW phase, Goto(t, phase), phase \notin {"spawned", "apply"}, task[t].ops = <<>> PROVE ApplyInv'
    <3>1. task'[t].phase = phase /\ task'[t].ops = <<>>
      BY <2>3, <2>7 DEF Goto, Task
    <3>2. Ok(task'[t], work')
      BY <2>7, <3>1
    <3> QED
      BY <2>2, <3>2, <1>b
  <2>8. CASE Decide(t)
    <3> DEFINE next == CASE task[t].block.kind = "approved" -> "push"
                         [] task[t].block.kind = "done" -> "done_gates"
                         [] task[t].block.kind = "incomplete" -> "leave"
                         [] task[t].block.kind = "commit" -> "gates"
                         [] OTHER -> "record_turn"
    <3>1. next \notin {"spawned", "apply"}
      OBVIOUS
    <3>2. Goto(t, next) /\ task[t].ops = <<>>
      BY <2>8 DEF Decide
    <3> QED
      BY <2>7, <3>1, <3>2
  <2>9. CASE RecordTurn(t) \/ PushBranch(t) \/ CreatePr(t) \/ SetPrUrl(t) \/ DoneGates(t)
             \/ Gates(t) \/ FmtFix(t) \/ RetryGates(t) \/ GitAdd(t) \/ GitCommit(t)
    <3>1. task[t].ops = <<>>
      BY <2>3, <2>9 DEF RecordTurn, PushBranch, CreatePr, SetPrUrl, DoneGates, Gates, FmtFix, RetryGates,
                        GitAdd, GitCommit
    <3>2. \E phase \in Phases \ {"spawned", "apply"} : Goto(t, phase)
      BY <2>9 DEF Phases, RecordTurn, PushBranch, CreatePr, SetPrUrl, DoneGates, Gates, FmtFix, RetryGates,
                  GitAdd, GitCommit, Pass, CommitRefused
    <3> QED
      BY <2>7, <3>1, <3>2
  <2> QED
    BY <1>3, <2>4, <2>5, <2>6, <2>8, <2>9 DEF TurnStep, Enter, EnterTimesOut, Leave, LeaveTimesOut
<1>4. ASSUME NEW o \in orphans, OrphanRuns(o) PROVE ApplyInv'
  <2>1. task' = task /\ \A s \in Streams : work'[s] = work[s] \/ work'[s] = Formatted(work[s])
    BY <1>4, OrphanFrame
  <2>2. \A s \in Streams : Formatted(work'[s]) = Formatted(work[s])
    BY <2>1, FormattedFacts DEF TypeOK
  <2>3. \A u \in Tasks : task[u].phase \in {"apply", "leave"} => task[u].stream \in Streams
    BY DEF TypeOK
  <2> QED
    BY <2>1, <2>2, <2>3, <1>a, <1>b
<1>5. CASE CrashAndRestart
  <2>1. \A u \in Tasks : task'[u] = IdleTask
    BY <1>5 DEF CrashAndRestart
  <2> QED
    BY <2>1, <1>b DEF IdleTask
<1> QED
  BY <1>1, <1>2, <1>3, <1>4, <1>5 DEF Next, ServerNext

\* A save keeps the merges, and new ones that are answered are in it.
LEMMA MergeSave ==
    ASSUME TypeOK, MergeInv, NEW s \in Streams, NEW r \in Session, mem[s] # None,
           mem[s].pr_merged => r.pr_merged,
           Save([mem EXCEPT ![s] = r]) \/ SaveFails([mem EXCEPT ![s] = r]), UNCHANGED loop,
           acked' = acked \/ (disk' = [mem EXCEPT ![s] = r] /\ r.pr_merged /\ acked' = acked \cup {s})
    PROVE  MergeInv' /\ MergesStay
<1>1. r # None
  BY PilotConstants
<1>2. mem' = [mem EXCEPT ![s] = r] /\ (disk' = mem' \/ disk' = disk)
  BY DEF Save, SaveFails
<1>3. /\ mem'[s] = r /\ \A x \in Streams : x # s => mem'[x] = mem[x]
      /\ acked \subseteq Streams /\ (loop.phase # "idle" => loop.stream \in Streams)
  BY <1>2 DEF TypeOK
<1>4. \A x \in Streams : MergedIn(mem, x) => MergedIn(mem', x)
  BY <1>1, <1>3 DEF MergedIn
<1>5. MergesStay /\ \A x \in Streams : MergedIn(disk', x) => MergedIn(mem', x)
  BY <1>2, <1>4 DEF MergeInv, MergesStay, MergedIn
<1>6. \A x \in acked' : MergedIn(disk', x)
  <2>1. \A x \in acked : MergedIn(disk', x)
    BY <1>3, <1>5 DEF MergeInv, AckedMergeIsDurable, MergedIn, MergesStay
  <2>2. CASE disk' = [mem EXCEPT ![s] = r] /\ r.pr_merged /\ acked' = acked \cup {s}
    <3>1. disk'[s] = r
      BY <2>2 DEF TypeOK
    <3> QED
      BY <1>1, <2>1, <2>2, <3>1 DEF MergedIn
  <2> QED
    BY <2>1, <2>2
<1>7. loop'.phase \in {"worktree", "checkout", "add_session"} => mem'[loop'.stream] = None
  BY <1>3 DEF MergeInv
<1> QED
  BY <1>5, <1>6, <1>7 DEF MergeInv, AckedMergeIsDurable, MergedIn

\* A step that leaves the sessions alone.
LEMMA MergeFrame ==
    ASSUME TypeOK, MergeInv, UNCHANGED <<mem, disk, acked>>,
           loop'.phase \in {"worktree", "checkout", "add_session"} => mem[loop'.stream] = None
    PROVE  MergeInv' /\ MergesStay
BY DEF MergeInv, MergesStay, MergedIn, AckedMergeIsDurable

\* No step takes a merge out of the state file, whether it was answered or not.
LEMMA MergeStep == TypeOK /\ MergeInv /\ [Next]_vars => MergeInv' /\ MergesStay
<1> SUFFICES ASSUME TypeOK, MergeInv, [Next]_vars PROVE MergeInv' /\ MergesStay
  OBVIOUS
<1> USE DEF state, git, counters, history
<1>1. CASE UNCHANGED vars
  BY <1>1, MergeFrame DEF vars, MergeInv
<1>2. ASSUME NEW s \in Streams, NEW b \in Blocks[s], OpsReady(s, b) PROVE MergeInv' /\ MergesStay
  <2>1. loop'.phase \in {"worktree", "checkout", "add_session"} => mem[loop'.stream] = None
    BY <1>2 DEF OpsReady, Spawn, IdleLoop
  <2> QED
    BY <1>2, <2>1, MergeFrame DEF OpsReady
<1>3. ASSUME NEW s \in Streams, MarkPrMerged(s) PROVE MergeInv' /\ MergesStay
  <2> DEFINE r == [mem[s] EXCEPT !.pr_merged = TRUE]
  <2>1. mem[s] \in Session /\ mem[s] # None
    BY <1>3 DEF MarkPrMerged, TypeOK
  <2>2. r \in Session /\ r.pr_merged
    BY <2>1 DEF Session
  <2>3. /\ Save([mem EXCEPT ![s] = r]) \/ SaveFails([mem EXCEPT ![s] = r])
        /\ UNCHANGED loop
        /\ (acked' = acked \/ (Save([mem EXCEPT ![s] = r]) /\ acked' = acked \cup {s}))
    BY <1>3, <2>1 DEF MarkPrMerged, TypeOK
  <2> HIDE DEF r
  <2>4. acked' = acked \/ (disk' = [mem EXCEPT ![s] = r] /\ r.pr_merged /\ acked' = acked \cup {s})
    BY <2>2, <2>3 DEF Save
  <2> QED
    BY <2>1, <2>2, <2>3, <2>4, MergeSave
<1>4. CASE WorktreeAdd \/ CheckoutBranch
  <2>1. loop'.phase \in {"worktree", "checkout", "add_session"} => mem[loop'.stream] = None
    BY <1>4 DEF WorktreeAdd, CheckoutBranch, GiveUp, IdleLoop, MergeInv, TypeOK, Loop
  <2> QED
    BY <1>4, <2>1, MergeFrame DEF WorktreeAdd, CheckoutBranch
<1>5. CASE AddSession
  <2> DEFINE s == loop.stream
  <2>1. s \in Streams /\ mem[s] = None /\ loop'.phase = "spawn" /\ acked' = acked
    BY <1>5 DEF AddSession, MergeInv, TypeOK, Loop
  <2>2. mem' = [mem EXCEPT ![s] = SessionNew] /\ (disk' = mem' \/ disk' = disk)
    BY <1>5 DEF AddSession, Save, SaveFails
  <2> HIDE DEF s
  <2>3. ~MergedIn(mem, s) /\ ~MergedIn(disk, s)
    BY <2>1 DEF MergedIn, MergeInv
  <2>4. \A x \in Streams : x # s => mem'[x] = mem[x]
    BY <2>2 DEF TypeOK
  <2>5. \A x \in Streams : MergedIn(disk, x) => MergedIn(mem', x) /\ MergedIn(disk', x)
    BY <2>2, <2>3, <2>4 DEF MergedIn, MergeInv
  <2>6. \A x \in Streams : MergedIn(disk', x) => MergedIn(mem', x)
    BY <2>2, <2>5 DEF MergedIn
  <2>7. \A x \in acked' : MergedIn(disk', x)
    BY <2>1, <2>5 DEF MergeInv, AckedMergeIsDurable, MergedIn, TypeOK
  <2> QED
    BY <2>1, <2>5, <2>6, <2>7 DEF MergeInv, MergesStay, MergedIn, AckedMergeIsDurable
<1>6. CASE SpawnTurn
  <2>1. loop'.phase = "idle"
    BY <1>6 DEF SpawnTurn, Spawn, IdleLoop
  <2> QED
    BY <1>6, <2>1, MergeFrame DEF SpawnTurn
<1>7. ASSUME NEW t \in Tasks, TurnStep(t) PROVE MergeInv' /\ MergesStay
  <2> DEFINE s == task[t].stream
  <2>1. s \in Streams /\ UNCHANGED <<loop, acked>>
    BY <1>7, TurnFrame
  <2>2. CASE UNCHANGED <<mem, disk>>
    BY <2>1, <2>2, MergeFrame DEF MergeInv
  <2>3. CASE RecordTurn(t) /\ mem[s] # None
    <3> DEFINE r == [mem[s] EXCEPT !.turn = @ + 1]
    <3>1. mem[s] \in Session
      BY <2>1, <2>3 DEF TypeOK
    <3>2. r \in Session /\ r.pr_merged = mem[s].pr_merged
      BY <3>1 DEF Session
    <3>3. Save([mem EXCEPT ![s] = r]) \/ SaveFails([mem EXCEPT ![s] = r])
      BY <2>3 DEF RecordTurn
    <3> HIDE DEF r
    <3> QED
      BY <2>1, <2>3, <3>2, <3>3, MergeSave
  <2>4. CASE SetPrUrl(t) /\ mem[s] # None
    <3> DEFINE r == [mem[s] EXCEPT !.pr_url = TRUE]
    <3>1. mem[s] \in Session
      BY <2>1, <2>4 DEF TypeOK
    <3>2. r \in Session /\ r.pr_merged = mem[s].pr_merged
      BY <3>1 DEF Session
    <3>3. Save([mem EXCEPT ![s] = r]) \/ SaveFails([mem EXCEPT ![s] = r])
      BY <2>4 DEF SetPrUrl
    <3> HIDE DEF r
    <3> QED
      BY <2>1, <2>4, <3>2, <3>3, MergeSave
  <2> QED
    BY <1>7, <2>2, <2>3, <2>4 DEF TurnStep, Enter, EnterTimesOut, ApplyOp, Decide, RecordTurn, PushBranch,
           CreatePr, SetPrUrl, DoneGates, Gates, FmtFix, RetryGates, GitAdd, GitCommit, Leave, LeaveTimesOut
<1>8. ASSUME NEW o \in orphans, OrphanRuns(o) PROVE MergeInv' /\ MergesStay
  <2>1. UNCHANGED <<mem, disk, acked, loop>>
    BY <1>8 DEF OrphanRuns
  <2> QED
    BY <2>1, MergeFrame DEF MergeInv
<1>9. CASE CrashAndRestart
  BY <1>9 DEF CrashAndRestart, Load, MergeInv, MergesStay, MergedIn, AckedMergeIsDurable, IdleLoop
<1> QED
  BY <1>1, <1>2, <1>3, <1>4, <1>5, <1>6, <1>7, <1>8, <1>9 DEF Next, ServerNext, LoopStep

(***************************************************************************)
(* The theorems.                                                           *)
(***************************************************************************)
\* The invariant holds in every reachable state.
LEMMA Invariance == Spec => []IInv
<1>1. Init => IInv
  <2> SUFFICES ASSUME Init PROVE IInv
    OBVIOUS
  <2>1. TypeOK
    BY TypeInit
  <2>2. \A t \in Tasks : task[t].phase = "idle" /\ task[t].ops = <<>>
    BY DEF Init, IdleTask
  <2> QED
    BY <2>1, <2>2 DEF Init, IInv, OneTurn, Active, CommitInv, CommittedIsGated, ApplyInv,
           FailedApplyChangesNothing, MergeInv, MergedIn, AckedMergeIsDurable, IdleLoop
<1>2. IInv /\ [Next]_vars => IInv'
  BY TypeStep, OneTurnStep, CommitStep, ApplyStep, MergeStep DEF IInv
<1> QED
  BY <1>1, <1>2, PTL DEF Spec

\* The records of the server keep their shape, and whatever is under way is so for a block of a
\* known stream.
THEOREM TurnTypeCorrect == Spec => []TypeOK
BY Invariance, PTL DEF IInv

\* What process_turn_dispatch takes the lock for: two tasks are never in a turn of one stream,
\* even when a mark was left behind by a lock timeout or the server was restarted.
THEOREM TurnsAreApart == Spec => []OneTurn
BY Invariance, PTL DEF IInv

\* commit_all commits what passed run_commit_pipeline, whatever else goes on, unless a `git add`
\* outlived its timeout.
THEOREM CommitCorrect == Spec => []CommittedIsGated
<1>1. IInv => CommittedIsGated
  BY DEF IInv, CommitInv
<1> QED
  BY <1>1, Invariance, PTL

\* apply_ops restores the worktree when an operation fails.
THEOREM RollbackCorrect == Spec => []FailedApplyChangesNothing
<1>1. IInv => FailedApplyChangesNothing
  BY DEF IInv, ApplyInv
<1> QED
  BY <1>1, Invariance, PTL

\* mark_pr_merged: what session_merge_handler answered with OK survives every later save, failed
\* save and crash.
THEOREM MergeCorrect == Spec => []AckedMergeIsDurable
<1>1. IInv => AckedMergeIsDurable
  BY DEF IInv, MergeInv
<1> QED
  BY <1>1, Invariance, PTL

\* Inner::save writes all sessions, mark_pr_merged sets one field and nothing resets it: a merge
\* in the state file is there in every later state, also one whose request was not answered.
THEOREM MergesAreForever == Spec => [][MergesStay]_vars
<1>1. IInv /\ [Next]_vars => [MergesStay]_vars
  BY MergeStep DEF IInv
<1> QED
  BY <1>1, Invariance, PTL DEF Spec
-----------------------------------------------------------------------------
(***************************************************************************)
(* The wave numbers.                                                       *)
(***************************************************************************)
Numberings == [Streams -> Nat]

\* Raise takes the maximum of finitely many numbers.
LEMMA RaiseFacts ==
    ASSUME NEW w \in Numberings
    PROVE  /\ Raise(w) \in Numberings
           /\ \A s \in Streams : \A u \in Upstream[s] : w[u] < Raise(w)[s]
<1> DEFINE C(s) == {w[s]} \cup {1} \cup {w[u] + 1 : u \in Upstream[s]}
<1>1. ASSUME NEW s \in Streams PROVE Max(C(s)) \in C(s) /\ \A y \in C(s) : Max(C(s)) >= y
  <2> DEFINE T == {w[u] + 1 : u \in Upstream[s]}
             f == [u \in Upstream[s] |-> w[u] + 1]
  <2>1. Upstream[s] \in SUBSET Streams /\ w[s] \in Nat
    BY WaveConstants DEF Numberings
  <2>2. IsFiniteSet(Upstream[s])
    BY <2>1, WaveConstants, FS_Subset
  <2>3. f \in Surjection(Upstream[s], T)
    BY DEF Surjection
  <2>4. T \subseteq Nat
    BY <2>1 DEF Numberings
  <2> HIDE DEF f, T
  <2>5. IsFiniteSet(T)
    BY <2>2, <2>3, FS_Surjection
  <2>6. IsFiniteSet({w[s]} \cup {1})
    BY FS_Singleton, FS_Union
  <2>7. IsFiniteSet(({w[s]} \cup {1}) \cup T)
    BY <2>5, <2>6, FS_Union
  <2>8. C(s) = ({w[s]} \cup {1}) \cup T
    BY DEF T
  <2>9. w[s] \in C(s)
    OBVIOUS
  <2> HIDE DEF C
  <2>10. C(s) \in SUBSET Nat
    <3>1. ASSUME NEW x \in C(s) PROVE x \in Nat
      <4>1. x = w[s] \/ x = 1 \/ x \in T
        BY <2>8
      <4>2. 1 \in Nat
        OBVIOUS
      <4> QED
        BY <2>1, <2>4, <4>1, <4>2, Zenon
    <3> QED
      BY <3>1
  <2>11. \E x \in C(s) : \A y \in C(s) : x >= y
    BY <2>7, <2>8, <2>9, <2>10, HasGreatest
  <2> QED
    BY <2>11 DEF Max
<1>2. \A s \in Streams : C(s) \subseteq Nat /\ \A u \in Upstream[s] : w[u] + 1 \in C(s) /\ w[u] \in Nat
  BY WaveConstants DEF Numberings
<1>3. Raise(w) = [s \in Streams |-> Max(C(s))]
  BY DEF Raise
<1> HIDE DEF C
<1>4. \A s \in Streams : Raise(w)[s] \in Nat
  BY <1>1, <1>2, <1>3
<1>5. ASSUME NEW s \in Streams, NEW u \in Upstream[s] PROVE w[u] < Raise(w)[s]
  <2>1. Raise(w)[s] >= w[u] + 1
    BY <1>1, <1>2, <1>3
  <2> QED
    BY <1>2, <1>4, <2>1
<1> QED
  BY <1>3, <1>4, <1>5 DEF Numberings

\* compute_waves numbers all streams.
LEMMA WavesAreNumbers == ComputeWaves \in Numberings
<1> DEFINE N == Cardinality(Streams)
           zero == [s \in Streams |-> 0]
           step == [w \in Numberings |-> Raise(w)]
           after[n \in 0..N] == IF n = 0 THEN zero ELSE Raise(after[n - 1])
<1>1. ComputeWaves = after[N]
  BY DEF ComputeWaves
<1>2. N \in Nat
  BY WaveConstants, FS_CardinalityType
<1>3. step \in [Numberings -> Numberings] /\ zero \in Numberings
  BY RaiseFacts DEF Numberings
<1>4. \A w \in Numberings : step[w] = Raise(w)
  OBVIOUS
<1> HIDE DEF N, zero, step, after
<1>5. PICK f : Rounds(f, zero, step, N)
  BY <1>2, RoundsExist, Zenon
<1>6. /\ f \in [0..N -> Numberings] /\ f[0] = zero
      /\ \A k \in 1..N : f[k] = step[f[k - 1]]
  BY <1>2, <1>3, <1>5, RoundsStay
<1>7. f = [n \in 0..N |-> IF n = 0 THEN zero ELSE Raise(f[n - 1])]
  <2>1. ASSUME NEW k \in 1..N PROVE f[k] = Raise(f[k - 1])
    <3>1. k - 1 \in 0..N
      BY <1>2
    <3> QED
      BY <1>4, <1>6, <3>1
  <2>2. \A k \in 0..N : f[k] = IF k = 0 THEN zero ELSE Raise(f[k - 1])
    BY <1>2, <1>6, <2>1
  <2> QED
    BY <1>6, <2>2
<1>8. after = [n \in 0..N |-> IF n = 0 THEN zero ELSE Raise(after[n - 1])]
  <2>1. \E g : g = [n \in 0..N |-> IF n = 0 THEN zero ELSE Raise(g[n - 1])]
    BY <1>7, Zenon
  <2> USE DEF after
  <2> QED
    BY <2>1, Zenon
<1> DEFINE S == {n \in Nat : after[n] \in Numberings}
<1>9. \A n \in 0..N : after[n] = IF n = 0 THEN zero ELSE Raise(after[n - 1])
  BY <1>8
<1>10. 0 \in S
  BY <1>2, <1>3, <1>9
<1>11. ASSUME NEW n \in 0..(N - 1), n \in S PROVE n + 1 \in S
  <2>1. n + 1 \in 0..N /\ (n + 1) - 1 = n /\ n + 1 # 0 /\ n + 1 \in Nat
    BY <1>2
  <2>2. after[n + 1] = Raise(after[n])
    BY <1>9, <2>1
  <2> QED
    BY <1>11, <2>1, <2>2, RaiseFacts
<1> HIDE DEF S
<1>12. \A n \in 0..N : n \in S
  BY <1>2, <1>10, <1>11, UpTo
<1>13. N \in S
  BY <1>2, <1>12
<1> QED
  BY <1>1, <1>13 DEF S

\* When the loop of compute_waves has ended, every stream is in a later wave than those it
\* depends on.
LEMMA WavesRise ==
    ASSUME WavesSettle
    PROVE  \A s \in Streams : \A u \in Upstream[s] : ComputeWaves[u] < ComputeWaves[s]
BY WavesAreNumbers, RaiseFacts DEF WavesSettle

\* The ancestors of a stream are streams of earlier waves.
LEMMA AncestorsAreEarlier ==
    ASSUME WavesSettle, NEW s \in Streams
    PROVE  \A u \in Ancestors(s) : u \in Streams /\ ComputeWaves[u] < ComputeWaves[s]
<1> DEFINE N == Cardinality(Streams)
           D == SUBSET {u \in Streams : ComputeWaves[u] < ComputeWaves[s]}
           step == [S \in D |-> WithUpstreams(S)]
           above[n \in 0..N] == IF n = 0 THEN Upstream[s] ELSE WithUpstreams(above[n - 1])
<1>1. Ancestors(s) = above[N]
  BY DEF Ancestors
<1>2. N \in Nat
  BY WaveConstants, FS_CardinalityType
<1>3. Upstream[s] \in D
  BY WavesRise, WaveConstants
<1>4. ASSUME NEW S \in D PROVE WithUpstreams(S) \in D
  <2>1. ASSUME NEW v \in S, NEW u \in Upstream[v]
        PROVE  u \in Streams /\ ComputeWaves[u] < ComputeWaves[s]
    <3>1. v \in Streams /\ u \in Streams /\ ComputeWaves[u] < ComputeWaves[v]
          /\ ComputeWaves[v] < ComputeWaves[s]
      BY WavesRise, WaveConstants
    <3> QED
      BY <3>1, WavesAreNumbers DEF Numberings
  <2> QED
    BY <2>1 DEF WithUpstreams
<1>5. step \in [D -> D]
  BY <1>4
<1>6. \A S \in D : step[S] = WithUpstreams(S)
  OBVIOUS
<1> HIDE DEF N, D, step, above
<1>7. PICK f : Rounds(f, Upstream[s], step, N)
  BY <1>2, RoundsExist, Zenon
<1>8. /\ f \in [0..N -> D] /\ f[0] = Upstream[s]
      /\ \A k \in 1..N : f[k] = step[f[k - 1]]
  BY <1>2, <1>3, <1>5, <1>7, RoundsStay
<1>9. f = [n \in 0..N |-> IF n = 0 THEN Upstream[s] ELSE WithUpstreams(f[n - 1])]
  <2>1. ASSUME NEW k \in 1..N PROVE f[k] = WithUpstreams(f[k - 1])
    <3>1. k - 1 \in 0..N
      BY <1>2
    <3> QED
      BY <1>6, <1>8, <3>1
  <2>2. \A k \in 0..N : f[k] = IF k = 0 THEN Upstream[s] ELSE WithUpstreams(f[k - 1])
    BY <1>2, <1>8, <2>1
  <2> QED
    BY <1>8, <2>2
<1>10. above = [n \in 0..N |-> IF n = 0 THEN Upstream[s] ELSE WithUpstreams(above[n - 1])]
  <2>1. \E g : g = [n \in 0..N |-> IF n = 0 THEN Upstream[s] ELSE WithUpstreams(g[n - 1])]
    BY <1>9, Zenon
  <2> USE DEF above
  <2> QED
    BY <2>1, Zenon
<1>11. \A n \in 0..N : above[n] = IF n = 0 THEN Upstream[s] ELSE WithUpstreams(above[n - 1])
  BY <1>10
<1> DEFINE S == {n \in Nat : above[n] \in D}
<1>12. 0 \in S
  BY <1>2, <1>3, <1>11
<1>13. ASSUME NEW n \in 0..(N - 1), n \in S PROVE n + 1 \in S
  <2>1. n + 1 \in 0..N /\ (n + 1) - 1 = n /\ n + 1 # 0 /\ n + 1 \in Nat
    BY <1>2
  <2>2. above[n + 1] = WithUpstreams(above[n])
    BY <1>11, <2>1
  <2> QED
    BY <1>4, <1>13, <2>1, <2>2
<1> HIDE DEF S
<1>14. \A n \in 0..N : n \in S
  BY <1>2, <1>12, <1>13, UpTo
<1>15. above[N] \in D
  BY <1>2, <1>14 DEF S
<1> QED
  BY <1>1, <1>15 DEF D

\* run_wave takes the first wave that is not merged as a whole: all earlier ones are.
LEMMA EarlierIsMerged ==
    ASSUME NEW u \in Streams, ComputeWaves[u] < CurrentWave
    PROVE  GetPrMerged(u)
<1> DEFINE open == {ComputeWaves[s] : s \in {x \in Streams : ~GetPrMerged(x)}}
<1>1. CurrentWave = IF open = {} THEN 0 ELSE Min(open)
  BY DEF CurrentWave
<1>2. open \in SUBSET Nat /\ ComputeWaves[u] \in Nat
  BY WavesAreNumbers DEF Numberings
<1>3. ~GetPrMerged(u) => ComputeWaves[u] \in open
  OBVIOUS
<1> HIDE DEF open
<1>4. CASE open = {}
  BY <1>3, <1>4
<1>5. CASE open # {}
  <2>1. \E m \in open : \A n \in open : m <= n
    BY <1>2, <1>5, HasLeast
  <2>2. Min(open) \in open /\ \A n \in open : Min(open) <= n
    BY <2>1 DEF Min
  <2>3. ~(ComputeWaves[u] \in open)
    BY <1>1, <1>2, <1>5, <2>2
  <2> QED
    BY <1>3, <2>3
<1> QED
  BY <1>4, <1>5

(***************************************************************************)
(* The invariant.  A wave is chosen from one reading of the state file,    *)
(* its streams are assigned and posted later, by processes of their own:   *)
(* what was merged when they were chosen still has to be.                  *)
(***************************************************************************)
Ready(s) == \A u \in Ancestors(s) : MergedIn(disk, u)

TodoIsReady == \A s \in cli.todo : Ready(s)

\* Ancestors are streams, so that nothing unmerges them.
StartedAreStreams ==
    \A s \in cli.todo \cup {a[1] : a \in by_wave \cup assigned} : Ancestors(s) \subseteq Streams

WaveInv ==
    /\ TypeOK /\ MergeInv
    /\ AgentOK
    /\ TodoIsReady
    /\ StartedAreStreams
    /\ UpstreamsMergedFirst

\* Nothing is chosen, assigned or posted at first.
LEMMA WaveInit == PilotInit => WaveInv
<1> SUFFICES ASSUME PilotInit PROVE WaveInv
  OBVIOUS
<1>1. TypeOK
  BY TypeInit DEF PilotInit
<1>2. MergeInv
  BY DEF PilotInit, Init, MergeInv, MergedIn, AckedMergeIsDurable, IdleLoop
<1>3. cli = IdleCli /\ tabs = {} /\ assigned = {} /\ by_wave = {} /\ waves = 0
  BY DEF PilotInit
<1>4. AgentOK
  BY <1>3, WaveConstants DEF AgentOK, IdleCli
<1>5. cli.todo = {}
  BY <1>3 DEF IdleCli
<1>6. TodoIsReady /\ StartedAreStreams /\ UpstreamsMergedFirst
  BY <1>3, <1>5 DEF TodoIsReady, StartedAreStreams, UpstreamsMergedFirst
<1> QED
  BY <1>1, <1>2, <1>4, <1>6 DEF WaveInv

\* The invariant after a step in which the server does nothing or one of its own steps, and the
\* agent starts only what is ready.
LEMMA WaveKept ==
    ASSUME WaveInv, [Next]_vars, AgentOK', StartedAreStreams',
           \A s \in cli'.todo : s \in cli.todo \/ Ready(s),
           \A a \in by_wave' \cup assigned' : a \in by_wave \cup assigned \/ Ready(a[1])
    PROVE  WaveInv'
<1>1. TypeOK' /\ MergeInv' /\ MergesStay
  BY TypeStep, MergeStep DEF WaveInv
<1>2. \A s : Ancestors(s) \subseteq Streams /\ Ready(s) =>
          \A u \in Ancestors(s) : MergedIn(disk', u)
  BY <1>1 DEF Ready, MergesStay
<1>3. TodoIsReady'
  <2>1. ASSUME NEW s \in cli'.todo PROVE \A u \in Ancestors(s) : MergedIn(disk', u)
    <3>1. Ready(s)
      BY DEF WaveInv, TodoIsReady
    <3>2. Ancestors(s) \subseteq Streams
      BY DEF StartedAreStreams
    <3> QED
      BY <1>2, <3>1, <3>2
  <2> QED
    BY <2>1 DEF TodoIsReady, Ready, MergedIn
<1>4. UpstreamsMergedFirst'
  <2>1. ASSUME NEW a \in by_wave' \cup assigned' PROVE \A u \in Ancestors(a[1]) : MergedIn(disk', u)
    <3>1. Ready(a[1])
      BY DEF WaveInv, UpstreamsMergedFirst, Ready, MergedIn
    <3>2. Ancestors(a[1]) \subseteq Streams
      BY DEF StartedAreStreams
    <3> QED
      BY <1>2, <3>1, <3>2
  <2> QED
    BY <2>1 DEF UpstreamsMergedFirst, MergedIn
<1> QED
  BY <1>1, <1>3, <1>4 DEF WaveInv

\* The wave that is chosen is ready.
LEMMA ChosenIsReady ==
    ASSUME WavesSettle, NEW s \in Streams, ComputeWaves[s] = CurrentWave
    PROVE  Ready(s) /\ Ancestors(s) \subseteq Streams
<1>1. \A u \in Ancestors(s) : u \in Streams /\ GetPrMerged(u)
  BY AncestorsAreEarlier, EarlierIsMerged
<1> QED
  BY <1>1 DEF Ready, GetPrMerged, MergedIn

LEMMA WaveStep == WaveInv /\ [PilotNext]_pilotVars => WaveInv'
<1> SUFFICES ASSUME WaveInv, [PilotNext]_pilotVars PROVE WaveInv'
  OBVIOUS
<1>1. /\ AgentOK /\ StartedAreStreams
      /\ tabs \subseteq Streams /\ waves \in Nat
      /\ cli \in [phase : {"idle", "assign"}, todo : SUBSET Streams, free : [Providers -> Nat]]
      /\ assigned \subseteq Streams \X Providers /\ by_wave \subseteq Streams \X Providers
  BY DEF WaveInv, AgentOK
<1>2. CASE UNCHANGED agent /\ [Next]_vars
  <2>1. AgentOK' /\ StartedAreStreams'
    BY <1>1, <1>2 DEF agent, AgentOK, StartedAreStreams
  <2> QED
    BY <1>2, <2>1, WaveKept DEF agent
<1>3. CASE WaveNext
  <2>1. /\ cli' = [phase |-> "assign", todo |-> {s \in Streams : ComputeWaves[s] = CurrentWave},
                   free |-> MaxConcurrent]
        /\ waves' = waves + 1 /\ WavesSettle /\ UNCHANGED <<vars, tabs, assigned, by_wave>>
    BY <1>3 DEF WaveNext
  <2>2. \A s \in cli'.todo : Ready(s) /\ Ancestors(s) \subseteq Streams
    BY <2>1, ChosenIsReady
  <2>3. AgentOK'
    BY <1>1, <2>1, WaveConstants DEF AgentOK
  <2>4. StartedAreStreams'
    BY <1>1, <2>1, <2>2 DEF StartedAreStreams
  <2> QED
    BY <2>1, <2>2, <2>3, <2>4, WaveKept
<1>4. ASSUME NEW s \in Streams, NEW p \in Providers, Assign(s, p) PROVE WaveInv'
  <2>1. /\ s \in cli.todo /\ p \in MostSlotsAvailable
        /\ cli' = [cli EXCEPT !.todo = @ \ {s}, !.free[p] = @ - 1]
        /\ assigned' = assigned \cup {<<s, p>>} /\ UNCHANGED <<vars, tabs, by_wave, waves>>
    BY <1>4 DEF Assign
  <2>2. cli.free[p] \in Nat /\ cli.free[p] > 0
    BY <1>1, <2>1 DEF MostSlotsAvailable
  <2>3. /\ cli'.todo = cli.todo \ {s} /\ cli'.todo \in SUBSET Streams
        /\ cli' \in [phase : {"idle", "assign"}, todo : SUBSET Streams, free : [Providers -> Nat]]
    <3> DEFINE free == [cli.free EXCEPT ![p] = @ - 1]
               todo == cli.todo \ {s}
    <3>1. cli.free[p] - 1 \in Nat
      BY <2>2
    <3>2. free \in [Providers -> Nat] /\ todo \in SUBSET Streams
      BY <1>1, <3>1
    <3>3. cli' = [cli EXCEPT !.todo = todo, !.free = free]
      BY <1>1, <2>1
    <3> HIDE DEF free, todo
    <3>4. cli'.todo = todo /\ cli' \in [phase : {"idle", "assign"}, todo : SUBSET Streams, free : [Providers -> Nat]]
      BY <1>1, <3>2, <3>3
    <3> QED
      BY <3>2, <3>4 DEF todo
  <2>4. AgentOK'
    BY <1>1, <2>1, <2>3 DEF AgentOK
  <2>5. StartedAreStreams'
    BY <1>1, <2>1, <2>3 DEF StartedAreStreams
  <2>6. Ready(s)
    BY <2>1 DEF WaveInv, TodoIsReady
  <2>7. \A a \in by_wave' \cup assigned' : a \in by_wave \cup assigned \/ Ready(a[1])
    BY <2>1, <2>6
  <2> QED
    BY <2>1, <2>3, <2>4, <2>5, <2>7, WaveKept
<1>5. CASE AssignEnds
  <2>1. cli' = IdleCli /\ UNCHANGED <<vars, tabs, assigned, by_wave, waves>>
    BY <1>5 DEF AssignEnds
  <2>2. cli'.todo = {}
    BY <2>1 DEF IdleCli
  <2>3. AgentOK'
    BY <1>1, <2>1, WaveConstants DEF AgentOK, IdleCli
  <2>4. StartedAreStreams'
    BY <1>1, <2>1, <2>2 DEF StartedAreStreams
  <2> QED
    BY <2>1, <2>2, <2>3, <2>4, WaveKept
<1>6. CASE CliExits
  <2>1. assigned' = {} /\ UNCHANGED <<vars, tabs, cli, by_wave, waves>>
    BY <1>6 DEF CliExits
  <2>2. AgentOK' /\ StartedAreStreams'
    BY <1>1, <2>1 DEF AgentOK, StartedAreStreams
  <2> QED
    BY <2>1, <2>2, WaveKept
<1>7. ASSUME NEW s \in Streams, RunStream(s) PROVE WaveInv'
  <2>1. tabs' \subseteq Streams /\ UNCHANGED <<vars, cli, assigned, by_wave, waves>>
    BY <1>1, <1>7 DEF RunStream, SessionStart
  <2>2. AgentOK' /\ StartedAreStreams'
    BY <1>1, <2>1 DEF AgentOK, StartedAreStreams
  <2> QED
    BY <2>1, <2>2, WaveKept
<1>8. ASSUME NEW a \in assigned, PostStart(a) PROVE WaveInv'
  <2>1. /\ assigned' = assigned \ {a} /\ by_wave' = by_wave \cup {a}
        /\ tabs' \in {tabs, tabs \cup {a[1]}} /\ UNCHANGED <<vars, cli, waves>>
    BY <1>8 DEF PostStart, SessionStart
  <2>2. a \in Streams \X Providers /\ a[1] \in Streams
    BY <1>1
  <2>3. AgentOK'
    BY <1>1, <2>1, <2>2 DEF AgentOK
  <2>4. by_wave' \cup assigned' \subseteq by_wave \cup assigned
    BY <2>1
  <2>5. StartedAreStreams'
    BY <1>1, <2>1, <2>4 DEF StartedAreStreams
  <2> QED
    BY <2>1, <2>3, <2>4, <2>5, WaveKept
<1>9. ASSUME NEW s \in Streams, NEW b \in Blocks[s], SendOps(s, b) PROVE WaveInv'
  BY <1>2, <1>9 DEF SendOps, Next
<1>10. CASE Server
  BY <1>2, <1>10 DEF Server, Next
<1>11. CASE UNCHANGED pilotVars
  BY <1>2, <1>11 DEF pilotVars
<1> QED
  BY <1>3, <1>4, <1>5, <1>6, <1>7, <1>8, <1>9, <1>10, <1>11 DEF PilotNext, AgentNext

LEMMA WaveInvariance == PilotSpec => []WaveInv
BY WaveInit, WaveStep, PTL DEF PilotSpec

\* The agent's records keep their shape, and a provider never has fewer than no slots.
THEOREM AgentTypeCorrect == PilotSpec => []AgentOK
<1>1. WaveInv => AgentOK
  BY DEF WaveInv
<1> QED
  BY <1>1, WaveInvariance, PTL

\* `agent wave --next` starts no stream before all the streams it depends on are marked as merged
\* in the state file, whatever the server does in between.
THEOREM WavesCorrect == PilotSpec => []UpstreamsMergedFirst
<1>1. WaveInv => UpstreamsMergedFirst
  BY DEF WaveInv
<1> QED
  BY <1>1, WaveInvariance, PTL
=============================================================================
