----------------------------- MODULE PilotTurn -----------------------------
(***************************************************************************)
(* The pilot's server (tools/glyim-pilot): the event loop of run_serve     *)
(* takes an OpsReady message, makes the stream's git worktree and session  *)
(* if it has none, and spawns a task that runs one turn: apply the file    *)
(* operations, then push and open a pull request, run the done gates, run  *)
(* the commit gates and commit, or just count the turn.  Tasks of several  *)
(* streams run side by side; one stream's are kept apart by `processing`.  *)
(*                                                                         *)
(* What outlives the server is the state file (disk) and git: worktree,    *)
(* index, HEAD, what was pushed, the pull request.  A crash is followed by *)
(* a restart that loads the state file.                                    *)
(*                                                                         *)
(* A command that runs out of time is an error to its caller, but          *)
(* run_timed_command only drops the future: the child goes on.  It is then *)
(* an orphan, which may still have its effect at any later time.           *)
(*                                                                         *)
(* The session id of the messages is the stream's id: SessionState::new    *)
(* gives the record an id of its own, so that get_stream_id finds no       *)
(* record and its caller falls back on the id of the message.              *)
(***************************************************************************)
EXTENDS Naturals, Sequences, FiniteSets

CONSTANTS
    Streams,
    Tasks,          \* bound: the turns that can be under way at once
    Files,
    Main,           \* the default branch: file -> content
    Locked,         \* files that hold the interfaces of CONTRACTS_LOCKED.md
    None,           \* no session, no stream, no branch
    Blocks,         \* stream -> the ops blocks the extension may send for it
    MaxFixRounds,
    MaxMessages,    \* bound: OpsReady messages
    MaxFaults,      \* bound: commands that fail or time out, saves that fail
    MaxCrashes      \* bound

Content == {"absent", "clean", "unformatted", "banned"}

Trees == [Files -> Content]

Kinds == {"garbled", "approved", "done", "incomplete", "commit", "plain"}

FileOps ==
    [op : {"write"}, path : Files, content : Content \ {"absent"}]
    \cup [op : {"replace"}, path : Files, find : Content \ {"absent"}, content : Content \ {"absent"}]
    \cup [op : {"delete"}, path : Files]

Session == [turn : Nat, fix_round : Nat, pr_url : BOOLEAN, pr_merged : BOOLEAN]

ASSUME PilotConstants ==
    /\ Main \in Trees /\ Locked \subseteq Files
    /\ \A s \in Streams : \A b \in Blocks[s] : b.kind \in Kinds /\ b.ops \in Seq(FileOps)
    /\ MaxFixRounds \in Nat /\ MaxMessages \in Nat /\ MaxFaults \in Nat /\ MaxCrashes \in Nat
    /\ None \notin Streams /\ None \notin Session

VARIABLES
    mem, disk,      \* GlobalState.sessions in memory and in the state file
    processing,     \* the streams whose turn is under way
    task,           \* task -> [phase, stream, block, ops, backup, applied]
    loop,           \* the event loop: [phase, stream, block]
    acked,          \* streams whose merge request was answered with OK
    tree,           \* worktree directory: "none", "detached" or "branch"
    work, index, head,  \* of each worktree: stream -> file -> content
    pushed, pr,     \* what the remote has: the branch's tree, the pull request
    orphans,        \* [stream, cmd]: children that outlived their timeout
    sent, faults, crashes,   \* counters for the bounds
    gated,          \* history: the trees that passed the commit pipeline
    late,           \* history: streams whose index an orphan wrote
    failures        \* history: failed commits in a row

git == <<tree, work, index, head, pushed, pr>>

state == <<mem, disk>>

counters == <<sent, faults, crashes>>

history == <<gated, late, failures>>

vars == <<mem, disk, processing, task, loop, acked, git, orphans, counters, history>>

SessionNew == [turn |-> 0, fix_round |-> 0, pr_url |-> FALSE, pr_merged |-> FALSE]

Phases == {"idle", "spawned", "apply", "push", "create_pr", "set_pr_url", "done_gates",
           "gates", "fmt_fix", "retry_gates", "add", "commit", "record_turn", "leave"}

IdleTask == [phase |-> "idle", stream |-> None, block |-> None, ops |-> <<>>,
             backup |-> Main, applied |-> {}]

IdleLoop == [phase |-> "idle", stream |-> None, block |-> None]

Commands == {"worktree", "checkout", "fmt", "add", "commit", "push", "pr"}

LoopPhases == {"idle", "worktree", "checkout", "add_session", "spawn"}

AllBlocks == UNION {Blocks[s] : s \in Streams}

Task == [phase : Phases, stream : Streams \cup {None}, block : AllBlocks \cup {None},
         ops : Seq(FileOps), backup : Trees, applied : SUBSET Files]

Loop == [phase : LoopPhases, stream : Streams \cup {None}, block : AllBlocks \cup {None}]

\* Records of the right shape; a task or the loop that is not idle works on a stream and on a
\* block of that stream.
TypeOK ==
    /\ mem \in [Streams -> Session \cup {None}] /\ disk \in [Streams -> Session \cup {None}]
    /\ processing \subseteq Streams /\ acked \subseteq Streams
    /\ task \in [Tasks -> Task]
    /\ \A t \in Tasks : task[t].phase # "idle" =>
           task[t].stream \in Streams /\ task[t].block \in Blocks[task[t].stream]
    /\ loop \in Loop
    /\ loop.phase # "idle" => loop.stream \in Streams /\ loop.block \in Blocks[loop.stream]
    /\ tree \in [Streams -> {"none", "detached", "branch"}]
    /\ work \in [Streams -> Trees] /\ index \in [Streams -> Trees] /\ head \in [Streams -> Trees]
    /\ pushed \in [Streams -> Trees \cup {None}] /\ pr \in [Streams -> BOOLEAN]
    /\ orphans \subseteq [stream : Streams, cmd : Commands]
    /\ sent \in Nat /\ faults \in Nat /\ crashes \in Nat
    /\ gated \in [Streams -> SUBSET Trees] /\ late \subseteq Streams
    /\ failures \in [Streams -> Nat]

Init ==
    /\ mem = [s \in Streams |-> None] /\ disk = [s \in Streams |-> None]
    /\ processing = {} /\ task = [t \in Tasks |-> IdleTask] /\ loop = IdleLoop
    /\ acked = {}
    /\ tree = [s \in Streams |-> "none"]
    /\ work = [s \in Streams |-> Main] /\ index = [s \in Streams |-> Main]
    /\ head = [s \in Streams |-> Main]
    /\ pushed = [s \in Streams |-> None] /\ pr = [s \in Streams |-> FALSE]
    /\ orphans = {}
    /\ sent = 0 /\ faults = 0 /\ crashes = 0
    /\ gated = [s \in Streams |-> {}] /\ late = {} /\ failures = [s \in Streams |-> 0]

(***************************************************************************)
(* Persistence.  Inner::save writes a temporary file and renames it, with  *)
(* the lock held: the state file changes in one step or not at all.  When  *)
(* the save fails the change stays in memory.                              *)
(***************************************************************************)
Save(new) == mem' = new /\ disk' = new /\ UNCHANGED faults

SaveFails(new) == faults < MaxFaults /\ faults' = faults + 1 /\ mem' = new /\ UNCHANGED disk

\* Inner::load, at the start of serve.
Load == mem' = disk

(***************************************************************************)
(* External commands: the outcomes of run_timed_command.                   *)
(***************************************************************************)
\* The command is over in time and did what it does.
Succeeds == UNCHANGED <<faults, orphans>>

\* It could not be run, or exited with an error, and did nothing.
Fails == faults < MaxFaults /\ faults' = faults + 1 /\ UNCHANGED orphans

\* It is given up after timeout_secs; the child is not killed.
TimesOut(s, cmd) ==
    /\ faults < MaxFaults /\ faults' = faults + 1
    /\ orphans' = orphans \cup {[stream |-> s, cmd |-> cmd]}

Formatted(w) == [f \in Files |-> IF w[f] = "unformatted" THEN "clean" ELSE w[f]]

(***************************************************************************)
(* The event loop: handle_extension_message.  OpsReady is the only message *)
(* that changes state.  The messages that go back to the extension (one    *)
(* for each outcome but an error and "wait") are left out: nothing in the  *)
(* server waits for an answer to them.                                     *)
(***************************************************************************)
\* The turn is spawned; the loop is free for the next message.
Spawn(s, b) ==
    LET idle == {t \in Tasks : task[t].phase = "idle"}
        t == CHOOSE x \in idle : TRUE
    IN  /\ idle # {}
        /\ task' = [task EXCEPT ![t] = [IdleTask EXCEPT !.phase = "spawned", !.stream = s, !.block = b,
                                                        !.ops = b.ops]]
        /\ loop' = IdleLoop

OpsReady(s, b) ==
    /\ loop.phase = "idle" /\ sent < MaxMessages
    /\ sent' = sent + 1
    /\ IF mem[s] # None
       THEN Spawn(s, b)
       ELSE loop' = [phase |-> "worktree", stream |-> s, block |-> b] /\ UNCHANGED task
    /\ UNCHANGED <<state, processing, acked, git, orphans, faults, crashes, history>>

\* Worktree creation failed: no turn.
GiveUp == loop' = IdleLoop

\* `git worktree add --detach`, which refuses a directory that is there.
WorktreeAdd ==
    LET s == loop.stream
    IN  /\ loop.phase = "worktree"
        /\ \/ /\ tree[s] = "none" /\ Succeeds
              /\ tree' = [tree EXCEPT ![s] = "detached"]
              /\ loop' = [loop EXCEPT !.phase = "checkout"]
           \/ tree[s] # "none" /\ Succeeds /\ GiveUp /\ UNCHANGED tree
           \/ tree[s] = "none" /\ (Fails \/ TimesOut(s, "worktree")) /\ GiveUp /\ UNCHANGED tree
        /\ UNCHANGED <<state, processing, task, acked, work, index, head, pushed, pr, sent, crashes,
                       history>>

\* `git checkout -b` in the new worktree.
CheckoutBranch ==
    LET s == loop.stream
    IN  /\ loop.phase = "checkout"
        /\ \/ /\ Succeeds /\ tree' = [tree EXCEPT ![s] = "branch"]
              /\ loop' = [loop EXCEPT !.phase = "add_session"]
           \/ (Fails \/ TimesOut(s, "checkout")) /\ GiveUp /\ UNCHANGED tree
        /\ UNCHANGED <<state, processing, task, acked, work, index, head, pushed, pr, sent, crashes,
                       history>>

\* add_session; an error of the save is only logged.
AddSession ==
    LET new == [mem EXCEPT ![loop.stream] = SessionNew]
    IN  /\ loop.phase = "add_session"
        /\ Save(new) \/ SaveFails(new)
        /\ loop' = [loop EXCEPT !.phase = "spawn"]
        /\ UNCHANGED <<processing, task, acked, git, orphans, sent, crashes, history>>

SpawnTurn ==
    /\ loop.phase = "spawn"
    /\ Spawn(loop.stream, loop.block)
    /\ UNCHANGED <<state, processing, acked, git, orphans, counters, history>>

\* Mutant: the merge is answered before it is saved.
MarkPrMergedUnsaved(s) ==
    /\ mem[s] # None
    /\ mem' = [mem EXCEPT ![s].pr_merged = TRUE]
    /\ acked' = acked \cup {s}
    /\ UNCHANGED <<disk, processing, task, loop, git, orphans, counters, history>>

\* POST /session/{id}/merge: session_merge_handler and mark_pr_merged.
MarkPrMerged(s) ==
    LET new == [mem EXCEPT ![s].pr_merged = TRUE]
    IN  /\ mem[s] # None
        /\ \/ Save(new) /\ acked' = acked \cup {s}
           \/ SaveFails(new) /\ UNCHANGED acked
        /\ UNCHANGED <<processing, task, loop, git, orphans, sent, crashes, history>>

(***************************************************************************)
(* A turn: process_turn_dispatch around process_turn_inner.                *)
(***************************************************************************)
Goto(t, phase) == task' = [task EXCEPT ![t].phase = phase]

\* Mutant: the mark is set, but a duplicate is not turned away.
EnterAnyway(t) ==
    /\ task[t].phase = "spawned"
    /\ processing' = processing \cup {task[t].stream}
    /\ task' = [task EXCEPT ![t].phase = IF task[t].block.kind = "garbled" THEN "leave" ELSE "apply",
                            ![t].backup = work[task[t].stream]]
    /\ UNCHANGED <<state, loop, acked, git, orphans, counters, history>>

\* Mutant: a duplicate waits for the mark to go away.
EnterWhenFree(t) ==
    /\ task[t].phase = "spawned" /\ task[t].stream \notin processing
    /\ EnterAnyway(t)

\* insert into `processing`; a duplicate is dropped.  A block that parse_ops_block or
\* validate_limits refuses ends the turn at once; else create_backups notes the content of the files before the first operation.
Enter(t) ==
    LET s == task[t].stream
    IN  /\ task[t].phase = "spawned"
        /\ IF s \in processing
           THEN task' = [task EXCEPT ![t] = IdleTask] /\ UNCHANGED processing
           ELSE /\ processing' = processing \cup {s}
                /\ task' = [task EXCEPT
                       ![t].phase = IF task[t].block.kind = "garbled" THEN "leave" ELSE "apply",
                       ![t].backup = work[s]]
        /\ UNCHANGED <<state, loop, acked, git, orphans, counters, history>>

\* The lock on `processing` is not got within 5 s: the turn is skipped.
EnterTimesOut(t) ==
    /\ task[t].phase = "spawned" /\ Fails
    /\ task' = [task EXCEPT ![t] = IdleTask]
    /\ UNCHANGED <<state, processing, loop, acked, git, sent, crashes, history>>

\* write and delete; replace needs the text exactly once, delete the file.
OpApplies(op, w) ==
    CASE op.op = "write" -> TRUE
      [] op.op = "replace" -> w[op.path] = op.find
      [] op.op = "delete" -> w[op.path] # "absent"

OpResult(op, w) == [w EXCEPT ![op.path] = IF op.op = "delete" THEN "absent" ELSE op.content]

\* Mutant: files that an operation deleted are not restored.
RollbackKeepsDeletes(t) ==
    LET s == task[t].stream
    IN  [f \in Files |-> IF f \in task[t].applied /\ work[s][f] # "absent"
                         THEN task[t].backup[f] ELSE work[s][f]]

\* rollback: every file that an operation of this block changed gets its backup.
Rollback(t) ==
    LET s == task[t].stream
    IN  [f \in Files |-> IF f \in task[t].applied THEN task[t].backup[f] ELSE work[s][f]]

\* apply_ops, one operation at a time; at the first that fails it rolls back.
ApplyOp(t) ==
    LET s == task[t].stream
        op == Head(task[t].ops)
    IN  /\ task[t].phase = "apply" /\ task[t].ops # <<>>
        /\ IF OpApplies(op, work[s])
           THEN /\ work' = [work EXCEPT ![s] = OpResult(op, @)]
                /\ task' = [task EXCEPT ![t].ops = Tail(@), ![t].applied = @ \cup {op.path}]
           ELSE /\ work' = [work EXCEPT ![s] = Rollback(t)]
                /\ task' = [task EXCEPT ![t].phase = "leave"]
        /\ UNCHANGED <<state, processing, loop, acked, tree, index, head, pushed, pr, orphans,
                       counters, history>>

\* The order of the tests in process_turn_inner: approved, done, incomplete, commit.
Decide(t) ==
    LET kind == task[t].block.kind
    IN  /\ task[t].phase = "apply" /\ task[t].ops = <<>>
        /\ Goto(t, CASE kind = "approved" -> "push"
                     [] kind = "done" -> "done_gates"
                     [] kind = "incomplete" -> "leave"
                     [] kind = "commit" -> "gates"
                     [] OTHER -> "record_turn")
        /\ UNCHANGED <<state, processing, loop, acked, git, orphans, counters, history>>

\* try_update_session(record_turn); no message is sent.
RecordTurn(t) ==
    LET s == task[t].stream
        new == IF mem[s] = None THEN mem ELSE [mem EXCEPT ![s].turn = @ + 1]
    IN  /\ task[t].phase = "record_turn"
        /\ IF mem[s] = None THEN UNCHANGED <<state, faults>> ELSE Save(new) \/ SaveFails(new)
        /\ Goto(t, "leave")
        /\ UNCHANGED <<processing, loop, acked, git, orphans, sent, crashes, history>>

\* approved: push_branch, which does not look at the gates or at uncommitted work.
PushBranch(t) ==
    LET s == task[t].stream
    IN  /\ task[t].phase = "push"
        /\ \/ Succeeds /\ pushed' = [pushed EXCEPT ![s] = head[s]] /\ Goto(t, "create_pr")
           \/ (Fails \/ TimesOut(s, "push")) /\ Goto(t, "leave") /\ UNCHANGED pushed
        /\ UNCHANGED <<state, processing, loop, acked, tree, work, index, head, pr, sent,
                       crashes, history>>

\* `gh pr create` fails when the branch has a pull request.
CreatePr(t) ==
    LET s == task[t].stream
    IN  /\ task[t].phase = "create_pr"
        /\ \/ ~pr[s] /\ Succeeds /\ pr' = [pr EXCEPT ![s] = TRUE] /\ Goto(t, "set_pr_url")
           \/ pr[s] /\ Succeeds /\ Goto(t, "leave") /\ UNCHANGED pr
           \/ ~pr[s] /\ (Fails \/ TimesOut(s, "pr")) /\ Goto(t, "leave") /\ UNCHANGED pr
        /\ UNCHANGED <<state, processing, loop, acked, tree, work, index, head, pushed, sent,
                       crashes, history>>

SetPrUrl(t) ==
    LET s == task[t].stream
        new == [mem EXCEPT ![s].pr_url = TRUE]
    IN  /\ task[t].phase = "set_pr_url"
        /\ \/ mem[s] # None /\ Save(new)
           \/ mem[s] # None /\ SaveFails(new)
           \/ mem[s] = None /\ UNCHANGED <<state, faults>>
        /\ Goto(t, "leave")
        /\ UNCHANGED <<processing, loop, acked, git, orphans, sent, crashes, history>>

\* done: run_done_pipeline (cargo commands, external), then the diff and the log for the review.
DoneGates(t) ==
    /\ task[t].phase = "done_gates"
    /\ Succeeds \/ Fails
    /\ Goto(t, "leave")
    /\ UNCHANGED <<state, processing, loop, acked, git, sent, crashes, history>>

(***************************************************************************)
(* commit: CommitEngine::evaluate_commit.                                  *)
(***************************************************************************)
\* git diff --name-only main..HEAD: what is committed, not what is about to be.
ChangedFiles(s) == {f \in Files : head[s][f] # Main[f]}

\* BannedPatternGate and ArchitectureGate scan the changed files, or every file if there are none.
Scanned(s) == IF ChangedFiles(s) = {} THEN Files ELSE ChangedFiles(s)

\* run_commit_pipeline: fmt and cargo look at the worktree, the pattern scan at the
\* changed files, the contract gate at the difference of HEAD from main.
FmtPasses(s) == \A f \in Files : work[s][f] # "unformatted"

MayPass(s) ==
    /\ FmtPasses(s)
    /\ \A f \in Scanned(s) : work[s][f] # "banned"
    /\ \A f \in Locked : ~(Main[f] # "absent" /\ head[s][f] = "absent")

\* escalate_or_retry on the round read from the session, which nothing ever writes.
FixRound(s) == IF mem[s] = None THEN 0 ELSE mem[s].fix_round

CommitRefused(t) ==
    LET s == task[t].stream
    IN  /\ failures' = [failures EXCEPT ![s] = IF FixRound(s) + 1 > MaxFixRounds THEN 0 ELSE @ + 1]
        /\ Goto(t, "leave")

Pass(t) ==
    LET s == task[t].stream
    IN  /\ gated' = [gated EXCEPT ![s] = @ \cup {work[s]}]
        /\ Goto(t, "add")

\* The first pipeline: pass, a failure of fmt (then the fix), another failure, or an error.
Gates(t) ==
    LET s == task[t].stream
    IN  /\ task[t].phase = "gates"
        /\ \/ MayPass(s) /\ Succeeds /\ Pass(t) /\ UNCHANGED failures
           \/ ~FmtPasses(s) /\ Succeeds /\ Goto(t, "fmt_fix") /\ UNCHANGED <<failures, gated>>
           \/ FmtPasses(s) /\ Succeeds /\ CommitRefused(t) /\ UNCHANGED gated
           \/ Fails /\ Goto(t, "leave") /\ UNCHANGED <<failures, gated>>
        /\ UNCHANGED <<state, processing, loop, acked, git, sent, crashes, late>>

\* run_fmt_fix: cargo fmt rewrites the worktree.  If it reports an error the commit is refused;
\* if it cannot be run the turn ends in an error.
FmtFix(t) ==
    LET s == task[t].stream
    IN  /\ task[t].phase = "fmt_fix"
        /\ \/ Succeeds /\ work' = [work EXCEPT ![s] = Formatted(@)] /\ Goto(t, "retry_gates")
              /\ UNCHANGED failures
           \/ Fails /\ CommitRefused(t) /\ UNCHANGED work
           \/ (Fails \/ TimesOut(s, "fmt")) /\ Goto(t, "leave") /\ UNCHANGED <<work, failures>>
        /\ UNCHANGED <<state, processing, loop, acked, tree, index, head, pushed, pr, sent, crashes,
                       gated, late>>

\* Mutant: after the fix the commit is made without running the gates again.
RetryGatesSkipped(t) ==
    /\ task[t].phase = "retry_gates" /\ Succeeds /\ Goto(t, "add")
    /\ UNCHANGED <<state, processing, loop, acked, git, sent, crashes, history>>

\* The pipeline again on the formatted tree.
RetryGates(t) ==
    LET s == task[t].stream
    IN  /\ task[t].phase = "retry_gates"
        /\ \/ MayPass(s) /\ Succeeds /\ Pass(t) /\ UNCHANGED failures
           \/ Succeeds /\ CommitRefused(t) /\ UNCHANGED gated
           \/ Fails /\ Goto(t, "leave") /\ UNCHANGED <<failures, gated>>
        /\ UNCHANGED <<state, processing, loop, acked, git, sent, crashes, late>>

\* commit_all: git add -A,
GitAdd(t) ==
    LET s == task[t].stream
    IN  /\ task[t].phase = "add"
        /\ \/ Succeeds /\ index' = [index EXCEPT ![s] = work[s]] /\ Goto(t, "commit")
           \/ (Fails \/ TimesOut(s, "add")) /\ Goto(t, "leave") /\ UNCHANGED index
        /\ UNCHANGED <<state, processing, loop, acked, tree, work, head, pushed, pr, sent,
                       crashes, history>>

\* then git commit.  With nothing to commit git exits with an error and says so on stdout,
\* where commit_all does not look.
GitCommit(t) ==
    LET s == task[t].stream
    IN  /\ task[t].phase = "commit"
        /\ Goto(t, "leave")
        /\ \/ /\ index[s] # head[s] /\ Succeeds
              /\ head' = [head EXCEPT ![s] = index[s]]
              /\ failures' = [failures EXCEPT ![s] = 0]
           \/ index[s] = head[s] /\ Succeeds /\ UNCHANGED <<head, failures>>
           \/ (Fails \/ TimesOut(s, "commit")) /\ UNCHANGED <<head, failures>>
        /\ UNCHANGED <<state, processing, loop, acked, tree, work, index, pushed, pr, sent, crashes,
                       gated, late>>

\* remove from `processing`; the task is over.
Leave(t) ==
    /\ task[t].phase = "leave"
    /\ processing' = processing \ {task[t].stream}
    /\ task' = [task EXCEPT ![t] = IdleTask]
    /\ UNCHANGED <<state, loop, acked, git, orphans, counters, history>>

\* The lock is not got in time: the mark stays.
LeaveTimesOut(t) ==
    /\ task[t].phase = "leave" /\ Fails
    /\ task' = [task EXCEPT ![t] = IdleTask]
    /\ UNCHANGED <<state, processing, loop, acked, git, sent, crashes, history>>

(***************************************************************************)
(* Faults: children that outlived their timeout, and crashes.              *)
(***************************************************************************)
OrphanRuns(o) ==
    LET s == o.stream
    IN  /\ o \in orphans /\ orphans' = orphans \ {o}
        /\ tree' = [tree EXCEPT ![s] = CASE o.cmd = "worktree" /\ @ = "none" -> "detached"
                                         [] o.cmd = "checkout" /\ @ = "detached" -> "branch"
                                         [] OTHER -> @]
        /\ work' = [work EXCEPT ![s] = IF o.cmd = "fmt" THEN Formatted(@) ELSE @]
        /\ index' = [index EXCEPT ![s] = IF o.cmd = "add" THEN work[s] ELSE @]
        /\ late' = IF o.cmd = "add" THEN late \cup {s} ELSE late
        /\ head' = [head EXCEPT ![s] = IF o.cmd = "commit" THEN index[s] ELSE @]
        /\ pushed' = [pushed EXCEPT ![s] = IF o.cmd = "push" THEN head[s] ELSE @]
        /\ pr' = [pr EXCEPT ![s] = o.cmd = "pr" \/ @]
        /\ UNCHANGED <<state, processing, task, loop, acked, counters, gated, failures>>

\* The commands under way, by the phases that wait for them.
Running ==
    LET Of(phase) == CASE phase = "push" -> "push"
                       [] phase = "create_pr" -> "pr"
                       [] phase = "fmt_fix" -> "fmt"
                       [] OTHER -> phase
        busy == {task[t] : t \in Tasks} \cup {loop}
    IN  {[stream |-> x.stream, cmd |-> Of(x.phase)] : x \in {y \in busy : Of(y.phase) \in Commands}}

\* The server dies and is started again: only the state file, git and children that were
\* running are left.
CrashAndRestart ==
    /\ crashes < MaxCrashes /\ crashes' = crashes + 1
    /\ Load
    /\ processing' = {} /\ task' = [t \in Tasks |-> IdleTask] /\ loop' = IdleLoop
    /\ \E alive \in SUBSET Running : orphans' = orphans \cup alive
    /\ UNCHANGED <<disk, acked, git, sent, faults, history>>

LoopStep == WorktreeAdd \/ CheckoutBranch \/ AddSession \/ SpawnTurn

TurnStep(t) ==
    \/ Enter(t) \/ EnterTimesOut(t) \/ ApplyOp(t) \/ Decide(t) \/ RecordTurn(t)
    \/ PushBranch(t) \/ CreatePr(t) \/ SetPrUrl(t) \/ DoneGates(t)
    \/ Gates(t) \/ FmtFix(t) \/ RetryGates(t) \/ GitAdd(t) \/ GitCommit(t)
    \/ Leave(t) \/ LeaveTimesOut(t)

ServerNext ==
    \/ \E s \in Streams : MarkPrMerged(s)
    \/ LoopStep
    \/ \E t \in Tasks : TurnStep(t)
    \/ \E o \in orphans : OrphanRuns(o)
    \/ CrashAndRestart

Next ==
    \/ \E s \in Streams : \E b \in Blocks[s] : OpsReady(s, b)
    \/ ServerNext

\* The runtime polls every spawned task, and a command ends or is given up; nobody has to send
\* a message, and an orphan need not go on.
Fairness == WF_vars(LoopStep) /\ \A t \in Tasks : WF_vars(TurnStep(t))

Spec == Init /\ [][Next]_vars /\ Fairness

(***************************************************************************)
(* Properties.                                                             *)
(***************************************************************************)
\* A commit holds a tree that passed the whole commit pipeline, whatever turns are interleaved
\* and wherever the server crashed, unless a `git add` that outlived its timeout wrote the index.
CommittedIsGated ==
    \A s \in Streams : head[s] \in gated[s] \cup {Main} \/ s \in late

\* A turn whose operations fail leaves the worktree as it found it (applier/mod.rs: "rolling
\* back"), up to what a late cargo fmt formats: no other turn writes there in between.
FailedApplyChangesNothing ==
    \A t \in Tasks :
        task[t].phase = "leave" /\ task[t].ops # <<>> /\ task[t].block.kind # "garbled" =>
            Formatted(work[task[t].stream]) = Formatted(task[t].backup)

\* A merge that was answered with OK is in the state file for good, across failed saves,
\* crashes and the other tasks' saves of the whole state.
AckedMergeIsDurable == \A s \in acked : disk[s] # None /\ disk[s].pr_merged

\* Every turn ends, so that its task is not held for ever; a stream with a mark left behind by a
\* lock timeout is no exception.
TurnsEnd == \A t \in Tasks : task[t].phase # "idle" ~> task[t].phase = "idle"

\* Claims of the documentation that the code does not keep (README, section 3):

\* spec/v0.1.0.md, BR-06 and BR-02: no banned pattern is committed.
NothingBannedIsCommitted == \A s \in Streams : \A f \in Files : head[s][f] # "banned"

\* spec/v0.1.0.md, REQ-FUNC-023: more failed commits in a row than MaxFixRounds escalate.
EscalatesInTime == \A s \in Streams : failures[s] <= MaxFixRounds

\* spec/v0.1.0.md, BR-01: every commit passed the gates.
EveryCommitIsGated == \A s \in Streams : head[s] \in gated[s] \cup {Main}

\* spec/v0.1.0.md, BR-11: a worktree that is there belongs to a session that is known.
WorktreesAreKnown ==
    loop.phase = "idle" => \A s \in Streams : tree[s] # "none" => mem[s] # None

\* orchestrator/turn.rs, "This is a race, but fine": a mark means a turn is under way.
MarkMeansTurn == \A s \in processing : \E t \in Tasks : task[t].stream = s
=============================================================================
