------------------------------ MODULE LspLocks -------------------------------
(***************************************************************************)
(* The locks of the AnalysisDatabase (crates/glyim-lsp/src/database.rs),   *)
(* as the request handlers read-lock them and the driver write-locks them. *)
(* A handler is the sequence of guards it takes and drops; what it         *)
(* computes in between is left out.  A lookup that fails ends it early.    *)
(*                                                                         *)
(* The locks are parking_lot::RwLock: a writer first claims the lock,      *)
(* which turns new readers away, and enters once the readers are gone.     *)
(***************************************************************************)
EXTENDS Integers, Sequences, FiniteSets

CONSTANTS
    Threads,    \* the threads that serve requests
    Requests    \* the handlers they run

ASSUME RequestsHaveHandlers ==
    Requests \subseteq {"completion", "hover", "definition", "references", "document_symbols",
                        "workspace_symbols", "rename", "code_action", "format"}

Locks == {"file_map", "source_maps", "symbol_index", "reference_graph", "hirs", "typeck",
          "diagnostics", "raw_diagnostics"}

Read(l) == [op |-> "read", lock |-> l]

Drop(l) == [op |-> "drop", lock |-> l]

(***************************************************************************)
(* The handlers.  Guards still held at the end are dropped on return.      *)
(***************************************************************************)
type_at_offset == <<Read("hirs"), Read("typeck"), Drop("typeck"), Drop("hirs")>>

\* It gives up without a `.` before the cursor, without a HIR or without a type;
\* completion then goes on without one.
receiver_type_at_cursor ==
    {<<>>} \cup
    {<<Read("source_maps")>> \o found \o <<Drop("source_maps")>> :
        found \in {<<>>, <<Read("hirs"), Drop("hirs")>>, type_at_offset,
                   type_at_offset \o <<Read("typeck"), Drop("typeck")>>}}

provide_completions ==
    {<<Read("symbol_index")>> \o receiver
       \o <<Read("source_maps"), Drop("source_maps"), Read("source_maps")>> :
           receiver \in receiver_type_at_cursor}

\* The preview takes source_maps once more under the guard of the handler.
provide_hover ==
    <<Read("source_maps"), Read("symbol_index"), Read("source_maps"), Drop("source_maps")>>

goto_definition == <<Read("source_maps"), Read("symbol_index")>>

find_references ==
    <<Read("source_maps"), Drop("source_maps"), Read("reference_graph"), Read("source_maps")>>

document_symbols == <<Read("source_maps"), Read("symbol_index")>>

workspace_symbols == <<Read("symbol_index"), Read("source_maps"), Read("file_map")>>

rename_symbol == <<Read("source_maps"), Read("reference_graph")>>

provide_code_actions ==
    <<Read("source_maps"), Read("reference_graph"), Drop("reference_graph"),
      Read("diagnostics"), Read("raw_diagnostics")>>

\* Formatting and folding.
format_document == <<Read("file_map"), Drop("file_map"), Read("source_maps")>>

\* What a handler may do, by the request it serves.
Scripts(r) ==
    CASE r = "completion"        -> provide_completions
      [] r = "hover"             -> {provide_hover}
      [] r = "definition"        -> {goto_definition}
      [] r = "references"        -> {find_references}
      [] r = "document_symbols"  -> {document_symbols}
      [] r = "workspace_symbols" -> {workspace_symbols}
      [] r = "rename"            -> {rename_symbol}
      [] r = "code_action"       -> {provide_code_actions}
      [] r = "format"            -> {format_document}

NotServing == <<>>

\* The order in which analyze_file writes the tables; a closed file only
\* changes the first.
DriverScript ==
    <<"file_map", "source_maps", "symbol_index", "reference_graph", "hirs", "typeck",
      "diagnostics", "raw_diagnostics">>

VARIABLES
    serving,    \* the script each thread runs, or NotServing
    pc,         \* the next operation of its handler
    waiting,    \* whether the thread is inside that operation's read()
    held,       \* held[t][l]: the read guards of thread t on lock l
    writer,     \* where the driver is: [at, state] with state in WriterStates
    claimed     \* the locks a writer has claimed

lock_vars == <<serving, pc, waiting, held, writer, claimed>>

WriterStates == {"out", "draining", "inside"}

NoGuards == [l \in Locks |-> 0]

\* A handler never drops a guard it does not hold and never holds more than two
\* on one lock.
LockTypeOK ==
    /\ serving \in [Threads -> {NotServing} \cup UNION {Scripts(r) : r \in Requests}]
    /\ \A t \in Threads : pc[t] \in 1..(Len(serving[t]) + 1)
    /\ waiting \in [Threads -> BOOLEAN]
    /\ held \in [Threads -> [Locks -> 0..2]]
    /\ writer.at \in DOMAIN DriverScript /\ writer.state \in WriterStates
    /\ claimed \subseteq Locks

LockInit ==
    /\ serving = [t \in Threads |-> NotServing]
    /\ pc = [t \in Threads |-> 1]
    /\ waiting = [t \in Threads |-> FALSE]
    /\ held = [t \in Threads |-> NoGuards]
    /\ writer = [at |-> 1, state |-> "out"]
    /\ claimed = {}

Readers(l) == {t \in Threads : held[t][l] > 0}

Running(t) == serving[t] # NotServing /\ ~waiting[t]

Op(t) == serving[t][pc[t]]

AtEnd(t) == pc[t] > Len(serving[t])

Serve(t) ==
    /\ serving[t] = NotServing
    /\ \E r \in Requests : \E s \in Scripts(r) : serving' = [serving EXCEPT ![t] = s]
    /\ pc' = [pc EXCEPT ![t] = 1]
    /\ UNCHANGED <<waiting, held, writer, claimed>>

\* The thread calls read(); it may have to wait there.
CallRead(t) ==
    /\ Running(t) /\ ~AtEnd(t) /\ Op(t).op = "read"
    /\ waiting' = [waiting EXCEPT ![t] = TRUE]
    /\ UNCHANGED <<serving, pc, held, writer, claimed>>

GetRead(t) ==
    /\ waiting[t] /\ Op(t).lock \notin claimed
    /\ waiting' = [waiting EXCEPT ![t] = FALSE]
    /\ held' = [held EXCEPT ![t][Op(t).lock] = @ + 1]
    /\ pc' = [pc EXCEPT ![t] = @ + 1]
    /\ UNCHANGED <<serving, writer, claimed>>

DropGuard(t) ==
    /\ Running(t) /\ ~AtEnd(t) /\ Op(t).op = "drop"
    /\ held' = [held EXCEPT ![t][Op(t).lock] = @ - 1]
    /\ pc' = [pc EXCEPT ![t] = @ + 1]
    /\ UNCHANGED <<serving, waiting, writer, claimed>>

\* The handler returns, at its end or where a lookup fails.
Return(t) ==
    /\ Running(t)
    /\ serving' = [serving EXCEPT ![t] = NotServing]
    /\ pc' = [pc EXCEPT ![t] = 1]
    /\ held' = [held EXCEPT ![t] = NoGuards]
    /\ UNCHANGED <<waiting, writer, claimed>>

Request(t) == Serve(t) \/ CallRead(t) \/ GetRead(t) \/ DropGuard(t) \/ Return(t)

(***************************************************************************)
(* The driver: it writes one table after the other, and no other thread    *)
(* writes.                                                                 *)
(***************************************************************************)
Table == DriverScript[writer.at]

\* write() is called: no other writer exists, so the lock is claimed at once.
Claim ==
    /\ writer.state = "out" /\ Table \notin claimed
    /\ claimed' = claimed \cup {Table}
    /\ writer' = [writer EXCEPT !.state = "draining"]
    /\ UNCHANGED <<serving, pc, waiting, held>>

Enter ==
    /\ writer.state = "draining" /\ Readers(Table) = {}
    /\ writer' = [writer EXCEPT !.state = "inside"]
    /\ UNCHANGED <<serving, pc, waiting, held, claimed>>

\* Mutant: the driver keeps a table locked while it writes the next one.
LeaveLate ==
    /\ writer.state = "inside"
    /\ claimed' = IF writer.at = Len(DriverScript) THEN {} ELSE claimed
    /\ writer' = [at |-> IF writer.at = Len(DriverScript) THEN 1 ELSE writer.at + 1, state |-> "out"]
    /\ UNCHANGED <<serving, pc, waiting, held>>

\* The guard is dropped at the end of the statement that took it; after the file
\* map the driver may be done with the message.
Leave ==
    /\ writer.state = "inside"
    /\ claimed' = claimed \ {Table}
    /\ \E next \in {(writer.at % Len(DriverScript)) + 1} \cup
                   (IF writer.at = 1 THEN {1} ELSE {}) :
           writer' = [at |-> next, state |-> "out"]
    /\ UNCHANGED <<serving, pc, waiting, held>>

DriverWrites == Claim \/ Enter \/ Leave

LockNext == DriverWrites \/ \E t \in Threads : Request(t)

\* A handler runs on once it is called; the lock lets a waiting reader in
\* eventually, however often writers come by (parking_lot's eventual fairness).
LockSpec ==
    /\ LockInit /\ [][LockNext]_lock_vars
    /\ WF_lock_vars(Enter \/ Leave)
    /\ \A t \in Threads : WF_lock_vars(CallRead(t) \/ DropGuard(t) \/ Return(t)) /\ SF_lock_vars(GetRead(t))

-----------------------------------------------------------------------------
(***************************************************************************)
(* Properties.                                                             *)
(***************************************************************************)
\* The driver waits for a reader that waits, directly, for a lock the driver
\* has claimed: neither of them will ever move.
Deadlocked ==
    writer.state = "draining" /\ \E t \in Readers(Table) : waiting[t] /\ Op(t).lock \in claimed

\* While the driver is inside a table no handler has a guard on it: no request sees
\* a table half written.
WriterIsAlone == writer.state = "inside" => Readers(Table) = {}

\* The driver and the handlers never wait for each other, whatever order the
\* handlers take their locks in.
NoDeadlock == ~Deadlocked

\* A handler that waits for a lock gets it, and so does the driver.
LocksAreGranted ==
    /\ \A t \in Threads : waiting[t] ~> ~waiting[t]
    /\ writer.state = "draining" ~> writer.state = "inside"
=============================================================================
