----------------------------- MODULE LspAnalysis -----------------------------
(***************************************************************************)
(* The language server's analysis pipeline: LspState                       *)
(* (crates/glyim-lsp/src/state.rs) takes the editor's notifications, keeps *)
(* the text in the Vfs (crates/glyim-vfs) and sends messages over a        *)
(* bounded channel to the AnalysisDriver task (driver.rs), which fills the *)
(* tables of the AnalysisDatabase (database.rs).                           *)
(*                                                                         *)
(* The driver writes each table under a lock of its own, so each write is  *)
(* a step that the editor's calls and the readers interleave with.         *)
(*                                                                         *)
(* A text is [path, version, content]: the driver stores the content; path *)
(* and version tell which notification it came from.  A content is the set *)
(* of the names that its HIR mentions.                                     *)
(***************************************************************************)
EXTENDS Integers, Sequences, FiniteSets

CONSTANTS
    Paths,
    Contents,
    Faulty,        \* the contents the front end reports diagnostics for
    Endless,       \* the contents parse_to_syntax never returns from (`use a::{::`)
    ChannelSize,   \* 16 in the code
    MaxNotes       \* bound: how many notifications the editor sends

ASSUME LspConstants ==
    /\ Faulty \subseteq Contents /\ Endless \subseteq Contents
    /\ ChannelSize \in Nat \ {0} /\ MaxNotes \in Nat

VARIABLES
    notes,          \* notifications sent so far; numbers the versions
    vfs_id, vfs,    \* Vfs: path_to_id, and the text of each id
    open_files,     \* LspState: path -> Vfs file id
    channel,        \* AnalysisMessages under way
    driver,         \* what the driver is doing: [step, msg, id]
    file_map, next_id,
    source_maps, symbol_index, hirs, typeck, diagnostics, raw_diagnostics,
    references,     \* ReferenceGraph: name -> set of file ids that mention it
    lost            \* the paths whose last message found the channel full

editor == <<notes, vfs_id, vfs, open_files, lost>>

tables == <<file_map, next_id, source_maps, symbol_index, hirs, typeck, diagnostics,
            raw_diagnostics, references>>

vars == <<editor, channel, driver, tables>>

Names == UNION Contents

Text(p, v, c) == [path |-> p, version |-> v, content |-> c]

Texts == [path : Paths, version : 1..MaxNotes, content : Contents]

Messages == [kind : {"changed"}, text : Texts] \cup [kind : {"closed"}, path : Paths]

\* A HashMap is a function; insert and remove change its domain.
Insert(map, k, v) == [x \in DOMAIN map \cup {k} |-> IF x = k THEN v ELSE map[x]]

Remove(map, k) == [x \in DOMAIN map \ {k} |-> map[x]]

Empty == [x \in {} |-> 0]

Idle == [step |-> "idle"]

Steps == <<"file_map", "source_maps", "symbol_index", "reference_graph", "hirs", "typeck",
           "diagnostics", "raw_diagnostics">>

StepSet == {Steps[i] : i \in DOMAIN Steps}

IsMap(map, keys, values) == DOMAIN map \subseteq keys /\ \A k \in DOMAIN map : map[k] \in values

\* The channel stays within its capacity, the tables hold texts under file ids.
TypeOK ==
    /\ notes \in 0..MaxNotes /\ lost \subseteq Paths
    /\ IsMap(vfs_id, Paths, Nat) /\ IsMap(vfs, Nat, Texts) /\ IsMap(open_files, Paths, Nat)
    /\ channel \in Seq(Messages) /\ Len(channel) <= ChannelSize
    /\ driver = Idle \/ driver \in [step : StepSet, text : Texts, id : Nat]
    /\ IsMap(file_map, Paths, Nat) /\ next_id \in Nat
    /\ \A t \in {source_maps, symbol_index, hirs, typeck, diagnostics, raw_diagnostics} :
           IsMap(t, Nat, Texts)
    /\ IsMap(references, Names, SUBSET Nat)

Init ==
    /\ notes = 0 /\ vfs_id = Empty /\ vfs = Empty /\ open_files = Empty /\ lost = {}
    /\ channel = <<>> /\ driver = Idle
    /\ file_map = Empty /\ next_id = 0
    /\ source_maps = Empty /\ symbol_index = Empty /\ hirs = Empty /\ typeck = Empty
    /\ diagnostics = Empty /\ raw_diagnostics = Empty /\ references = Empty

(***************************************************************************)
(* LspState, called by the editor's notifications.  The editor opens a     *)
(* closed file, and changes or closes an open one.                         *)
(***************************************************************************)
\* `let _ = tx.try_send(..)`: with the channel full the message is gone.
TrySend(p, msg) ==
    IF Len(channel) < ChannelSize
    THEN channel' = Append(channel, msg) /\ lost' = lost \ {p}
    ELSE lost' = lost \cup {p} /\ UNCHANGED channel

Changed(t) == [kind |-> "changed", text |-> t]

Closed(p) == [kind |-> "closed", path |-> p]

\* Vfs::add_file_content: a path keeps the id it was first given.
AddFileContent(p, t) ==
    LET id == IF p \in DOMAIN vfs_id THEN vfs_id[p] ELSE Cardinality(DOMAIN vfs)
    IN  /\ vfs_id' = Insert(vfs_id, p, id)
        /\ vfs' = Insert(vfs, id, t)

did_open(p, c) ==
    /\ notes < MaxNotes /\ p \notin DOMAIN open_files
    /\ notes' = notes + 1
    /\ LET t == Text(p, notes + 1, c)
       IN  /\ AddFileContent(p, t)
           /\ open_files' = Insert(open_files, p, vfs_id'[p])
           /\ TrySend(p, Changed(t))
    /\ UNCHANGED <<driver, tables>>

did_change(p, c) ==
    /\ notes < MaxNotes /\ p \in DOMAIN open_files
    /\ notes' = notes + 1
    /\ LET t == Text(p, notes + 1, c)
       IN  /\ vfs' = [vfs EXCEPT ![open_files[p]] = t]
           /\ TrySend(p, Changed(t))
    /\ UNCHANGED <<vfs_id, open_files, driver, tables>>

did_close(p) ==
    /\ notes < MaxNotes /\ p \in DOMAIN open_files
    /\ notes' = notes + 1
    /\ TrySend(p, Closed(p))
    /\ open_files' = Remove(open_files, p)
    /\ UNCHANGED <<vfs_id, vfs, driver, tables>>

(***************************************************************************)
(* AnalysisDriver::run.                                                    *)
(***************************************************************************)
\* Mutant: the loop ends when the closed file was never mapped.
RecvClosedOfMapped ==
    /\ driver = Idle /\ channel # <<>> /\ Head(channel).kind = "closed"
    /\ Head(channel).path \in DOMAIN file_map
    /\ channel' = Tail(channel)
    /\ file_map' = Remove(file_map, Head(channel).path)
    /\ UNCHANGED <<editor, driver, next_id, source_maps, symbol_index, hirs, typeck,
                   diagnostics, raw_diagnostics, references>>

\* Receiving frees the slot; a closed file leaves the file map and nothing else.
RecvClosed ==
    /\ driver = Idle /\ channel # <<>> /\ Head(channel).kind = "closed"
    /\ channel' = Tail(channel)
    /\ file_map' = Remove(file_map, Head(channel).path)
    /\ UNCHANGED <<editor, driver, next_id, source_maps, symbol_index, hirs, typeck,
                   diagnostics, raw_diagnostics, references>>

RecvChanged ==
    /\ driver = Idle /\ channel # <<>> /\ Head(channel).kind = "changed"
    /\ channel' = Tail(channel)
    /\ driver' = [step |-> "file_map", text |-> Head(channel).text, id |-> 0]
    /\ UNCHANGED <<editor, tables>>

\* After the write of table `step`, the driver goes on to the next one.
NextStep(step) ==
    LET i == CHOOSE k \in DOMAIN Steps : Steps[k] = step
    IN  IF i = Len(Steps) THEN Idle ELSE [driver EXCEPT !.step = Steps[i + 1]]

\* FileMap::get_or_create.
GetOrCreate(p) ==
    IF p \in DOMAIN file_map
    THEN UNCHANGED <<file_map, next_id>> /\ driver' = [NextStep("file_map") EXCEPT !.id = file_map[p]]
    ELSE /\ file_map' = Insert(file_map, p, next_id)
         /\ next_id' = next_id + 1
         /\ driver' = [NextStep("file_map") EXCEPT !.id = next_id]

WriteFileMap ==
    /\ driver.step = "file_map"
    /\ GetOrCreate(driver.text.path)
    /\ UNCHANGED <<editor, channel, source_maps, symbol_index, hirs, typeck, diagnostics,
                   raw_diagnostics, references>>

WriteSourceMap ==
    /\ driver.step = "source_maps"
    /\ source_maps' = Insert(source_maps, driver.id, driver.text)
    /\ driver' = NextStep("source_maps")
    /\ UNCHANGED <<editor, channel, file_map, next_id, symbol_index, hirs, typeck, diagnostics,
                   raw_diagnostics, references>>

\* SymbolIndex::build_from_hir clears the file's symbols and enters the new ones.
BuildSymbols(table, id, t) == Insert(Remove(table, id), id, t)

\* Behind the parse, which may not return, and the type checker.
WriteSymbolIndex ==
    /\ driver.step = "symbol_index"
    /\ driver.text.content \notin Endless
    /\ symbol_index' = BuildSymbols(symbol_index, driver.id, driver.text)
    /\ driver' = NextStep("symbol_index")
    /\ UNCHANGED <<editor, channel, file_map, next_id, source_maps, hirs, typeck, diagnostics,
                   raw_diagnostics, references>>

\* ReferenceGraph::build_from_hir: `retain` keeps the names that this file does
\* not mention and drops the others whole, with every file's references.
BuildReferences(refs, id, c) ==
    LET kept == {n \in DOMAIN refs : id \notin refs[n]}
    IN  [n \in kept \cup c |->
            (IF n \in kept THEN refs[n] ELSE {}) \cup (IF n \in c THEN {id} ELSE {})]

WriteReferenceGraph ==
    /\ driver.step = "reference_graph"
    /\ references' = BuildReferences(references, driver.id, driver.text.content)
    /\ driver' = NextStep("reference_graph")
    /\ UNCHANGED <<editor, channel, file_map, next_id, source_maps, symbol_index, hirs, typeck,
                   diagnostics, raw_diagnostics>>

WriteHirs ==
    /\ driver.step = "hirs"
    /\ hirs' = Insert(hirs, driver.id, driver.text)
    /\ driver' = NextStep("hirs")
    /\ UNCHANGED <<editor, channel, file_map, next_id, source_maps, symbol_index, typeck,
                   diagnostics, raw_diagnostics, references>>

WriteTypeck ==
    /\ driver.step = "typeck"
    /\ typeck' = Insert(typeck, driver.id, driver.text)
    /\ driver' = NextStep("typeck")
    /\ UNCHANGED <<editor, channel, file_map, next_id, source_maps, symbol_index, hirs,
                   diagnostics, raw_diagnostics, references>>

\* Mutant: diagnostics are only ever added.
StoreNewDiagnostics(table) ==
    IF driver.text.content \in Faulty THEN Insert(table, driver.id, driver.text) ELSE table

\* A file without diagnostics has no entry.
StoreDiagnostics(table) ==
    IF driver.text.content \in Faulty THEN Insert(table, driver.id, driver.text)
    ELSE Remove(table, driver.id)

WriteDiagnostics ==
    /\ driver.step = "diagnostics"
    /\ diagnostics' = StoreDiagnostics(diagnostics)
    /\ driver' = NextStep("diagnostics")
    /\ UNCHANGED <<editor, channel, file_map, next_id, source_maps, symbol_index, hirs, typeck,
                   raw_diagnostics, references>>

WriteRawDiagnostics ==
    /\ driver.step = "raw_diagnostics"
    /\ raw_diagnostics' = StoreDiagnostics(raw_diagnostics)
    /\ driver' = NextStep("raw_diagnostics")
    /\ UNCHANGED <<editor, channel, file_map, next_id, source_maps, symbol_index, hirs, typeck,
                   diagnostics, references>>

analyze_file ==
    \/ WriteFileMap \/ WriteSourceMap \/ WriteSymbolIndex \/ WriteReferenceGraph
    \/ WriteHirs \/ WriteTypeck \/ WriteDiagnostics \/ WriteRawDiagnostics

Driver == RecvClosed \/ RecvChanged \/ analyze_file

Editor ==
    \E p \in Paths : did_close(p) \/ \E c \in Contents : did_open(p, c) \/ did_change(p, c)

Next == Editor \/ Driver

\* The driver is a spawned task that runs whenever it has a message, but for an
\* endless parse, where no action is enabled; nothing makes the editor send one.
Spec == Init /\ [][Next]_vars /\ WF_vars(Driver)

-----------------------------------------------------------------------------
(***************************************************************************)
(* Properties.                                                             *)
(***************************************************************************)
Quiet == driver = Idle /\ channel = <<>>

\* The tables hold the analysis of the text the editor sees.
UpToDate(p) ==
    /\ p \in DOMAIN file_map
    /\ LET id == file_map[p]
           t  == vfs[open_files[p]]
       IN  /\ \A table \in {source_maps, symbol_index, hirs, typeck} :
                  id \in DOMAIN table /\ table[id] = t
           /\ \A table \in {diagnostics, raw_diagnostics} :
                  IF t.content \in Faulty THEN id \in DOMAIN table /\ table[id] = t
                  ELSE id \notin DOMAIN table

\* Once the driver has worked off its messages, every open file whose last
\* message got into the channel is analysed as the editor sees it, and no closed
\* one is mapped.
QuietIsCurrent ==
    Quiet => \A p \in Paths \ lost :
        IF p \in DOMAIN open_files THEN UpToDate(p) ELSE p \notin DOMAIN file_map

\* The messages are worked off in the end, whatever was opened, changed and closed
\* and whatever the full channel lost in between (a file may be closed that the driver
\* never heard of), or else the driver is held by a text whose parse never ends.
DriverCatchesUp ==
    \/ []<>Quiet
    \/ <>[](driver # Idle /\ driver.text.content \in Endless)

(***************************************************************************)
(* What the comments and tests of glyim-lsp say and the code does not do.  *)
(***************************************************************************)
\* tests/incremental.rs:38: "After change, verify symbol index still contains
\* "add" (implying re-analysis)": a change is followed by a re-analysis.
EveryChangeIsAnalysed ==
    Quiet => \A p \in DOMAIN open_files : UpToDate(p)

\* database.rs:146-147: raw_diagnostics is "in 1:1 correspondence with
\* `diagnostics` (same order)", which code_action.rs:186-194 relies on.
DiagnosticsCorrespond ==
    \A id \in DOMAIN diagnostics \cap DOMAIN raw_diagnostics :
        diagnostics[id] = raw_diagnostics[id]

\* tests/incremental.rs:43-45 looks the file up in the tables by the id that
\* LspState::file_id gives, as diagnostics_for_file does.
LookupFindsTheFile ==
    Quiet /\ lost = {} => \A p \in DOMAIN open_files :
        open_files[p] \in DOMAIN symbol_index /\ symbol_index[open_files[p]] = vfs[open_files[p]]

\* reference_graph.rs:770-771: a name that is not in the graph "has no reads and
\* no writes anywhere in the indexed HIR".
EveryMentionIsFound ==
    Quiet => \A p \in DOMAIN file_map :
        \A n \in hirs[file_map[p]].content :
            n \in DOMAIN references /\ file_map[p] \in references[n]
=============================================================================
