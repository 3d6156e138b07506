------------------------------ MODULE Lsp_proofs ------------------------------
(***************************************************************************)
(* Proofs about the language server: LspAnalysis for every set of files    *)
(* and contents, every size of the channel and every number of             *)
(* notifications, and LspLocks for every set of threads.                   *)
(***************************************************************************)
EXTENDS LspAnalysis, LspLocks, FiniteSetTheorems, SequenceTheorems, TLAPS

(***************************************************************************)
(* The inductive invariant.                                                *)
(***************************************************************************)
\* The Vfs numbers paths from 0 and gives no id to two of them; an open file goes by its id.
VfsOK ==
    /\ \E n \in Nat : DOMAIN vfs = 0..(n - 1)
    /\ \A p \in DOMAIN vfs_id : vfs_id[p] \in DOMAIN vfs
    /\ \A p, q \in DOMAIN vfs_id : vfs_id[p] = vfs_id[q] => p = q
    /\ \A p \in DOMAIN open_files : p \in DOMAIN vfs_id /\ open_files[p] = vfs_id[p]
    /\ \A p \in DOMAIN open_files : vfs[open_files[p]].path = p

\* So does the file map of the driver, with ids of its own; past its first step the driver works
\* under the id of its file.
FileMapOK ==
    /\ \A p \in DOMAIN file_map : file_map[p] < next_id
    /\ \A p, q \in DOMAIN file_map : file_map[p] = file_map[q] => p = q
    /\ driver # Idle /\ driver.step # "file_map" =>
           driver.text.path \in DOMAIN file_map /\ driver.id = file_map[driver.text.path]

\* The file a message is about.
About(m) == IF m.kind = "closed" THEN m.path ELSE m.text.path

NoneAbout(p) == \A i \in DOMAIN channel : About(channel[i]) # p

LastAbout(i, p) ==
    /\ i \in DOMAIN channel /\ About(channel[i]) = p
    /\ \A j \in DOMAIN channel : About(channel[j]) = p => j <= i

\* The message tells what the editor sees.
Says(m, p) == IF p \in DOMAIN open_files THEN m = Changed(vfs[open_files[p]]) ELSE m = Closed(p)

Works(p) == driver # Idle /\ driver.text.path = p

Holds(table, id, t) == id \in DOMAIN table /\ table[id] = t

HoldsDiagnostics(table, id, t) ==
    IF t.content \in Faulty THEN Holds(table, id, t) ELSE id \notin DOMAIN table

\* The tables that the driver has come past hold the text it works on.
Written ==
    /\ driver.step \notin {"file_map", "source_maps"} => Holds(source_maps, driver.id, driver.text)
    /\ driver.step \notin {"file_map", "source_maps", "symbol_index"} =>
           Holds(symbol_index, driver.id, driver.text)
    /\ driver.step \in {"typeck", "diagnostics", "raw_diagnostics"} => Holds(hirs, driver.id, driver.text)
    /\ driver.step \in {"diagnostics", "raw_diagnostics"} => Holds(typeck, driver.id, driver.text)
    /\ driver.step = "raw_diagnostics" => HoldsDiagnostics(diagnostics, driver.id, driver.text)

Current(p) == IF p \in DOMAIN open_files THEN UpToDate(p) ELSE p \notin DOMAIN file_map

\* With no message about the file left, the driver works on what the editor sees, or has done so.
Settled(p) ==
    IF Works(p) THEN p \in DOMAIN open_files /\ driver.text = vfs[open_files[p]] /\ Written
    ELSE Current(p)

\* The last message about a file tells what the editor sees, and without one the file is settled,
\* unless its last message was lost.
Tracked(p) == /\ NoneAbout(p) => Settled(p)
              /\ \A i \in DOMAIN channel : LastAbout(i, p) => Says(channel[i], p)

AllTracked == \A p \in Paths \ lost : Tracked(p)

IInv == TypeOK /\ VfsOK /\ FileMapOK /\ AllTracked

(***************************************************************************)
(* Maps, and the order of the driver's steps.                              *)
(***************************************************************************)
\* HashMap::insert and HashMap::remove keep the types of keys and values.
LEMMA MapTypes ==
    ASSUME NEW keys, NEW values, NEW map, IsMap(map, keys, values)
    PROVE  /\ \A k \in keys : \A v \in values : IsMap(Insert(map, k, v), keys, values)
           /\ \A k : IsMap(Remove(map, k), keys, values)
BY DEF Insert, Remove, IsMap

\* The position of each table in the driver's order.
LEMMA StepPositions ==
    /\ (CHOOSE k \in DOMAIN Steps : Steps[k] = "file_map") = 1
    /\ (CHOOSE k \in DOMAIN Steps : Steps[k] = "source_maps") = 2
    /\ (CHOOSE k \in DOMAIN Steps : Steps[k] = "symbol_index") = 3
    /\ (CHOOSE k \in DOMAIN Steps : Steps[k] = "reference_graph") = 4
    /\ (CHOOSE k \in DOMAIN Steps : Steps[k] = "hirs") = 5
    /\ (CHOOSE k \in DOMAIN Steps : Steps[k] = "typeck") = 6
    /\ (CHOOSE k \in DOMAIN Steps : Steps[k] = "diagnostics") = 7
    /\ (CHOOSE k \in DOMAIN Steps : Steps[k] = "raw_diagnostics") = 8
<1>1. DOMAIN Steps = {1, 2, 3, 4, 5, 6, 7, 8}
  BY DEF Steps
<1>2. /\ Steps[1] = "file_map" /\ Steps[2] = "source_maps" /\ Steps[3] = "symbol_index"
      /\ Steps[4] = "reference_graph" /\ Steps[5] = "hirs" /\ Steps[6] = "typeck"
      /\ Steps[7] = "diagnostics" /\ Steps[8] = "raw_diagnostics"
  BY DEF Steps
<1> QED
  BY <1>1, <1>2

\* The driver goes through the tables in this order.
LEMMA StepOrder ==
    /\ NextStep("file_map") = [driver EXCEPT !.step = "source_maps"]
    /\ NextStep("source_maps") = [driver EXCEPT !.step = "symbol_index"]
    /\ NextStep("symbol_index") = [driver EXCEPT !.step = "reference_graph"]
    /\ NextStep("reference_graph") = [driver EXCEPT !.step = "hirs"]
    /\ NextStep("hirs") = [driver EXCEPT !.step = "typeck"]
    /\ NextStep("typeck") = [driver EXCEPT !.step = "diagnostics"]
    /\ NextStep("diagnostics") = [driver EXCEPT !.step = "raw_diagnostics"]
    /\ NextStep("raw_diagnostics") = Idle
    /\ StepSet = {"file_map", "source_maps", "symbol_index", "reference_graph", "hirs", "typeck",
                  "diagnostics", "raw_diagnostics"}
<1>1. DOMAIN Steps = {1, 2, 3, 4, 5, 6, 7, 8} /\ Len(Steps) = 8
  BY DEF Steps
<1>2. /\ Steps[1] = "file_map" /\ Steps[2] = "source_maps" /\ Steps[3] = "symbol_index"
      /\ Steps[4] = "reference_graph" /\ Steps[5] = "hirs" /\ Steps[6] = "typeck"
      /\ Steps[7] = "diagnostics" /\ Steps[8] = "raw_diagnostics"
  BY DEF Steps
<1>3. StepSet = {"file_map", "source_maps", "symbol_index", "reference_graph", "hirs", "typeck",
                 "diagnostics", "raw_diagnostics"}
  BY <1>1, <1>2 DEF StepSet
<1> QED
  BY <1>1, <1>2, <1>3, StepPositions DEF NextStep

(***************************************************************************)
(* Type correctness.                                                       *)
(***************************************************************************)
\* A message that is sent keeps the channel within its size.
LEMMA SendType ==
    ASSUME TypeOK, NEW p \in Paths, NEW m \in Messages, TrySend(p, m)
    PROVE  /\ channel' \in Seq(Messages) /\ Len(channel') <= ChannelSize /\ lost' \subseteq Paths
           /\ \/ channel' = Append(channel, m) /\ lost' = lost \ {p}
              \/ channel' = channel /\ lost' = lost \cup {p}
<1>1. Len(channel) \in Nat /\ ChannelSize \in Nat
  BY LspConstants DEF TypeOK
<1>2. CASE Len(channel) < ChannelSize
  <2>1. channel' = Append(channel, m) /\ lost' = lost \ {p}
    BY <1>2 DEF TrySend
  <2>2. Len(channel') = Len(channel) + 1 /\ channel' \in Seq(Messages)
    BY <2>1 DEF TypeOK
  <2> QED
    BY <1>1, <1>2, <2>1, <2>2 DEF TypeOK
<1>3. CASE ~(Len(channel) < ChannelSize)
  BY <1>3 DEF TrySend, TypeOK
<1> QED
  BY <1>2, <1>3

\* The texts and messages of the editor.
LEMMA TextType ==
    ASSUME TypeOK, notes < MaxNotes, NEW p \in Paths, NEW c \in Contents
    PROVE  /\ Text(p, notes + 1, c) \in Texts
           /\ Changed(Text(p, notes + 1, c)) \in Messages
           /\ Closed(p) \in Messages
           /\ notes + 1 \in 0..MaxNotes
<1>1. notes + 1 \in 1..MaxNotes
  BY LspConstants DEF TypeOK
<1> QED
  BY <1>1 DEF Text, Texts, Changed, Closed, Messages

\* Every step keeps the types.
LEMMA TypeStep == TypeOK /\ VfsOK /\ [Next]_vars => TypeOK'
<1> SUFFICES ASSUME TypeOK, VfsOK, [Next]_vars PROVE TypeOK'
  OBVIOUS
<1> USE DEF editor, tables
<1>1. CASE UNCHANGED vars
  BY <1>1 DEF vars, TypeOK
<1>2. ASSUME NEW p \in Paths, did_close(p) PROVE TypeOK'
  <2>1. notes + 1 \in 0..MaxNotes /\ Closed(p) \in Messages
    BY <1>2, LspConstants DEF did_close, TypeOK, Closed, Messages
  <2>2. channel' \in Seq(Messages) /\ Len(channel') <= ChannelSize /\ lost' \subseteq Paths
    BY <1>2, <2>1, SendType DEF did_close
  <2>3. IsMap(open_files', Paths, Nat)
    BY <1>2, MapTypes DEF did_close, TypeOK
  <2> QED
    BY <1>2, <2>1, <2>2, <2>3 DEF did_close, TypeOK
<1>3. ASSUME NEW p \in Paths, NEW c \in Contents, did_open(p, c) PROVE TypeOK'
  <2> DEFINE t == Text(p, notes + 1, c)
             id == IF p \in DOMAIN vfs_id THEN vfs_id[p] ELSE Cardinality(DOMAIN vfs)
  <2>1. t \in Texts /\ Changed(t) \in Messages /\ notes + 1 \in 0..MaxNotes
    BY <1>3, TextType DEF did_open
  <2>2. channel' \in Seq(Messages) /\ Len(channel') <= ChannelSize /\ lost' \subseteq Paths
    BY <1>3, <2>1, SendType DEF did_open
  <2>3. id \in Nat
    <3>1. PICK n \in Nat : DOMAIN vfs = 0..(n - 1)
      BY DEF VfsOK
    <3>2. IsFiniteSet(DOMAIN vfs)
      BY <3>1, FS_Interval
    <3> QED
      BY <3>2, FS_CardinalityType DEF TypeOK, IsMap
  <2>4. vfs_id' = Insert(vfs_id, p, id) /\ vfs' = Insert(vfs, id, t)
        /\ open_files' = Insert(open_files, p, vfs_id'[p])
    BY <1>3 DEF did_open, AddFileContent
  <2> HIDE DEF t, id
  <2>5. vfs_id'[p] = id
    BY <2>4 DEF Insert
  <2>6. IsMap(vfs_id', Paths, Nat) /\ IsMap(vfs', Nat, Texts) /\ IsMap(open_files', Paths, Nat)
    BY <2>1, <2>3, <2>4, <2>5, MapTypes DEF TypeOK
  <2> QED
    BY <1>3, <2>1, <2>2, <2>6 DEF did_open, TypeOK
<1>4. ASSUME NEW p \in Paths, NEW c \in Contents, did_change(p, c) PROVE TypeOK'
  <2> DEFINE t == Text(p, notes + 1, c)
  <2>1. t \in Texts /\ Changed(t) \in Messages /\ notes + 1 \in 0..MaxNotes
    BY <1>4, TextType DEF did_change
  <2>2. channel' \in Seq(Messages) /\ Len(channel') <= ChannelSize /\ lost' \subseteq Paths
    BY <1>4, <2>1, SendType DEF did_change
  <2>3. vfs' = [vfs EXCEPT ![open_files[p]] = t]
    BY <1>4 DEF did_change
  <2> HIDE DEF t
  <2>4. IsMap(vfs', Nat, Texts)
    BY <2>1, <2>3 DEF TypeOK, IsMap
  <2> QED
    BY <1>4, <2>1, <2>2, <2>4 DEF did_change, TypeOK
<1>5. CASE RecvClosed \/ RecvChanged
  <2>1. channel # <<>> /\ channel' = Tail(channel)
    BY <1>5 DEF RecvClosed, RecvChanged
  <2>2. /\ Head(channel) \in Messages /\ channel' \in Seq(Messages) /\ Len(channel') <= ChannelSize
    <3>1. Head(channel) \in Messages /\ Tail(channel) \in Seq(Messages) /\ Len(Tail(channel)) = Len(channel) - 1
      BY <2>1 DEF TypeOK
    <3> QED
      BY <2>1, <3>1, LspConstants DEF TypeOK
  <2>3. IsMap(file_map', Paths, Nat)
    BY <1>5, MapTypes DEF RecvClosed, RecvChanged, TypeOK
  <2>4. driver' = Idle \/ driver' \in [step : StepSet, text : Texts, id : Nat]
    BY <1>5, <2>2, StepOrder DEF RecvClosed, RecvChanged, Messages
  <2> QED
    BY <1>5, <2>2, <2>3, <2>4 DEF RecvClosed, RecvChanged, TypeOK
<1>6. CASE analyze_file
  <2>1. driver \in [step : StepSet, text : Texts, id : Nat] /\ driver.text \in Texts /\ driver.id \in Nat
    BY <1>6 DEF TypeOK, analyze_file, WriteFileMap, WriteSourceMap, WriteSymbolIndex, WriteReferenceGraph,
           WriteHirs, WriteTypeck, WriteDiagnostics, WriteRawDiagnostics, Idle
  <2>2. \A step \in StepSet : [driver EXCEPT !.step = step] \in [step : StepSet, text : Texts, id : Nat]
    BY <2>1
  <2>3. CASE WriteFileMap
    <3> DEFINE p == driver.text.path
    <3>1. p \in Paths
      BY <2>1 DEF Texts
    <3>2. CASE p \in DOMAIN file_map
      <4>1. file_map[p] \in Nat
        BY <3>2 DEF TypeOK, IsMap
      <4>2. driver' \in [step : StepSet, text : Texts, id : Nat]
        BY <2>1, <2>3, <3>2, <4>1, StepOrder DEF WriteFileMap, GetOrCreate
      <4> QED
        BY <2>3, <3>2, <4>2 DEF WriteFileMap, GetOrCreate, TypeOK
    <3>3. CASE p \notin DOMAIN file_map
      <4>1. driver' \in [step : StepSet, text : Texts, id : Nat]
        BY <2>1, <2>3, <3>3, StepOrder DEF WriteFileMap, GetOrCreate, TypeOK
      <4>2. IsMap(file_map', Paths, Nat) /\ next_id' \in Nat
        BY <2>3, <3>1, <3>3, MapTypes DEF WriteFileMap, GetOrCreate, TypeOK
      <4> QED
        BY <2>3, <4>1, <4>2 DEF WriteFileMap, TypeOK
    <3> QED
      BY <3>2, <3>3
  <2>4. CASE WriteSourceMap
    <3>1. IsMap(source_maps', Nat, Texts)
      BY <2>1, <2>4, MapTypes DEF WriteSourceMap, TypeOK
    <3>2. driver' = Idle \/ driver' \in [step : StepSet, text : Texts, id : Nat]
      BY <2>2, <2>4, StepOrder DEF WriteSourceMap
    <3> QED
      BY <2>4, <3>1, <3>2 DEF WriteSourceMap, TypeOK
  <2>5. CASE WriteSymbolIndex
    <3>1. IsMap(symbol_index', Nat, Texts)
      BY <2>1, <2>5, MapTypes DEF WriteSymbolIndex, BuildSymbols, TypeOK
    <3>2. driver' = Idle \/ driver' \in [step : StepSet, text : Texts, id : Nat]
      BY <2>2, <2>5, StepOrder DEF WriteSymbolIndex
    <3> QED
      BY <2>5, <3>1, <3>2 DEF WriteSymbolIndex, TypeOK
  <2>6. CASE WriteReferenceGraph
    <3>1. driver.text.content \in Contents
      BY <2>1 DEF Texts
    <3>2. driver.text.content \subseteq Names
      BY <3>1 DEF Names
    <3>3. IsMap(references', Names, SUBSET Nat)
      BY <2>1, <2>6, <3>2 DEF WriteReferenceGraph, BuildReferences, TypeOK, IsMap
    <3> QED
      BY <2>2, <2>6, <3>3, StepOrder DEF WriteReferenceGraph, TypeOK
  <2>7. CASE WriteHirs
    <3>1. IsMap(hirs', Nat, Texts)
      BY <2>1, <2>7, MapTypes DEF WriteHirs, TypeOK
    <3>2. driver' = Idle \/ driver' \in [step : StepSet, text : Texts, id : Nat]
      BY <2>2, <2>7, StepOrder DEF WriteHirs
    <3> QED
      BY <2>7, <3>1, <3>2 DEF WriteHirs, TypeOK
  <2>8. CASE WriteTypeck
    <3>1. IsMap(typeck', Nat, Texts)
      BY <2>1, <2>8, MapTypes DEF WriteTypeck, TypeOK
    <3>2. driver' = Idle \/ driver' \in [step : StepSet, text : Texts, id : Nat]
      BY <2>2, <2>8, StepOrder DEF WriteTypeck
    <3> QED
      BY <2>8, <3>1, <3>2 DEF WriteTypeck, TypeOK
  <2>9. CASE WriteDiagnostics
    <3>1. IsMap(diagnostics', Nat, Texts)
      BY <2>1, <2>9, MapTypes DEF WriteDiagnostics, StoreDiagnostics, TypeOK
    <3>2. driver' = Idle \/ driver' \in [step : StepSet, text : Texts, id : Nat]
      BY <2>2, <2>9, StepOrder DEF WriteDiagnostics
    <3> QED
      BY <2>9, <3>1, <3>2 DEF WriteDiagnostics, TypeOK
  <2>10. CASE WriteRawDiagnostics
    <3>1. IsMap(raw_diagnostics', Nat, Texts)
      BY <2>1, <2>10, MapTypes DEF WriteRawDiagnostics, StoreDiagnostics, TypeOK
    <3>2. driver' = Idle \/ driver' \in [step : StepSet, text : Texts, id : Nat]
      BY <2>2, <2>10, StepOrder DEF WriteRawDiagnostics
    <3> QED
      BY <2>10, <3>1, <3>2 DEF WriteRawDiagnostics, TypeOK
  <2> QED
    BY <1>6, <2>3, <2>4, <2>5, <2>6, <2>7, <2>8, <2>9, <2>10 DEF analyze_file
<1> QED
  BY <1>1, <1>2, <1>3, <1>4, <1>5, <1>6 DEF Next, Editor, Driver

(***************************************************************************)
(* The ids of the Vfs and of the file map.                                 *)
(***************************************************************************)
\* What a notification does: the Vfs gets the text of that file, and no other file's.
LEMMA EditorFrame ==
    ASSUME TypeOK, VfsOK, NEW p \in Paths,
           did_close(p) \/ \E c \in Contents : did_open(p, c) \/ did_change(p, c)
    PROVE  /\ VfsOK'
           /\ \A q \in Paths \ {p} : /\ q \in DOMAIN open_files' <=> q \in DOMAIN open_files
                                     /\ q \in DOMAIN open_files => vfs'[open_files'[q]] = vfs[open_files[q]]
           /\ UNCHANGED <<driver, tables>>
           /\ \E m \in Messages :
                 /\ About(m) = p /\ Says(m, p)'
                 /\ \/ channel' = Append(channel, m) /\ lost' = lost \ {p}
                    \/ channel' = channel /\ lost' = lost \cup {p}
<1>1. CASE did_close(p)
  <2>1. /\ open_files' = Remove(open_files, p) /\ vfs' = vfs /\ vfs_id' = vfs_id /\ UNCHANGED <<driver, tables>>
        /\ TrySend(p, Closed(p)) /\ Closed(p) \in Messages
    BY <1>1 DEF did_close, Closed, Messages
  <2>2. /\ DOMAIN open_files' = DOMAIN open_files \ {p}
        /\ \A q \in DOMAIN open_files' : open_files'[q] = open_files[q]
    BY <2>1 DEF Remove
  <2>3. VfsOK'
    BY <2>1, <2>2 DEF VfsOK
  <2>4. About(Closed(p)) = p /\ Says(Closed(p), p)'
    BY <2>2 DEF About, Closed, Says
  <2>5. \/ channel' = Append(channel, Closed(p)) /\ lost' = lost \ {p}
        \/ channel' = channel /\ lost' = lost \cup {p}
    BY <2>1, SendType
  <2> QED
    BY <2>1, <2>2, <2>3, <2>4, <2>5
<1>2. ASSUME NEW c \in Contents, did_open(p, c) \/ did_change(p, c)
      PROVE  /\ VfsOK'
             /\ \A q \in Paths \ {p} : /\ q \in DOMAIN open_files' <=> q \in DOMAIN open_files
                                       /\ q \in DOMAIN open_files => vfs'[open_files'[q]] = vfs[open_files[q]]
             /\ UNCHANGED <<driver, tables>>
             /\ \E m \in Messages :
                   /\ About(m) = p /\ Says(m, p)'
                   /\ \/ channel' = Append(channel, m) /\ lost' = lost \ {p}
                      \/ channel' = channel /\ lost' = lost \cup {p}
  <2>1. PICK t \in Texts : /\ t = Text(p, notes + 1, c) /\ Changed(t) \in Messages /\ t.path = p
    BY <1>2, TextType DEF did_open, did_change, Text
  <2>2. PICK id \in Nat : id = IF p \in DOMAIN vfs_id THEN vfs_id[p] ELSE Cardinality(DOMAIN vfs)
    <3>1. PICK n \in Nat : DOMAIN vfs = 0..(n - 1)
      BY DEF VfsOK
    <3>2. IsFiniteSet(DOMAIN vfs)
      BY <3>1, FS_Interval
    <3> QED
      BY <3>2, FS_CardinalityType DEF TypeOK, IsMap
  <2>3. /\ DOMAIN vfs_id' = DOMAIN vfs_id \cup {p} /\ vfs_id'[p] = id
        /\ \A q \in DOMAIN vfs_id \ {p} : vfs_id'[q] = vfs_id[q]
        /\ DOMAIN vfs' = DOMAIN vfs \cup {id} /\ vfs'[id] = t
        /\ \A x \in DOMAIN vfs \ {id} : vfs'[x] = vfs[x]
        /\ DOMAIN open_files' = DOMAIN open_files \cup {p} /\ open_files'[p] = id
        /\ \A q \in DOMAIN open_files \ {p} : open_files'[q] = open_files[q]
    <3>1. CASE did_open(p, c)
      <4>1. /\ vfs_id' = Insert(vfs_id, p, id) /\ vfs' = Insert(vfs, id, t)
            /\ open_files' = Insert(open_files, p, vfs_id'[p])
        BY <2>1, <2>2, <3>1 DEF did_open, AddFileContent
      <4>2. /\ DOMAIN vfs_id' = DOMAIN vfs_id \cup {p} /\ vfs_id'[p] = id
            /\ \A q \in DOMAIN vfs_id \ {p} : vfs_id'[q] = vfs_id[q]
        BY <4>1 DEF Insert
      <4> QED
        BY <4>1, <4>2 DEF Insert
    <3>2. CASE did_change(p, c)
      <4>1. /\ p \in DOMAIN open_files /\ open_files' = open_files /\ vfs_id' = vfs_id
            /\ vfs' = [vfs EXCEPT ![open_files[p]] = t]
        BY <2>1, <3>2 DEF did_change
      <4>2. p \in DOMAIN vfs_id /\ open_files[p] = id /\ vfs_id[p] = id /\ id \in DOMAIN vfs
        BY <2>2, <4>1 DEF VfsOK
      <4> QED
        BY <4>1, <4>2
    <3> QED
      BY <1>2, <3>1, <3>2
  <2>4. p \notin DOMAIN vfs_id => id \notin DOMAIN vfs /\ \A n \in Nat : DOMAIN vfs = 0..(n - 1) => id = n
    <3> SUFFICES ASSUME p \notin DOMAIN vfs_id, NEW n \in Nat, DOMAIN vfs = 0..(n - 1)
                 PROVE  id \notin DOMAIN vfs /\ id = n
      BY DEF VfsOK
    <3>1. Cardinality(0..(n - 1)) = n
      <4>1. Cardinality(0..(n - 1)) = IF 0 > n - 1 THEN 0 ELSE (n - 1) - 0 + 1
        BY FS_Interval
      <4> QED
        BY <4>1
    <3>2. id = n
      BY <2>2, <3>1
    <3> QED
      BY <3>2
  <2>5. \A q \in DOMAIN vfs_id \ {p} : vfs_id[q] # id /\ vfs_id[q] \in DOMAIN vfs
    BY <2>2, <2>4 DEF VfsOK
  <2>6. \A q \in DOMAIN open_files \ {p} : /\ open_files'[q] = open_files[q] /\ open_files[q] # id
                                           /\ open_files[q] \in DOMAIN vfs /\ q \in DOMAIN vfs_id
                                           /\ open_files[q] = vfs_id[q]
    BY <2>3, <2>5 DEF VfsOK
  <2>7. VfsOK'
    <3>1. \E n \in Nat : DOMAIN vfs' = 0..(n - 1)
      <4>1. PICK n \in Nat : DOMAIN vfs = 0..(n - 1)
        BY DEF VfsOK
      <4>2. CASE p \in DOMAIN vfs_id
        BY <2>2, <2>3, <4>1, <4>2 DEF VfsOK
      <4>3. CASE p \notin DOMAIN vfs_id
        <5>1. DOMAIN vfs' = 0..((n + 1) - 1)
          BY <2>3, <2>4, <4>1, <4>3
        <5> QED
          BY <5>1
      <4> QED
        BY <4>2, <4>3
    <3>2. \A q \in DOMAIN vfs_id' : vfs_id'[q] \in DOMAIN vfs'
      BY <2>3, <2>5
    <3>3. \A q, r \in DOMAIN vfs_id' : vfs_id'[q] = vfs_id'[r] => q = r
      BY <2>3, <2>5 DEF VfsOK
    <3>4. \A q \in DOMAIN open_files' : q \in DOMAIN vfs_id' /\ open_files'[q] = vfs_id'[q]
      BY <2>3, <2>6
    <3>5. \A q \in DOMAIN open_files' : vfs'[open_files'[q]].path = q
      BY <2>1, <2>3, <2>6 DEF VfsOK
    <3> QED
      BY <3>1, <3>2, <3>3, <3>4, <3>5 DEF VfsOK
  <2>8. About(Changed(t)) = p /\ Says(Changed(t), p)'
    BY <2>1, <2>3 DEF About, Changed, Says
  <2>9. TrySend(p, Changed(t)) /\ UNCHANGED <<driver, tables>>
    BY <1>2, <2>1 DEF did_open, did_change
  <2>10. \/ channel' = Append(channel, Changed(t)) /\ lost' = lost \ {p}
         \/ channel' = channel /\ lost' = lost \cup {p}
    BY <2>1, <2>9, SendType
  <2> QED
    BY <2>1, <2>3, <2>6, <2>7, <2>8, <2>9, <2>10
<1> QED
  BY <1>1, <1>2

\* The driver does not touch what the editor has written.
LEMMA DriverFrame ==
    ASSUME Driver
    PROVE  UNCHANGED editor
BY DEF Driver, RecvClosed, RecvChanged, analyze_file, WriteFileMap, WriteSourceMap, WriteSymbolIndex,
       WriteReferenceGraph, WriteHirs, WriteTypeck, WriteDiagnostics, WriteRawDiagnostics, editor

\* Every step keeps the Vfs: ids are distinct, and an open file's text is its own.
LEMMA VfsStep == TypeOK /\ VfsOK /\ [Next]_vars => VfsOK'
<1> SUFFICES ASSUME TypeOK, VfsOK, [Next]_vars PROVE VfsOK'
  OBVIOUS
<1>1. CASE UNCHANGED vars \/ Driver
  <2>1. UNCHANGED <<vfs, vfs_id, open_files>>
    BY <1>1, DriverFrame DEF vars, editor
  <2> QED
    BY <2>1 DEF VfsOK
<1>2. CASE Editor
  BY <1>2, EditorFrame DEF Editor
<1> QED
  BY <1>1, <1>2 DEF Next

\* A step of analyze_file after the first: the driver writes under the id of its file and goes on.
LEMMA FileMapStep == TypeOK /\ VfsOK /\ FileMapOK /\ [Next]_vars => FileMapOK'
<1> SUFFICES ASSUME TypeOK, VfsOK, FileMapOK, [Next]_vars PROVE FileMapOK'
  OBVIOUS
<1>1. CASE UNCHANGED vars \/ Editor
  <2>1. UNCHANGED <<driver, file_map, next_id>>
    BY <1>1, EditorFrame DEF vars, Editor, tables
  <2> QED
    BY <2>1 DEF FileMapOK
<1>2. CASE RecvClosed
  <2>1. /\ DOMAIN file_map' = DOMAIN file_map \ {Head(channel).path}
        /\ \A p \in DOMAIN file_map' : file_map'[p] = file_map[p]
        /\ driver' = Idle /\ next_id' = next_id
    BY <1>2 DEF RecvClosed, Remove
  <2> QED
    BY <2>1 DEF FileMapOK
<1>3. CASE RecvChanged
  <2>1. driver'.step = "file_map" /\ file_map' = file_map /\ next_id' = next_id
    BY <1>3 DEF RecvChanged, tables
  <2> QED
    BY <2>1 DEF FileMapOK
<1>4. CASE WriteFileMap
  <2> DEFINE p == driver.text.path
  <2>1. driver \in [step : StepSet, text : Texts, id : Nat]
    BY <1>4 DEF TypeOK, WriteFileMap, Idle
  <2>2. CASE p \in DOMAIN file_map
    <3>1. /\ file_map' = file_map /\ next_id' = next_id
          /\ driver'.text = driver.text /\ driver'.id = file_map[p]
      BY <1>4, <2>1, <2>2, StepOrder DEF WriteFileMap, GetOrCreate
    <3> QED
      BY <2>2, <3>1 DEF FileMapOK
  <2>3. CASE p \notin DOMAIN file_map
    <3>1. /\ file_map' = Insert(file_map, p, next_id) /\ next_id' = next_id + 1
          /\ driver'.text = driver.text /\ driver'.id = next_id
      BY <1>4, <2>1, <2>3, StepOrder DEF WriteFileMap, GetOrCreate
    <3>2. /\ DOMAIN file_map' = DOMAIN file_map \cup {p} /\ file_map'[p] = next_id
          /\ \A q \in DOMAIN file_map \ {p} : file_map'[q] = file_map[q]
      BY <3>1 DEF Insert
    <3>3. \A q \in DOMAIN file_map : file_map[q] \in Nat /\ file_map[q] < next_id /\ next_id \in Nat
      BY DEF FileMapOK, TypeOK, IsMap
    <3>4. \A q \in DOMAIN file_map' : file_map'[q] < next_id'
      BY <2>3, <3>1, <3>2, <3>3 DEF TypeOK
    <3>5. \A q, r \in DOMAIN file_map' : file_map'[q] = file_map'[r] => q = r
      BY <2>3, <3>2, <3>3 DEF FileMapOK
    <3> QED
      BY <3>1, <3>2, <3>4, <3>5 DEF FileMapOK
  <2> QED
    BY <2>2, <2>3
<1>5. CASE \/ WriteSourceMap \/ WriteSymbolIndex \/ WriteReferenceGraph
           \/ WriteHirs \/ WriteTypeck \/ WriteDiagnostics \/ WriteRawDiagnostics
  <2>1. /\ driver \in [step : StepSet, text : Texts, id : Nat] /\ driver # Idle /\ driver.step # "file_map"
        /\ file_map' = file_map /\ next_id' = next_id
    BY <1>5 DEF TypeOK, WriteSourceMap, WriteSymbolIndex, WriteReferenceGraph,
           WriteHirs, WriteTypeck, WriteDiagnostics, WriteRawDiagnostics, Idle
  <2>2. driver' = Idle \/ (driver'.text = driver.text /\ driver'.id = driver.id)
    BY <1>5, <2>1, StepOrder DEF WriteSourceMap, WriteSymbolIndex, WriteReferenceGraph,
           WriteHirs, WriteTypeck, WriteDiagnostics, WriteRawDiagnostics
  <2> QED
    BY <2>1, <2>2 DEF FileMapOK
<1> QED
  BY <1>1, <1>2, <1>3, <1>4, <1>5 DEF Next, Driver, analyze_file

(***************************************************************************)
(* What the editor sees is on its way.                                     *)
(***************************************************************************)
\* The channel after one message has been taken out.
LEMMA Received ==
    ASSUME TypeOK, channel # <<>>, channel' = Tail(channel), UNCHANGED editor,
           NEW q \in Paths, Tracked(q)
    PROVE  /\ Head(channel) \in Messages
           /\ \A i \in DOMAIN channel' : LastAbout(i, q)' => Says(channel[i], q)'
           /\ NoneAbout(q)' /\ About(Head(channel)) # q => Settled(q)
           /\ NoneAbout(q)' /\ About(Head(channel)) = q => Says(Head(channel), q)
<1>1. /\ Len(channel) \in Nat /\ DOMAIN channel = 1..Len(channel) /\ DOMAIN channel' = 1..(Len(channel) - 1)
      /\ Len(channel) > 0 /\ Head(channel) = channel[1] /\ Head(channel) \in Messages
      /\ \A i \in DOMAIN channel' : channel'[i] = channel[i + 1]
  BY DEF TypeOK
<1>3. ASSUME NEW i \in DOMAIN channel', LastAbout(i, q)' PROVE Says(channel[i], q)'
  <2>1. i + 1 \in DOMAIN channel /\ channel'[i] = channel[i + 1] /\ About(channel[i + 1]) = q
    BY <1>1, <1>3 DEF LastAbout
  <2>2. ASSUME NEW j \in DOMAIN channel, About(channel[j]) = q PROVE j <= i + 1
    <3>1. CASE j = 1
      BY <1>1, <3>1
    <3>2. CASE j # 1
      <4>1. j - 1 \in DOMAIN channel' /\ channel'[j - 1] = channel[j]
        BY <1>1, <3>2
      <4>2. j - 1 <= i
        BY <1>3, <2>2, <4>1 DEF LastAbout
      <4> QED
        BY <1>1, <4>2
    <3> QED
      BY <3>1, <3>2
  <2>3. LastAbout(i + 1, q)
    BY <2>1, <2>2 DEF LastAbout
  <2>4. Says(channel[i + 1], q)
    BY <2>1, <2>3 DEF Tracked
  <2> QED
    BY <2>1, <2>4 DEF Says, editor
<1>4. ASSUME NoneAbout(q)' PROVE \A j \in DOMAIN channel : About(channel[j]) = q => j = 1
  <2> SUFFICES ASSUME NEW j \in DOMAIN channel, About(channel[j]) = q, j # 1 PROVE FALSE
    OBVIOUS
  <2>1. j - 1 \in DOMAIN channel' /\ channel'[j - 1] = channel[j]
    BY <1>1
  <2> QED
    BY <1>4, <2>1 DEF NoneAbout
<1>5. ASSUME NoneAbout(q)', About(Head(channel)) # q PROVE Settled(q)
  <2>1. NoneAbout(q)
    BY <1>1, <1>4, <1>5 DEF NoneAbout
  <2> QED
    BY <2>1 DEF Tracked
<1>6. ASSUME NoneAbout(q)', About(Head(channel)) = q PROVE Says(Head(channel), q)
  <2>1. 1 \in DOMAIN channel
    BY <1>1
  <2>2. LastAbout(1, q)
    BY <1>1, <1>4, <1>6, <2>1 DEF LastAbout
  <2> QED
    BY <1>1, <2>1, <2>2 DEF Tracked
<1> QED
  BY <1>1, <1>3, <1>5, <1>6

\* A notification about p: the message in the channel is the last about p, or p is lost; the
\* other files are tracked as before.
LEMMA EditorTracks ==
    ASSUME TypeOK, VfsOK, AllTracked, NEW p \in Paths,
           did_close(p) \/ \E c \in Contents : did_open(p, c) \/ did_change(p, c)
    PROVE  AllTracked'
<1>1. PICK m \in Messages :
         /\ About(m) = p /\ Says(m, p)'
         /\ \/ channel' = Append(channel, m) /\ lost' = lost \ {p}
            \/ channel' = channel /\ lost' = lost \cup {p}
  BY EditorFrame
<1>2. /\ UNCHANGED <<driver, tables>>
      /\ \A q \in Paths \ {p} : /\ q \in DOMAIN open_files' <=> q \in DOMAIN open_files
                                /\ q \in DOMAIN open_files => vfs'[open_files'[q]] = vfs[open_files[q]]
  BY EditorFrame
<1>3. /\ Len(channel) \in Nat /\ DOMAIN channel = 1..Len(channel)
  BY DEF TypeOK
<1>4. ASSUME NEW q \in Paths \ {p} PROVE (Settled(q)' <=> Settled(q)) /\ \A n : Says(n, q)' <=> Says(n, q)
  <2>1. (Works(q)' <=> Works(q)) /\ (Written' <=> Written) /\ driver' = driver
    BY <1>2 DEF Works, Written, tables
  <2>2. q \in DOMAIN open_files => (UpToDate(q)' <=> UpToDate(q))
    BY <1>2 DEF UpToDate, tables
  <2>3. Current(q)' <=> Current(q)
    BY <1>2, <2>2 DEF Current, tables
  <2>4. Settled(q)' <=> Settled(q)
    BY <1>2, <2>1, <2>3 DEF Settled
  <2>5. \A n : Says(n, q)' <=> Says(n, q)
    BY <1>2 DEF Says
  <2> QED
    BY <2>4, <2>5
<1>5. CASE channel' = channel /\ lost' = lost \cup {p}
  <2> SUFFICES ASSUME NEW q \in Paths \ lost' PROVE Tracked(q)'
    BY DEF AllTracked
  <2>1. q \in Paths \ {p} /\ Tracked(q)
    BY <1>5 DEF AllTracked
  <2>2. (NoneAbout(q)' <=> NoneAbout(q)) /\ \A i : LastAbout(i, q)' <=> LastAbout(i, q)
    BY <1>5 DEF NoneAbout, LastAbout
  <2> QED
    BY <1>4, <1>5, <2>1, <2>2 DEF Tracked
<1>6. CASE channel' = Append(channel, m) /\ lost' = lost \ {p}
  <2> SUFFICES ASSUME NEW q \in Paths \ lost' PROVE Tracked(q)'
    BY DEF AllTracked
  <2>0. /\ DOMAIN channel' = 1..(Len(channel) + 1) /\ channel'[Len(channel) + 1] = m
        /\ \A i \in DOMAIN channel : channel'[i] = channel[i]
    BY <1>3, <1>6 DEF TypeOK
  <2>1. CASE q = p
    <3>1. ~NoneAbout(q)'
      BY <1>1, <1>3, <2>0, <2>1 DEF NoneAbout
    <3>2. ASSUME NEW i \in DOMAIN channel', LastAbout(i, q)' PROVE Says(channel[i], q)'
      <4>1. Len(channel) + 1 \in DOMAIN channel' /\ About(channel'[Len(channel) + 1]) = q
        BY <1>1, <1>3, <2>0, <2>1
      <4>2. Len(channel) + 1 <= i
        BY <3>2, <4>1 DEF LastAbout
      <4>3. i = Len(channel) + 1
        BY <1>3, <2>0, <3>2, <4>2
      <4> QED
        BY <1>1, <2>0, <2>1, <4>3 DEF Says
    <3> QED
      BY <3>1, <3>2 DEF Tracked
  <2>2. CASE q # p
    <3>1. q \in Paths \ {p} /\ Tracked(q)
      BY <1>6, <2>2 DEF AllTracked
    <3>2. NoneAbout(q)' => NoneAbout(q)
      BY <1>3, <2>0 DEF NoneAbout
    <3>3. ASSUME NEW i \in DOMAIN channel', LastAbout(i, q)' PROVE Says(channel[i], q)'
      <4>1. i \in DOMAIN channel
        BY <1>1, <1>3, <2>0, <2>2, <3>3 DEF LastAbout
      <4>2. LastAbout(i, q)
        BY <1>3, <2>0, <3>3, <4>1 DEF LastAbout
      <4>3. Says(channel[i], q)
        BY <3>1, <4>1, <4>2 DEF Tracked
      <4> QED
        BY <1>2, <2>0, <3>1, <4>1, <4>3 DEF Says
    <3> QED
      BY <1>4, <3>1, <3>2, <3>3 DEF Tracked
  <2> QED
    BY <2>1, <2>2
<1> QED
  BY <1>1, <1>5, <1>6

\* The driver takes a message.
LEMMA ReceiveTracks ==
    ASSUME TypeOK, AllTracked, RecvClosed \/ RecvChanged
    PROVE  AllTracked'
<1> SUFFICES ASSUME NEW q \in Paths \ lost' PROVE Tracked(q)'
  BY DEF AllTracked
<1>1. driver = Idle /\ channel # <<>> /\ channel' = Tail(channel) /\ UNCHANGED editor
  BY DEF RecvClosed, RecvChanged
<1>2. Tracked(q)
  BY <1>1 DEF AllTracked, editor
<1>3. /\ Head(channel) \in Messages
      /\ \A i \in DOMAIN channel' : LastAbout(i, q)' => Says(channel[i], q)'
      /\ NoneAbout(q)' /\ About(Head(channel)) # q => Settled(q)
      /\ NoneAbout(q)' /\ About(Head(channel)) = q => Says(Head(channel), q)
  BY <1>1, <1>2, Received
<1>4. ASSUME NoneAbout(q)' PROVE Settled(q)'
  <2>1. CASE RecvClosed
    <3>1. /\ ~Works(q)' /\ ~Works(q) /\ About(Head(channel)) = Head(channel).path
          /\ DOMAIN file_map' = DOMAIN file_map \ {Head(channel).path}
          /\ \A x \in DOMAIN file_map' : file_map'[x] = file_map[x]
      BY <1>1, <2>1 DEF RecvClosed, Works, About, Remove
    <3>2. CASE About(Head(channel)) = q
      <4>1. Says(Head(channel), q)
        BY <1>3, <1>4, <3>2
      <4>2. q \notin DOMAIN open_files
        BY <2>1, <4>1 DEF Says, RecvClosed, Changed
      <4> QED
        BY <1>1, <3>1, <3>2, <4>2 DEF Settled, Current, editor
    <3>3. CASE About(Head(channel)) # q
      <4>1. Current(q)
        BY <1>3, <1>4, <3>1, <3>3 DEF Settled
      <4>2. /\ q \in DOMAIN file_map' <=> q \in DOMAIN file_map
            /\ q \in DOMAIN file_map => file_map'[q] = file_map[q]
            /\ UNCHANGED <<open_files, vfs, source_maps, symbol_index, hirs, typeck, diagnostics, raw_diagnostics>>
        BY <1>1, <2>1, <3>1, <3>3 DEF RecvClosed, editor
      <4>3. Current(q)'
        BY <4>1, <4>2 DEF Current, UpToDate
      <4> QED
        BY <3>1, <4>3 DEF Settled
    <3> QED
      BY <3>2, <3>3
  <2>2. CASE RecvChanged
    <3>1. /\ driver' # Idle /\ driver'.text = Head(channel).text /\ driver'.step = "file_map"
          /\ About(Head(channel)) = driver'.text.path /\ UNCHANGED tables
      BY <2>2 DEF RecvChanged, About, Idle
    <3>2. CASE About(Head(channel)) = q
      <4>1. Says(Head(channel), q)
        BY <1>3, <1>4, <3>2
      <4>2. q \in DOMAIN open_files /\ Head(channel).text = vfs[open_files[q]]
        BY <2>2, <4>1 DEF Says, RecvChanged, Changed, Closed
      <4>3. Works(q)'
        BY <3>1, <3>2 DEF Works
      <4>4. Written'
        BY <3>1 DEF Written
      <4> QED
        BY <1>1, <3>1, <4>2, <4>3, <4>4 DEF Settled, editor
    <3>3. CASE About(Head(channel)) # q
      <4>1. ~Works(q)' /\ ~Works(q)
        BY <1>1, <3>1, <3>3 DEF Works
      <4>2. Current(q)
        BY <1>3, <1>4, <3>3, <4>1 DEF Settled
      <4>3. Current(q)'
        BY <1>1, <3>1, <4>2 DEF Current, UpToDate, tables, editor
      <4> QED
        BY <4>1, <4>3 DEF Settled
    <3> QED
      BY <3>2, <3>3
  <2> QED
    BY <2>1, <2>2
<1> QED
  BY <1>3, <1>4 DEF Tracked

\* A table that is written under another id still says the same about a file.
Same(new, old, x) == /\ x \in DOMAIN new <=> x \in DOMAIN old
                     /\ x \in DOMAIN old => new[x] = old[x]

\* A table write of the driver keeps the tables on the way to what the editor last sent.
LEMMA AnalyseTracks ==
    ASSUME TypeOK, FileMapOK, AllTracked, analyze_file
    PROVE  AllTracked'
<1> SUFFICES ASSUME NEW q \in Paths \ lost' PROVE Tracked(q)'
  BY DEF AllTracked
<1>1. /\ driver \in [step : StepSet, text : Texts, id : Nat] /\ driver # Idle
      /\ channel' = channel /\ UNCHANGED editor
  BY DEF TypeOK, analyze_file, WriteFileMap, WriteSourceMap, WriteSymbolIndex, WriteReferenceGraph,
         WriteHirs, WriteTypeck, WriteDiagnostics, WriteRawDiagnostics, Idle
<1>2. Tracked(q)
  BY <1>1 DEF AllTracked, editor
<1>3. /\ NoneAbout(q)' <=> NoneAbout(q)
      /\ \A i \in DOMAIN channel' : LastAbout(i, q)' => Says(channel[i], q)'
  BY <1>1, <1>2 DEF Tracked, NoneAbout, LastAbout, Says, editor
<1>4. driver' = Idle \/ (driver'.text = driver.text /\ driver' # Idle)
  <2>1. CASE WriteFileMap
    <3>1. driver'.text = driver.text /\ driver'.step = "source_maps"
      BY <1>1, <2>1, StepOrder DEF WriteFileMap, GetOrCreate
    <3> QED
      BY <3>1 DEF Idle
  <2>2. CASE ~WriteFileMap
    <3>1. driver' = Idle \/ \E step \in StepSet : driver' = [driver EXCEPT !.step = step]
      BY <2>2, StepOrder DEF analyze_file, WriteSourceMap, WriteSymbolIndex, WriteReferenceGraph,
             WriteHirs, WriteTypeck, WriteDiagnostics, WriteRawDiagnostics
    <3>2. ASSUME NEW step \in StepSet, driver' = [driver EXCEPT !.step = step]
          PROVE  driver'.text = driver.text /\ driver' # Idle
      BY <1>1, <3>2, StepOrder DEF Idle
    <3> QED
      BY <3>1, <3>2
  <2> QED
    BY <2>1, <2>2
<1>5. ASSUME NoneAbout(q), ~Works(q) PROVE Settled(q)'
  <2>1. q # driver.text.path /\ ~Works(q)' /\ Current(q)
    BY <1>1, <1>2, <1>4, <1>5 DEF Works, Tracked, Settled
  <2>2. Same(file_map', file_map, q)
    BY <2>1 DEF Same, analyze_file, WriteFileMap, WriteSourceMap, WriteSymbolIndex, WriteReferenceGraph,
           WriteHirs, WriteTypeck, WriteDiagnostics, WriteRawDiagnostics, GetOrCreate, Insert
  <2>3. ASSUME q \in DOMAIN file_map
        PROVE  LET id == file_map[q]
               IN  /\ Same(source_maps', source_maps, id) /\ Same(symbol_index', symbol_index, id)
                   /\ Same(hirs', hirs, id) /\ Same(typeck', typeck, id)
                   /\ Same(diagnostics', diagnostics, id) /\ Same(raw_diagnostics', raw_diagnostics, id)
    <3>1. CASE WriteFileMap
      BY <3>1 DEF WriteFileMap, Same
    <3>2. CASE ~WriteFileMap
      <4>1. driver.step # "file_map"
        BY <3>2 DEF analyze_file, WriteFileMap, WriteSourceMap, WriteSymbolIndex, WriteReferenceGraph,
               WriteHirs, WriteTypeck, WriteDiagnostics, WriteRawDiagnostics
      <4>2. file_map[q] # driver.id
        BY <1>1, <2>1, <2>3, <4>1 DEF FileMapOK
      <4>3. CASE WriteSourceMap \/ WriteReferenceGraph
        BY <4>2, <4>3 DEF Same, WriteSourceMap, WriteReferenceGraph, Insert
      <4>4. CASE WriteSymbolIndex
        BY <4>2, <4>4 DEF Same, WriteSymbolIndex, BuildSymbols, Insert, Remove
      <4>5. CASE WriteHirs \/ WriteTypeck
        BY <4>2, <4>5 DEF Same, WriteHirs, WriteTypeck, Insert
      <4>6. CASE WriteDiagnostics
        BY <4>2, <4>6 DEF Same, WriteDiagnostics, StoreDiagnostics, Insert, Remove
      <4>7. CASE WriteRawDiagnostics
        BY <4>2, <4>7 DEF Same, WriteRawDiagnostics, StoreDiagnostics, Insert, Remove
      <4> QED
        BY <3>2, <4>3, <4>4, <4>5, <4>6, <4>7 DEF analyze_file
    <3> QED
      BY <3>1, <3>2
  <2>4. CASE q \in DOMAIN open_files
    <3>1. UpToDate(q) /\ q \in DOMAIN file_map
      BY <2>1, <2>4 DEF Current, UpToDate
    <3>2. file_map'[q] = file_map[q] /\ q \in DOMAIN file_map' /\ UNCHANGED <<open_files, vfs>>
      BY <1>1, <2>2, <3>1 DEF Same, editor
    <3>3. UpToDate(q)'
      BY <2>3, <3>1, <3>2 DEF UpToDate, Same
    <3> QED
      BY <2>1, <2>4, <3>2, <3>3 DEF Settled, Current
  <2>5. CASE q \notin DOMAIN open_files
    <3>1. q \notin DOMAIN file_map' /\ UNCHANGED open_files
      BY <1>1, <2>1, <2>2, <2>5 DEF Current, Same, editor
    <3> QED
      BY <2>1, <2>5, <3>1 DEF Settled, Current
  <2> QED
    BY <2>4, <2>5
<1>6. ASSUME NoneAbout(q), Works(q) PROVE Settled(q)'
  <2>1. q \in DOMAIN open_files /\ driver.text = vfs[open_files[q]] /\ Written /\ driver.text.path = q
    BY <1>2, <1>6 DEF Tracked, Settled, Works
  <2>2. UNCHANGED <<open_files, vfs>>
    BY <1>1 DEF editor
  <2>3. ASSUME driver' # Idle, Written' PROVE Settled(q)'
    BY <1>4, <2>1, <2>2, <2>3 DEF Settled, Works
  <2>4. \A step \in StepSet : LET d == [driver EXCEPT !.step = step]
                              IN  d # Idle /\ d.step = step /\ d.id = driver.id /\ d.text = driver.text
    BY <1>1, StepOrder DEF Idle
  <2>5. CASE WriteFileMap
    <3>1. driver'.step = "source_maps"
      BY <1>1, <2>5, StepOrder DEF WriteFileMap, GetOrCreate
    <3>2. Written' /\ driver' # Idle
      BY <3>1 DEF Written, Idle
    <3> QED
      BY <2>3, <3>2
  <2>6. CASE WriteSourceMap
    <3>1. driver' = [driver EXCEPT !.step = "symbol_index"]
      BY <2>6, StepOrder DEF WriteSourceMap
    <3>2. driver' # Idle /\ driver'.step = "symbol_index" /\ driver'.id = driver.id /\ driver'.text = driver.text
      BY <2>4, <3>1, StepOrder
    <3>3. Written'
      BY <2>1, <2>6, <3>2 DEF WriteSourceMap, Written, Holds, Insert
    <3> QED
      BY <2>3, <3>2, <3>3
  <2>7. CASE WriteSymbolIndex
    <3>1. driver' = [driver EXCEPT !.step = "reference_graph"]
      BY <2>7, StepOrder DEF WriteSymbolIndex
    <3>2. driver' # Idle /\ driver'.step = "reference_graph" /\ driver'.id = driver.id /\ driver'.text = driver.text
      BY <2>4, <3>1, StepOrder
    <3>3. Written'
      BY <2>1, <2>7, <3>2 DEF WriteSymbolIndex, BuildSymbols, Written, Holds, Insert, Remove
    <3> QED
      BY <2>3, <3>2, <3>3
  <2>8. CASE WriteReferenceGraph
    <3>1. driver' = [driver EXCEPT !.step = "hirs"]
      BY <2>8, StepOrder DEF WriteReferenceGraph
    <3>2. driver' # Idle /\ driver'.step = "hirs" /\ driver'.id = driver.id /\ driver'.text = driver.text
      BY <2>4, <3>1, StepOrder
    <3>3. Written'
      BY <2>1, <2>8, <3>2 DEF WriteReferenceGraph, Written, Holds
    <3> QED
      BY <2>3, <3>2, <3>3
  <2>9. CASE WriteHirs
    <3>1. driver' = [driver EXCEPT !.step = "typeck"]
      BY <2>9, StepOrder DEF WriteHirs
    <3>2. driver' # Idle /\ driver'.step = "typeck" /\ driver'.id = driver.id /\ driver'.text = driver.text
      BY <2>4, <3>1, StepOrder
    <3>3. Written'
      BY <2>1, <2>9, <3>2 DEF WriteHirs, Written, Holds, Insert
    <3> QED
      BY <2>3, <3>2, <3>3
  <2>10. CASE WriteTypeck
    <3>1. driver' = [driver EXCEPT !.step = "diagnostics"]
      BY <2>10, StepOrder DEF WriteTypeck
    <3>2. driver' # Idle /\ driver'.step = "diagnostics" /\ driver'.id = driver.id /\ driver'.text = driver.text
      BY <2>4, <3>1, StepOrder
    <3>3. Written'
      BY <2>1, <2>10, <3>2 DEF WriteTypeck, Written, Holds, Insert
    <3> QED
      BY <2>3, <3>2, <3>3
  <2>11. CASE WriteDiagnostics
    <3>1. driver' = [driver EXCEPT !.step = "raw_diagnostics"]
      BY <2>11, StepOrder DEF WriteDiagnostics
    <3>2. driver' # Idle /\ driver'.step = "raw_diagnostics" /\ driver'.id = driver.id /\ driver'.text = driver.text
      BY <2>4, <3>1, StepOrder
    <3>3. Written'
      BY <2>1, <2>11, <3>2 DEF WriteDiagnostics, StoreDiagnostics, Written, Holds, HoldsDiagnostics, Insert, Remove
    <3> QED
      BY <2>3, <3>2, <3>3
  <2>12. CASE WriteRawDiagnostics
    <3>1. driver' = Idle /\ driver.step = "raw_diagnostics"
      BY <2>12, StepOrder DEF WriteRawDiagnostics
    <3>2. q \in DOMAIN file_map /\ driver.id = file_map[q] /\ file_map' = file_map
      BY <1>1, <2>1, <2>12 DEF WriteRawDiagnostics, FileMapOK
    <3>3. /\ Holds(source_maps, driver.id, driver.text) /\ Holds(symbol_index, driver.id, driver.text)
          /\ Holds(hirs, driver.id, driver.text) /\ Holds(typeck, driver.id, driver.text)
          /\ HoldsDiagnostics(diagnostics, driver.id, driver.text)
      BY <2>1, <3>1 DEF Written
    <3>4. HoldsDiagnostics(raw_diagnostics', driver.id, driver.text)
      BY <2>12 DEF WriteRawDiagnostics, StoreDiagnostics, HoldsDiagnostics, Holds, Insert, Remove
    <3>5. UNCHANGED <<source_maps, symbol_index, hirs, typeck, diagnostics>>
      BY <2>12 DEF WriteRawDiagnostics
    <3>6. UpToDate(q)'
      BY <2>1, <2>2, <3>2, <3>3, <3>4, <3>5 DEF UpToDate, Holds, HoldsDiagnostics
    <3> QED
      BY <2>1, <2>2, <3>1, <3>6 DEF Settled, Works, Current
  <2> QED
    BY <2>5, <2>6, <2>7, <2>8, <2>9, <2>10, <2>11, <2>12 DEF analyze_file
<1> QED
  BY <1>3, <1>5, <1>6 DEF Tracked

(***************************************************************************)
(* The theorems.                                                           *)
(***************************************************************************)
\* The invariant holds in every reachable state.
LEMMA Invariance == Spec => []IInv
<1>1. Init => IInv
  <2> SUFFICES ASSUME Init PROVE IInv
    OBVIOUS
  <2>1. DOMAIN Empty = {}
    BY DEF Empty
  <2>2. TypeOK
    BY <2>1, LspConstants DEF Init, TypeOK, IsMap
  <2>3. VfsOK
    <3>1. DOMAIN vfs = 0..(0 - 1)
      BY <2>1 DEF Init
    <3> QED
      BY <2>1, <3>1 DEF Init, VfsOK
  <2>4. FileMapOK
    BY <2>1 DEF Init, FileMapOK
  <2>5. AllTracked
    BY <2>1 DEF Init, AllTracked, Tracked, Settled, Works, Current
  <2> QED
    BY <2>2, <2>3, <2>4, <2>5 DEF IInv
<1>2. IInv /\ [Next]_vars => IInv'
  <2> SUFFICES ASSUME IInv, [Next]_vars PROVE IInv'
    OBVIOUS
  <2> USE DEF IInv
  <2>1. TypeOK' /\ VfsOK' /\ FileMapOK'
    BY TypeStep, VfsStep, FileMapStep
  <2>2. CASE UNCHANGED vars
    <3>1. \A q : Tracked(q)' <=> Tracked(q)
      BY <2>2 DEF vars, editor, tables, Tracked, NoneAbout, LastAbout, Says, Settled, Works, Written, Current, UpToDate
    <3> QED
      BY <2>1, <2>2, <3>1 DEF vars, editor, AllTracked
  <2>3. CASE Next
    <3>1. AllTracked'
      BY <2>3, EditorTracks, ReceiveTracks, AnalyseTracks DEF Next, Editor, Driver
    <3> QED
      BY <2>1, <3>1
  <2> QED
    BY <2>2, <2>3
<1> QED
  BY <1>1, <1>2, PTL DEF Spec

\* The channel never holds more than ChannelSize messages, and every table texts under file ids.
THEOREM LspTypeCorrect == Spec => []TypeOK
<1>1. IInv => TypeOK
  BY DEF IInv
<1> QED
  BY <1>1, Invariance, PTL

\* LspState and AnalysisDriver: however notifications, a full channel and the driver's writes of its
\* tables interleave, once the driver has nothing to do its tables are about the editor's texts.
THEOREM QuietCorrect == Spec => []QuietIsCurrent
<1>1. IInv => QuietIsCurrent
  BY DEF IInv, QuietIsCurrent, Quiet, AllTracked, Tracked, NoneAbout, Settled, Works, Current
<1> QED
  BY <1>1, Invariance, PTL

-----------------------------------------------------------------------------
(***************************************************************************)
(* The locks (LspLocks).  First what every handler but hover has in common *)
(* as a script: it drops only what it holds and takes no lock twice.       *)
(***************************************************************************)
Ops == {Read(l) : l \in Locks} \cup {Drop(l) : l \in Locks}

\* A handler that runs s holds l before its operation k.
HoldsBefore(s, k, l) ==
    \E i \in 1..(k - 1) : s[i] = Read(l) /\ \A j \in (i + 1)..(k - 1) : s[j] # Drop(l)

Disciplined(s) ==
    /\ s \in Seq(Ops)
    /\ \A k \in 1..Len(s) :
          /\ s[k].op = "read" => ~HoldsBefore(s, k, s[k].lock)
          /\ s[k].op = "drop" => HoldsBefore(s, k, s[k].lock)

LEMMA OpsAre == \A l \in Locks : Read(l) \in Ops /\ Drop(l) \in Ops
BY DEF Ops

LEMMA Around ==
    ASSUME NEW s \in Seq(Ops), NEW r \in Seq(Ops), NEW t \in Seq(Ops)
    PROVE  /\ s \o r \o t \in Seq(Ops)
           /\ Len(s \o r \o t) = Len(s) + Len(r) + Len(t)
           /\ \A i \in 1..Len(s) : (s \o r \o t)[i] = s[i]
           /\ \A i \in 1..Len(r) : (s \o r \o t)[Len(s) + i] = r[i]
           /\ \A i \in 1..Len(t) : (s \o r \o t)[Len(s) + Len(r) + i] = t[i]
<1>1. Len(s) \in Nat /\ Len(r) \in Nat /\ Len(t) \in Nat
  OBVIOUS
<1>2. /\ s \o r \in Seq(Ops) /\ Len(s \o r) = Len(s) + Len(r)
      /\ \A i \in 1..(Len(s) + Len(r)) : (s \o r)[i] = IF i <= Len(s) THEN s[i] ELSE r[i - Len(s)]
  OBVIOUS
<1>3. \A i \in 1..(Len(s \o r) + Len(t)) :
          (s \o r \o t)[i] = IF i <= Len(s \o r) THEN (s \o r)[i] ELSE t[i - Len(s \o r)]
  BY <1>2
<1> QED
  BY <1>1, <1>2, <1>3

LEMMA Concatenation ==
    \A s, t \in Seq(Ops) :
        /\ s \o t \in Seq(Ops) /\ Len(s \o t) = Len(s) + Len(t)
        /\ \A i \in 1..(Len(s) + Len(t)) : (s \o t)[i] = IF i <= Len(s) THEN s[i] ELSE t[i - Len(s)]
OBVIOUS

LEMMA PairIsTwo ==
    ASSUME NEW a \in Seq(Ops), Len(a) = 4, NEW b \in Seq(Ops), Len(b) = 2
    PROVE  a \o b = <<a[1], a[2], a[3], a[4], b[1], b[2]>>
<1>1. /\ a \o b \in Seq(Ops) /\ Len(a \o b) = Len(a) + Len(b)
      /\ \A i \in 1..(Len(a) + Len(b)) : (a \o b)[i] = IF i <= Len(a) THEN a[i] ELSE b[i - Len(a)]
  BY Concatenation
<1>2. (\A i \in 1..4 : a[i] \in Ops) /\ (\A i \in 1..2 : b[i] \in Ops)
  <2>1. (\A i \in 1..Len(a) : a[i] \in Ops) /\ (\A i \in 1..Len(b) : b[i] \in Ops)
    BY ElementOfSeq
  <2> QED
    BY <2>1
<1> DEFINE p == <<a[1], a[2], a[3], a[4], b[1], b[2]>>
<1>3. p \in Seq(Ops) /\ Len(p) = 6
  BY <1>2
<1>4. \A i \in 1..6 : (a \o b)[i] = p[i]
  BY <1>1
<1> HIDE DEF p
<1>5. a \o b = p
  BY <1>1, <1>3, <1>4, SeqEqual
<1> QED
  BY <1>5 DEF p

\* What receiver_type_at_cursor does under source_maps.
Found == {<<>>, <<Read("hirs"), Drop("hirs")>>, type_at_offset,
          type_at_offset \o <<Read("typeck"), Drop("typeck")>>}

LEMMA FoundLast ==
    type_at_offset \o <<Read("typeck"), Drop("typeck")>> =
        <<Read("hirs"), Read("typeck"), Drop("typeck"), Drop("hirs"), Read("typeck"), Drop("typeck")>>
<1> DEFINE a == type_at_offset
           b == <<Read("typeck"), Drop("typeck")>>
<1>1. a \in Seq(Ops) /\ Len(a) = 4 /\ a[1] = Read("hirs") /\ a[2] = Read("typeck")
      /\ a[3] = Drop("typeck") /\ a[4] = Drop("hirs")
  BY OpsAre DEF Locks, type_at_offset
<1>2. b \in Seq(Ops) /\ Len(b) = 2 /\ b[1] = Read("typeck") /\ b[2] = Drop("typeck")
  BY OpsAre DEF Locks
<1> HIDE DEF a, b
<1>3. a \o b = <<a[1], a[2], a[3], a[4], b[1], b[2]>>
  BY <1>1, <1>2, PairIsTwo
<1> QED
  BY <1>1, <1>2, <1>3 DEF a, b

\* The name of the lock that a completion takes three times.
SM == "source_maps"

LEMMA CompletionsAreDisciplined ==
    \A s \in provide_completions : Disciplined(s)
<1> SUFFICES ASSUME NEW f \in Found
             PROVE  Disciplined(<<Read("symbol_index")>> \o (<<Read(SM)>> \o f \o <<Drop(SM)>>)
                                    \o <<Read(SM), Drop(SM), Read(SM)>>)
  <2>1. ASSUME NEW s \in provide_completions,
               \A f \in Found : Disciplined(<<Read("symbol_index")>> \o (<<Read(SM)>> \o f \o <<Drop(SM)>>)
                                    \o <<Read(SM), Drop(SM), Read(SM)>>)
        PROVE  Disciplined(s)
    <3>1. CASE s = <<Read("symbol_index")>> \o <<>> \o <<Read(SM), Drop(SM), Read(SM)>>
      <4> DEFINE w == <<Read("symbol_index"), Read(SM), Drop(SM), Read(SM)>>
      <4>1. w \in Seq(Ops) /\ <<Read("symbol_index")>> \in Seq(Ops)
            /\ <<Read(SM), Drop(SM), Read(SM)>> \in Seq(Ops)
        BY OpsAre DEF Locks, SM
      <4>2. s \in Seq(Ops) /\ Len(s) = 4 /\ \A i \in 1..4 : s[i] = w[i]
        BY <3>1, <4>1, Around
      <4>3. Disciplined(w)
        BY <4>1 DEF Disciplined, HoldsBefore, Read, Drop, SM
      <4>4. s = w
        BY <4>1, <4>2, SeqEqual
      <4> QED
        BY <4>3, <4>4
    <3>2. ASSUME NEW f \in Found,
                 s = <<Read("symbol_index")>> \o (<<Read(SM)>> \o f \o <<Drop(SM)>>)
                         \o <<Read(SM), Drop(SM), Read(SM)>>
          PROVE  Disciplined(s)
      BY <2>1, <3>2
    <3> QED
      BY <3>1, <3>2 DEF provide_completions, receiver_type_at_cursor, Found, SM
  <2> QED
    BY <2>1
<1> DEFINE r == <<Read(SM)>> \o f \o <<Drop(SM)>>
           s == <<Read("symbol_index")>> \o r \o <<Read(SM), Drop(SM), Read(SM)>>
<1>1. \/ f = <<>>
      \/ f = <<Read("hirs"), Drop("hirs")>>
      \/ f = type_at_offset
      \/ f = <<Read("hirs"), Read("typeck"), Drop("typeck"), Drop("hirs"), Read("typeck"), Drop("typeck")>>
  BY FoundLast DEF Found
<1>2. f \in Seq(Ops)
  <2>1. <<>> \in Seq(Ops) /\ <<Read("hirs"), Drop("hirs")>> \in Seq(Ops) /\ type_at_offset \in Seq(Ops)
    BY OpsAre DEF type_at_offset, Locks
  <2>2. <<Read("hirs"), Read("typeck"), Drop("typeck"), Drop("hirs"), Read("typeck"), Drop("typeck")>>
            \in Seq(Ops)
    BY OpsAre DEF Locks
  <2> QED
    BY <1>1, <2>1, <2>2
<1>3. /\ r \in Seq(Ops) /\ Len(r) = Len(f) + 2 /\ r[1] = Read(SM) /\ r[Len(f) + 2] = Drop(SM)
      /\ \A i \in 1..Len(f) : r[i + 1] = f[i]
  <2>1. <<Read(SM)>> \in Seq(Ops) /\ <<Drop(SM)>> \in Seq(Ops)
    BY OpsAre DEF Locks, SM
  <2> QED
    BY <1>2, <2>1, Around
<1> HIDE DEF r
<1>4. /\ s \in Seq(Ops) /\ Len(s) = Len(r) + 4 /\ s[1] = Read("symbol_index")
      /\ \A i \in 1..Len(r) : s[i + 1] = r[i]
      /\ s[Len(r) + 2] = Read(SM) /\ s[Len(r) + 3] = Drop(SM) /\ s[Len(r) + 4] = Read(SM)
  <2>1. <<Read("symbol_index")>> \in Seq(Ops) /\ <<Read(SM), Drop(SM), Read(SM)>> \in Seq(Ops)
    BY OpsAre DEF Locks, SM
  <2> QED
    BY <1>3, <2>1, Around
<1> HIDE DEF s
<1>5. ASSUME f = <<>>
      PROVE  Disciplined(s)
  <2> DEFINE w == <<Read("symbol_index"), Read(SM), Drop(SM), Read(SM), Drop(SM), Read(SM)>>
  <2>1. Len(f) = 0 /\ Len(s) = 6
    BY <1>3, <1>4, <1>5 DEF type_at_offset
  <2>2. w \in Seq(Ops)
    BY OpsAre DEF Locks, SM
  <2>3. \A i \in 1..6 : s[i] = w[i]
    BY <2>1, <1>3, <1>4, <1>5 DEF type_at_offset
  <2>4. s = w
    BY <2>1, <2>2, <2>3, <1>4, SeqEqual
  <2>5. Disciplined(w)
    BY <2>2 DEF Disciplined, HoldsBefore, Read, Drop, SM
  <2> QED
    BY <2>4, <2>5
<1>6. ASSUME f = <<Read("hirs"), Drop("hirs")>>
      PROVE  Disciplined(s)
  <2> DEFINE w == <<Read("symbol_index"), Read(SM), Read("hirs"), Drop("hirs"), Drop(SM),
                  Read(SM), Drop(SM), Read(SM)>>
  <2>1. Len(f) = 2 /\ Len(s) = 8
    BY <1>3, <1>4, <1>6 DEF type_at_offset
  <2>2. w \in Seq(Ops)
    BY OpsAre DEF Locks, SM
  <2>3. \A i \in 1..8 : s[i] = w[i]
    BY <2>1, <1>3, <1>4, <1>6 DEF type_at_offset
  <2>4. s = w
    BY <2>1, <2>2, <2>3, <1>4, SeqEqual
  <2>5. Disciplined(w)
    BY <2>2 DEF Disciplined, HoldsBefore, Read, Drop, SM
  <2> QED
    BY <2>4, <2>5
<1>7. ASSUME f = type_at_offset
      PROVE  Disciplined(s)
  <2> DEFINE w == <<Read("symbol_index"), Read(SM), Read("hirs"), Read("typeck"), Drop("typeck"), Drop("hirs"),
                  Drop(SM), Read(SM), Drop(SM), Read(SM)>>
  <2>1. Len(f) = 4 /\ Len(s) = 10
    BY <1>3, <1>4, <1>7 DEF type_at_offset
  <2>2. w \in Seq(Ops)
    BY OpsAre DEF Locks, SM
  <2>3. \A i \in 1..10 : s[i] = w[i]
    BY <2>1, <1>3, <1>4, <1>7 DEF type_at_offset
  <2>4. s = w
    BY <2>1, <2>2, <2>3, <1>4, SeqEqual
  <2>5. Disciplined(w)
    BY SMTT(120), <2>2 DEF Disciplined, HoldsBefore, Read, Drop, SM
  <2> QED
    BY <2>4, <2>5
<1>8. ASSUME f = <<Read("hirs"), Read("typeck"), Drop("typeck"), Drop("hirs"), Read("typeck"), Drop("typeck")>>
      PROVE  Disciplined(s)
  <2> DEFINE w == <<Read("symbol_index"), Read(SM), Read("hirs"), Read("typeck"), Drop("typeck"), Drop("hirs"), Read("typeck"),
                  Drop("typeck"), Drop(SM), Read(SM), Drop(SM), Read(SM)>>
  <2>1. Len(f) = 6 /\ Len(s) = 12
    BY <1>3, <1>4, <1>8 DEF type_at_offset
  <2>2. w \in Seq(Ops)
    BY OpsAre DEF Locks, SM
  <2>3. \A i \in 1..12 : s[i] = w[i]
    BY <2>1, <1>3, <1>4, <1>8 DEF type_at_offset
  <2>4. s = w
    BY <2>1, <2>2, <2>3, <1>4, SeqEqual
  <2>5. Disciplined(w)
    BY SMTT(120), <2>2 DEF Disciplined, HoldsBefore, Read, Drop, SM
  <2> QED
    BY <2>4, <2>5
<1>9. Disciplined(s)
  BY <1>1, <1>5, <1>6, <1>7, <1>8
<1> QED
  BY <1>9 DEF s, r

LEMMA HandlersAreDisciplined ==
    ASSUME "hover" \notin Requests
    PROVE  \A r \in Requests : \A s \in Scripts(r) : Disciplined(s)
<1>1. Disciplined(goto_definition) /\ Disciplined(document_symbols)
  BY DEF Disciplined, goto_definition, document_symbols, HoldsBefore, Ops, Read, Drop, Locks
<1>2. Disciplined(find_references) /\ Disciplined(format_document)
  BY DEF Disciplined, find_references, format_document, HoldsBefore, Ops, Read, Drop, Locks
<1>3. Disciplined(workspace_symbols) /\ Disciplined(rename_symbol)
  BY DEF Disciplined, workspace_symbols, rename_symbol, HoldsBefore, Ops, Read, Drop, Locks
<1>4. Disciplined(provide_code_actions)
  BY DEF Disciplined, provide_code_actions, HoldsBefore, Ops, Read, Drop, Locks
<1> TAKE r \in Requests
<1>5. r \in {"completion", "definition", "references", "document_symbols",
           "workspace_symbols", "rename", "code_action", "format"}
  BY RequestsHaveHandlers
<1> QED
  BY <1>1, <1>2, <1>3, <1>4, <1>5, CompletionsAreDisciplined DEF Scripts

\* How one operation changes what a script holds.
LEMMA HoldsNothingFirst == \A s, l : ~HoldsBefore(s, 1, l)
BY DEF HoldsBefore

LEMMA HoldsAfterRead ==
    ASSUME NEW s, NEW k \in Nat \ {0}, NEW m \in Locks, s[k] = Read(m), NEW l \in Locks
    PROVE  HoldsBefore(s, k + 1, l) <=> l = m \/ HoldsBefore(s, k, l)
<1>1. s[k] # Drop(l) /\ (s[k] = Read(l) <=> l = m)
  BY DEF Read, Drop
<1>2. ASSUME l = m PROVE HoldsBefore(s, k + 1, l)
  BY <1>1, <1>2 DEF HoldsBefore
<1>3. ASSUME HoldsBefore(s, k, l) PROVE HoldsBefore(s, k + 1, l)
  <2>1. PICK i \in 1..(k - 1) : s[i] = Read(l) /\ \A j \in (i + 1)..(k - 1) : s[j] # Drop(l)
    BY <1>3 DEF HoldsBefore
  <2>2. i \in 1..((k + 1) - 1) /\ \A j \in (i + 1)..((k + 1) - 1) : s[j] # Drop(l)
    BY <1>1, <2>1
  <2> QED
    BY <2>1, <2>2 DEF HoldsBefore
<1>4. ASSUME HoldsBefore(s, k + 1, l), l # m PROVE HoldsBefore(s, k, l)
  <2>1. PICK i \in 1..((k + 1) - 1) :
            s[i] = Read(l) /\ \A j \in (i + 1)..((k + 1) - 1) : s[j] # Drop(l)
    BY <1>4 DEF HoldsBefore
  <2>2. i \in 1..(k - 1) /\ \A j \in (i + 1)..(k - 1) : s[j] # Drop(l)
    BY <1>1, <1>4, <2>1
  <2> QED
    BY <2>1, <2>2 DEF HoldsBefore
<1> QED
  BY <1>2, <1>3, <1>4

LEMMA HoldsAfterDrop ==
    ASSUME NEW s, NEW k \in Nat \ {0}, NEW m \in Locks, s[k] = Drop(m), NEW l \in Locks
    PROVE  HoldsBefore(s, k + 1, l) <=> l # m /\ HoldsBefore(s, k, l)
<1>1. s[k] # Read(l) /\ (s[k] = Drop(l) <=> l = m)
  BY DEF Read, Drop
<1>2. ASSUME HoldsBefore(s, k, l), l # m PROVE HoldsBefore(s, k + 1, l)
  <2>1. PICK i \in 1..(k - 1) : s[i] = Read(l) /\ \A j \in (i + 1)..(k - 1) : s[j] # Drop(l)
    BY <1>2 DEF HoldsBefore
  <2>2. i \in 1..((k + 1) - 1) /\ \A j \in (i + 1)..((k + 1) - 1) : s[j] # Drop(l)
    BY <1>1, <1>2, <2>1
  <2> QED
    BY <2>1, <2>2 DEF HoldsBefore
<1>3. ASSUME HoldsBefore(s, k + 1, l) PROVE l # m /\ HoldsBefore(s, k, l)
  <2>1. PICK i \in 1..((k + 1) - 1) :
            s[i] = Read(l) /\ \A j \in (i + 1)..((k + 1) - 1) : s[j] # Drop(l)
    BY <1>3 DEF HoldsBefore
  <2>2. i \in 1..(k - 1) /\ \A j \in (i + 1)..(k - 1) : s[j] # Drop(l)
    BY <1>1, <2>1
  <2>3. k \in (i + 1)..((k + 1) - 1)
    BY <2>2
  <2> QED
    BY <1>1, <2>1, <2>2, <2>3 DEF HoldsBefore
<1> QED
  BY <1>2, <1>3

(***************************************************************************)
(* While the driver is inside a table it is there alone, whatever the      *)
(* handlers do.  Claiming a lock turns new readers away, and the driver    *)
(* enters only when the old ones are gone.                                 *)
(***************************************************************************)
WriterTypeOK ==
    /\ writer \in [at : DOMAIN DriverScript, state : WriterStates]
    /\ claimed = IF writer.state = "out" THEN {} ELSE {Table}

AloneInv == held \in [Threads -> [Locks -> Int]] /\ WriterTypeOK /\ WriterIsAlone

LEMMA AloneInit == LockInit => AloneInv
BY DEF LockInit, AloneInv, WriterTypeOK, WriterIsAlone, WriterStates, NoGuards, DriverScript

LEMMA WriterStep ==
    ASSUME WriterTypeOK, DriverWrites PROVE WriterTypeOK'
<1> USE DEF WriterTypeOK, WriterStates, Table
<1>1. CASE Claim
  BY <1>1 DEF Claim
<1>2. CASE Enter
  BY <1>2 DEF Enter
<1>3. CASE Leave
  <2>1. DOMAIN DriverScript = 1..8 /\ Len(DriverScript) = 8
    BY DEF DriverScript
  <2>2. writer.at \in 1..8
    BY <2>1
  <2>3. PICK next \in {(writer.at % Len(DriverScript)) + 1} \cup (IF writer.at = 1 THEN {1} ELSE {}) :
            writer' = [at |-> next, state |-> "out"]
    BY <1>3 DEF Leave
  <2>4. next \in 1..8
    BY <2>1, <2>2, <2>3
  <2>5. claimed' = {}
    BY <1>3 DEF Leave
  <2> QED
    BY <2>1, <2>3, <2>4, <2>5
<1> QED
  BY <1>1, <1>2, <1>3 DEF DriverWrites

LEMMA OneCountChanged ==
    ASSUME NEW h \in [Threads -> [Locks -> Int]], NEW t \in Threads, NEW l, NEW n, l \in Locks => n \in Int
    PROVE  [h EXCEPT ![t][l] = n] \in [Threads -> [Locks -> Int]]
<1>1. [h[t] EXCEPT ![l] = n] \in [Locks -> Int]
  OBVIOUS
<1> QED
  BY <1>1

LEMMA AloneStep == AloneInv /\ [LockNext]_lock_vars => AloneInv'
<1> SUFFICES ASSUME AloneInv, [LockNext]_lock_vars PROVE AloneInv'
  OBVIOUS
<1> USE DEF AloneInv
<1>1. CASE UNCHANGED lock_vars
  BY <1>1 DEF lock_vars, WriterTypeOK, WriterIsAlone, Table, Readers
<1>2. CASE DriverWrites
  <2>1. WriterTypeOK' /\ held' = held
    BY <1>2, WriterStep DEF DriverWrites, Claim, Enter, Leave
  <2>2. WriterIsAlone'
    BY <1>2, <2>1 DEF DriverWrites, Claim, Enter, Leave, WriterIsAlone, WriterTypeOK, Table, Readers
  <2> QED
    BY <2>1, <2>2
<1>3. ASSUME NEW t \in Threads, Request(t) PROVE AloneInv'
  <2>1. WriterTypeOK' /\ writer' = writer /\ Table' = Table
    BY <1>3 DEF Request, Serve, CallRead, GetRead, DropGuard, Return, WriterTypeOK, Table
  <2>2. ASSUME held' = held PROVE AloneInv'
    BY <2>1, <2>2 DEF WriterIsAlone, Readers
  <2>3. CASE GetRead(t)
    <3>1. held' \in [Threads -> [Locks -> Int]]
      <4>1. Op(t).lock \in Locks => held[t][Op(t).lock] + 1 \in Int
        OBVIOUS
      <4> QED
        BY <2>3, <4>1, OneCountChanged DEF GetRead
    <3>2. ASSUME writer.state = "inside" PROVE Readers(Table)' = Readers(Table)
      <4>1. Op(t).lock # Table
        BY <2>3, <3>2 DEF GetRead, WriterTypeOK
      <4>2. \A u \in Threads : held'[u][Table] = held[u][Table]
        BY <2>3, <4>1 DEF GetRead
      <4> QED
        BY <2>1, <4>2 DEF Readers
    <3> QED
      BY <2>1, <3>1, <3>2 DEF WriterIsAlone
  <2>4. CASE DropGuard(t)
    <3>1. held' \in [Threads -> [Locks -> Int]]
      <4>1. Op(t).lock \in Locks => held[t][Op(t).lock] - 1 \in Int
        OBVIOUS
      <4> QED
        BY <2>4, <4>1, OneCountChanged DEF DropGuard
    <3>2. Table \in Locks
      BY DEF WriterTypeOK, Table, DriverScript, Locks
    <3>3. \A u \in Threads : held'[u][Table] <= held[u][Table]
      BY <2>4, <3>2 DEF DropGuard
    <3>4. Readers(Table)' \subseteq Readers(Table)
      BY <2>1, <3>1, <3>2, <3>3 DEF Readers
    <3> QED
      BY <2>1, <3>1, <3>4 DEF WriterIsAlone
  <2>5. CASE Return(t)
    <3>1. held' \in [Threads -> [Locks -> Int]] /\ Readers(Table)' \subseteq Readers(Table)
      <4>1. Table \in Locks
        BY DEF WriterTypeOK, Table, DriverScript, Locks
      <4> QED
        BY <2>1, <2>5, <4>1 DEF Return, NoGuards, Readers
    <3> QED
      BY <2>1, <3>1 DEF WriterIsAlone
  <2> QED
    BY <1>3, <2>2, <2>3, <2>4, <2>5 DEF Request, Serve, CallRead
<1> QED
  BY <1>1, <1>2, <1>3 DEF LockNext

\* No handler has a guard on a table the driver writes.
THEOREM WriterIsAloneCorrect == LockSpec => []WriterIsAlone
<1>1. AloneInv => WriterIsAlone
  BY DEF AloneInv
<1> QED
  BY <1>1, AloneInit, AloneStep, PTL DEF LockSpec

(***************************************************************************)
(* Without hover, the guards of a thread are those its script holds at its *)
(* place, one on each lock, and a thread that waits does so for a lock it  *)
(* has no guard on.                                                        *)
(***************************************************************************)
HeldAsScripted ==
    \A t \in Threads : \A l \in Locks :
        held[t][l] = IF HoldsBefore(serving[t], pc[t], l) THEN 1 ELSE 0

WaitingReads ==
    \A t \in Threads : waiting[t] =>
        serving[t] # NotServing /\ ~AtEnd(t) /\ Op(t).op = "read"

LockInv ==
    /\ serving \in [Threads -> {NotServing} \cup UNION {Scripts(r) : r \in Requests}]
    /\ pc \in [Threads -> Nat \ {0}] /\ \A t \in Threads : pc[t] \in 1..(Len(serving[t]) + 1)
    /\ waiting \in [Threads -> BOOLEAN]
    /\ held \in [Threads -> [Locks -> Int]]
    /\ WriterTypeOK
    /\ HeldAsScripted
    /\ WaitingReads

LEMMA LockInvInit == LockInit => LockInv
<1> SUFFICES ASSUME LockInit PROVE LockInv
  OBVIOUS
<1>1. WriterTypeOK
  BY AloneInit DEF AloneInv
<1>2. HeldAsScripted
  BY HoldsNothingFirst DEF LockInit, HeldAsScripted, NoGuards
<1> QED
  BY <1>1, <1>2 DEF LockInit, LockInv, WaitingReads, NoGuards, NotServing

LEMMA LockInvHolds ==
    ASSUME "hover" \notin Requests, LockInv, NEW t \in Threads
    PROVE  /\ Disciplined(serving[t]) /\ serving[t] \in Seq(Ops) /\ Len(serving[t]) \in Nat
           /\ ~AtEnd(t) => /\ pc[t] \in 1..Len(serving[t]) /\ Op(t) \in Ops /\ Op(t).lock \in Locks
                           /\ Op(t).op = "read" => Op(t) = Read(Op(t).lock)
                           /\ Op(t).op = "drop" => Op(t) = Drop(Op(t).lock)
<1>1. Disciplined(NotServing)
  BY DEF Disciplined, NotServing
<1>2. Disciplined(serving[t])
  <2>1. serving[t] = NotServing \/ \E r \in Requests : serving[t] \in Scripts(r)
    BY DEF LockInv
  <2> QED
    BY <1>1, <2>1, HandlersAreDisciplined
<1>3. serving[t] \in Seq(Ops) /\ Len(serving[t]) \in Nat
  BY <1>2 DEF Disciplined
<1>4. ASSUME ~AtEnd(t) PROVE pc[t] \in 1..Len(serving[t]) /\ Op(t) \in Ops
  <2>1. pc[t] \in 1..Len(serving[t])
    BY <1>3, <1>4 DEF AtEnd, LockInv
  <2> QED
    BY <1>3, <2>1, ElementOfSeq DEF Op
<1>5. \A o \in Ops : /\ o.lock \in Locks /\ (o.op = "read" => o = Read(o.lock))
                      /\ (o.op = "drop" => o = Drop(o.lock))
  BY DEF Ops, Read, Drop
<1> QED
  BY <1>2, <1>3, <1>4, <1>5

LEMMA LockInvStep ==
    ASSUME "hover" \notin Requests
    PROVE  LockInv /\ [LockNext]_lock_vars => LockInv'
<1> SUFFICES ASSUME LockInv, [LockNext]_lock_vars PROVE LockInv'
  OBVIOUS
<1>1. CASE UNCHANGED lock_vars
  BY <1>1 DEF lock_vars, LockInv, WriterTypeOK, HeldAsScripted, WaitingReads, Table, Op, AtEnd
<1>2. CASE DriverWrites
  <2>1. WriterTypeOK'
    BY <1>2, WriterStep DEF LockInv
  <2>2. UNCHANGED <<serving, pc, waiting, held>>
    BY <1>2 DEF DriverWrites, Claim, Enter, Leave
  <2> QED
    BY <2>1, <2>2 DEF LockInv, HeldAsScripted, WaitingReads, Op, AtEnd
<1>3. ASSUME NEW t \in Threads, Request(t) PROVE LockInv'
  <2>1. WriterTypeOK'
    BY <1>3 DEF Request, Serve, CallRead, GetRead, DropGuard, Return, LockInv, WriterTypeOK, Table
  <2>2. /\ waiting' \in [Threads -> BOOLEAN]
        /\ serving \in [Threads -> {NotServing} \cup UNION {Scripts(r) : r \in Requests}]
        /\ pc \in [Threads -> Nat \ {0}] /\ held \in [Threads -> [Locks -> Int]]
    BY <1>3 DEF Request, Serve, CallRead, GetRead, DropGuard, Return, LockInv
  \* Every other thread stays where it is.
  <2>3. ASSUME /\ serving' \in [Threads -> {NotServing} \cup UNION {Scripts(r) : r \in Requests}]
               /\ pc' \in [Threads -> Nat \ {0}] /\ pc'[t] \in 1..(Len(serving'[t]) + 1)
               /\ held' \in [Threads -> [Locks -> Int]]
               /\ \A u \in Threads \ {t} : /\ serving'[u] = serving[u] /\ pc'[u] = pc[u]
                                            /\ held'[u] = held[u] /\ waiting'[u] = waiting[u]
               /\ \A l \in Locks : held'[t][l] = IF HoldsBefore(serving'[t], pc'[t], l) THEN 1 ELSE 0
               /\ waiting'[t] => serving'[t] # NotServing /\ ~AtEnd(t)' /\ Op(t)'.op = "read"
        PROVE  LockInv'
    <3>1. \A u \in Threads : pc'[u] \in 1..(Len(serving'[u]) + 1)
      BY <2>3 DEF LockInv
    <3>2. HeldAsScripted'
      BY <2>3 DEF LockInv, HeldAsScripted
    <3>3. WaitingReads'
      BY <2>3 DEF LockInv, WaitingReads, AtEnd, Op
    <3> QED
      BY <2>1, <2>2, <2>3, <3>1, <3>2, <3>3 DEF LockInv
  <2>4. CASE Serve(t)
    <3>1. PICK s \in UNION {Scripts(r) : r \in Requests} : serving' = [serving EXCEPT ![t] = s]
      BY <2>4 DEF Serve
    <3>2. held' = held /\ waiting' = waiting /\ pc' = [pc EXCEPT ![t] = 1] /\ serving[t] = NotServing
      BY <2>4 DEF Serve
    <3>3. Disciplined(s)
      BY <3>1, HandlersAreDisciplined
    <3>4. pc[t] = 1
      BY <3>2 DEF LockInv, NotServing
    <3>5. \A l \in Locks : held[t][l] = 0
      BY <3>4, HoldsNothingFirst DEF LockInv, HeldAsScripted
    <3>6. ~waiting[t]
      BY <3>2 DEF LockInv, WaitingReads
    <3>7. 1 \in 1..(Len(s) + 1)
      BY <3>3 DEF Disciplined
    <3> QED
      BY <2>2, <2>3, <3>1, <3>2, <3>5, <3>6, <3>7, HoldsNothingFirst
  <2>5. CASE CallRead(t)
    <3>1. UNCHANGED <<serving, pc, held>> /\ waiting' = [waiting EXCEPT ![t] = TRUE]
          /\ serving[t] # NotServing /\ ~AtEnd(t) /\ Op(t).op = "read"
      BY <2>5 DEF CallRead, Running
    <3>2. AtEnd(t)' = AtEnd(t) /\ Op(t)' = Op(t)
      BY <3>1 DEF AtEnd, Op
    <3> QED
      BY <2>2, <2>3, <3>1, <3>2 DEF LockInv, HeldAsScripted
  <2>6. CASE GetRead(t)
    <3> DEFINE m == Op(t).lock
               k == pc[t]
    <3>1. serving[t] # NotServing /\ ~AtEnd(t) /\ Op(t).op = "read"
      BY <2>6 DEF GetRead, LockInv, WaitingReads
    <3>2. k \in 1..Len(serving[t]) /\ m \in Locks /\ serving[t][k] = Read(m)
          /\ Disciplined(serving[t]) /\ Len(serving[t]) \in Nat
      BY <3>1, LockInvHolds DEF Op
    <3>3. ~HoldsBefore(serving[t], k, m)
      BY <3>1, <3>2 DEF Disciplined, Op
    <3>4. held' = [held EXCEPT ![t][m] = held[t][m] + 1] /\ pc' = [pc EXCEPT ![t] = k + 1]
          /\ serving' = serving /\ waiting' = [waiting EXCEPT ![t] = FALSE]
      BY <2>6 DEF GetRead
    <3>5. held[t][m] = 0 /\ held[t][m] + 1 = 1
      BY <3>2, <3>3 DEF LockInv, HeldAsScripted
    <3> HIDE DEF m
    <3>6. held' \in [Threads -> [Locks -> Int]]
      BY <2>2, <3>4, <3>5, OneCountChanged
    <3>7. k \in Nat \ {0} /\ k + 1 \in 1..(Len(serving[t]) + 1) /\ k + 1 \in Nat \ {0}
      BY <3>2
    <3>8. \A l \in Locks : held'[t][l] = IF l = m THEN 1 ELSE held[t][l]
      BY <2>2, <3>4, <3>5
    <3>9. \A l \in Locks : held'[t][l] = IF HoldsBefore(serving[t], k + 1, l) THEN 1 ELSE 0
      BY <3>2, <3>7, <3>8, HoldsAfterRead DEF LockInv, HeldAsScripted
    <3> QED
      BY <2>2, <2>3, <3>4, <3>6, <3>7, <3>9
  <2>7. CASE DropGuard(t)
    <3> DEFINE m == Op(t).lock
               k == pc[t]
    <3>1. serving[t] # NotServing /\ ~AtEnd(t) /\ Op(t).op = "drop" /\ ~waiting[t]
      BY <2>7 DEF DropGuard, Running
    <3>2. k \in 1..Len(serving[t]) /\ m \in Locks /\ serving[t][k] = Drop(m)
          /\ Disciplined(serving[t]) /\ Len(serving[t]) \in Nat
      BY <3>1, LockInvHolds DEF Op
    <3>3. HoldsBefore(serving[t], k, m)
      BY <3>1, <3>2 DEF Disciplined, Op
    <3>4. held' = [held EXCEPT ![t][m] = held[t][m] - 1] /\ pc' = [pc EXCEPT ![t] = k + 1]
          /\ serving' = serving /\ waiting' = waiting
      BY <2>7 DEF DropGuard
    <3>5. held[t][m] = 1 /\ held[t][m] - 1 = 0
      BY <3>2, <3>3 DEF LockInv, HeldAsScripted
    <3> HIDE DEF m
    <3>6. held' \in [Threads -> [Locks -> Int]]
      <4>1. m \in Locks => held[t][m] - 1 \in Int
        BY <3>5
      <4>2. [held EXCEPT ![t][m] = held[t][m] - 1] \in [Threads -> [Locks -> Int]]
        BY <2>2, <4>1, OneCountChanged
      <4> QED
        BY <3>4, <4>2
    <3>7. k \in Nat \ {0} /\ k + 1 \in 1..(Len(serving[t]) + 1) /\ k + 1 \in Nat \ {0}
      BY <3>2
    <3>8. \A l \in Locks : held'[t][l] = IF l = m THEN 0 ELSE held[t][l]
      BY <2>2, <3>4, <3>5
    <3>9. \A l \in Locks : held'[t][l] = IF HoldsBefore(serving[t], k + 1, l) THEN 1 ELSE 0
      BY <3>2, <3>7, <3>8, HoldsAfterDrop DEF LockInv, HeldAsScripted
    <3> QED
      BY <2>2, <2>3, <3>1, <3>4, <3>6, <3>7, <3>9
  <2>8. CASE Return(t)
    <3>1. serving' = [serving EXCEPT ![t] = NotServing] /\ pc' = [pc EXCEPT ![t] = 1]
          /\ held' = [held EXCEPT ![t] = NoGuards] /\ waiting' = waiting /\ ~waiting[t]
      BY <2>8 DEF Return, Running
    <3>2. NoGuards \in [Locks -> Int] /\ \A l \in Locks : NoGuards[l] = 0
      BY DEF NoGuards
    <3>3. 1 \in 1..(Len(NotServing) + 1)
      BY DEF NotServing
    <3> QED
      BY <2>2, <2>3, <3>1, <3>2, <3>3, HoldsNothingFirst
  <2> QED
    BY <1>3, <2>4, <2>5, <2>6, <2>7, <2>8 DEF Request
<1> QED
  BY <1>1, <1>2, <1>3 DEF LockNext

\* Whatever requests but hover are served, by any number of threads, every thread is at
\* a place of its handler's script and no guard is dropped that it does not hold.
THEOREM LockTypeCorrect ==
    ASSUME "hover" \notin Requests
    PROVE  LockSpec => []LockTypeOK
<1>1. LockInv => LockTypeOK
  <2> SUFFICES ASSUME LockInv PROVE LockTypeOK
    OBVIOUS
  <2>1. held \in [Threads -> [Locks -> 0..2]]
    <3>1. \A t \in Threads : \A l \in Locks : held[t][l] \in 0..2
      BY DEF LockInv, HeldAsScripted
    <3>2. held \in [Threads -> [Locks -> Int]]
      BY DEF LockInv
    <3>3. \A t \in Threads : held[t] \in [Locks -> 0..2]
      BY <3>1, <3>2
    <3> QED
      BY <3>2, <3>3
  <2>2. writer.at \in DOMAIN DriverScript /\ writer.state \in WriterStates
    BY DEF LockInv, WriterTypeOK
  <2>3. claimed \subseteq Locks
    BY DEF LockInv, WriterTypeOK, Table, DriverScript, Locks
  <2> QED
    BY <2>1, <2>2, <2>3 DEF LockInv, LockTypeOK
<1> QED
  BY <1>1, LockInvInit, LockInvStep, PTL DEF LockSpec

\* The driver never waits for a reader that waits for the lock it has claimed: a
\* handler has no guard on the lock it asks for.
THEOREM NoDeadlockCorrect ==
    ASSUME "hover" \notin Requests
    PROVE  LockSpec => []NoDeadlock
<1>1. LockInv => NoDeadlock
  <2> SUFFICES ASSUME LockInv, Deadlocked PROVE FALSE
    BY DEF NoDeadlock
  <2>1. PICK t \in Readers(Table) : waiting[t] /\ Op(t).lock \in claimed
    BY DEF Deadlocked
  <2>2. t \in Threads /\ held[t][Table] > 0 /\ Op(t).lock = Table
    BY <2>1 DEF Readers, Deadlocked, LockInv, WriterTypeOK
  <2>3. ~AtEnd(t) /\ Op(t).op = "read"
    BY <2>1, <2>2 DEF LockInv, WaitingReads
  <2>4. Disciplined(serving[t]) /\ pc[t] \in 1..Len(serving[t]) /\ Table \in Locks
    BY <2>2, <2>3, LockInvHolds
  <2>5. ~HoldsBefore(serving[t], pc[t], Table)
    BY <2>2, <2>3, <2>4 DEF Disciplined, Op
  <2>6. held[t][Table] = 0
    BY <2>2, <2>4, <2>5 DEF LockInv, HeldAsScripted
  <2> QED
    BY <2>2, <2>6
<1> QED
  BY <1>1, LockInvInit, LockInvStep, PTL DEF LockSpec

=============================================================================
