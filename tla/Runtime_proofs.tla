--------------------------- MODULE Runtime_proofs ---------------------------
(***************************************************************************)
(* Proofs about Runtime for every program, and any number of threads,      *)
(* children and sockets: a child process is answered for exactly once.     *)
(***************************************************************************)
EXTENDS Runtime, FiniteSetTheorems, TLAPS

(***************************************************************************)
(* The inductive invariant.                                                *)
(***************************************************************************)
\* The calls that answer for a child.
Owns(c) == c.op \in {"waiting", "process_spawn"}

\* The child is running, or has ended and nobody has collected its status.
Unreaped(c) == process[c] \notin {"unborn", "reaped"}

\* Handles are drawn from a counter, and what a handle or a call stands for is a child.
RegistryOK ==
    /\ DOMAIN call = Threads
    /\ DOMAIN process = Children
    /\ DOMAIN issued = {"process", "socket"}
    /\ issued.process \in Nat
    /\ \A h \in DOMAIN children : h \in Nat /\ h < issued.process /\ children[h] \in Children
    /\ \A t \in Threads : Owns(call[t]) => call[t].child \in Children
    /\ \A t \in Threads : In(t, "net") => call[t].what \in Whats

\* The owners of a child form a set of one element, or none.
OwnedOnce ==
    \A c \in Children : IF Unreaped(c) THEN \E x : Claims(c) = {x} ELSE Claims(c) = {}

IInv == RegistryOK /\ OwnedOnce

(***************************************************************************)
(* Steps that do not change who owns a child.                              *)
(***************************************************************************)
\* A step keeps the invariant if it leaves the table alone, takes no call into or out of one that
\* owns a child, and neither starts nor reaps a child.
LEMMA OwnersStay ==
    ASSUME IInv, children' = children, issued'.process = issued.process,
           DOMAIN issued' = DOMAIN issued, DOMAIN call' = Threads,
           DOMAIN process' = Children, \A c \in Children : Unreaped(c)' = Unreaped(c),
           \A t \in Threads : \/ call'[t] = call[t]
                              \/ /\ ~Owns(call[t]) /\ ~Owns(call'[t])
                                 /\ call'[t].op = "net" => call'[t].what \in Whats
    PROVE  IInv'
<1>1. RegistryOK'
  BY DEF IInv, RegistryOK, Owns, In
<1>2. \A c \in Children : Claims(c)' = Claims(c)
  BY DEF Claims, In, Owns
<1>3. OwnedOnce'
  BY <1>2 DEF IInv, OwnedOnce
<1> QED
  BY <1>1, <1>3 DEF IInv

\* The case of a step that does nothing to the process registry.
LEMMA CallsStay ==
    ASSUME IInv, UNCHANGED processVars, issued'.process = issued.process,
           DOMAIN issued' = DOMAIN issued,
           NEW t \in Threads, NEW c, call' = [call EXCEPT ![t] = c], ~Owns(call[t]), ~Owns(c),
           c.op = "net" => c.what \in Whats
    PROVE  IInv'
<1>1. \A u \in Threads : call'[u] = IF u = t THEN c ELSE call[u]
  BY DEF IInv, RegistryOK
<1>2. DOMAIN call' = Threads /\ DOMAIN process' = Children /\ children' = children
  BY DEF IInv, RegistryOK, processVars
<1>3. \A x \in Children : Unreaped(x)' = Unreaped(x)
  BY DEF processVars, Unreaped
<1> QED
  BY <1>1, <1>2, <1>3, OwnersStay

\* The case of a step that is not a step of a call.
LEMMA NoCall ==
    ASSUME IInv, UNCHANGED <<call, processVars, issued>>
    PROVE  IInv'
<1>1. \A x \in Children : Unreaped(x)' = Unreaped(x)
  BY DEF processVars, Unreaped
<1> QED
  BY <1>1, OwnersStay DEF IInv, RegistryOK, processVars

\* Calls begin when the thread is in its own code.
LEMMA Begins ==
    ASSUME IInv, UNCHANGED processVars, issued'.process = issued.process,
           DOMAIN issued' = DOMAIN issued,
           NEW t \in Threads, NEW c, Begin(t, c), ~Owns(c), c.op = "net" => c.what \in Whats
    PROVE  IInv'
<1>1. call' = [call EXCEPT ![t] = c] /\ call[t] = User
  BY DEF Begin
<1>2. ~Owns(call[t])
  BY <1>1 DEF Owns, User
<1> QED
  BY <1>1, <1>2, CallsStay

(***************************************************************************)
(* The steps.                                                              *)
(***************************************************************************)
\* Calls on the thread table.
LEMMA ThreadSteps ==
    ASSUME IInv, NEW t \in Threads,
           \/ \E u \in Threads : ThreadSpawn(t, u)
           \/ ThreadCall(t) \/ ThreadSpawnInsert(t) \/ ThreadJoinRemove(t) \/ ThreadJoined(t)
           \/ ParkReturns(t) \/ ThreadUnparkFind(t)
    PROVE  IInv'
<1>1. CASE \E u \in Threads : ThreadSpawn(t, u)
  <2>1. PICK u \in Threads : ThreadSpawn(t, u)
    BY <1>1
  <2> QED
    BY <2>1, Begins DEF ThreadSpawn, Owns
<1>2. CASE ThreadCall(t)
  <2>1. ASSUME NEW handle, ThreadJoin(t, handle) PROVE IInv'
    BY <2>1, Begins DEF ThreadJoin, Owns
  <2>2. ASSUME NEW handle, ThreadUnpark(t, handle) PROVE IInv'
    BY <2>2, Begins DEF ThreadUnpark, Owns
  <2>3. ASSUME NEW timed, Park(t, timed) PROVE IInv'
    BY <2>3, Begins DEF Park, Owns
  <2> QED
    BY <1>2, <2>1, <2>2, <2>3 DEF ThreadCall
<1>3. CASE ThreadSpawnInsert(t) \/ ThreadJoined(t) \/ ParkReturns(t) \/ ThreadUnparkFind(t)
  <2>1. /\ UNCHANGED <<processVars, issued>> /\ call' = [call EXCEPT ![t] = User]
        /\ ~Owns(call[t]) /\ ~Owns(User) /\ User.op # "net"
    BY <1>3 DEF ThreadSpawnInsert, ThreadJoined, ParkReturns, ThreadUnparkFind, Goes, In, Owns, User
  <2> QED
    BY <2>1, CallsStay
<1>4. CASE ThreadJoinRemove(t)
  <2> DEFINE c == IF call[t].handle \in DOMAIN infos
                  THEN [op |-> "joining", thread |-> infos[call[t].handle]] ELSE User
  <2>1. /\ UNCHANGED <<processVars, issued>> /\ call' = [call EXCEPT ![t] = c]
        /\ ~Owns(call[t])
    BY <1>4 DEF ThreadJoinRemove, Goes, In, Owns
  <2>2. ~Owns(c) /\ c.op # "net"
    BY DEF Owns, User
  <2> HIDE DEF c
  <2> QED
    BY <2>1, <2>2, CallsStay
<1> QED
  BY <1>1, <1>2, <1>3, <1>4

\* Calls on sockets.
LEMMA SocketSteps ==
    ASSUME IInv, NEW t \in Threads,
           \/ SocketCall(t) \/ NetInsert(t) \/ NetFind(t) \/ TcpAccepted(t) \/ NetReadDone(t)
           \/ \E to \in Sockets \cup {Outside} : NetWriteDone(t, to)
           \/ \E nonblocking \in BOOLEAN : NetNonblockingDone(t, nonblocking)
    PROVE  IInv'
<1>1. ASSUME Issue("socket")
      PROVE  issued'.process = issued.process /\ DOMAIN issued' = DOMAIN issued
  BY <1>1 DEF Issue, IInv, RegistryOK
<1>2. ASSUME NEW s, NEW kind PROVE ~Owns(Inserting(s, kind)) /\ Inserting(s, kind).op # "net"
  BY DEF Inserting, Owns
<1>3. CASE SocketCall(t)
  <2>1. ASSUME NEW s, NEW kind, NetBind(t, s, kind) PROVE IInv'
    BY <1>1, <1>2, <2>1, Begins DEF NetBind
  <2>2. ASSUME NEW s, NEW listener, NEW end, TcpConnect(t, s, listener, end) PROVE IInv'
    BY <1>1, <1>2, <2>2, Begins DEF TcpConnect
  <2>3. ASSUME NEW what \in Whats, NEW kind, NEW fd, NetCall(t, what, kind, fd) PROVE IInv'
    BY <2>3, Begins DEF NetCall, Owns
  <2> QED
    BY <1>3, <2>1, <2>2, <2>3 DEF SocketCall
<1>4. CASE NetFind(t)
  <2> DEFINE c == IF call[t].fd \in DOMAIN stores[call[t].kind]
                  THEN [op |-> call[t].what, socket |-> stores[call[t].kind][call[t].fd],
                        kind |-> call[t].kind]
                  ELSE User
  <2>1. /\ UNCHANGED <<processVars, issued>> /\ call' = [call EXCEPT ![t] = c]
        /\ ~Owns(call[t]) /\ call[t].what \in Whats
    BY <1>4 DEF NetFind, Goes, In, Owns, IInv, RegistryOK
  <2>2. ~Owns(c) /\ c.op # "net"
    BY <2>1 DEF Owns, User, Whats
  <2> HIDE DEF c
  <2> QED
    BY <2>1, <2>2, CallsStay
<1>5. CASE TcpAccepted(t)
  <2> DEFINE c == Inserting(Head(socket[call[t].socket].backlog), "stream")
  <2>1. UNCHANGED processVars /\ Issue("socket") /\ call' = [call EXCEPT ![t] = c] /\ ~Owns(call[t])
    BY <1>5 DEF TcpAccepted, Goes, In, Owns
  <2> HIDE DEF c
  <2>2. ~Owns(c) /\ c.op # "net"
    BY <1>2 DEF c
  <2> QED
    BY <1>1, <2>1, <2>2, CallsStay
<1>6. CASE \/ NetInsert(t) \/ NetReadDone(t)
           \/ \E to \in Sockets \cup {Outside} : NetWriteDone(t, to)
           \/ \E nonblocking \in BOOLEAN : NetNonblockingDone(t, nonblocking)
  <2>1. /\ UNCHANGED <<processVars, issued>> /\ call' = [call EXCEPT ![t] = User]
        /\ ~Owns(call[t]) /\ ~Owns(User) /\ User.op # "net"
    BY <1>6 DEF NetInsert, NetReadDone, NetWriteDone, NetNonblockingDone, Goes, In, Owns, User
  <2> QED
    BY <2>1, CallsStay
<1> QED
  BY <1>3, <1>4, <1>5, <1>6
\* Calls on the process registry: the ownership of a child goes from the spawning call to a
\* handle, and from the handle to the call that waits.
LEMMA ProcessSteps ==
    ASSUME IInv, NEW t \in Threads,
           \/ ProcessCall(t) \/ ProcessSpawnInsert(t) \/ ProcessWaitRemove(t) \/ ProcessWaited(t)
           \/ ProcessKillFind(t)
    PROVE  IInv'
<1> USE DEF IInv
<1>1. ASSUME NEW c \in Children, ProcessSpawn(t, c) PROVE IInv'
  <2>1. /\ call[t] = User /\ call' = [call EXCEPT ![t] = [op |-> "process_spawn", child |-> c]]
        /\ process[c] = "unborn" /\ process' = [process EXCEPT ![c] = "runs"]
        /\ UNCHANGED <<children, issued>>
    BY <1>1 DEF ProcessSpawn, Begin
  <2>2. \A u \in Threads : call'[u] = IF u = t THEN [op |-> "process_spawn", child |-> c] ELSE call[u]
    BY <2>1 DEF RegistryOK
  <2>3. RegistryOK'
    BY <2>1, <2>2 DEF RegistryOK, Owns, In
  <2>4. \A d \in Children : Claims(d)' = Claims(d) \cup {x \in {<<"spawns", t>>} : d = c}
    BY <2>1, <2>2 DEF Claims, In, User
  <2>5. Claims(c) = {}
    BY <2>1 DEF OwnedOnce, Unreaped
  <2>6. \A d \in Children : process'[d] = IF d = c THEN "runs" ELSE process[d]
    BY <2>1 DEF RegistryOK
  <2>7. OwnedOnce'
    <3> SUFFICES ASSUME NEW d \in Children
                 PROVE  IF Unreaped(d)' THEN \E x : Claims(d)' = {x} ELSE Claims(d)' = {}
      BY DEF OwnedOnce
    <3>1. CASE d = c
      <4>1. Claims(d)' = {<<"spawns", t>>}
        BY <2>4, <2>5, <3>1
      <4> QED
        BY <2>6, <3>1, <4>1 DEF Unreaped
    <3>2. CASE d # c
      <4>1. Claims(d)' = Claims(d) /\ (Unreaped(d)' <=> Unreaped(d))
        BY <2>4, <2>6, <3>2 DEF Unreaped
      <4> QED
        BY <4>1 DEF OwnedOnce
    <3> QED
      BY <3>1, <3>2
  <2> QED
    BY <2>3, <2>7
<1>2. ASSUME NEW handle, NEW output, ProcessWait(t, handle, output) PROVE IInv'
  BY <1>2, Begins DEF ProcessWait, Owns
<1>3. ASSUME NEW handle, NEW signal, ProcessKill(t, handle, signal) PROVE IInv'
  BY <1>3, Begins DEF ProcessKill, Owns
<1>4. CASE ProcessSpawnInsert(t)
  <2>a. call[t].op = "process_spawn"
    BY <1>4 DEF ProcessSpawnInsert, In
  <2>b. PICK c \in Children : c = call[t].child
    BY <2>a DEF RegistryOK, Owns
  <2>c. PICK h \in Nat : h = issued.process
    BY DEF RegistryOK
  <2>1. /\ call' = [call EXCEPT ![t] = User]
        /\ children' = Insert(children, h, c) /\ process' = process
        /\ issued' = [issued EXCEPT !["process"] = @ + 1]
    BY <1>4, <2>b, <2>c DEF ProcessSpawnInsert, Goes, Issue
  <2>2. \A u \in Threads : call'[u] = IF u = t THEN User ELSE call[u]
    BY <2>1 DEF RegistryOK
  <2>3. h \notin DOMAIN children
    BY <2>c DEF RegistryOK
  <2>4. /\ DOMAIN children' = DOMAIN children \cup {h}
        /\ \A g \in DOMAIN children' : children'[g] = IF g = h THEN c ELSE children[g]
    BY <2>1 DEF Insert
  <2>5. issued'.process = h + 1 /\ DOMAIN issued' = DOMAIN issued
    BY <2>1, <2>c DEF RegistryOK
  <2>6. RegistryOK'
    BY <2>1, <2>2, <2>4, <2>5, <2>c DEF RegistryOK, Owns, In, User
  <2>7. <<"spawns", t>> \in Claims(c)
    BY <2>a, <2>b DEF Claims, In
  <2>8. Claims(c) = {<<"spawns", t>>}
    BY <2>7 DEF OwnedOnce
  <2>9. Claims(c)' = (Claims(c) \ {<<"spawns", t>>}) \cup {<<"handle", h>>}
    BY <2>a, <2>2, <2>3, <2>4 DEF Claims, In, User
  <2>10. \A d \in Children \ {c} : Claims(d)' = Claims(d)
    BY <2>a, <2>b, <2>2, <2>3, <2>4 DEF Claims, In, User
  <2>11. OwnedOnce'
    BY <2>1, <2>8, <2>9, <2>10 DEF OwnedOnce, Unreaped
  <2> QED
    BY <2>6, <2>11
<1>5. CASE ProcessWaitRemove(t)
  <2> DEFINE h == call[t].handle
  <2>1. CASE h \notin DOMAIN children
    <3>1. /\ UNCHANGED <<processVars, issued>> /\ call' = [call EXCEPT ![t] = User]
          /\ ~Owns(call[t]) /\ ~Owns(User) /\ User.op # "net"
      BY <1>5, <2>1 DEF ProcessWaitRemove, Goes, In, Owns, User, processVars
    <3> QED
      BY <3>1, CallsStay
  <2>2. CASE h \in DOMAIN children
    <3>a. PICK c \in Children : c = children[h]
      BY <2>2 DEF RegistryOK
    <3>b. PICK taken : taken = h
      OBVIOUS
    <3>c. PICK w : w = [op |-> "waiting", child |-> c, output |-> call[t].output]
      OBVIOUS
    <3>1. /\ call[t].op = "process_wait" /\ call' = [call EXCEPT ![t] = w]
          /\ children' = Restrict(children, DOMAIN children \ {taken})
          /\ process' = process /\ issued' = issued
      BY <1>5, <2>2, <3>a, <3>b, <3>c DEF ProcessWaitRemove, In, Goes, TakeChild
    <3>2. \A u \in Threads : call'[u] = IF u = t THEN w ELSE call[u]
      BY <3>1 DEF RegistryOK
    <3>3. /\ DOMAIN children' = DOMAIN children \ {taken}
          /\ \A g \in DOMAIN children' : children'[g] = children[g]
      BY <3>1 DEF Restrict
    <3>5. RegistryOK'
      BY <3>1, <3>2, <3>3, <3>c DEF RegistryOK, Owns, In
    <3>6. <<"handle", taken>> \in Claims(c)
      BY <2>2, <3>a, <3>b DEF Claims
    <3>7. Claims(c) = {<<"handle", taken>>} /\ Unreaped(c)
      BY <3>6 DEF OwnedOnce
    <3>8. Claims(c)' = (Claims(c) \ {<<"handle", taken>>}) \cup {<<"waits", t>>}
      BY <3>1, <3>2, <3>3, <3>c DEF Claims, In
    <3>9. \A d \in Children \ {c} : Claims(d)' = Claims(d)
      BY <3>1, <3>2, <3>3, <3>a, <3>b, <3>c DEF Claims, In
    <3>10. OwnedOnce'
      BY <3>1, <3>7, <3>8, <3>9 DEF OwnedOnce, Unreaped
    <3> QED
      BY <3>5, <3>10
  <2> QED
    BY <2>1, <2>2
<1>6. CASE ProcessWaited(t)
  <2>a. call[t].op = "waiting"
    BY <1>6 DEF ProcessWaited, In
  <2>b. PICK c \in Children : c = call[t].child
    BY <2>a DEF RegistryOK, Owns
  <2>1. /\ call' = [call EXCEPT ![t] = User]
        /\ children' = children /\ process' = [process EXCEPT ![c] = "reaped"] /\ issued' = issued
    BY <1>6, <2>b DEF ProcessWaited, Goes
  <2>2. \A u \in Threads : call'[u] = IF u = t THEN User ELSE call[u]
    BY <2>1 DEF RegistryOK
  <2>4. RegistryOK'
    BY <2>1, <2>2 DEF RegistryOK, Owns, In, User
  <2>5. <<"waits", t>> \in Claims(c)
    BY <2>a, <2>b DEF Claims, In
  <2>6. Claims(c) = {<<"waits", t>>}
    BY <2>5 DEF OwnedOnce
  <2>7. Claims(c)' = Claims(c) \ {<<"waits", t>>}
    BY <2>a, <2>1, <2>2 DEF Claims, In, User
  <2>8. \A d \in Children \ {c} : Claims(d)' = Claims(d)
    BY <2>a, <2>b, <2>1, <2>2 DEF Claims, In, User
  <2>9. \A d \in Children : process'[d] = IF d = c THEN "reaped" ELSE process[d]
    BY <2>1 DEF RegistryOK
  <2>10. OwnedOnce'
    BY <2>6, <2>7, <2>8, <2>9 DEF OwnedOnce, Unreaped
  <2> QED
    BY <2>4, <2>10
<1>7. CASE ProcessKillFind(t)
  <2>1. /\ call[t].op = "process_kill" /\ call' = [call EXCEPT ![t] = User]
        /\ children' = children /\ issued' = issued
    BY <1>7 DEF ProcessKillFind, In, Goes
  <2>2. \A u \in Threads : call'[u] = IF u = t THEN User ELSE call[u]
    BY <2>1 DEF RegistryOK
  <2>3. DOMAIN process' = Children /\ \A d \in Children : Unreaped(d)' = Unreaped(d)
    BY <1>7 DEF ProcessKillFind, Signalled, RegistryOK, Unreaped
  <2>4. DOMAIN call' = Threads /\ ~Owns(call[t]) /\ ~Owns(User) /\ User.op # "net"
    BY <2>1 DEF RegistryOK, Owns, User
  <2> QED
    BY <2>1, <2>2, <2>3, <2>4, OwnersStay
<1> QED
  BY <1>1, <1>2, <1>3, <1>4, <1>5, <1>6, <1>7 DEF ProcessCall

\* The executor, the rest of the world, and threads that end.
LEMMA OtherSteps ==
    ASSUME IInv, \/ World \/ Wake \/ WakeAgain
                 \/ \E t \in Threads :
                       \/ BlockOn(t) \/ PollReady(t) \/ ParkOnCondvar(t) \/ ThreadEnds(t)
                       \/ \E self \in BOOLEAN : PollPending(t, self)
    PROVE  IInv'
<1>1. ASSUME NEW t \in Threads, BlockOn(t) PROVE IInv'
  BY <1>1, Begins DEF BlockOn, Owns
<1>2. ASSUME NEW t \in Threads, PollReady(t) PROVE IInv'
  <2>1. /\ UNCHANGED <<processVars, issued>> /\ call' = [call EXCEPT ![t] = User]
        /\ ~Owns(call[t]) /\ ~Owns(User) /\ User.op # "net"
    BY <1>2 DEF PollReady, Goes, In, Owns, User
  <2> QED
    BY <2>1, CallsStay
<1>3. ASSUME NEW c \in Children, ChildExits(c) PROVE IInv'
  <2>1. DOMAIN process' = Children /\ \A d \in Children : Unreaped(d)' = Unreaped(d)
    BY <1>3 DEF ChildExits, IInv, RegistryOK, Unreaped
  <2> QED
    BY <1>3, <2>1, OwnersStay DEF ChildExits, IInv, RegistryOK
<1>4. CASE \/ Wake \/ WakeAgain
           \/ \E listener \in Sockets, end \in Fresh({}) : OutsideConnects(listener, end)
           \/ \E s \in Sockets : OutsideSends(s)
           \/ \E t \in Threads : ParkOnCondvar(t) \/ ThreadEnds(t) \/ \E self \in BOOLEAN : PollPending(t, self)
  <2>1. UNCHANGED <<call, processVars, issued>>
    BY <1>4 DEF Wake, WakeAgain, OutsideConnects, OutsideSends, ParkOnCondvar, ThreadEnds, PollPending
  <2> QED
    BY <2>1, NoCall
<1> QED
  BY <1>1, <1>2, <1>3, <1>4 DEF World

(***************************************************************************)
(* The theorem.                                                            *)
(***************************************************************************)
\* glyim_process_spawn, _wait, _wait_output and _kill: however the threads of the program call
\* them, a child that has not been reaped has one owner, and one that has been reaped has none.
THEOREM ReapedOnceCorrect == Spec => []ReapedOnce
<1>1. Init => IInv
  <2> SUFFICES ASSUME Init PROVE IInv
    OBVIOUS
  <2>1. RegistryOK
    BY DEF Init, RegistryOK, Owns, In, User, Empty
  <2>2. \A c \in Children : Claims(c) = {}
    BY DEF Init, Claims, In, User, Empty
  <2>3. OwnedOnce
    BY <2>2 DEF Init, OwnedOnce, Unreaped
  <2> QED
    BY <2>1, <2>3 DEF IInv
<1>2. IInv /\ [Next]_vars => IInv'
  <2> SUFFICES ASSUME IInv, [Next]_vars PROVE IInv'
    OBVIOUS
  <2>1. CASE UNCHANGED vars
    BY <2>1, NoCall DEF vars, processVars
  <2>2. CASE Next
    BY <2>2, ThreadSteps, ProcessSteps, SocketSteps, OtherSteps DEF Next, CallStep
  <2> QED
    BY <2>1, <2>2
<1>3. IInv => ReapedOnce
  BY FS_EmptySet, FS_Singleton DEF IInv, OwnedOnce, Unreaped, ReapedOnce
<1> QED
  BY <1>1, <1>2, <1>3, PTL DEF Spec
=============================================================================
