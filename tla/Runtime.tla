------------------------------- MODULE Runtime --------------------------------
(***************************************************************************)
(* The runtime library that compiled programs call (crates/glyim-runtime): *)
(* the registries of threads, child processes and sockets, each behind one *)
(* process-wide Mutex, and block_on, the executor.  The threads of the     *)
(* program run arbitrary code that calls the library; call[t] says where   *)
(* thread t is in such a call.  Buffers, addresses and exit codes are left *)
(* out: a child is one that ended by itself, by a signal it could handle,  *)
(* or by SIGKILL; a stream holds a number of messages.                     *)
(*                                                                         *)
(* What matters here is which mutex a call holds while it waits.           *)
(* glyim_thread_join drops the mutex of the thread table before it joins;  *)
(* glyim_process_wait, glyim_net_tcp_accept, the reads and the writes keep *)
(* theirs until the child, the connection or the data is there.            *)
(***************************************************************************)
EXTENDS Integers, Sequences, FiniteSets, Functions

CONSTANTS
    Threads,      \* the threads the program may run
    Main,         \* the one it starts with
    Children,     \* the child processes it may spawn
    Noisy,        \* the children that print more than a pipe holds
    Signals,      \* the signals it sends them
    Sockets,      \* the sockets it may create, numbered
    NoThread,     \* nobody, as the holder of a mutex
    Outside,      \* the rest of the world, as the peer of a socket
    Capacity,     \* the messages a stream buffers
    Polls,        \* how often the future of block_on is Pending
    Programs,     \* the families of calls a program may use
    MaxCalls      \* the calls each thread makes in each program

ASSUME RuntimeAssumption ==
    /\ Main \in Threads
    /\ NoThread \notin Threads
    /\ Outside \notin Sockets
    /\ Sockets \subseteq Nat
    /\ Noisy \subseteq Children
    /\ Signals \subseteq Int
    /\ {Capacity, Polls} \subseteq Nat
    /\ Programs \subseteq SUBSET {"thread", "process", "socket", "executor"}
    /\ MaxCalls \in [Programs -> [Threads -> Nat]]

VARIABLES
    uses,        \* the families of calls this program uses
    call,        \* the library call each thread is in
    made,        \* how many calls each thread has made
    lock,        \* the holder of each mutex
    running,     \* where each thread is in its life
    token,       \* the park token of each thread
    infos,       \* ThreadStore: handle -> thread
    children,    \* ProcessRegistry: handle -> child
    process,     \* the operating system's view of each child
    stores,      \* the tables of streams, listeners and datagram sockets: id -> socket
    socket,      \* the operating system's view of each socket
    spawned,     \* the threads spawned so far: the handle of spawned[i] is i, next_id is next
    issued,      \* next_handle and NEXT_SOCKET_ID
    executor     \* block_on: its pair, its future and the wakes its future has asked for

threadVars == <<running, token, infos, spawned>>
processVars == <<children, process>>
socketVars == <<stores, socket>>
vars == <<uses, call, made, lock, threadVars, processVars, socketVars, issued, executor>>

Kinds == {"stream", "listener", "udp"}

Locks == {"threads", "processes"} \cup Kinds

Whats == {"accept", "read", "write", "nonblocking"}

User == [op |-> "user"]

\* HashMap::insert
Insert(map, k, v) == [x \in DOMAIN map \cup {k} |-> IF x = k THEN v ELSE map[x]]

Empty == [x \in {} |-> x]

SIGKILL == 9

-----------------------------------------------------------------------------
(***************************************************************************)
(* Calls and mutexes.  A call begins, takes its mutex when it is free, and *)
(* returns to the program.                                                 *)
(***************************************************************************)
Begin(t, c) ==
    /\ running[t] = "yes"
    /\ call[t] = User
    /\ made[t] < MaxCalls[uses][t]
    /\ made' = [made EXCEPT ![t] = @ + 1]
    /\ UNCHANGED uses
    /\ call' = [call EXCEPT ![t] = c]

In(t, op) == call[t].op = op

Goes(t, c) == call' = [call EXCEPT ![t] = c] /\ UNCHANGED uses

Free(l) == lock[l] = NoThread

Acquire(t, l) ==
    /\ Free(l)
    /\ lock' = [lock EXCEPT ![l] = t]

Release(l) == lock' = [lock EXCEPT ![l] = NoThread]

Issue(counter) == issued' = [issued EXCEPT ![counter] = @ + 1]

-----------------------------------------------------------------------------
(***************************************************************************)
(* Threads.  The new thread runs before its handle is in the table.        *)
(***************************************************************************)
ThreadSpawn(t, u) ==
    /\ running[u] = "unborn"
    /\ Begin(t, [op |-> "thread_spawn", thread |-> u])
    /\ running' = [running EXCEPT ![u] = "yes"]
    /\ UNCHANGED <<lock, token, infos, spawned, processVars, socketVars, issued, executor>>

ThreadSpawnInsert(t) ==
    /\ In(t, "thread_spawn")
    /\ Free("threads")
    /\ spawned' = Append(spawned, call[t].thread)
    /\ infos' = Insert(infos, Len(spawned) + 1, call[t].thread)
    /\ Goes(t, User)
    /\ UNCHANGED <<made, lock, running, token, processVars, socketVars, issued, executor>>

ThreadJoin(t, handle) ==
    /\ Begin(t, [op |-> "thread_join", handle |-> handle])
    /\ UNCHANGED <<lock, threadVars, processVars, socketVars, issued, executor>>

\* Mutant: the guard lives until join returns.
KeepStore(t) == Acquire(t, "threads")

\* drop(store): the mutex is free again while the thread is joined.
DropStore(t) == UNCHANGED lock

ThreadJoinRemove(t) ==
    /\ In(t, "thread_join")
    /\ Free("threads")
    /\ IF call[t].handle \in DOMAIN infos
       THEN /\ Goes(t, [op |-> "joining", thread |-> infos[call[t].handle]])
            /\ infos' = Restrict(infos, DOMAIN infos \ {call[t].handle})
            /\ DropStore(t)
       ELSE Goes(t, User) /\ UNCHANGED <<infos, lock>>
    /\ UNCHANGED <<made, running, token, spawned, processVars, socketVars, issued, executor>>

ThreadJoined(t) ==
    /\ In(t, "joining")
    /\ running[call[t].thread] = "ended"
    /\ Goes(t, User)
    /\ IF lock["threads"] = t THEN Release("threads") ELSE UNCHANGED lock
    /\ UNCHANGED <<made, threadVars, processVars, socketVars, issued, executor>>

Park(t, timed) ==
    /\ Begin(t, [op |-> "park", timed |-> timed])
    /\ UNCHANGED <<lock, threadVars, processVars, socketVars, issued, executor>>

ParkReturns(t) ==
    /\ In(t, "park")
    /\ token[t] \/ call[t].timed
    /\ token' = [token EXCEPT ![t] = FALSE]
    /\ Goes(t, User)
    /\ UNCHANGED <<made, lock, running, infos, spawned, processVars, socketVars, issued, executor>>

ThreadUnpark(t, handle) ==
    /\ Begin(t, [op |-> "unpark", handle |-> handle])
    /\ UNCHANGED <<lock, threadVars, processVars, socketVars, issued, executor>>

ThreadUnparkFind(t) ==
    /\ In(t, "unpark")
    /\ Free("threads")
    /\ token' = IF call[t].handle \in DOMAIN infos
                THEN [token EXCEPT ![infos[call[t].handle]] = TRUE] ELSE token
    /\ Goes(t, User)
    /\ UNCHANGED <<made, lock, running, infos, spawned, processVars, socketVars, issued, executor>>

\* The function a thread runs returns.
ThreadEnds(t) ==
    /\ running[t] = "yes"
    /\ call[t] = User
    /\ running' = [running EXCEPT ![t] = "ended"]
    /\ UNCHANGED <<uses, call, made, lock, token, infos, spawned, processVars, socketVars, issued, executor>>

-----------------------------------------------------------------------------
(***************************************************************************)
(* Child processes.  A child that prints more than its pipe holds stops    *)
(* until somebody reads it, which only glyim_process_wait_output does.     *)
(***************************************************************************)
ProcessSpawn(t, c) ==
    /\ process[c] = "unborn"
    /\ Begin(t, [op |-> "process_spawn", child |-> c])
    /\ process' = [process EXCEPT ![c] = "runs"]
    /\ UNCHANGED <<lock, threadVars, children, socketVars, issued, executor>>

ProcessSpawnInsert(t) ==
    /\ In(t, "process_spawn")
    /\ Free("processes")
    /\ children' = Insert(children, issued.process, call[t].child)
    /\ Issue("process")
    /\ Goes(t, User)
    /\ UNCHANGED <<made, lock, threadVars, process, socketVars, executor>>

ProcessWait(t, handle, output) ==
    /\ Begin(t, [op |-> "process_wait", handle |-> handle, output |-> output])
    /\ UNCHANGED <<lock, threadVars, processVars, socketVars, issued, executor>>

\* Mutant: the child is only borrowed from the table.
BorrowChild(handle) == UNCHANGED children

\* registry.children.remove(&handle)
TakeChild(handle) == children' = Restrict(children, DOMAIN children \ {handle})

ProcessWaitRemove(t) ==
    /\ In(t, "process_wait")
    /\ Free("processes")
    /\ IF call[t].handle \in DOMAIN children
       THEN /\ Goes(t, [op |-> "waiting", child |-> children[call[t].handle],
                        output |-> call[t].output])
            /\ TakeChild(call[t].handle)
            /\ Acquire(t, "processes")
       ELSE Goes(t, User) /\ UNCHANGED <<children, lock>>
    /\ UNCHANGED <<made, threadVars, process, socketVars, issued, executor>>

ProcessWaited(t) ==
    /\ In(t, "waiting")
    /\ process[call[t].child] \in {"ended", "handled", "killed"}
    /\ process' = [process EXCEPT ![call[t].child] = "reaped"]
    /\ Release("processes")
    /\ Goes(t, User)
    /\ UNCHANGED <<made, threadVars, children, socketVars, issued, executor>>

ProcessKill(t, handle, signal) ==
    /\ Begin(t, [op |-> "process_kill", handle |-> handle, signal |-> signal])
    /\ UNCHANGED <<lock, threadVars, processVars, socketVars, issued, executor>>

\* The signal that is sent: one outside 1..SIGKILL becomes SIGKILL.
SentSignal(signal) == IF signal > 0 /\ signal <= SIGKILL THEN signal ELSE SIGKILL

\* What a signal does to a child: a running one dies of SIGKILL and handles the others.
Signalled(c, signal) ==
    IF process[c] # "runs" THEN process
    ELSE [process EXCEPT ![c] = IF signal = SIGKILL THEN "killed" ELSE "handled"]

ProcessKillFind(t) ==
    /\ In(t, "process_kill")
    /\ Free("processes")
    /\ process' = IF call[t].handle \in DOMAIN children
                  THEN Signalled(children[call[t].handle], SentSignal(call[t].signal))
                  ELSE process
    /\ Goes(t, User)
    /\ UNCHANGED <<made, lock, threadVars, children, socketVars, issued, executor>>

Drained(c) == \E t \in Threads : In(t, "waiting") /\ call[t].child = c /\ call[t].output

ChildExits(c) ==
    /\ process[c] = "runs"
    /\ c \in Noisy => Drained(c)
    /\ process' = [process EXCEPT ![c] = "ended"]
    /\ UNCHANGED <<uses, call, made, lock, threadVars, children, socketVars, issued, executor>>

-----------------------------------------------------------------------------
(***************************************************************************)
(* Sockets.  An id is drawn from one counter for all three tables, before  *)
(* the mutex of the table is taken.  No call takes a socket out of a table.*)
(***************************************************************************)
Unused == [kind |-> "unused"]

Made(kind, peer) ==
    [kind |-> kind, peer |-> peer, inbox |-> 0, backlog |-> <<>>, nonblocking |-> FALSE]

\* alloc_socket_id
AllocSocketId == issued.socket

\* A new socket s gets its id; the insertion into its table is the next step.
Inserting(s, kind) == [op |-> "insert", socket |-> s, kind |-> kind, id |-> AllocSocketId]

\* glyim_net_tcp_bind and glyim_net_udp_bind
NetBind(t, s, kind) ==
    /\ kind \in {"listener", "udp"}
    /\ socket[s] = Unused
    /\ Begin(t, Inserting(s, kind))
    /\ socket' = [socket EXCEPT ![s] = Made(kind, Outside)]
    /\ Issue("socket")
    /\ UNCHANGED <<lock, threadVars, processVars, stores, executor>>

\* To a peer elsewhere, or to a listener of this program, whose backlog takes the
\* other end.
TcpConnect(t, s, listener, end) ==
    /\ socket[s] = Unused
    /\ listener # Outside => /\ socket[listener].kind = "listener"
                             /\ socket[end] = Unused
                             /\ end # s
    /\ Begin(t, Inserting(s, "stream"))
    /\ socket' = IF listener = Outside THEN [socket EXCEPT ![s] = Made("stream", Outside)]
                 ELSE [socket EXCEPT ![s] = Made("stream", end),
                                     ![end] = Made("stream", s),
                                     ![listener].backlog = Append(@, end)]
    /\ Issue("socket")
    /\ UNCHANGED <<lock, threadVars, processVars, stores, executor>>

NetInsert(t) ==
    /\ In(t, "insert")
    /\ Free(call[t].kind)
    /\ stores' = [stores EXCEPT ![call[t].kind] = Insert(@, call[t].id, call[t].socket)]
    /\ Goes(t, User)
    /\ UNCHANGED <<made, lock, threadVars, processVars, socket, issued, executor>>

\* A call on the socket fd of a table: "accept", "read", "write" or "nonblocking".
NetCall(t, what, kind, fd) ==
    /\ what = "accept" <=> kind = "listener"
    /\ what = "nonblocking" => kind = "stream"
    /\ Begin(t, [op |-> "net", what |-> what, kind |-> kind, fd |-> fd])
    /\ UNCHANGED <<lock, threadVars, processVars, socketVars, issued, executor>>

\* The mutex of the table is held while the call waits for the operating system.
NetFind(t) ==
    /\ In(t, "net")
    /\ Free(call[t].kind)
    /\ IF call[t].fd \in DOMAIN stores[call[t].kind]
       THEN /\ Acquire(t, call[t].kind)
            /\ Goes(t, [op |-> call[t].what, socket |-> stores[call[t].kind][call[t].fd],
                        kind |-> call[t].kind])
       ELSE Goes(t, User) /\ UNCHANGED lock
    /\ UNCHANGED <<made, threadVars, processVars, socketVars, issued, executor>>

TcpAccepted(t) ==
    LET listener == call[t].socket IN
    /\ In(t, "accept")
    /\ socket[listener].backlog # <<>>
    /\ Release("listener")
    /\ Goes(t, Inserting(Head(socket[listener].backlog), "stream"))
    /\ socket' = [socket EXCEPT ![listener].backlog = Tail(@)]
    /\ Issue("socket")
    /\ UNCHANGED <<made, threadVars, processVars, stores, executor>>

\* glyim_net_tcp_read, glyim_net_udp_recv and _recv_from; a non-blocking stream
\* without data fails.
NetReadDone(t) ==
    LET s == call[t].socket IN
    /\ In(t, "read")
    /\ socket[s].inbox > 0 \/ socket[s].nonblocking
    /\ socket' = [socket EXCEPT ![s].inbox = IF @ > 0 THEN @ - 1 ELSE @]
    /\ Release(call[t].kind)
    /\ Goes(t, User)
    /\ UNCHANGED <<made, threadVars, processVars, stores, issued, executor>>

Room(s) == s # Outside => socket[s].inbox < Capacity

Delivered(s) ==
    IF s = Outside \/ ~Room(s) THEN socket ELSE [socket EXCEPT ![s].inbox = @ + 1]

\* glyim_net_tcp_write (write_all), glyim_net_udp_send and _send_to; a full stream
\* holds a blocking write up, a datagram is dropped.
NetWriteDone(t, to) ==
    LET s == call[t].socket IN
    /\ In(t, "write")
    /\ IF call[t].kind = "stream"
       THEN to = socket[s].peer /\ (Room(to) \/ socket[s].nonblocking)
       ELSE to # Outside => socket[to].kind = "udp"
    /\ socket' = Delivered(to)
    /\ Release(call[t].kind)
    /\ Goes(t, User)
    /\ UNCHANGED <<made, threadVars, processVars, stores, issued, executor>>

\* glyim_net_tcp_set_nonblocking
NetNonblockingDone(t, nonblocking) ==
    /\ In(t, "nonblocking")
    /\ socket' = [socket EXCEPT ![call[t].socket].nonblocking = nonblocking]
    /\ Release(call[t].kind)
    /\ Goes(t, User)
    /\ UNCHANGED <<made, threadVars, processVars, stores, issued, executor>>

\* What the rest of the world does to a socket.
OutsideConnects(listener, end) ==
    /\ socket[listener].kind = "listener"
    /\ socket[end] = Unused
    /\ socket' = [socket EXCEPT ![end] = Made("stream", Outside),
                                ![listener].backlog = Append(@, end)]
    /\ UNCHANGED <<uses, call, made, lock, threadVars, processVars, stores, issued, executor>>

OutsideSends(s) ==
    /\ socket[s].kind \in {"stream", "udp"}
    /\ socket[s].peer = Outside
    /\ socket[s].inbox < Capacity
    /\ socket' = Delivered(s)
    /\ UNCHANGED <<uses, call, made, lock, threadVars, processVars, stores, issued, executor>>

-----------------------------------------------------------------------------
(***************************************************************************)
(* block_on (async_runtime.rs).  A poll that is Pending has either woken   *)
(* the waker itself or left it with somebody who will.                     *)
(***************************************************************************)
BlockOn(t) ==
    /\ executor.at = "idle"
    /\ Begin(t, [op |-> "block_on"])
    /\ executor' = [executor EXCEPT !.at = "poll"]
    /\ UNCHANGED <<lock, threadVars, processVars, socketVars, issued>>

PollPending(t, self) ==
    /\ In(t, "block_on")
    /\ executor.at = "poll"
    /\ executor.pending > 0
    /\ executor' = [executor EXCEPT !.at = "park", !.pending = @ - 1,
                                    !.ready = @ \/ self, !.owed = ~self]
    /\ UNCHANGED <<uses, call, made, lock, threadVars, processVars, socketVars, issued>>

PollReady(t) ==
    /\ In(t, "block_on")
    /\ executor.at = "poll"
    /\ executor.pending = 0
    /\ executor' = [executor EXCEPT !.at = "returned"]
    /\ Goes(t, User)
    /\ UNCHANGED <<made, lock, threadVars, processVars, socketVars, issued>>

\* Mutant: the flag is cleared before the wait, and a notification is waited for.
ResumesOnNotify ==
    \/ /\ executor.at = "park"
       /\ executor' = [executor EXCEPT !.at = "wait", !.ready = FALSE]
    \/ /\ executor.at = "wait"
       /\ executor.ready
       /\ executor' = [executor EXCEPT !.at = "poll"]

\* while !*ready { cvar.wait(ready) }; *ready = false.  A spurious wakeup finds the
\* flag unset and waits again, which is a stuttering step.
Resumes == /\ executor.ready
           /\ executor' = [executor EXCEPT !.at = "poll", !.ready = FALSE]

ParkOnCondvar(t) ==
    /\ In(t, "block_on")
    /\ executor.at \in {"park", "wait"}
    /\ Resumes
    /\ UNCHANGED <<uses, call, made, lock, threadVars, processVars, socketVars, issued>>

\* Waker::wake, by whoever the future left its waker with, and perhaps once more.
Wake ==
    /\ executor.owed
    /\ executor' = [executor EXCEPT !.owed = FALSE, !.ready = TRUE]
    /\ UNCHANGED <<uses, call, made, lock, threadVars, processVars, socketVars, issued>>

WakeAgain ==
    /\ executor.pending < Polls
    /\ ~executor.owed
    /\ executor' = [executor EXCEPT !.ready = TRUE]
    /\ UNCHANGED <<uses, call, made, lock, threadVars, processVars, socketVars, issued>>

-----------------------------------------------------------------------------
Init ==
    /\ uses \in Programs
    /\ call = [t \in Threads |-> User]
    /\ made = [t \in Threads |-> 0]
    /\ lock = [l \in Locks |-> NoThread]
    /\ running = [t \in Threads |-> IF t = Main THEN "yes" ELSE "unborn"]
    /\ token = [t \in Threads |-> FALSE]
    /\ infos = Empty
    /\ children = Empty
    /\ process = [c \in Children |-> "unborn"]
    /\ stores = [k \in Kinds |-> Empty]
    /\ socket = [s \in Sockets |-> Unused]
    /\ spawned = <<>>
    /\ issued = [process |-> 1, socket |-> 1]
    /\ executor = [at |-> "idle", ready |-> FALSE, pending |-> Polls, owed |-> FALSE]

Handles(counter) == 1 .. issued[counter]

ThreadCall(t) ==
    \/ \E handle \in 1 .. Len(spawned) + 1 : ThreadJoin(t, handle) \/ ThreadUnpark(t, handle)
    \/ \E timed \in BOOLEAN : Park(t, timed)

ProcessCall(t) ==
    \/ \E c \in Children : ProcessSpawn(t, c)
    \/ \E handle \in Handles("process") :
          \/ \E output \in BOOLEAN : ProcessWait(t, handle, output)
          \/ \E signal \in Signals : ProcessKill(t, handle, signal)

\* Sockets are interchangeable: a new one is the first that is unused.
Fresh(taken) ==
    {s \in Sockets \ taken : socket[s] = Unused
        /\ \A r \in Sockets \ taken : socket[r] = Unused => s <= r}

\* The ids a program has for the sockets of a table, and one it made up.
Fds(kind) == DOMAIN stores[kind] \cup {issued.socket}

SocketCall(t) ==
    \/ \E s \in Fresh({}), kind \in Kinds : NetBind(t, s, kind)
    \/ \E s \in Fresh({}) : TcpConnect(t, s, Outside, s)
    \/ \E s \in Fresh({}) : \E listener \in Sockets, end \in Fresh({s}) :
          TcpConnect(t, s, listener, end)
    \/ \E kind \in Kinds, what \in Whats : \E fd \in Fds(kind) : NetCall(t, what, kind, fd)

\* The step of a thread that is inside a call.
CallStep(t) ==
    \/ ThreadSpawnInsert(t) \/ ThreadJoinRemove(t) \/ ThreadJoined(t)
    \/ ParkReturns(t) \/ ThreadUnparkFind(t)
    \/ ProcessSpawnInsert(t) \/ ProcessWaitRemove(t) \/ ProcessWaited(t) \/ ProcessKillFind(t)
    \/ NetInsert(t) \/ NetFind(t) \/ TcpAccepted(t) \/ NetReadDone(t)
    \/ \E to \in Sockets \cup {Outside} : NetWriteDone(t, to)
    \/ \E nonblocking \in BOOLEAN : NetNonblockingDone(t, nonblocking)
    \/ \E self \in BOOLEAN : PollPending(t, self)
    \/ PollReady(t) \/ ParkOnCondvar(t)

World ==
    \/ \E c \in Children : ChildExits(c)
    \/ \E listener \in Sockets, end \in Fresh({}) : OutsideConnects(listener, end)
    \/ \E s \in Sockets : OutsideSends(s)

Next ==
    \/ \E t \in Threads :
          \/ \E u \in Threads : ThreadSpawn(t, u)
          \/ "thread" \in uses /\ ThreadCall(t)
          \/ "process" \in uses /\ ProcessCall(t)
          \/ "socket" \in uses /\ SocketCall(t)
          \/ "executor" \in uses /\ BlockOn(t)
          \/ CallStep(t)
          \/ ThreadEnds(t)
    \/ World
    \/ Wake
    \/ WakeAgain

\* The operating system schedules every thread inside a call that can go on, and
\* whoever a Pending future left its waker with does wake it.  The program need not
\* make calls or end its threads, children need not exit, nobody need connect or send.
Fairness == (\A t \in Threads : WF_vars(CallStep(t))) /\ WF_vars(Wake)

Spec == Init /\ [][Next]_vars /\ Fairness

-----------------------------------------------------------------------------
(***************************************************************************)
(* Properties.                                                             *)
(***************************************************************************)
Claims(c) ==
    {<<"handle", h>> : h \in {g \in DOMAIN children : children[g] = c}} \cup
    {<<"waits", t>> : t \in {u \in Threads : In(u, "waiting") /\ call[u].child = c}} \cup
    {<<"spawns", t>> : t \in {u \in Threads : In(u, "process_spawn") /\ call[u].child = c}}

\* A child is answered for exactly once: from glyim_process_spawn until it is reaped it
\* has one owner, the spawning call, a handle of the registry or the one call that waits
\* for it, and nobody waits for a child that another call has reaped.
ReapedOnce ==
    \A c \in Children :
        Cardinality(Claims(c)) = IF process[c] \in {"unborn", "reaped"} THEN 0 ELSE 1

\* The mutex the call of a thread needs and has not got.
Wants(t, l) ==
    CASE call[t].op \in {"thread_spawn", "thread_join", "unpark"} -> l = "threads"
      [] call[t].op \in {"process_spawn", "process_wait", "process_kill"} -> l = "processes"
      [] call[t].op \in {"insert", "net"} -> l = call[t].kind
      [] OTHER -> FALSE

\* A holder that waits for a child, a connection, data or room.
WaitsOutside(t) == call[t].op \in {"waiting", "accept", "read", "write"}

\* A call waits for ever for the mutex of a registry only behind a call that itself
\* waits for a child, a connection, data or room in a stream; never behind a join, a
\* park or an executor.
MutexWaitsEnd ==
    \A t \in Threads :
        (\E l \in Locks : Wants(t, l)) ~>
            \A l \in Locks : Wants(t, l) => lock[l] # NoThread /\ WaitsOutside(lock[l])

\* block_on returns once its future is ready, however the wakes fall between the poll
\* and the wait on the condition variable.
BlockOnReturns == (executor.at = "poll") ~> (executor.at = "returned")

-----------------------------------------------------------------------------
(***************************************************************************)
(* What the documentation says and the code does not do.                   *)
(***************************************************************************)
\* "SIGTERM (15) is honored, not forced to SIGKILL" (tests/process.rs).
TermIsHonored ==
    [][\A t \in Threads : \A c \in Children :
          (ProcessKillFind(t) /\ call[t].signal = 15 /\ process[c] = "runs")
             => process'[c] # "killed"]_vars

\* unpark "atomically makes the token available if it is not already"
\* (glyim-lang-std/lib/thread.g), so an unpark of a thread that runs does.
UnparkMakesToken ==
    [][\A t \in Threads :
          (/\ ThreadUnparkFind(t)
           /\ call[t].handle \in DOMAIN spawned
           /\ running[spawned[call[t].handle]] = "yes")
             => token'[spawned[call[t].handle]]]_vars
==============================================================================
