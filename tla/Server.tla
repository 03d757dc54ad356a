------------------------------- MODULE Server --------------------------------
(***************************************************************************)
(* Who owns what in lio: the client, a server, the sockets made by connect *)
(* and by the server, the tasks that hold references to them, the raw      *)
(* pointers libuv holds, and the iomanager all of them keep alive.         *)
(*                                                                         *)
(* The loop runs its tasks in order (module IoManager), one at a time with *)
(* the callbacks of libuv, so that a task and a callback are one action    *)
(* each.  Whoever drops the last reference to the iomanager destroys it,   *)
(* and so calls stop(); on the loop's own thread that waits for ever.      *)
(*                                                                         *)
(* libuv and the network are external.  Reads and writes of a socket are   *)
(* left to module Socket; here a socket is what keeps the iomanager alive  *)
(* until its close callback.                                               *)
(***************************************************************************)
EXTENDS SequencesExt

CONSTANTS
  Peers,     \* connections others make to the server
  Connects,  \* calls of iomanager::connect
  Closes,    \* calls of server::close
  None       \* no call

Destructor == "~server"  \* the call of close in ~server
Sockets    == Peers \cup Connects

ASSUME ServerConstants ==
  /\ Peers \cap Connects = {} /\ Closes \cap Connects = {}
  /\ None # Destructor
  /\ {None, Destructor} \cap (Closes \cup Connects) = {}

VARIABLES
  \* client
  held,        \* the client has its reference to the iomanager
  stop,        \* its call of stop(): no, waiting or returned
  server,      \* its server object, see ServerStates
  owned,       \* socket objects it holds
  called,      \* calls of connect and close that were made
  answered,    \* those whose future is ready
  impatient,   \* it dropped the server before the close that closes was answered
  \* iomanager
  tasks,       \* what was executed and has not run
  loop,        \* the loop's thread, see LoopStates
  failed,      \* where the process ended, or "no"
  \* server::impl
  impl,        \* none, alive or freed
  closer,      \* the call whose future is that of closing_promise_
  handle,      \* server_: none, deaf, listening, closing or closed
  \* libuv
  waiting,     \* peers to accept
  requests,    \* connects in progress
  open,        \* sockets whose impl exists
  closing      \* those whose handle is closing

ServerStates ==
  { "none", "asked", "held",
    "destroying",  \* in ~server, which has called close
    "released" }

LoopStates ==
  { "running",
    "stopping",    \* uv_stop was called, in the callback that runs tasks
    "leaving",     \* the callback found no task; the iteration ends
    "exited",
    "stuck" }      \* in ~iomanager: waits for a task only it can run

clientVars == <<held, stop, server, owned, called, impatient>>
implVars   == <<impl, closer, handle>>
uvVars     == <<waiting, requests, open, closing>>
loopVars   == <<answered, loop, failed, implVars, uvVars>>
vars == <<clientVars, tasks, loopVars>>

Init ==
  /\ held = TRUE
  /\ stop = "no"
  /\ server = "none"
  /\ owned = {}
  /\ called = {}
  /\ answered = {}
  /\ impatient = FALSE
  /\ tasks = <<>>
  /\ loop = "running"
  /\ failed = "no"
  /\ impl = "none"
  /\ closer = None
  /\ handle = "none"
  /\ waiting = {}
  /\ requests = {}
  /\ open = {}
  /\ closing = {}

Alive == failed = "no"

\* The iomanager is referenced by the client, a server::impl, a socket::impl.
Referenced == held \/ impl = "alive" \/ open # {}

\* What of the impl of a server is left when it is referenced by the server object
\* or by a task of close in ts.
ImplLeft(srv, ts) ==
  IF srv # "released" \/ \E i \in DOMAIN ts : ts[i].op = "close" THEN impl ELSE "freed"

------------------------------------------------------------------------------
(* The client, which may have several threads. *)

Task(op, id) == [op |-> op, id |-> id]

Execute(task) == Alive /\ tasks' = Append(tasks, task)

create_server ==
  /\ held /\ server = "none"
  /\ Execute(Task("create", None))
  /\ server' = "asked"
  /\ UNCHANGED <<held, stop, owned, called, impatient, loopVars>>

connect(c) ==
  /\ held /\ c \notin called
  /\ Execute(Task("connect", c))
  /\ called' = called \cup {c}
  /\ UNCHANGED <<held, stop, server, owned, impatient, loopVars>>

close(c) ==
  /\ server = "held" /\ c \notin called
  /\ Execute(Task("close", c))
  /\ called' = called \cup {c}
  /\ UNCHANGED <<held, stop, server, owned, impatient, loopVars>>

\* ~server calls close, whatever was called before ...
DestroyServer ==
  /\ server = "held"
  /\ Execute(Task("close", Destructor))
  /\ server' = "destroying"
  /\ impatient' = (closer \notin answered)
  /\ UNCHANGED <<held, stop, owned, called, loopVars>>

\* What the client's thread does when it drops the last reference: ~iomanager,
\* whose stop() leaves a task unless the thread was joined.
DestroyManager ==
  tasks' = IF Referenced' \/ loop = "exited" THEN tasks
           ELSE Append(tasks, Task("stop", None))

\* ... and releases impl_ when that has returned: the loop may have run the
\* task in between.
ReleaseImpl ==
  /\ Alive
  /\ server = "destroying"
  /\ server' = "released"
  /\ impl' = ImplLeft("released", tasks)
  /\ UNCHANGED <<held, stop, owned, called, impatient, answered, loop, failed,
                 closer, handle, uvVars>>
  /\ DestroyManager

\* ~socket leaves a task that holds the impl.
DropSocket(s) ==
  /\ s \in owned
  /\ Execute(Task("close socket", s))
  /\ owned' = owned \ {s}
  /\ UNCHANGED <<held, stop, server, called, impatient, loopVars>>

Stop ==
  /\ held /\ stop = "no"
  /\ Execute(Task("stop", None))
  /\ stop' = "waiting"
  /\ UNCHANGED <<held, server, owned, called, impatient, loopVars>>

\* Mutant of StopReturn: the thread is not joined.
StopReturnUnjoined ==
  /\ Alive
  /\ stop = "waiting" /\ loop # "running"
  /\ stop' = "returned"
  /\ UNCHANGED <<held, server, owned, called, impatient, loopVars, tasks>>

\* The future of the stop task is ready, and the thread is joined.
StopReturn ==
  /\ Alive
  /\ stop = "waiting" /\ loop = "exited"
  /\ stop' = "returned"
  /\ UNCHANGED <<held, server, owned, called, impatient, loopVars, tasks>>

DropManager ==
  /\ Alive
  /\ held /\ stop # "waiting"
  /\ held' = FALSE
  /\ UNCHANGED <<stop, server, owned, called, impatient, loopVars>>
  /\ DestroyManager

------------------------------------------------------------------------------
(* The tasks, on the loop's thread. *)

NextTask(op) ==
  /\ Alive
  /\ loop \in {"running", "stopping"}
  /\ tasks # <<>>
  /\ Head(tasks).op = op
  /\ tasks' = Tail(tasks)

\* The last reference to the iomanager is dropped here: ~iomanager waits for a
\* task of its own.
StuckOrNot == loop' = IF Referenced /\ ~Referenced' THEN "stuck" ELSE loop

\* The impl, which listens if uv_tcp_bind and uv_listen succeed: their results
\* are ignored.
RunCreate ==
  /\ NextTask("create")
  /\ IF Referenced
     THEN /\ impl' = "alive"
          /\ handle' \in {"listening", "deaf"}
          /\ server' = "held"
          /\ UNCHANGED failed
     ELSE failed' = "bad_weak_ptr" /\ UNCHANGED <<impl, handle, server>>
  /\ UNCHANGED <<held, stop, owned, called, impatient, answered, loop, closer,
                 uvVars>>

\* uv_tcp_connect, whose result is ignored: if it fails nobody calls back.
RunConnect ==
  /\ NextTask("connect")
  /\ requests' \in {requests, requests \cup {Head(tasks).id}}
  /\ UNCHANGED <<clientVars, answered, loop, failed, implVars, waiting, open,
                 closing>>

\* Once the task is popped the impl may have no reference left.
PopClose ==
  /\ UNCHANGED <<clientVars, failed, requests, open, closing>>
  /\ impl' = ImplLeft(server, tasks')
  /\ StuckOrNot

\* Mutant of RunClose: the promise is set before the handle is closed.
RunCloseEarly ==
  /\ NextTask("close")
  /\ closer = None
  /\ closer' = Head(tasks).id
  /\ handle' = "closing"
  /\ waiting' = {}
  /\ answered' = answered \cup {closer'}
  /\ PopClose

\* The first close: uv_close, and peers that wait are turned away.
RunClose ==
  /\ NextTask("close")
  /\ closer = None
  /\ closer' = Head(tasks).id
  /\ handle' = "closing"
  /\ waiting' = {}
  /\ PopClose
  /\ UNCHANGED answered

\* Mutant of RunCloseAgain: the future is that of a promise nobody sets.
RunCloseAgainUnset ==
  /\ NextTask("close")
  /\ closer # None
  /\ PopClose
  /\ UNCHANGED <<answered, closer, handle, waiting>>

\* make_ready_future, while the first close may still be in progress.
RunCloseAgain ==
  /\ NextTask("close")
  /\ closer # None
  /\ answered' = answered \cup {Head(tasks).id}
  /\ PopClose
  /\ UNCHANGED <<closer, handle, waiting>>

RunSocketClose ==
  /\ NextTask("close socket")
  /\ closing' = closing \cup {Head(tasks).id}
  /\ UNCHANGED <<clientVars, answered, loop, failed, implVars, waiting, requests,
                 open>>

RunStop ==
  /\ NextTask("stop")
  /\ loop' = "stopping"
  /\ UNCHANGED <<clientVars, answered, failed, implVars, uvVars>>

RunTask ==
  \/ RunCreate \/ RunConnect \/ RunClose \/ RunCloseAgain \/ RunSocketClose \/ RunStop

\* on_async_new_task finds the deque empty after the stop task.
Drained ==
  /\ Alive
  /\ loop = "stopping" /\ tasks = <<>>
  /\ loop' = "leaving"
  /\ UNCHANGED <<clientVars, answered, tasks, failed, implVars, uvVars>>

------------------------------------------------------------------------------
(* The callbacks of libuv. *)

Callback == Alive /\ loop = "running"

\* impl::connection_established: the callback of the client gets a socket, or
\* null if libuv reports an error.
Connection(p) ==
  /\ Callback
  /\ handle = "listening" /\ p \in waiting
  /\ waiting' = waiting \ {p}
  /\ \/ open' = open \cup {p} /\ owned' = owned \cup {p}
     \/ UNCHANGED <<open, owned>>
  /\ UNCHANGED <<held, stop, server, called, impatient, answered, tasks, loop,
                 failed, implVars, requests, closing>>

\* uv_accept fails: the handle is freed before libuv has closed it.
AcceptFails(p) ==
  /\ Callback
  /\ handle = "listening" /\ p \in waiting
  /\ failed' = "client freed"
  /\ UNCHANGED <<clientVars, answered, tasks, loop, implVars, uvVars>>

\* iomanager's connection_established, which does not look at the status: the
\* constructor of the socket locks the iomanager, unless that is being destroyed.
Connected(c) ==
  /\ Callback
  /\ c \in requests
  /\ requests' = requests \ {c}
  /\ IF Referenced
     THEN /\ open' = open \cup {c} /\ owned' = owned \cup {c}
          /\ answered' = answered \cup {c}
          /\ UNCHANGED failed
     ELSE failed' = "bad_weak_ptr" /\ UNCHANGED <<open, owned, answered>>
  /\ UNCHANGED <<held, stop, server, called, impatient, tasks, loop, implVars,
                 waiting, closing>>

\* uv_close ends in the iteration that called it, also in the last one.
Closing == Alive /\ loop \in {"running", "leaving"}

\* close_cb of the server has a raw pointer to the impl, which contains the handle.
on_close ==
  /\ Closing
  /\ handle = "closing"
  /\ IF impl = "freed"
     THEN failed' = "server freed" /\ UNCHANGED <<handle, answered>>
     ELSE handle' = "closed" /\ answered' = answered \cup {closer} /\ UNCHANGED failed
  /\ UNCHANGED <<clientVars, tasks, loop, impl, closer, uvVars>>

\* A socket's keep_alive_ is reset and its impl freed.
SocketClosed(s) ==
  /\ Closing
  /\ s \in closing
  /\ closing' = closing \ {s}
  /\ open' = open \ {s}
  /\ UNCHANGED <<clientVars, answered, tasks, failed, implVars, waiting, requests>>
  /\ StuckOrNot

\* uv_run returns.
Exit ==
  /\ Alive
  /\ loop = "leaving" /\ handle # "closing" /\ closing = {}
  /\ loop' = "exited"
  /\ UNCHANGED <<clientVars, answered, tasks, failed, implVars, uvVars>>

Arrive(p) ==
  /\ Alive
  /\ handle = "listening"
  /\ p \notin waiting \cup open \cup owned
  /\ waiting' = waiting \cup {p}
  /\ UNCHANGED <<clientVars, answered, tasks, loop, failed, implVars, requests, open,
                 closing>>

------------------------------------------------------------------------------
Client ==
  \/ create_server \/ DestroyServer \/ Stop \/ DropManager
  \/ \E c \in Connects : connect(c)
  \/ \E c \in Closes : close(c)
  \/ \E s \in Sockets : DropSocket(s)

\* What a client's thread is in the middle of.
ClientReturns == ReleaseImpl \/ StopReturn

CloseCallback == on_close \/ \E s \in Sockets : SocketClosed(s)

Next ==
  \/ Client \/ ClientReturns
  \/ RunTask \/ Drained \/ CloseCallback \/ Exit
  \/ \E p \in Peers : Arrive(p) \/ Connection(p) \/ AcceptFails(p)
  \/ \E c \in Connects : Connected(c)

\* The loop runs its tasks and ends what uv_close began, a connect succeeds or
\* fails in the end, and threads are scheduled.  The client has to do nothing.
Fairness ==
  /\ WF_vars(RunTask \/ Drained) /\ WF_vars(CloseCallback) /\ WF_vars(Exit)
  /\ \A c \in Connects : WF_vars(Connected(c))
  /\ WF_vars(ClientReturns)

Spec == Init /\ [][Next]_vars /\ Fairness

------------------------------------------------------------------------------
(* Properties. *)

\* libuv keeps a raw pointer to the server's impl, and unlike a socket's nothing
\* else does once its tasks have run.  A client that keeps the server until the
\* close that was first to run is answered is safe, whatever else it closed.
CallbackFindsImpl ==
  handle \in {"deaf", "listening", "closing"} => impl = "alive" \/ impatient

\* The iomanager may be destroyed on its own thread, or with callbacks to come
\* that would lock it.  Neither happens to a client whose stop() has returned.
StoppedFirst ==
  stop = "returned" => loop # "stuck" /\ failed # "bad_weak_ptr"

\* As long as the loop runs, every close is answered, also one made twice or
\* by several threads, and so is every connect that libuv has accepted.
Answered ==
  /\ \A c \in Closes : c \in called ~> c \in answered \/ ~Alive \/ loop # "running"
  /\ \A c \in Connects : c \in requests ~> c \in answered \/ ~Alive \/ loop # "running"

=============================================================================
