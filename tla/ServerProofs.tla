----------------------------- MODULE ServerProofs -----------------------------
(* Safety of Server for any peers, any calls of connect and any calls of     *)
(* close.                                                                    *)
EXTENDS Server, Integers, TLAPS

Ops == {"create", "connect", "close", "close socket", "stop"}
Ids == Connects \cup Closes \cup Sockets \cup {Destructor, None}

TaskRecords == [op : Ops, id : Ids]

------------------------------------------------------------------------------
(* The tasks of one kind that are in the deque. *)

\* The calls that left them.
Pending(ts, op) == { ts[i].id : i \in {j \in DOMAIN ts : ts[j].op = op} }

\* No call left two.
OnceEach(ts, op) ==
  \A i, j \in DOMAIN ts :
    ts[i].op = op /\ ts[j].op = op /\ ts[i].id = ts[j].id => i = j

\* push_back.
LEMMA AppendTask ==
  ASSUME NEW ts \in Seq(TaskRecords), NEW x \in TaskRecords, NEW op
  PROVE  /\ Append(ts, x) \in Seq(TaskRecords)
         /\ Pending(Append(ts, x), op) =
              Pending(ts, op) \cup (IF x.op = op THEN {x.id} ELSE {})
         /\ OnceEach(ts, op) /\ (x.op = op => x.id \notin Pending(ts, op)) =>
              OnceEach(Append(ts, x), op)
<1> DEFINE r == Append(ts, x)
<1>1. /\ r \in Seq(TaskRecords)
      /\ Len(ts) + 1 \in DOMAIN r /\ r[Len(ts) + 1] = x
      /\ \A i \in DOMAIN ts : i \in DOMAIN r /\ r[i] = ts[i]
      /\ \A i \in DOMAIN r : i = Len(ts) + 1 \/ i \in DOMAIN ts
  OBVIOUS
<1> HIDE DEF r
<1>2. Pending(r, op) = Pending(ts, op) \cup (IF x.op = op THEN {x.id} ELSE {})
  <2>1. ASSUME NEW d \in Pending(r, op)
        PROVE  d \in Pending(ts, op) \cup (IF x.op = op THEN {x.id} ELSE {})
    BY <2>1, <1>1 DEF Pending
  <2>2. ASSUME NEW d \in Pending(ts, op) \cup (IF x.op = op THEN {x.id} ELSE {})
        PROVE  d \in Pending(r, op)
    BY <2>2, <1>1 DEF Pending
  <2> QED
    BY <2>1, <2>2
<1>3. ASSUME OnceEach(ts, op), x.op = op => x.id \notin Pending(ts, op)
      PROVE  OnceEach(r, op)
  <2> SUFFICES ASSUME NEW i \in DOMAIN r, NEW j \in DOMAIN r,
                      r[i].op = op, r[j].op = op, r[i].id = r[j].id
               PROVE  i = j
    BY DEF OnceEach
  <2>1. CASE i \in DOMAIN ts /\ j \in DOMAIN ts
    BY <2>1, <1>1, <1>3 DEF OnceEach
  <2>2. CASE i \notin DOMAIN ts \/ j \notin DOMAIN ts
    BY <2>2, <1>1, <1>3 DEF Pending
  <2> QED
    BY <2>1, <2>2
<1> QED
  BY <1>1, <1>2, <1>3 DEF r

\* pop_front.
LEMMA PopTask ==
  ASSUME NEW ts \in Seq(TaskRecords), ts # <<>>, NEW op
  PROVE  /\ Tail(ts) \in Seq(TaskRecords)
         /\ Head(ts) \in TaskRecords
         /\ Pending(ts, op) =
              Pending(Tail(ts), op) \cup (IF Head(ts).op = op THEN {Head(ts).id} ELSE {})
         /\ OnceEach(ts, op) =>
              /\ OnceEach(Tail(ts), op)
              /\ Head(ts).op = op => Head(ts).id \notin Pending(Tail(ts), op)
<1> DEFINE r == Tail(ts)
           h == Head(ts)
<1>1. /\ r \in Seq(TaskRecords) /\ 1 \in DOMAIN ts /\ ts[1] = h /\ h \in TaskRecords
      /\ \A i \in DOMAIN r : i + 1 \in DOMAIN ts /\ r[i] = ts[i + 1] /\ i + 1 # 1
      /\ \A i \in DOMAIN ts : i = 1 \/ (i - 1 \in DOMAIN r /\ ts[i] = r[i - 1])
  OBVIOUS
<1>2. DOMAIN r \subseteq Int
  OBVIOUS
<1> HIDE DEF r, h
<1>3. Pending(ts, op) = Pending(r, op) \cup (IF h.op = op THEN {h.id} ELSE {})
  <2>1. ASSUME NEW d \in Pending(ts, op)
        PROVE  d \in Pending(r, op) \cup (IF h.op = op THEN {h.id} ELSE {})
    <3>1. PICK i \in DOMAIN ts : ts[i].op = op /\ ts[i].id = d
      BY <2>1 DEF Pending
    <3> QED
      BY <3>1, <1>1 DEF Pending
  <2>2. ASSUME NEW d \in Pending(r, op) \cup (IF h.op = op THEN {h.id} ELSE {})
        PROVE  d \in Pending(ts, op)
    BY <2>2, <1>1 DEF Pending
  <2> QED
    BY <2>1, <2>2
<1>4. ASSUME OnceEach(ts, op)
      PROVE  OnceEach(r, op) /\ (h.op = op => h.id \notin Pending(r, op))
  <2>1. ASSUME NEW i \in DOMAIN r, NEW j \in DOMAIN r,
               r[i].op = op, r[j].op = op, r[i].id = r[j].id
        PROVE  i = j
    <3>1. i + 1 = j + 1
      BY <2>1, <1>1, <1>4 DEF OnceEach
    <3> QED
      BY <3>1, <1>2
  <2>2. h.op = op => h.id \notin Pending(r, op)
    BY <1>1, <1>4 DEF OnceEach, Pending
  <2> QED
    BY <2>1, <2>2 DEF OnceEach
<1> QED
  BY <1>1, <1>3, <1>4 DEF r, h

------------------------------------------------------------------------------
(* The inductive invariant. *)

TypeOK ==
  /\ held \in BOOLEAN
  /\ stop \in {"no", "waiting", "returned"}
  /\ server \in ServerStates
  /\ owned \subseteq Sockets
  /\ called \subseteq Closes \cup Connects
  /\ impatient \in BOOLEAN
  /\ tasks \in Seq(TaskRecords)
  /\ loop \in LoopStates
  /\ failed \in {"no", "bad_weak_ptr", "client freed", "server freed"}
  /\ impl \in {"none", "alive", "freed"}
  /\ handle \in {"none", "deaf", "listening", "closing", "closed"}
  /\ requests \subseteq Connects

\* A client that is inside stop() has its reference, which keeps the iomanager
\* from being destroyed; when it has returned the thread has ended.
StopInTime ==
  /\ held => loop # "stuck" /\ failed # "bad_weak_ptr"
  /\ stop = "waiting" => held
  /\ stop = "returned" => loop = "exited" /\ failed # "bad_weak_ptr"

\* The calls of close that were made.
Asked ==
  (called \cap Closes) \cup
  (IF server \in {"destroying", "released"} THEN {Destructor} ELSE {})

\* A call of close is waiting in the deque, or is the one that closed the
\* handle, or is answered, and never two of the first and another.
CloseCalls ==
  /\ OnceEach(tasks, "close")
  /\ Pending(tasks, "close") \subseteq Asked \ (answered \cup {closer})
  /\ closer \in Asked \cup {None}
  /\ answered \subseteq Asked \cup Connects
  /\ Pending(tasks, "connect") \subseteq Connects

\* The impl is made once, by the only create task, and is freed only after the
\* server object was released.
ImplLife ==
  /\ OnceEach(tasks, "create")
  /\ Pending(tasks, "create") \subseteq {None}
  /\ Pending(tasks, "create") # {} => server = "asked"
  /\ server \in {"none", "asked"} =>
       impl = "none" /\ handle = "none" /\ closer = None /\ Pending(tasks, "close") = {}
  /\ server \in {"held", "destroying", "released"} => impl # "none"
  /\ impl = "freed" => server = "released"

\* The close that is first to run is answered by close_cb, and a client that
\* waited for that before it dropped the server finds the handle closed.
HandleLife ==
  /\ handle \in {"closing", "closed"} <=> closer # None
  /\ closer \in answered => handle = "closed"
  /\ server \in {"destroying", "released"} /\ ~impatient => handle = "closed"

IInv ==
  /\ TypeOK
  /\ StopInTime
  /\ CloseCalls
  /\ ImplLife
  /\ HandleLife

\* A server starts in the inductive invariant.
LEMMA InitIInv == Init => IInv
<1> SUFFICES ASSUME Init PROVE IInv
  OBVIOUS
<1> USE DEF Init
<1>1. tasks \in Seq(TaskRecords) /\ \A op : OnceEach(tasks, op) /\ Pending(tasks, op) = {}
  BY DEF OnceEach, Pending
<1>2. TypeOK
  BY <1>1 DEF TypeOK, ServerStates, LoopStates
<1>3. StopInTime
  BY DEF StopInTime
<1>4. CloseCalls /\ ImplLife
  BY <1>1 DEF CloseCalls, ImplLife
<1>5. HandleLife
  BY DEF HandleLife
<1> QED
  BY <1>2, <1>3, <1>4, <1>5 DEF IInv

------------------------------------------------------------------------------
(* stop() in time: this part needs no other. *)

\* What the client does keeps it.
LEMMA ClientStopInTime ==
  ASSUME StopInTime, Client \/ ClientReturns PROVE StopInTime'
<1> USE DEF StopInTime, loopVars, implVars, uvVars
<1>1. CASE create_server
  BY <1>1 DEF create_server
<1>2. CASE DestroyServer
  BY <1>2 DEF DestroyServer
<1>3. CASE Stop
  BY <1>3 DEF Stop
<1>4. CASE DropManager
  BY <1>4 DEF DropManager
<1>5. CASE \E c \in Connects : connect(c)
  BY <1>5 DEF connect
<1>6. CASE \E c \in Closes : close(c)
  BY <1>6 DEF close
<1>7. ASSUME NEW s \in Sockets, DropSocket(s) PROVE StopInTime'
  BY <1>7 DEF DropSocket
<1>8. CASE ReleaseImpl
  BY <1>8 DEF ReleaseImpl
<1>9. CASE StopReturn
  BY <1>9 DEF StopReturn, Alive
<1> QED
  BY <1>1, <1>2, <1>3, <1>4, <1>5, <1>6, <1>7, <1>8, <1>9 DEF Client, ClientReturns

\* A task keeps it: it runs before the thread ends, and the iomanager is
\* referenced as long as the client holds it.
LEMMA TaskStopInTime ==
  ASSUME StopInTime, RunTask PROVE StopInTime'
<1> USE DEF StopInTime, clientVars, implVars, uvVars, NextTask
<1>1. CASE RunCreate
  BY <1>1 DEF RunCreate, Referenced
<1>2. CASE RunConnect
  BY <1>2 DEF RunConnect
<1>3. CASE RunClose \/ RunCloseAgain
  BY <1>3 DEF RunClose, RunCloseAgain, PopClose, StuckOrNot, Referenced
<1>4. CASE RunSocketClose
  BY <1>4 DEF RunSocketClose
<1>5. CASE RunStop
  BY <1>5 DEF RunStop
<1> QED
  BY <1>1, <1>2, <1>3, <1>4, <1>5 DEF RunTask

\* So do the callbacks of libuv, and the end of the thread.
LEMMA CallbackStopInTime ==
  ASSUME StopInTime,
         \/ Drained \/ CloseCallback \/ Exit
         \/ \E p \in Peers : Arrive(p) \/ Connection(p) \/ AcceptFails(p)
         \/ \E c \in Connects : Connected(c)
  PROVE  StopInTime'
<1> USE DEF StopInTime, clientVars, Callback, Closing, Alive
<1>1. CASE Drained
  BY <1>1 DEF Drained
<1>2. CASE on_close
  BY <1>2 DEF on_close
<1>3. CASE \E s \in Sockets : SocketClosed(s)
  BY <1>3 DEF SocketClosed, StuckOrNot, Referenced
<1>4. CASE Exit
  BY <1>4 DEF Exit
<1>5. ASSUME NEW p \in Peers, Arrive(p) \/ Connection(p) \/ AcceptFails(p)
      PROVE  StopInTime'
  <2>1. CASE Arrive(p)
    BY <2>1 DEF Arrive
  <2>2. CASE Connection(p)
    BY <2>2 DEF Connection
  <2>3. CASE AcceptFails(p)
    BY <2>3 DEF AcceptFails
  <2> QED
    BY <1>5, <2>1, <2>2, <2>3
<1>6. CASE \E c \in Connects : Connected(c)
  BY <1>6 DEF Connected, Referenced
<1> QED
  BY <1>1, <1>2, <1>3, <1>4, <1>5, <1>6 DEF CloseCallback

------------------------------------------------------------------------------
(* The life of the server. *)


\* The deque after Execute.
LEMMA Pushed ==
  ASSUME tasks \in Seq(TaskRecords), NEW x \in TaskRecords, tasks' = Append(tasks, x), NEW op
  PROVE  /\ tasks' \in Seq(TaskRecords)
         /\ Pending(tasks', op) =
              Pending(tasks, op) \cup (IF x.op = op THEN {x.id} ELSE {})
         /\ OnceEach(tasks, op) /\ (x.op = op => x.id \notin Pending(tasks, op)) =>
              OnceEach(tasks', op)
BY AppendTask

\* The deque after NextTask.
LEMMA Popped ==
  ASSUME tasks \in Seq(TaskRecords), tasks # <<>>, tasks' = Tail(tasks), NEW op
  PROVE  /\ tasks' \in Seq(TaskRecords)
         /\ Head(tasks) \in TaskRecords
         /\ Pending(tasks, op) =
              Pending(tasks', op) \cup (IF Head(tasks).op = op THEN {Head(tasks).id} ELSE {})
         /\ OnceEach(tasks, op) =>
              /\ OnceEach(tasks', op)
              /\ Head(tasks).op = op => Head(tasks).id \notin Pending(tasks', op)
BY PopTask

\* Its first task is in it.
LEMMA HeadPending ==
  ASSUME tasks \in Seq(TaskRecords), tasks # <<>>
  PROVE  Head(tasks).id \in Pending(tasks, Head(tasks).op)
<1>1. 1 \in DOMAIN tasks /\ tasks[1] = Head(tasks)
  OBVIOUS
<1> QED
  BY <1>1 DEF Pending

\* A step adds no create or close to the deque, and what it adds for connect is
\* a connect.
QuietTasks ==
  /\ tasks' \in Seq(TaskRecords)
  /\ OnceEach(tasks', "close") /\ OnceEach(tasks', "create")
  /\ Pending(tasks', "close") \subseteq Pending(tasks, "close")
  /\ Pending(tasks', "create") \subseteq Pending(tasks, "create")
  /\ Pending(tasks', "connect") \subseteq Connects

\* To leave the deque alone is such a step.
LEMMA QuietSame ==
  ASSUME IInv, UNCHANGED tasks PROVE QuietTasks
BY DEF IInv, TypeOK, CloseCalls, ImplLife, QuietTasks

\* To take a task from it is one.
LEMMA QuietPop ==
  ASSUME IInv, tasks # <<>>, tasks' = Tail(tasks) PROVE QuietTasks
<1>1. tasks \in Seq(TaskRecords)
  BY DEF IInv, TypeOK
<1>2. /\ tasks' \in Seq(TaskRecords)
      /\ \A op : /\ Pending(tasks', op) \subseteq Pending(tasks, op)
                 /\ OnceEach(tasks, op) => OnceEach(tasks', op)
  BY <1>1, Popped
<1> QED
  BY <1>2 DEF IInv, CloseCalls, ImplLife, QuietTasks

\* To push any other task is one.
LEMMA QuietPush ==
  ASSUME IInv, NEW x \in TaskRecords, tasks' = Append(tasks, x),
         x.op \in {"connect", "close socket", "stop"},
         x.op = "connect" => x.id \in Connects
  PROVE  QuietTasks
<1>1. tasks \in Seq(TaskRecords)
  BY DEF IInv, TypeOK
<1>2. /\ tasks' \in Seq(TaskRecords)
      /\ \A op : x.op # op =>
           /\ Pending(tasks', op) = Pending(tasks, op)
           /\ OnceEach(tasks, op) => OnceEach(tasks', op)
  BY <1>1, Pushed
<1>3. Pending(tasks', "connect") \subseteq Pending(tasks, "connect") \cup Connects
  BY <1>1, Pushed
<1> QED
  BY <1>2, <1>3 DEF IInv, CloseCalls, ImplLife, QuietTasks

\* Steps that leave the server alone, and answer no close.
LEMMA QuietStep ==
  ASSUME IInv, QuietTasks, UNCHANGED <<server, implVars, impatient>>,
         called \subseteq called', answered' \subseteq answered \cup Connects
  PROVE  CloseCalls' /\ ImplLife' /\ HandleLife'
<1> USE DEF IInv, implVars, QuietTasks
<1>1. Asked \subseteq Asked' /\ closer \notin Connects
  BY ServerConstants DEF Asked, CloseCalls
<1>2. CloseCalls'
  BY <1>1, ServerConstants DEF CloseCalls, Asked
<1>3. ImplLife'
  BY DEF ImplLife
<1>4. HandleLife'
  BY <1>1 DEF HandleLife
<1> QED
  BY <1>2, <1>3, <1>4

------------------------------------------------------------------------------
(* Each action preserves the rest of the invariant. *)

Rest == TypeOK /\ CloseCalls /\ ImplLife /\ HandleLife

\* The calls of a client that have nothing to do with the server preserve it.
LEMMA QuietClient ==
  ASSUME IInv,
         \/ Stop \/ StopReturn \/ DropManager
         \/ \E c \in Connects : connect(c)
         \/ \E s \in Sockets : DropSocket(s)
  PROVE  Rest'
<1> USE DEF Execute, Task, TaskRecords, Ops, Ids, loopVars, implVars, uvVars
<1>1. ASSUME QuietTasks, TypeOK', UNCHANGED <<server, loopVars, impatient>>,
             called \subseteq called'
      PROVE  Rest'
  BY <1>1, QuietStep DEF Rest
<1>2. CASE Stop
  <2>1. QuietTasks
    BY <1>2, QuietPush DEF Stop
  <2> QED
    BY <1>1, <1>2, <2>1 DEF Stop, IInv, TypeOK, QuietTasks
<1>3. CASE StopReturn
  <2>1. QuietTasks
    BY <1>3, QuietSame DEF StopReturn
  <2> QED
    BY <1>1, <1>3, <2>1 DEF StopReturn, IInv, TypeOK
<1>4. CASE DropManager
  <2>1. QuietTasks
    BY <1>4, QuietSame, QuietPush DEF DropManager, DestroyManager
  <2> QED
    BY <1>1, <1>4, <2>1 DEF DropManager, IInv, TypeOK, QuietTasks
<1>5. ASSUME NEW c \in Connects, connect(c) PROVE Rest'
  <2>1. QuietTasks
    BY <1>5, QuietPush DEF connect
  <2> QED
    BY <1>1, <1>5, <2>1 DEF connect, IInv, TypeOK, QuietTasks
<1>6. ASSUME NEW s \in Sockets, DropSocket(s) PROVE Rest'
  <2>1. QuietTasks
    BY <1>6, QuietPush DEF DropSocket
  <2> QED
    BY <1>1, <1>6, <2>1 DEF DropSocket, IInv, TypeOK, QuietTasks
<1> QED
  BY <1>2, <1>3, <1>4, <1>5, <1>6

\* So do the tasks of connect, of ~socket and of stop.
LEMMA QuietTask ==
  ASSUME IInv, RunConnect \/ RunSocketClose \/ RunStop PROVE Rest'
<1> USE DEF NextTask, clientVars, implVars, uvVars, LoopStates
<1>1. QuietTasks
  BY QuietPop DEF RunConnect, RunSocketClose, RunStop
<1>2. CloseCalls' /\ ImplLife' /\ HandleLife'
  BY <1>1, QuietStep DEF RunConnect, RunSocketClose, RunStop
<1>3. RunConnect => Head(tasks).id \in Connects
  <2> SUFFICES ASSUME RunConnect PROVE Head(tasks).id \in Connects
    OBVIOUS
  <2>1. tasks \in Seq(TaskRecords) /\ tasks # <<>> /\ Head(tasks).op = "connect"
    BY DEF RunConnect, IInv, TypeOK
  <2>2. Head(tasks).id \in Pending(tasks, "connect")
    BY <2>1, HeadPending
  <2> QED
    BY <2>2 DEF IInv, CloseCalls
<1>4. TypeOK'
  BY <1>1, <1>3 DEF RunConnect, RunSocketClose, RunStop, IInv, TypeOK, QuietTasks
<1> QED
  BY <1>2, <1>4 DEF Rest

\* So do the callbacks, except close_cb of the server.
LEMMA QuietCallback ==
  ASSUME IInv,
         \/ Drained \/ Exit
         \/ \E s \in Sockets : SocketClosed(s)
         \/ \E p \in Peers : Arrive(p) \/ Connection(p) \/ AcceptFails(p)
         \/ \E c \in Connects : Connected(c)
  PROVE  Rest'
<1> USE DEF clientVars, implVars, uvVars, LoopStates
<1>1. ASSUME TypeOK', UNCHANGED <<tasks, server, implVars, impatient, called>>,
             answered' \subseteq answered \cup Connects
      PROVE  Rest'
  BY <1>1, QuietSame, QuietStep DEF Rest
<1>2. CASE Drained \/ Exit
  BY <1>1, <1>2 DEF Drained, Exit, IInv, TypeOK
<1>3. ASSUME NEW s \in Sockets, SocketClosed(s) PROVE Rest'
  BY <1>1, <1>3 DEF SocketClosed, StuckOrNot, IInv, TypeOK
<1>4. ASSUME NEW p \in Peers, Arrive(p) PROVE Rest'
  BY <1>1, <1>4 DEF Arrive, IInv, TypeOK
<1>5. ASSUME NEW p \in Peers, Connection(p) PROVE Rest'
  BY <1>1, <1>5 DEF Connection, IInv, TypeOK, Sockets
<1>6. ASSUME NEW p \in Peers, AcceptFails(p) PROVE Rest'
  BY <1>1, <1>6 DEF AcceptFails, IInv, TypeOK
<1>7. ASSUME NEW c \in Connects, Connected(c) PROVE Rest'
  <2>1. /\ c \in Connects /\ c \in Sockets
        /\ UNCHANGED <<tasks, server, implVars, impatient, called>>
        /\ answered' \subseteq answered \cup Connects
    BY <1>7 DEF Connected, Sockets
  <2>2. TypeOK'
    BY <1>7, <2>1 DEF Connected, IInv, TypeOK
  <2> QED
    BY <1>1, <2>1, <2>2
<1> QED
  BY <1>2, <1>3, <1>4, <1>5, <1>6, <1>7

\* create_server is called once, before there is a server.
LEMMA CreateServerRest == ASSUME IInv, create_server PROVE Rest'
<1> DEFINE x == Task("create", None)
<1>1. /\ tasks \in Seq(TaskRecords) /\ x \in TaskRecords
      /\ x.op = "create" /\ x.id = None /\ tasks' = Append(tasks, x)
  BY DEF create_server, Execute, Task, IInv, TypeOK, TaskRecords, Ops, Ids
<1>2. /\ tasks' \in Seq(TaskRecords)
      /\ \A op : x.op # op =>
           /\ Pending(tasks', op) = Pending(tasks, op)
           /\ OnceEach(tasks, op) => OnceEach(tasks', op)
  BY <1>1, Pushed
<1>3. /\ Pending(tasks', "create") = Pending(tasks, "create") \cup {None}
      /\ OnceEach(tasks, "create") /\ None \notin Pending(tasks, "create") =>
           OnceEach(tasks', "create")
  BY <1>1, Pushed
<1> HIDE DEF x
<1>4. server = "none" /\ Pending(tasks, "create") = {}
  BY DEF create_server, IInv, ImplLife
<1> USE DEF create_server, loopVars, implVars, uvVars
<1>5. TypeOK'
  BY <1>2 DEF IInv, TypeOK, ServerStates
<1>6. CloseCalls'
  BY <1>1, <1>2, <1>4 DEF IInv, CloseCalls, Asked
<1>7. ImplLife'
  BY <1>1, <1>2, <1>3, <1>4 DEF IInv, ImplLife
<1>8. HandleLife'
  BY DEF IInv, HandleLife
<1> QED
  BY <1>5, <1>6, <1>7, <1>8 DEF Rest

\* A close that was not asked for before is pushed.
LEMMA PushClose ==
  ASSUME IInv, NEW c, Execute(Task("close", c)), Task("close", c) \in TaskRecords,
         c \notin Asked, c # None, c \notin Connects, Asked' = Asked \cup {c},
         UNCHANGED <<answered, implVars>>
  PROVE  /\ tasks' \in Seq(TaskRecords)
         /\ CloseCalls'
         /\ OnceEach(tasks', "create")
         /\ Pending(tasks', "create") = Pending(tasks, "create")
<1> DEFINE x == Task("close", c)
<1>1. /\ tasks \in Seq(TaskRecords) /\ x \in TaskRecords
      /\ x.op = "close" /\ x.id = c /\ tasks' = Append(tasks, x)
  BY DEF Execute, Task, IInv, TypeOK
<1> HIDE DEF x
<1>2. /\ tasks' \in Seq(TaskRecords)
      /\ \A op : x.op # op =>
           /\ Pending(tasks', op) = Pending(tasks, op)
           /\ OnceEach(tasks, op) => OnceEach(tasks', op)
  BY <1>1, Pushed
<1>3. /\ Pending(tasks', "close") = Pending(tasks, "close") \cup {c}
      /\ OnceEach(tasks, "close") /\ c \notin Pending(tasks, "close") =>
           OnceEach(tasks', "close")
  BY <1>1, Pushed
<1>4. c \notin Pending(tasks, "close") /\ c \notin answered /\ c # closer
  BY DEF IInv, CloseCalls
<1>5. CloseCalls'
  BY <1>1, <1>2, <1>3, <1>4 DEF IInv, CloseCalls, implVars
<1> QED
  BY <1>1, <1>2, <1>5 DEF IInv, ImplLife

\* server::close.
LEMMA CloseRest == ASSUME IInv, NEW c \in Closes, close(c) PROVE Rest'
<1> USE DEF close, loopVars, implVars, uvVars
<1>1. /\ c # None /\ c \notin Connects /\ c # Destructor
      /\ Task("close", c) \in TaskRecords
  BY ServerConstants DEF Task, TaskRecords, Ops, Ids
<1>2. c \notin Asked /\ Asked' = Asked \cup {c}
  BY <1>1 DEF Asked, IInv, TypeOK
<1>3. /\ tasks' \in Seq(TaskRecords) /\ CloseCalls' /\ OnceEach(tasks', "create")
      /\ Pending(tasks', "create") = Pending(tasks, "create")
  BY <1>1, <1>2, PushClose
<1>4. TypeOK'
  BY <1>3 DEF IInv, TypeOK
<1>5. ImplLife' /\ HandleLife'
  BY <1>3 DEF IInv, ImplLife, HandleLife
<1> QED
  BY <1>3, <1>4, <1>5 DEF Rest

\* The call of close in the destructor: the client has waited for the right
\* answer or not.
LEMMA DestroyServerRest == ASSUME IInv, DestroyServer PROVE Rest'
<1> USE DEF DestroyServer, loopVars, implVars, uvVars
<1>1. Task("close", Destructor) \in TaskRecords
  BY DEF Task, TaskRecords, Ops, Ids
<1>2. Destructor \notin Asked /\ Asked' = Asked \cup {Destructor}
  BY ServerConstants DEF Asked, IInv, TypeOK
<1>3. /\ tasks' \in Seq(TaskRecords) /\ CloseCalls' /\ OnceEach(tasks', "create")
      /\ Pending(tasks', "create") = Pending(tasks, "create")
  BY <1>1, <1>2, PushClose, ServerConstants
<1>4. TypeOK'
  BY <1>3 DEF IInv, TypeOK, ServerStates
<1>5. ImplLife' /\ HandleLife'
  BY <1>3 DEF IInv, ImplLife, HandleLife
<1> QED
  BY <1>3, <1>4, <1>5 DEF Rest

\* The end of the destructor: only now the impl may be freed.
LEMMA ReleaseImplRest == ASSUME IInv, ReleaseImpl PROVE Rest'
<1> USE DEF ReleaseImpl, uvVars
<1>1. QuietTasks
  BY QuietSame, QuietPush DEF DestroyManager, Task, TaskRecords, Ops, Ids
<1>2. Asked' = Asked /\ impl' \in {impl, "freed"}
  BY DEF Asked, ImplLeft
<1>3. TypeOK'
  BY <1>1, <1>2 DEF IInv, TypeOK, ServerStates, QuietTasks
<1>4. CloseCalls'
  BY <1>1, <1>2 DEF IInv, CloseCalls, QuietTasks
<1>5. ImplLife' /\ HandleLife'
  BY <1>1, <1>2 DEF IInv, ImplLife, HandleLife, QuietTasks
<1> QED
  BY <1>3, <1>4, <1>5 DEF Rest

\* The task of create_server finds no server, and leaves no second one.
LEMMA RunCreateRest == ASSUME IInv, RunCreate PROVE Rest'
<1> USE DEF RunCreate, NextTask, uvVars
<1>1. tasks \in Seq(TaskRecords) /\ tasks # <<>> /\ tasks' = Tail(tasks)
  BY DEF IInv, TypeOK
<1>2. QuietTasks
  BY <1>1, QuietPop
<1>3. Head(tasks).id = None /\ server = "asked"
  <2>1. Head(tasks).id \in Pending(tasks, "create")
    BY <1>1, HeadPending
  <2> QED
    BY <2>1 DEF IInv, ImplLife
<1>4. Pending(tasks', "create") = {}
  <2>1. Head(tasks).id \notin Pending(tasks', "create")
    BY <1>1, Popped DEF IInv, ImplLife
  <2> QED
    BY <1>2, <1>3, <2>1 DEF IInv, ImplLife, QuietTasks
<1>5. Asked' = Asked
  BY <1>3 DEF Asked
<1>6. TypeOK'
  BY <1>2 DEF IInv, TypeOK, ServerStates, QuietTasks
<1>7. CloseCalls'
  BY <1>2, <1>5 DEF IInv, CloseCalls, QuietTasks
<1>8. ImplLife' /\ HandleLife'
  BY <1>2, <1>3, <1>4 DEF IInv, ImplLife, HandleLife, QuietTasks
<1> QED
  BY <1>6, <1>7, <1>8 DEF Rest

\* What the two tasks of close have in common: the call that left the task is
\* neither answered nor waiting a second time.
LEMMA PopCloseFacts ==
  ASSUME IInv, NextTask("close"), PopClose
  PROVE  /\ QuietTasks
         /\ Head(tasks).id \in Asked \ (answered \cup {closer})
         /\ Head(tasks).id \notin Pending(tasks', "close")
         /\ server \notin {"none", "asked"}
         /\ impl' = impl \/ (impl' = "freed" /\ server = "released")
<1> USE DEF NextTask
<1>1. tasks \in Seq(TaskRecords) /\ tasks # <<>> /\ tasks' = Tail(tasks)
  BY DEF IInv, TypeOK
<1>2. QuietTasks
  BY <1>1, QuietPop
<1>3. Head(tasks).id \in Pending(tasks, "close")
  BY <1>1, HeadPending
<1>4. Head(tasks).id \notin Pending(tasks', "close")
  BY <1>1, Popped DEF IInv, CloseCalls
<1>5. impl' = impl \/ (impl' = "freed" /\ server = "released")
  BY DEF PopClose, ImplLeft
<1> QED
  BY <1>2, <1>3, <1>4, <1>5 DEF IInv, CloseCalls, ImplLife

\* The close that is first to run becomes the closer and begins to close the handle.
LEMMA RunCloseRest == ASSUME IInv, RunClose PROVE Rest'
<1> USE DEF RunClose
<1>1. /\ QuietTasks
      /\ Head(tasks).id \in Asked \ (answered \cup {closer})
      /\ Head(tasks).id \notin Pending(tasks', "close")
      /\ server \notin {"none", "asked"}
      /\ impl' = impl \/ (impl' = "freed" /\ server = "released")
  BY PopCloseFacts
<1>2. /\ UNCHANGED <<clientVars, failed, requests>>
      /\ loop' \in {loop, "stuck"} /\ closer' = Head(tasks).id /\ handle' = "closing"
      /\ closer = None /\ answered' = answered
  BY DEF PopClose, StuckOrNot
<1> HIDE DEF RunClose
<1>3. Asked' = Asked /\ closer' # None
  BY <1>1, <1>2, ServerConstants DEF Asked, clientVars, IInv, TypeOK
<1>4. TypeOK'
  BY <1>1, <1>2 DEF IInv, TypeOK, LoopStates, QuietTasks, clientVars
<1>5. CloseCalls'
  BY <1>1, <1>2, <1>3 DEF IInv, CloseCalls, QuietTasks
<1>6. ImplLife'
  BY <1>1, <1>2 DEF IInv, ImplLife, QuietTasks, clientVars
<1>7. HandleLife'
  BY <1>1, <1>2, <1>3 DEF IInv, HandleLife, clientVars
<1> QED
  BY <1>4, <1>5, <1>6, <1>7 DEF Rest

\* Another close is answered at once, which is not the answer of the closer.
LEMMA RunCloseAgainRest == ASSUME IInv, RunCloseAgain PROVE Rest'
<1> USE DEF RunCloseAgain
<1>1. /\ QuietTasks
      /\ Head(tasks).id \in Asked \ (answered \cup {closer})
      /\ Head(tasks).id \notin Pending(tasks', "close")
      /\ server \notin {"none", "asked"}
      /\ impl' = impl \/ (impl' = "freed" /\ server = "released")
  BY PopCloseFacts
<1>2. /\ UNCHANGED <<clientVars, failed, requests, closer, handle>>
      /\ loop' \in {loop, "stuck"} /\ answered' = answered \cup {Head(tasks).id}
  BY DEF PopClose, StuckOrNot
<1> HIDE DEF RunCloseAgain
<1>3. Asked' = Asked
  BY <1>2 DEF Asked, clientVars
<1>4. TypeOK'
  BY <1>1, <1>2 DEF IInv, TypeOK, LoopStates, QuietTasks, clientVars
<1>5. CloseCalls'
  BY <1>1, <1>2, <1>3 DEF IInv, CloseCalls, QuietTasks
<1>6. ImplLife'
  BY <1>1, <1>2 DEF IInv, ImplLife, QuietTasks, clientVars
<1>7. HandleLife'
  BY <1>1, <1>2 DEF IInv, HandleLife, clientVars
<1> QED
  BY <1>4, <1>5, <1>6, <1>7 DEF Rest

\* close_cb answers the closer, and then the handle is closed.
LEMMA OnCloseRest == ASSUME IInv, on_close PROVE Rest'
<1> USE DEF on_close, clientVars, uvVars
<1>1. QuietTasks
  BY QuietSame
<1>2. Asked' = Asked /\ closer # None
  BY DEF Asked, IInv, HandleLife
<1>3. TypeOK'
  BY <1>1 DEF IInv, TypeOK, QuietTasks
<1>4. CloseCalls'
  BY <1>1, <1>2 DEF IInv, CloseCalls, QuietTasks
<1>5. ImplLife'
  BY <1>1, <1>2 DEF IInv, ImplLife, HandleLife, QuietTasks
<1>6. HandleLife'
  BY <1>2 DEF IInv, HandleLife
<1> QED
  BY <1>3, <1>4, <1>5, <1>6 DEF Rest

\* Every step preserves the inductive invariant.
LEMMA NextIInv == IInv /\ [Next]_vars => IInv'
<1> SUFFICES ASSUME IInv, [Next]_vars PROVE IInv'
  OBVIOUS
<1>1. CASE Client \/ ClientReturns
  <2>1. StopInTime'
    BY <1>1, ClientStopInTime DEF IInv
  <2>2. Rest'
    BY <1>1, QuietClient, CreateServerRest, CloseRest, DestroyServerRest, ReleaseImplRest
    DEF Client, ClientReturns
  <2> QED
    BY <2>1, <2>2 DEF IInv, Rest
<1>2. CASE RunTask
  <2>1. StopInTime'
    BY <1>2, TaskStopInTime DEF IInv
  <2>2. Rest'
    BY <1>2, QuietTask, RunCreateRest, RunCloseRest, RunCloseAgainRest DEF RunTask
  <2> QED
    BY <2>1, <2>2 DEF IInv, Rest
<1>3. CASE \/ Drained \/ CloseCallback \/ Exit
           \/ \E p \in Peers : Arrive(p) \/ Connection(p) \/ AcceptFails(p)
           \/ \E c \in Connects : Connected(c)
  <2>1. StopInTime'
    BY <1>3, CallbackStopInTime DEF IInv
  <2>2. Rest'
    BY <1>3, QuietCallback, OnCloseRest DEF CloseCallback
  <2> QED
    BY <2>1, <2>2 DEF IInv, Rest
<1>4. CASE UNCHANGED vars
  <2>1. QuietTasks
    BY <1>4, QuietSame DEF vars
  <2>2. CloseCalls' /\ ImplLife' /\ HandleLife'
    BY <1>4, <2>1, QuietStep DEF vars, clientVars, loopVars
  <2>3. TypeOK' /\ StopInTime'
    BY <1>4 DEF vars, clientVars, loopVars, implVars, uvVars, IInv, TypeOK, StopInTime
  <2> QED
    BY <2>2, <2>3 DEF IInv
<1> QED
  BY <1>1, <1>2, <1>3, <1>4 DEF Next

------------------------------------------------------------------------------
(* The theorems. *)

\* The inductive invariant holds in every reachable state.
THEOREM IInvInvariant == Spec => []IInv
BY InitIInv, NextIInv, PTL DEF Spec

\* A client whose stop() has returned destroys the iomanager, by whatever
\* reference is the last, neither on the loop's thread nor under a callback
\* that would lock it.
THEOREM StopSafe == Spec => []StoppedFirst
<1>1. IInv => StoppedFirst
  BY DEF IInv, StopInTime, StoppedFirst
<1> QED
  BY <1>1, IInvInvariant, PTL

\* As long as libuv has the raw pointer to the impl of a server, the impl is
\* there, if the client waited for the close that was first to run.
THEOREM ImplSafe == Spec => []CallbackFindsImpl
<1>1. IInv => CallbackFindsImpl
  BY DEF IInv, TypeOK, ServerStates, ImplLife, HandleLife, CallbackFindsImpl
<1> QED
  BY <1>1, IInvInvariant, PTL

=============================================================================
