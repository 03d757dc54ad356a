------------------------------- MODULE Socket --------------------------------
(***************************************************************************)
(* lio::socket: the handle a client holds, the impl the loop's thread      *)
(* works on, and the libuv stream between it and the peer.                 *)
(*                                                                         *)
(* read, write and close leave a task with the iomanager; its loop runs    *)
(* the tasks in the order they came (module IoManager), one at a time with *)
(* the callbacks of libuv.  So a task and a callback are one action each.  *)
(*                                                                         *)
(* A byte is represented by its position in the peer's stream.  libuv and  *)
(* the peer are external: bytes come in pieces of any size, the stream may *)
(* end, a read may find nothing (nread = 0), writes are answered in the    *)
(* order they were made, and uv_close answers those that are left before   *)
(* it calls close_cb.  An assertion that fails, and an access that has no  *)
(* defined result, ends the process: failed says where.                    *)
(***************************************************************************)
EXTENDS Naturals, SequencesExt

CONSTANTS
  Reads,      \* calls of read
  Writes,     \* calls of write
  Sizes,      \* sizes that are asked for
  Suggested,  \* the size libuv suggests to alloc_read
  MaxBytes,   \* bound: bytes the peer sends
  None        \* null pointer, or no request

Zero == 0     \* a byte that vector::resize filled in

ASSUME SocketConstants ==
  /\ Reads \cap Writes = {}
  /\ Sizes \subseteq Nat \ {0}
  /\ Suggested \in Nat \ {0}
  /\ MaxBytes \in Nat
  /\ None \notin Reads \cup Writes \cup Nat

VARIABLES
  \* client
  owner,        \* the client's socket object exists
  called,       \* calls of read and write that were made
  tasks,        \* the iomanager's tasks that concern this socket
  answer,       \* of each call's future: pending, value or exception
  received,     \* the value of a read that was answered
  \* socket::impl
  read_queue,   \* read_queue_
  write_queue,  \* write_queue_
  keep_alive,   \* keep_alive_ holds a reference
  closing,      \* closing_
  failed,       \* where the process ended, or "no"
  \* libuv and the peer
  handle,       \* tcp_: open, closing, or closed
  reading,      \* uv_read_start is in force
  uv_writes,    \* writes libuv has not answered
  sent,         \* bytes the peer has sent
  consumed,     \* bytes libuv has handed to read_cb
  ended         \* the peer's stream has ended

clientVars == <<owner, called>>
queueVars  == <<read_queue, write_queue>>
peerVars   == <<sent, consumed, ended>>
answerVars == <<answer, received>>
vars == <<clientVars, tasks, answerVars, queueVars, keep_alive, closing, failed,
          handle, reading, uv_writes, peerVars>>

Init ==
  /\ owner = TRUE
  /\ called = {}
  /\ tasks = <<>>
  /\ answer = [c \in Reads \cup Writes |-> "pending"]
  /\ received = [r \in Reads |-> <<>>]
  /\ read_queue = <<>>
  /\ write_queue = <<>>
  /\ keep_alive = FALSE
  /\ closing = FALSE
  /\ failed = "no"
  /\ handle = "open"
  /\ reading = FALSE
  /\ uv_writes = <<>>
  /\ sent = 0
  /\ consumed = 0
  /\ ended = FALSE

Alive == failed = "no"

------------------------------------------------------------------------------
(* The client: each call is a task for the loop that holds a reference to    *)
(* the impl.                                                                 *)

Execute(task) == tasks' = Append(tasks, task)

UnchangedButClient ==
  UNCHANGED <<answerVars, queueVars, keep_alive, closing, failed, handle, reading,
              uv_writes, peerVars>>

read(r) ==
  /\ Alive /\ owner
  /\ r \in Reads \ called
  /\ called' = called \cup {r}
  /\ \E n \in Sizes : Execute([op |-> "read", id |-> r, size |-> n])
  /\ UNCHANGED owner
  /\ UnchangedButClient

write(w) ==
  /\ Alive /\ owner
  /\ w \in Writes \ called
  /\ called' = called \cup {w}
  /\ Execute([op |-> "write", id |-> w])
  /\ UNCHANGED owner
  /\ UnchangedButClient

Close == [op |-> "close"]

close ==
  /\ Alive /\ owner
  /\ ~ Contains(tasks, Close)
  /\ Execute(Close)
  /\ UNCHANGED clientVars
  /\ UnchangedButClient

\* ~socket: the same call, and nobody is left to make another.
Destroy ==
  /\ Alive /\ owner
  /\ owner' = FALSE
  /\ Execute(Close)
  /\ UNCHANGED called
  /\ UnchangedButClient

------------------------------------------------------------------------------
(* The tasks, on the loop's thread. *)

NextTask(op) ==
  /\ Alive
  /\ tasks # <<>>
  /\ Head(tasks).op = op
  /\ tasks' = Tail(tasks)

\* uv_read_start, whose result is ignored, and a request at the back.
RunRead ==
  /\ NextTask("read")
  /\ handle # "closed"
  /\ reading' = (handle = "open")
  /\ LET req == [id |-> Head(tasks).id, capacity |-> Head(tasks).size,
                 data |-> <<>>, base |-> None, len |-> 0]
     IN  read_queue' = Append(read_queue, req)
  /\ UNCHANGED <<clientVars, answerVars, write_queue, keep_alive, closing, failed,
                 handle, uv_writes, peerVars>>

\* uv_write, whose result is ignored: a handle that closes takes no request.
RunWrite ==
  /\ NextTask("write")
  /\ handle # "closed"
  /\ write_queue' = Append(write_queue, Head(tasks).id)
  /\ uv_writes' = IF handle = "open" THEN Append(uv_writes, Head(tasks).id)
                  ELSE uv_writes
  /\ UNCHANGED <<clientVars, answerVars, read_queue, keep_alive, closing, failed,
                 handle, reading, peerVars>>

\* on_close has reset tcp_, and libuv is called with a null pointer.
RunOnNull ==
  /\ NextTask("read") \/ NextTask("write")
  /\ handle = "closed"
  /\ failed' = "null handle"
  /\ UNCHANGED <<clientVars, answerVars, queueVars, keep_alive, closing, handle,
                 reading, uv_writes, peerVars>>

\* Mutant of RunClose: keep_alive_ is left empty.
RunCloseUnreferenced ==
  /\ NextTask("close")
  /\ ~closing
  /\ closing' = TRUE
  /\ handle' = "closing"
  /\ reading' = FALSE
  /\ UNCHANGED <<clientVars, answerVars, queueVars, keep_alive, failed, uv_writes,
                 peerVars>>

RunClose ==
  /\ NextTask("close")
  /\ ~closing
  /\ closing' = TRUE
  /\ handle' = "closing"
  /\ reading' = FALSE
  /\ keep_alive' = TRUE
  /\ UNCHANGED <<clientVars, answerVars, queueVars, failed, uv_writes, peerVars>>

\* assert(!closing_): the destructor closes after an explicit close, too.
RunCloseAgain ==
  /\ NextTask("close")
  /\ closing
  /\ failed' = "closing_"
  /\ UNCHANGED <<clientVars, answerVars, queueVars, keep_alive, closing, handle,
                 reading, uv_writes, peerVars>>

------------------------------------------------------------------------------
(* The callbacks of libuv. *)

Minimum(a, b) == IF a < b THEN a ELSE b

\* on_alloc_read: the request grows by what is suggested, up to its capacity,
\* and the buffer moves by the length of the last one.
on_alloc_read(req) ==
  LET old_s == Len(req.data)
      new_s == Minimum(old_s + Suggested, req.capacity)
      grown == [i \in 1..new_s |-> IF i <= old_s THEN req.data[i] ELSE Zero]
  IN  [req EXCEPT !.data = grown,
                  !.base = IF @ = None THEN 0 ELSE @ + req.len,
                  !.len  = IF req.base = None THEN new_s ELSE new_s - old_s]

\* The data of a request whose buffer was filled with nread bytes, of which
\* only those inside the vector last, resized to what the pointers say.
Filled(req, nread) ==
  [i \in 1..req.base + nread |->
     IF i > Len(req.data) THEN Zero
     ELSE IF i > req.base THEN consumed + i - req.base
     ELSE req.data[i]]

\* libuv reads only while it was told to.
ReadEvent == Alive /\ handle = "open" /\ reading

\* read_queue_.front() of an empty deque.
ReadUnasked ==
  /\ ReadEvent
  /\ read_queue = <<>>
  /\ sent > consumed \/ ended
  /\ failed' = "no request"
  /\ UNCHANGED <<clientVars, tasks, answerVars, queueVars, keep_alive, closing,
                 handle, reading, uv_writes, peerVars>>

\* on_read with nread >= 0.  A request is done when it is full, or when
\* nothing was read; the latter leaves libuv reading.
Read(req, nread) ==
  /\ consumed' = consumed + nread
  /\ IF req.base + nread > req.capacity
     THEN /\ failed' = "total"
          /\ UNCHANGED <<read_queue, answerVars, reading>>
     ELSE LET data == Filled(req, nread)
          IN  /\ UNCHANGED failed
              /\ IF Len(data) = req.capacity \/ nread = 0
                 THEN /\ answer' = [answer EXCEPT ![req.id] = "value"]
                      /\ received' = [received EXCEPT ![req.id] = data]
                      /\ read_queue' = Tail(read_queue)
                      /\ reading' = (reading /\ nread = 0)
                 ELSE /\ read_queue' = [read_queue EXCEPT ![1] = [req EXCEPT !.data = data]]
                      /\ UNCHANGED <<answerVars, reading>>
  /\ UNCHANGED <<clientVars, tasks, write_queue, keep_alive, closing, handle,
                 uv_writes, sent, ended>>

\* Mutant of ReadData: the callback looks at the last request.
ReadDataForLast ==
  /\ ReadEvent
  /\ read_queue # <<>>
  /\ sent > consumed
  /\ LET req == on_alloc_read(Last(read_queue))
     IN  Read(req, Minimum(req.len, sent - consumed))

ReadData ==
  /\ ReadEvent
  /\ read_queue # <<>>
  /\ sent > consumed
  /\ LET req == on_alloc_read(Head(read_queue))
     IN  Read(req, Minimum(req.len, sent - consumed))

ReadNothing ==
  /\ ReadEvent
  /\ read_queue # <<>>
  /\ sent = consumed
  /\ Read(on_alloc_read(Head(read_queue)), 0)

\* on_read with nread < 0: the stream has ended.
ReadEnd ==
  /\ ReadEvent
  /\ read_queue # <<>>
  /\ sent = consumed /\ ended
  /\ reading' = FALSE
  /\ answer' = [answer EXCEPT ![Head(read_queue).id] = "exception"]
  /\ read_queue' = Tail(read_queue)
  /\ UNCHANGED <<clientVars, tasks, received, write_queue, keep_alive, closing,
                 failed, handle, uv_writes, peerVars>>

\* Mutant of on_write: a write that failed stays at the front.
on_write_keeps_failed(status) ==
  /\ answer' = [answer EXCEPT ![Head(write_queue)] = status]
  /\ write_queue' = IF status = "value" THEN Tail(write_queue) ELSE write_queue

\* Mutant of on_write: no status is looked for, and nothing is set.
on_write_forgets(status) == write_queue' = Tail(write_queue) /\ UNCHANGED answer

\* on_write answers the request at the front, whatever libuv answered.
on_write(status) ==
  /\ answer' = [answer EXCEPT ![Head(write_queue)] = status]
  /\ write_queue' = Tail(write_queue)

UnchangedButWrites ==
  UNCHANGED <<clientVars, tasks, received, read_queue, keep_alive, closing, failed,
              handle, reading, peerVars>>

WriteDone ==
  /\ Alive
  /\ handle = "open"
  /\ uv_writes # <<>>
  /\ uv_writes' = Tail(uv_writes)
  /\ on_write("value") \/ on_write("exception")
  /\ UnchangedButWrites

\* uv_close answers the writes that are left with an error.
WriteCancelled ==
  /\ Alive
  /\ handle = "closing"
  /\ uv_writes # <<>>
  /\ uv_writes' = Tail(uv_writes)
  /\ on_write("exception")
  /\ UnchangedButWrites

on_close ==
  /\ Alive
  /\ handle = "closing"
  /\ uv_writes = <<>>
  /\ handle' = "closed"
  /\ keep_alive' = FALSE
  /\ UNCHANGED <<clientVars, tasks, answerVars, queueVars, closing, failed, reading,
                 uv_writes, peerVars>>

------------------------------------------------------------------------------
Peer ==
  /\ Alive
  /\ ~ended
  /\ \/ sent < MaxBytes /\ sent' = sent + 1 /\ UNCHANGED ended
     \/ ended' = TRUE /\ UNCHANGED sent
  /\ UNCHANGED <<clientVars, tasks, answerVars, queueVars, keep_alive, closing,
                 failed, handle, reading, uv_writes, consumed>>

Client ==
  \/ \E r \in Reads : read(r)
  \/ \E w \in Writes : write(w)
  \/ close \/ Destroy

RunTask == RunRead \/ RunWrite \/ RunOnNull \/ RunClose \/ RunCloseAgain

Callback == ReadUnasked \/ ReadData \/ ReadNothing \/ ReadEnd \/ WriteDone

CloseCallback == WriteCancelled \/ on_close

\* The process has ended, or the client has gone and the handle is closed.
Terminated ==
  /\ failed # "no" \/ (~owner /\ handle = "closed" /\ tasks = <<>>)
  /\ UNCHANGED vars

Next == Client \/ RunTask \/ Callback \/ CloseCallback \/ Peer \/ Terminated

\* The loop runs its tasks and ends what uv_close began.  Neither the client
\* nor the peer has to do anything.
Fairness == WF_vars(RunTask) /\ WF_vars(CloseCallback)

Spec == Init /\ [][Next]_vars /\ Fairness

------------------------------------------------------------------------------
(* Properties. *)

\* The bytes a read returned, without those resize filled in.
Bytes(r) == ToSet(received[r]) \ {Zero}

\* Reads that wait are answered in the order they were asked for, and share the
\* stream in that order: no byte goes to two of them, and none that was sent
\* earlier goes to one that asked later.
ReadsShareTheStream ==
  /\ \A q, r \in Reads :
       q # r => \/ \A x \in Bytes(q), y \in Bytes(r) : x < y
                \/ \A x \in Bytes(q), y \in Bytes(r) : y < x
  /\ \A q \in Reads, i \in DOMAIN read_queue :
       answer[q] # "pending" =>
         /\ read_queue[i].id # q
         /\ \A x \in Bytes(q), y \in ToSet(read_queue[i].data) \ {Zero} : x < y

\* libuv answers writes with the request, on_write with the front of
\* write_queue_: they are the same, so that no write gets the status of another.
WritesMatch ==
  /\ IsPrefix(uv_writes, write_queue)
  /\ \A w \in Writes : Contains(write_queue, w) => answer[w] = "pending"

\* libuv's callbacks use a raw pointer to the impl: as long as the handle is
\* not closed, a socket, a task or keep_alive_ holds a reference.
HandleHasOwner ==
  Alive /\ handle # "closed" => owner \/ keep_alive \/ tasks # <<>>

\* Once close ran, the handle is closed, and every write that libuv accepted is
\* answered.
CloseCompletes ==
  /\ closing ~> failed # "no" \/ handle = "closed"
  /\ \A w \in Writes :
       closing /\ Contains(uv_writes, w) ~> failed # "no" \/ answer[w] # "pending"

\* assert(total <= front.data.capacity()) in on_read.
TotalFits == failed # "total"

=============================================================================
