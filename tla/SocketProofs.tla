----------------------------- MODULE SocketProofs ----------------------------
(* Safety of Socket for any calls, sizes and stream.                         *)
EXTENDS Socket, SeqLemmas

------------------------------------------------------------------------------
(* The inductive invariant. *)

\* A call of read or write that is a task, and a request of read_queue_.
ReadCall  == [op : {"read"}, id : Reads, size : Sizes]
WriteCall == [op : {"write"}, id : Writes]
Call      == ReadCall \cup WriteCall
Request   == [id : Reads, capacity : Nat, data : Seq(Nat), base : Nat \cup {None}, len : Nat]

TypeOK ==
  /\ owner \in BOOLEAN
  /\ called \in SUBSET (Reads \cup Writes)
  /\ tasks \in Seq(Call \cup {Close})
  /\ answer \in [Reads \cup Writes -> {"pending", "value", "exception"}]
  /\ received \in [Reads -> Seq(Nat)]
  /\ read_queue \in Seq(Request)
  /\ write_queue \in Seq(Writes)
  /\ uv_writes \in Seq(Writes)
  /\ keep_alive \in BOOLEAN
  /\ closing \in BOOLEAN
  /\ handle \in {"open", "closing", "closed"}
  /\ sent \in Nat /\ consumed \in Nat

\* A handle that closes has keep_alive_; one that is open has the client's
\* socket, or the close that its destructor left with the loop.
Life ==
  /\ closing <=> handle # "open"
  /\ handle = "closing" => keep_alive
  /\ Alive /\ ~owner /\ handle = "open" => Close \in ToSet(tasks)

\* libuv has the requests of write_queue_, or the first of them once the handle
\* closes.
Matching ==
  /\ IsPrefix(uv_writes, write_queue)
  /\ handle = "open" => uv_writes = write_queue

\* The calls of a sequence, of which some elements stand for one, and that none
\* occurs twice.
Ids(s, K)      == {x \in Reads \cup Writes : \E j \in DOMAIN s : s[j] \in K /\ s[j].id = x}
Distinct(s, K) ==
  \A j, k \in DOMAIN s : s[j] \in K /\ s[k] \in K /\ s[j].id = s[k].id => j = k

\* A call is a task, then a request, and is not answered before it was one.
Calls ==
  /\ Distinct(tasks, Call) /\ Distinct(read_queue, Request) /\ IsInjective(write_queue)
  /\ Ids(tasks, Call) \cap (Ids(read_queue, Request) \cup ToSet(write_queue)) = {}
  /\ \A c \in Ids(tasks, Call) \cup Ids(read_queue, Request) \cup ToSet(write_queue) :
       c \in called /\ answer[c] = "pending"
  /\ \A c \in Reads \cup Writes : c \notin called => answer[c] = "pending"

\* Only the request at the front has data, and all bytes that reads have got were
\* consumed: those of a read that was answered before those of the front.
Stream ==
  /\ \A r \in Reads : answer[r] = "pending" => received[r] = <<>>
  /\ \A r \in Reads : \A x \in Bytes(r) : x <= consumed
  /\ \A j \in DOMAIN read_queue :
       /\ j # 1 => read_queue[j].data = <<>>
       /\ Len(read_queue[j].data) <= read_queue[j].capacity
       /\ \A x \in ToSet(read_queue[j].data) : x <= consumed
       /\ \A r \in Reads : \A x \in Bytes(r), y \in ToSet(read_queue[j].data) \ {Zero} : x < y
  /\ \A q, r \in Reads :
       q # r => \/ \A x \in Bytes(q), y \in Bytes(r) : x < y
                \/ \A x \in Bytes(q), y \in Bytes(r) : y < x

IInv ==
  /\ TypeOK
  /\ Life
  /\ Matching
  /\ Calls
  /\ Stream

------------------------------------------------------------------------------
(* Calls in a sequence. *)

\* push_back of a call that is in no sequence.
LEMMA PushedIds ==
  ASSUME NEW S, NEW s \in Seq(S), NEW e \in S, NEW K
  PROVE  /\ Append(s, e) \in Seq(S)
         /\ Ids(Append(s, e), K) \subseteq Ids(s, K) \cup (IF e \in K THEN {e.id} ELSE {})
         /\ Distinct(s, K) /\ (e \in K => e.id \in Reads \cup Writes /\ e.id \notin Ids(s, K)) =>
              Distinct(Append(s, e), K)
<1> DEFINE t == Append(s, e)
<1>1. /\ t \in Seq(S)
      /\ \A j \in DOMAIN t : (j \in DOMAIN s /\ t[j] = s[j]) \/ (j = Len(s) + 1 /\ t[j] = e)
  OBVIOUS
<1> HIDE DEF t
<1>2. Ids(t, K) \subseteq Ids(s, K) \cup (IF e \in K THEN {e.id} ELSE {})
  BY <1>1 DEF Ids
<1>3. ASSUME Distinct(s, K), e \in K => e.id \in Reads \cup Writes /\ e.id \notin Ids(s, K)
      PROVE  Distinct(t, K)
  <2> SUFFICES ASSUME NEW j \in DOMAIN t, NEW k \in DOMAIN t, t[j] \in K, t[k] \in K,
                      t[j].id = t[k].id
               PROVE  j = k
    BY DEF Distinct
  <2>1. ASSUME NEW m \in DOMAIN s, e \in K, s[m] \in K PROVE s[m].id # e.id
    BY <1>3, <2>1 DEF Ids
  <2> QED
    BY <1>1, <1>3, <2>1 DEF Distinct
<1> QED
  BY <1>1, <1>2, <1>3 DEF t

\* pop_front: the call at the front is not among those that are left.
LEMMA PoppedIds ==
  ASSUME NEW S, NEW s \in Seq(S), s # <<>>, NEW K
  PROVE  /\ Tail(s) \in Seq(S) /\ Head(s) \in S
         /\ Ids(Tail(s), K) \subseteq Ids(s, K)
         /\ Head(s) \in K /\ Head(s).id \in Reads \cup Writes => Head(s).id \in Ids(s, K)
         /\ Distinct(s, K) =>
              /\ Distinct(Tail(s), K)
              /\ Head(s) \in K => Head(s).id \notin Ids(Tail(s), K)
<1> DEFINE t == Tail(s)
           h == Head(s)
<1>1. /\ t \in Seq(S) /\ h \in S /\ 1 \in DOMAIN s /\ s[1] = h
      /\ \A j \in DOMAIN t : j \in Nat /\ j + 1 \in DOMAIN s /\ t[j] = s[j + 1] /\ j + 1 # 1
  OBVIOUS
<1> HIDE DEF t, h
<1>2. Ids(t, K) \subseteq Ids(s, K)
  BY <1>1 DEF Ids
<1>3. h \in K /\ h.id \in Reads \cup Writes => h.id \in Ids(s, K)
  BY <1>1 DEF Ids
<1>4. ASSUME Distinct(s, K) PROVE Distinct(t, K)
  <2> SUFFICES ASSUME NEW j \in DOMAIN t, NEW k \in DOMAIN t, t[j] \in K, t[k] \in K,
                      t[j].id = t[k].id
               PROVE  j = k
    BY DEF Distinct
  <2>1. j + 1 = k + 1
    BY <1>1, <1>4 DEF Distinct
  <2> QED
    BY <1>1, <2>1
<1>5. ASSUME Distinct(s, K), h \in K PROVE h.id \notin Ids(t, K)
  <2>1. ASSUME NEW j \in DOMAIN t, t[j] \in K, t[j].id = h.id PROVE FALSE
    BY <1>1, <1>5, <2>1 DEF Distinct
  <2> QED
    BY <2>1 DEF Ids
<1> QED
  BY <1>1, <1>2, <1>3, <1>4, <1>5 DEF t, h

\* The front is replaced by an element of the same call.
LEMMA ReplacedIds ==
  ASSUME NEW S, NEW s \in Seq(S), s # <<>>, NEW K, NEW e \in S, e \in K => s[1] \in K,
         e.id = s[1].id
  PROVE  /\ [s EXCEPT ![1] = e] \in Seq(S)
         /\ Ids([s EXCEPT ![1] = e], K) \subseteq Ids(s, K)
         /\ Distinct(s, K) => Distinct([s EXCEPT ![1] = e], K)
<1> DEFINE t == [s EXCEPT ![1] = e]
<1>1. /\ t \in Seq(S) /\ DOMAIN t = DOMAIN s
      /\ \A j \in DOMAIN t : (j = 1 /\ t[j] = e) \/ t[j] = s[j]
  OBVIOUS
<1> HIDE DEF t
<1>2. \A j \in DOMAIN t : t[j] \in K => s[j] \in K /\ t[j].id = s[j].id
  BY <1>1
<1> QED
  BY <1>1, <1>2 DEF Ids, Distinct, t

\* The empty sequence holds no call.
LEMMA NoIds ==
  ASSUME NEW K PROVE Ids(<<>>, K) = {} /\ Distinct(<<>>, K)
BY DEF Ids, Distinct

\* What SocketConstants says of the names of calls.
LEMMA CallNames == Reads \cap Writes = {} /\ Sizes \subseteq Nat \ {0} /\ Suggested \in Nat
<1>1. Reads \cap Writes = {} /\ Sizes \subseteq Nat \ {0} /\ Suggested \in Nat \ {0}
  BY SocketConstants, Zenon
<1> QED
  BY <1>1

\* A close is not a call of read or write.
LEMMA CloseNoCall == Close \notin Call
<1>1. \A e \in Call : e.op # "close"
  BY DEF Call, ReadCall, WriteCall
<1>2. Close.op = "close"
  BY DEF Close
<1> QED
  BY <1>1, <1>2, Zenon

\* A socket that was just made.
LEMMA InitIInv == Init => IInv
<1> SUFFICES ASSUME Init PROVE IInv
  OBVIOUS
<1>1. /\ owner = TRUE /\ called = {} /\ tasks = <<>> /\ read_queue = <<>> /\ write_queue = <<>>
      /\ keep_alive = FALSE /\ closing = FALSE /\ handle = "open" /\ uv_writes = <<>>
      /\ sent = 0 /\ consumed = 0
      /\ answer = [c \in Reads \cup Writes |-> "pending"] /\ received = [r \in Reads |-> <<>>]
  BY DEF Init
<1>2. TypeOK
  <2>1. /\ tasks \in Seq(Call \cup {Close}) /\ read_queue \in Seq(Request)
        /\ write_queue \in Seq(Writes) /\ uv_writes \in Seq(Writes)
    BY <1>1, EmptyElements
  <2>2. <<>> \in Seq(Nat)
    BY EmptyElements
  <2>3. /\ answer \in [Reads \cup Writes -> {"pending", "value", "exception"}]
        /\ received \in [Reads -> Seq(Nat)]
    BY <1>1, <2>2
  <2> QED
    BY <1>1, <2>1, <2>3 DEF TypeOK
<1>3. Life
  BY <1>1 DEF Life
<1>4. Matching
  <2>1. IsPrefix(<<>>, <<>>)
    BY EmptyElements, PrefixSelf
  <2> QED
    BY <1>1, <2>1 DEF Matching
<1>5. Calls
  <2>1. ToSet(write_queue) = {} /\ IsInjective(write_queue)
    BY <1>1, EmptyElements
  <2> QED
    BY <1>1, <2>1, NoIds DEF Calls
<1>6. Stream
  <2>1. \A r \in Reads : received[r] = <<>> /\ Bytes(r) = {}
    BY <1>1, EmptyElements DEF Bytes
  <2> QED
    BY <1>1, <2>1 DEF Stream
<1> QED
  BY <1>2, <1>3, <1>4, <1>5, <1>6 DEF IInv

------------------------------------------------------------------------------
(* The client. *)

\* Elements of tasks and requests are what they look like.
LEMMA Shapes ==
  /\ \A e \in Call : e.id \in Reads \cup Writes /\ e # Close
  /\ \A e \in Call \cup {Close} : e.op = "read" => e \in ReadCall
  /\ \A e \in Call \cup {Close} : e.op = "write" => e \in WriteCall
  /\ \A e \in Call \cup {Close} : e.op = "close" => e = Close
  /\ \A e \in ReadCall : e.id \in Reads /\ e.size \in Sizes /\ e.op = "read"
  /\ \A e \in WriteCall : e.id \in Writes /\ e.op = "write"
  /\ \A e \in Request : e.id \in Reads
<1>1. /\ \A e \in ReadCall : e.id \in Reads /\ e.size \in Sizes /\ e.op = "read"
      /\ \A e \in WriteCall : e.id \in Writes /\ e.op = "write"
      /\ \A e \in Request : e.id \in Reads
  BY DEF ReadCall, WriteCall, Request
<1>2. Close.op = "close"
  BY DEF Close
<1> QED
  BY <1>1, <1>2, CloseNoCall DEF Call

\* Nothing is said of the stream if reads are left alone, and nothing of calls.
LEMMA SameStream ==
  ASSUME IInv, UNCHANGED <<answer, received, read_queue, consumed>> PROVE Stream'
BY DEF IInv, Stream, Bytes

\* Neither is anything of the calls.
LEMMA SameCalls ==
  ASSUME IInv, UNCHANGED <<called, answer, tasks, read_queue, write_queue>> PROVE Calls'
BY DEF IInv, Calls

\* A task is left with the loop.
LEMMA ExecuteKeeps ==
  ASSUME IInv, NEW e \in Call \cup {Close}, Execute(e)
  PROVE  /\ tasks' \in Seq(Call \cup {Close})
         /\ ToSet(tasks') = ToSet(tasks) \cup {e}
         /\ Ids(tasks', Call) \subseteq Ids(tasks, Call) \cup (IF e \in Call THEN {e.id} ELSE {})
         /\ (e \in Call => e.id \notin Ids(tasks, Call)) => Distinct(tasks', Call)
<1>1. tasks' = Append(tasks, e) /\ tasks \in Seq(Call \cup {Close})
  BY DEF Execute, IInv, TypeOK
<1>2. ToSet(Append(tasks, e)) = ToSet(tasks) \cup {e}
  BY <1>1, AppendNew
<1>3. /\ Append(tasks, e) \in Seq(Call \cup {Close})
      /\ Ids(Append(tasks, e), Call) \subseteq
           Ids(tasks, Call) \cup (IF e \in Call THEN {e.id} ELSE {})
      /\ Distinct(tasks, Call) /\ (e \in Call => e.id \in Reads \cup Writes /\ e.id \notin Ids(tasks, Call)) =>
           Distinct(Append(tasks, e), Call)
  BY <1>1, PushedIds
<1>4. Distinct(tasks, Call) /\ (e \in Call => e.id \in Reads \cup Writes)
  BY Shapes DEF IInv, Calls
<1> QED
  BY <1>1, <1>2, <1>3, <1>4, Zenon

\* read and write.
LEMMA CallIInv ==
  ASSUME IInv, NEW e \in Call, owner, e.id \notin called, Execute(e),
         called' = called \cup {e.id}, UNCHANGED owner, UnchangedButClient
  PROVE  IInv'
<1>1. UNCHANGED <<answer, received, read_queue, write_queue, keep_alive, closing, failed,
                  handle, uv_writes, sent, consumed>>
  BY DEF UnchangedButClient, answerVars, queueVars, peerVars
<1>2. e.id \in Reads \cup Writes
  BY Shapes
<1>3. /\ \A c \in Ids(tasks, Call) \cup Ids(read_queue, Request) \cup ToSet(write_queue) :
           c \in called /\ answer[c] = "pending"
      /\ answer[e.id] = "pending"
  BY <1>2 DEF IInv, Calls
<1>4. /\ tasks' \in Seq(Call \cup {Close}) /\ Distinct(tasks', Call)
      /\ Ids(tasks', Call) \subseteq Ids(tasks, Call) \cup {e.id}
  BY <1>3, ExecuteKeeps
<1>5. TypeOK'
  BY <1>1, <1>2, <1>4 DEF IInv, TypeOK
<1>6. Life' /\ Matching'
  BY <1>1 DEF IInv, Life, Matching
<1>7. Calls'
  BY <1>1, <1>2, <1>3, <1>4 DEF IInv, Calls
<1>8. Stream'
  BY <1>1, SameStream
<1> QED
  BY <1>5, <1>6, <1>7, <1>8 DEF IInv

\* close and the destructor.
LEMMA CloseTaskIInv ==
  ASSUME IInv, Execute(Close), UNCHANGED called, owner' \in BOOLEAN, UnchangedButClient
  PROVE  IInv'
<1>1. UNCHANGED <<answer, received, read_queue, write_queue, keep_alive, closing, failed,
                  handle, uv_writes, sent, consumed>>
  BY DEF UnchangedButClient, answerVars, queueVars, peerVars
<1>2. /\ tasks' \in Seq(Call \cup {Close}) /\ Distinct(tasks', Call)
      /\ Ids(tasks', Call) \subseteq Ids(tasks, Call)
      /\ Close \in ToSet(tasks')
  BY ExecuteKeeps, CloseNoCall
<1>3. TypeOK'
  BY <1>1, <1>2 DEF IInv, TypeOK
<1>4. Life' /\ Matching'
  BY <1>1, <1>2 DEF IInv, Life, Matching
<1>5. Calls'
  BY <1>1, <1>2 DEF IInv, Calls
<1>6. Stream'
  BY <1>1, SameStream
<1> QED
  BY <1>3, <1>4, <1>5, <1>6 DEF IInv

\* What the client does.
LEMMA ClientIInv == ASSUME IInv, Client PROVE IInv'
<1>1. ASSUME NEW r \in Reads, read(r) PROVE IInv'
  <2>1. PICK n \in Sizes : Execute([op |-> "read", id |-> r, size |-> n])
    BY <1>1 DEF read
  <2> DEFINE e == [op |-> "read", id |-> r, size |-> n]
  <2>2. e \in Call /\ e.id = r
    BY DEF Call, ReadCall
  <2>3. Execute(e)
    BY <2>1
  <2> HIDE DEF e
  <2> QED
    BY <1>1, <2>2, <2>3, CallIInv DEF read
<1>2. ASSUME NEW w \in Writes, write(w) PROVE IInv'
  <2> DEFINE e == [op |-> "write", id |-> w]
  <2>1. Execute(e)
    BY <1>2 DEF write
  <2>2. e \in Call /\ e.id = w
    BY DEF Call, WriteCall
  <2> HIDE DEF e
  <2> QED
    BY <1>2, <2>1, <2>2, CallIInv DEF write
<1>3. ASSUME close \/ Destroy PROVE IInv'
  <2>1. /\ Execute(Close) /\ UNCHANGED called /\ UnchangedButClient
        /\ owner' = owner \/ owner' = FALSE
    BY <1>3 DEF close, Destroy, clientVars
  <2>2. owner' \in BOOLEAN
    BY <2>1 DEF IInv, TypeOK
  <2> QED
    BY <2>1, <2>2, CloseTaskIInv
<1> QED
  BY <1>1, <1>2, <1>3 DEF Client

------------------------------------------------------------------------------
(* The tasks. *)

\* The loop takes the first task.
LEMMA NextTaskKeeps ==
  ASSUME IInv, NEW op, NextTask(op)
  PROVE  /\ tasks' \in Seq(Call \cup {Close})
         /\ Head(tasks) \in Call \cup {Close} /\ Head(tasks).op = op
         /\ Ids(tasks', Call) \subseteq Ids(tasks, Call) /\ Distinct(tasks', Call)
         /\ Head(tasks) \in Call => Head(tasks).id \in Ids(tasks, Call) \ Ids(tasks', Call)
         /\ Head(tasks) # Close /\ Close \in ToSet(tasks) => Close \in ToSet(tasks')
<1>1. /\ tasks' = Tail(tasks) /\ tasks # <<>> /\ Head(tasks).op = op
      /\ tasks \in Seq(Call \cup {Close})
  BY DEF NextTask, IInv, TypeOK
<1>2. ToSet(tasks) = ToSet(Tail(tasks)) \cup {Head(tasks)}
  BY <1>1, PopHead
<1>3. /\ Tail(tasks) \in Seq(Call \cup {Close}) /\ Head(tasks) \in Call \cup {Close}
      /\ Ids(Tail(tasks), Call) \subseteq Ids(tasks, Call)
      /\ Head(tasks) \in Call /\ Head(tasks).id \in Reads \cup Writes => Head(tasks).id \in Ids(tasks, Call)
      /\ Distinct(tasks, Call) =>
           /\ Distinct(Tail(tasks), Call)
           /\ Head(tasks) \in Call => Head(tasks).id \notin Ids(Tail(tasks), Call)
  BY <1>1, PoppedIds
<1> DEFINE t == Tail(tasks)
           h == Head(tasks)
<1>4. /\ t \in Seq(Call \cup {Close}) /\ h \in Call \cup {Close} /\ h.op = op
      /\ Ids(t, Call) \subseteq Ids(tasks, Call) /\ ToSet(tasks) = ToSet(t) \cup {h}
      /\ h \in Call /\ h.id \in Reads \cup Writes => h.id \in Ids(tasks, Call)
      /\ Distinct(tasks, Call) =>
           Distinct(t, Call) /\ (h \in Call => h.id \notin Ids(t, Call))
      /\ tasks' = t
  BY <1>1, <1>2, <1>3
<1> HIDE DEF t, h
<1>5. Distinct(tasks, Call) /\ (h \in Call => h.id \in Reads \cup Writes)
  BY Shapes DEF IInv, Calls
<1>6. /\ t \in Seq(Call \cup {Close}) /\ h \in Call \cup {Close} /\ h.op = op
      /\ Ids(t, Call) \subseteq Ids(tasks, Call) /\ Distinct(t, Call)
      /\ h \in Call => h.id \in Ids(tasks, Call) \ Ids(t, Call)
      /\ h # Close /\ Close \in ToSet(tasks) => Close \in ToSet(t)
  BY <1>4, <1>5
<1> QED
  BY <1>4, <1>6, Zenon DEF h

\* What the loop's tasks leave alone of the calls.
LEMMA TaskDoneCalls ==
  ASSUME IInv, NEW op, NextTask(op), UNCHANGED <<called, answer, read_queue, write_queue>>
  PROVE  Calls'
BY NextTaskKeeps DEF IInv, Calls

\* A read becomes a request at the back.
LEMMA RunReadIInv == ASSUME IInv, RunRead PROVE IInv'
<1> DEFINE h == Head(tasks)
           req == [id |-> h.id, capacity |-> h.size, data |-> <<>>, base |-> None, len |-> 0]
<1>1. /\ NextTask("read") /\ read_queue' = Append(read_queue, req)
      /\ UNCHANGED <<owner, called, answer, received, write_queue, keep_alive, closing,
                     failed, handle, uv_writes, sent, consumed>>
  BY DEF RunRead, clientVars, answerVars, peerVars
<1>2. /\ tasks' \in Seq(Call \cup {Close}) /\ h \in Call \cup {Close} /\ h.op = "read"
      /\ Ids(tasks', Call) \subseteq Ids(tasks, Call) /\ Distinct(tasks', Call)
      /\ h \in Call => h.id \in Ids(tasks, Call) \ Ids(tasks', Call)
      /\ h # Close /\ Close \in ToSet(tasks) => Close \in ToSet(tasks')
  BY <1>1, NextTaskKeeps
<1> HIDE DEF h
<1>3. h \in ReadCall /\ h \in Call /\ h # Close /\ h.id \in Reads /\ h.size \in Nat
  BY <1>2, Shapes, CallNames DEF Call
<1>4. req \in Request /\ req.data = <<>> /\ req.id = h.id /\ req.capacity \in Nat
  <2>1. <<>> \in Seq(Nat)
    BY EmptyElements
  <2> QED
    BY <1>3, <2>1 DEF Request
<1> HIDE DEF req
<1>5. read_queue \in Seq(Request)
  BY DEF IInv, TypeOK
<1>6. /\ Append(read_queue, req) \in Seq(Request)
      /\ Ids(Append(read_queue, req), Request) \subseteq Ids(read_queue, Request) \cup {h.id}
      /\ Distinct(read_queue, Request) /\ h.id \notin Ids(read_queue, Request) =>
           Distinct(Append(read_queue, req), Request)
  BY <1>3, <1>4, <1>5, PushedIds
<1>7. \A j \in DOMAIN Append(read_queue, req) :
        \/ j \in DOMAIN read_queue /\ Append(read_queue, req)[j] = read_queue[j]
        \/ Append(read_queue, req)[j] = req
  BY <1>4, <1>5
<1> DEFINE q == Append(read_queue, req)
<1>8. /\ q \in Seq(Request) /\ Ids(q, Request) \subseteq Ids(read_queue, Request) \cup {h.id}
      /\ Distinct(read_queue, Request) /\ h.id \notin Ids(read_queue, Request) =>
           Distinct(q, Request)
      /\ \A j \in DOMAIN q : (j \in DOMAIN read_queue /\ q[j] = read_queue[j]) \/ q[j] = req
      /\ read_queue' = q
  BY <1>1, <1>6, <1>7
<1> HIDE DEF q
<1>9. TypeOK'
  BY <1>1, <1>2, <1>8 DEF IInv, TypeOK
<1>10. Life' /\ Matching'
  BY <1>1, <1>2, <1>3 DEF IInv, Life, Matching, Alive
<1>11. Calls'
  <2>1. h.id \in Ids(tasks, Call) /\ h.id \notin Ids(tasks', Call)
    BY <1>2, <1>3
  <2>2. h.id \notin Ids(read_queue, Request) \cup ToSet(write_queue)
    BY <2>1 DEF IInv, Calls
  <2> QED
    BY <1>1, <1>2, <1>8, <2>1, <2>2 DEF IInv, Calls
<1>12. Stream'
  <2>1. ASSUME NEW j \in DOMAIN q
        PROVE  /\ j # 1 => q[j].data = <<>>
               /\ Len(q[j].data) <= q[j].capacity
               /\ \A x \in ToSet(q[j].data) : x <= consumed
               /\ \A r \in Reads : \A x \in Bytes(r), y \in ToSet(q[j].data) \ {Zero} : x < y
    <3>1. CASE j \in DOMAIN read_queue /\ q[j] = read_queue[j]
      BY <3>1 DEF IInv, Stream
    <3>2. CASE q[j] = req
      <4>1. ToSet(req.data) = {} /\ Len(req.data) = 0
        BY <1>4, EmptyElements
      <4>2. 0 <= req.capacity
        BY <1>4
      <4> QED
        BY <1>4, <3>2, <4>1, <4>2
    <3> QED
      BY <1>8, <3>1, <3>2
  <2> QED
    BY <1>1, <1>8, <2>1 DEF IInv, Stream, Bytes
<1> QED
  BY <1>9, <1>10, <1>11, <1>12 DEF IInv

\* A write becomes a request at the back, and one of libuv while it accepts any.
LEMMA RunWriteIInv == ASSUME IInv, RunWrite PROVE IInv'
<1> DEFINE h == Head(tasks)
           w == h.id
<1>1. /\ NextTask("write") /\ write_queue' = Append(write_queue, w)
      /\ uv_writes' = IF handle = "open" THEN Append(uv_writes, w) ELSE uv_writes
      /\ UNCHANGED <<owner, called, answer, received, read_queue, keep_alive, closing,
                     failed, handle, sent, consumed>>
  BY DEF RunWrite, clientVars, answerVars, peerVars
<1>2. /\ tasks' \in Seq(Call \cup {Close}) /\ h \in Call \cup {Close} /\ h.op = "write"
      /\ Ids(tasks', Call) \subseteq Ids(tasks, Call) /\ Distinct(tasks', Call)
      /\ h \in Call => h.id \in Ids(tasks, Call) \ Ids(tasks', Call)
      /\ h # Close /\ Close \in ToSet(tasks) => Close \in ToSet(tasks')
  BY <1>1, NextTaskKeeps
<1> HIDE DEF h
<1>3. h \in WriteCall /\ h \in Call /\ h # Close /\ w \in Writes
  BY <1>2, Shapes DEF Call
<1>4. w \in Ids(tasks, Call) /\ w \notin Ids(tasks', Call)
  BY <1>2, <1>3
<1> HIDE DEF w
<1>5. /\ write_queue \in Seq(Writes) /\ uv_writes \in Seq(Writes)
      /\ IsPrefix(uv_writes, write_queue) /\ (handle = "open" => uv_writes = write_queue)
  BY DEF IInv, TypeOK, Matching
<1>6. /\ write_queue' \in Seq(Writes) /\ ToSet(write_queue') = ToSet(write_queue) \cup {w}
      /\ IsInjective(write_queue) /\ w \notin ToSet(write_queue) => IsInjective(write_queue')
  BY <1>1, <1>3, <1>5, AppendNew
<1>7. uv_writes' \in Seq(Writes) /\ Matching'
  <2>1. CASE handle = "open"
    <3>1. uv_writes' = write_queue'
      BY <1>1, <1>5, <2>1, Zenon
    <3> QED
      BY <1>6, <3>1, PrefixSelf DEF Matching
  <2>2. CASE handle # "open"
    <3>1. IsPrefix(uv_writes, Append(write_queue, w))
      BY <1>3, <1>5, PrefixAppend
    <3>2. uv_writes' = uv_writes /\ handle' # "open"
      BY <1>1, <2>2
    <3>3. IsPrefix(uv_writes', write_queue')
      BY <1>1, <3>1, <3>2, Zenon
    <3> QED
      BY <1>5, <3>2, <3>3 DEF Matching
  <2> QED
    BY <2>1, <2>2
<1>8. TypeOK'
  BY <1>1, <1>2, <1>6, <1>7 DEF IInv, TypeOK
<1>9. Life'
  BY <1>1, <1>2, <1>3 DEF IInv, Life, Alive
<1>10. Calls'
  <2>1. w \notin Ids(read_queue, Request) \cup ToSet(write_queue)
    BY <1>4 DEF IInv, Calls
  <2> QED
    BY <1>1, <1>2, <1>4, <1>6, <2>1 DEF IInv, Calls
<1>11. Stream'
  BY <1>1, SameStream
<1> QED
  BY <1>7, <1>8, <1>9, <1>10, <1>11 DEF IInv

\* A task ends the process, or closes the handle.
LEMMA RunOtherIInv == ASSUME IInv, RunOnNull \/ RunClose \/ RunCloseAgain PROVE IInv'
<1>1. PICK op : NextTask(op)
  BY DEF RunOnNull, RunClose, RunCloseAgain
<1>2. /\ UNCHANGED <<owner, called, answer, received, read_queue, write_queue, uv_writes,
                     sent, consumed>>
      /\ \/ UNCHANGED <<keep_alive, closing, handle>> /\ failed' # "no"
         \/ UNCHANGED failed /\ closing' = TRUE /\ handle' = "closing" /\ keep_alive' = TRUE
  BY DEF RunOnNull, RunClose, RunCloseAgain, clientVars, answerVars, queueVars, peerVars
<1>3. tasks' \in Seq(Call \cup {Close}) /\ Calls'
  BY <1>1, <1>2, NextTaskKeeps, TaskDoneCalls
<1>4. TypeOK'
  BY <1>2, <1>3 DEF IInv, TypeOK
<1>5. Life' /\ Matching'
  BY <1>2 DEF IInv, Life, Matching, Alive
<1>6. Stream'
  BY <1>2, SameStream
<1> QED
  BY <1>3, <1>4, <1>5, <1>6 DEF IInv

------------------------------------------------------------------------------
(* The callbacks. *)

\* libuv answers its first write, which is the first of write_queue_.
LEMMA WriteIInv == ASSUME IInv, WriteDone \/ WriteCancelled PROVE IInv'
<1> DEFINE w == Head(write_queue)
<1>1. PICK status \in {"value", "exception"} : on_write(status)
  BY DEF WriteDone, WriteCancelled
<1>2. /\ uv_writes # <<>> /\ uv_writes' = Tail(uv_writes)
      /\ UNCHANGED <<owner, called, tasks, received, read_queue, keep_alive, closing, failed,
                     handle, sent, consumed>>
  BY DEF WriteDone, WriteCancelled, UnchangedButWrites, clientVars, peerVars
<1>3. answer' = [answer EXCEPT ![w] = status] /\ write_queue' = Tail(write_queue)
  BY <1>1 DEF on_write
<1>4. /\ write_queue \in Seq(Writes) /\ uv_writes \in Seq(Writes)
      /\ IsPrefix(uv_writes, write_queue) /\ (handle = "open" => uv_writes = write_queue)
      /\ answer \in [Reads \cup Writes -> {"pending", "value", "exception"}]
  BY DEF IInv, TypeOK, Matching
<1>5. write_queue # <<>> /\ IsPrefix(uv_writes', write_queue')
  <2>1. write_queue # <<>> /\ IsPrefix(Tail(uv_writes), Tail(write_queue))
    BY <1>2, <1>4, PrefixTail
  <2> QED
    BY <1>2, <1>3, <2>1, Zenon
<1>6. /\ write_queue' \in Seq(Writes) /\ w \in Writes
      /\ ToSet(write_queue) = ToSet(write_queue') \cup {w}
      /\ IsInjective(write_queue) => IsInjective(write_queue') /\ w \notin ToSet(write_queue')
  BY <1>3, <1>4, <1>5, PopHead
<1>7. uv_writes' \in Seq(Writes)
  BY <1>2, <1>4, PopHead
<1>8. handle' = "open" => uv_writes' = write_queue'
  BY <1>2, <1>3, <1>4, Zenon
<1> HIDE DEF w
<1>9. /\ answer' \in [Reads \cup Writes -> {"pending", "value", "exception"}]
      /\ \A c \in Reads \cup Writes : c # w => answer'[c] = answer[c]
  BY <1>1, <1>3, <1>4, <1>6
<1>10. TypeOK'
  BY <1>2, <1>6, <1>7, <1>9 DEF IInv, TypeOK
<1>11. Life' /\ Matching'
  BY <1>2, <1>5, <1>8 DEF IInv, Life, Matching, Alive
<1>12. \A r \in Reads : r # w
  BY <1>6, CallNames
<1>13. Calls'
  <2>1. /\ Distinct(tasks, Call) /\ Distinct(read_queue, Request) /\ IsInjective(write_queue)
        /\ Ids(tasks, Call) \cap (Ids(read_queue, Request) \cup ToSet(write_queue)) = {}
        /\ \A c \in Ids(tasks, Call) \cup Ids(read_queue, Request) \cup ToSet(write_queue) :
             c \in called /\ answer[c] = "pending"
        /\ \A c \in Reads \cup Writes : c \notin called => answer[c] = "pending"
    BY DEF IInv, Calls
  <2>2. \A c \in Ids(read_queue, Request) : c \in Reads
    BY Shapes DEF Ids
  <2>3. Ids(tasks, Call) \subseteq Reads \cup Writes /\ ToSet(write_queue') \subseteq Writes
    <3>1. ToSet(write_queue') \subseteq Writes
      BY <1>6 DEF ToSet
    <3> QED
      BY <3>1 DEF Ids
  <2>4. w \notin Ids(tasks, Call) \cup Ids(read_queue, Request) \cup ToSet(write_queue')
    BY <1>6, <1>12, <2>1, <2>2
  <2>5. \A c \in Ids(tasks, Call) \cup Ids(read_queue, Request) \cup ToSet(write_queue') :
          c \in called /\ answer'[c] = "pending"
    BY <1>6, <1>9, <2>1, <2>2, <2>3, <2>4
  <2>6. \A c \in Reads \cup Writes : c \notin called => answer'[c] = "pending"
    BY <1>6, <1>9, <2>1
  <2> QED
    BY <1>2, <1>6, <2>1, <2>5, <2>6 DEF Calls
<1>14. Stream'
  <2>1. \A r \in Reads : answer'[r] = answer[r]
    BY <1>9, <1>12
  <2> QED
    BY <1>2, <2>1 DEF IInv, Stream, Bytes
<1> QED
  BY <1>10, <1>11, <1>13, <1>14 DEF IInv

\* What fails ends the process; the handle is closed; the peer sends.
LEMMA OtherIInv ==
  ASSUME IInv, ReadUnasked \/ on_close \/ Peer \/ Terminated \/ UNCHANGED vars
  PROVE  IInv'
<1>1. /\ UNCHANGED <<owner, called, tasks, answer, received, read_queue, write_queue,
                     closing, uv_writes, consumed>>
      /\ \/ UNCHANGED <<keep_alive, handle, sent>> /\ failed' # "no"
         \/ UNCHANGED <<keep_alive, handle, failed, sent>>
         \/ UNCHANGED <<keep_alive, handle, failed>> /\ sent' = sent + 1
         \/ UNCHANGED <<failed, sent>> /\ handle = "closing" /\ handle' = "closed" /\ keep_alive' = FALSE
  BY DEF ReadUnasked, on_close, Peer, Terminated, vars, clientVars, answerVars, queueVars,
     peerVars
<1>2. sent' \in Nat
  <2>1. sent \in Nat
    BY DEF IInv, TypeOK
  <2> QED
    BY <1>1, <2>1
<1>3. TypeOK'
  BY <1>1, <1>2 DEF IInv, TypeOK
<1>4. Life' /\ Matching'
  BY <1>1 DEF IInv, Life, Matching, Alive
<1>5. Calls'
  BY <1>1, SameCalls
<1>6. Stream'
  BY <1>1, SameStream
<1> QED
  BY <1>3, <1>4, <1>5, <1>6 DEF IInv

\* The buffer of on_alloc_read: the vector grows by zeros, up to its capacity.
LEMMA Allocated ==
  ASSUME NEW h \in Request, Len(h.data) <= h.capacity
  PROVE  LET g == on_alloc_read(h)
         IN  /\ g \in Request /\ g.id = h.id /\ g.capacity = h.capacity /\ g.base \in Nat
             /\ \A x \in ToSet(g.data) : x = Zero \/ x \in ToSet(h.data)
<1> DEFINE old_s == Len(h.data)
           new_s == Minimum(old_s + Suggested, h.capacity)
           grown == [j \in 1..new_s |-> IF j <= old_s THEN h.data[j] ELSE Zero]
           b == IF h.base = None THEN 0 ELSE h.base + h.len
           l == IF h.base = None THEN new_s ELSE new_s - old_s
           g == on_alloc_read(h)
<1>1. /\ h.id \in Reads /\ h.capacity \in Nat /\ h.data \in Seq(Nat) /\ h.base \in Nat \cup {None}
      /\ h.len \in Nat /\ Suggested \in Nat
  BY CallNames DEF Request
<1>2. old_s \in Nat /\ new_s \in Nat /\ new_s >= old_s
  BY <1>1 DEF Minimum
<1>3. b \in Nat
  BY <1>1
<1>4. l \in Nat
  <2>1. new_s - old_s \in Nat
    BY <1>2
  <2> QED
    BY <1>2, <2>1
<1> HIDE DEF old_s, new_s
<1>5. \A j \in 1..old_s : h.data[j] \in Nat /\ h.data[j] \in ToSet(h.data)
  BY <1>1 DEF ToSet, old_s
<1>6. /\ grown \in Seq(Nat) /\ DOMAIN grown = 1..new_s
      /\ \A j \in 1..new_s : grown[j] = Zero \/ grown[j] \in ToSet(h.data)
  BY <1>2, <1>5 DEF Zero
<1>7. g = [h EXCEPT !.data = grown, !.base = b, !.len = l]
  BY DEF on_alloc_read, old_s, new_s
<1> HIDE DEF grown, b, l, g
<1>8. /\ g \in Request /\ g.id = h.id /\ g.capacity = h.capacity /\ g.base = b /\ g.data = grown
  BY <1>3, <1>4, <1>6, <1>7 DEF Request
<1>9. \A x \in ToSet(grown) : x = Zero \/ x \in ToSet(h.data)
  BY <1>6 DEF ToSet
<1> QED
  BY <1>3, <1>8, <1>9 DEF g

\* The data of a request that was filled: what it had, what libuv has just handed
\* over, and zeros.
LEMMA FilledBytes ==
  ASSUME NEW g \in Request, g.base \in Nat, NEW n \in Nat, consumed \in Nat
  PROVE  /\ Filled(g, n) \in Seq(Nat) /\ Len(Filled(g, n)) = g.base + n
         /\ \A x \in ToSet(Filled(g, n)) :
              x = Zero \/ x \in ToSet(g.data) \/ (x > consumed /\ x <= consumed + n)
<1> DEFINE b == g.base
           d == g.data
           e(j) == IF j > Len(d) THEN Zero ELSE IF j > b THEN consumed + j - b ELSE d[j]
           f == [j \in 1..b + n |-> e(j)]
<1>1. Filled(g, n) = f
  BY DEF Filled
<1>2. b \in Nat /\ d \in Seq(Nat)
  BY DEF Request
<1> HIDE DEF b, d
<1>3. \A j \in DOMAIN d : d[j] \in ToSet(d)
  BY <1>2 DEF ToSet
<1>4. ASSUME NEW j \in 1..b + n
      PROVE  /\ e(j) \in Nat
             /\ e(j) = Zero \/ e(j) \in ToSet(d) \/ (e(j) > consumed /\ e(j) <= consumed + n)
  <2>1. CASE j > Len(d)
    BY <2>1 DEF Zero
  <2>2. CASE ~(j > Len(d)) /\ j > b
    <3>1. e(j) = consumed + j - b
      BY <2>2
    <3>2. /\ consumed + j - b \in Nat /\ consumed + j - b > consumed
          /\ consumed + j - b <= consumed + n
      BY <1>2, <1>4, <2>2
    <3> QED
      BY <3>1, <3>2
  <2>3. CASE ~(j > Len(d)) /\ ~(j > b)
    <3>1. e(j) = d[j] /\ j \in DOMAIN d
      BY <1>2, <1>4, <2>3
    <3> QED
      BY <1>2, <1>3, <3>1
  <2> QED
    BY <2>1, <2>2, <2>3
<1> HIDE DEF e
<1>5. f \in Seq(Nat) /\ Len(f) = b + n /\ DOMAIN f = 1..b + n
  BY <1>2, <1>4
<1>6. \A x \in ToSet(f) : x = Zero \/ x \in ToSet(d) \/ (x > consumed /\ x <= consumed + n)
  BY <1>4, <1>5 DEF ToSet
<1> QED
  BY <1>1, <1>5, <1>6 DEF b, d

\* The request at the front.
LEMMA FrontRequest ==
  ASSUME IInv, read_queue # <<>>, NEW h, h = Head(read_queue), NEW t, t = Tail(read_queue)
  PROVE  /\ h \in Request /\ h = read_queue[1] /\ 1 \in DOMAIN read_queue
         /\ h.id \in Reads /\ h.id \in Ids(read_queue, Request)
         /\ h.id \in called /\ answer[h.id] = "pending" /\ received[h.id] = <<>>
         /\ h.id \notin Ids(tasks, Call) /\ h.id \notin ToSet(write_queue)
         /\ t \in Seq(Request)
         /\ Ids(t, Request) \subseteq Ids(read_queue, Request) \ {h.id}
         /\ Distinct(t, Request)
<1>1. read_queue \in Seq(Request)
  BY DEF IInv, TypeOK
<1>2. h = read_queue[1] /\ 1 \in DOMAIN read_queue
  BY <1>1
<1>3. /\ t \in Seq(Request) /\ h \in Request
      /\ Ids(t, Request) \subseteq Ids(read_queue, Request)
      /\ h \in Request /\ h.id \in Reads \cup Writes => h.id \in Ids(read_queue, Request)
      /\ Distinct(read_queue, Request) =>
           /\ Distinct(t, Request)
           /\ h \in Request => h.id \notin Ids(t, Request)
  BY <1>1, PoppedIds
<1>4. h.id \in Reads
  BY <1>3, Shapes
<1>5. /\ Distinct(read_queue, Request) /\ h.id \in Ids(read_queue, Request)
      /\ h.id \in called /\ answer[h.id] = "pending" /\ h.id \notin Ids(tasks, Call)
  BY <1>3, <1>4 DEF IInv, Calls
<1>6. received[h.id] = <<>>
  BY <1>4, <1>5 DEF IInv, Stream
<1>7. h.id \notin ToSet(write_queue)
  <2>1. ToSet(write_queue) \subseteq Writes
    BY DEF IInv, TypeOK, ToSet
  <2> QED
    BY <1>4, <2>1, CallNames
<1> QED
  BY <1>2, <1>3, <1>4, <1>5, <1>6, <1>7

\* Data a request may come to have: what it has, and what was consumed since.
Gained(data, h) ==
  /\ data \in Seq(Nat)
  /\ consumed' \in Nat /\ consumed' >= consumed
  /\ \A x \in ToSet(data) \ {Zero} :
       x \in ToSet(h.data) \/ (x > consumed /\ x <= consumed')

\* The bytes of a request, and those it gains, follow those of the reads that were
\* answered.
LEMMA GainedOrder ==
  ASSUME IInv, read_queue # <<>>, NEW data, Gained(data, Head(read_queue))
  PROVE  /\ \A x \in ToSet(data) : x <= consumed'
         /\ \A r \in Reads : \A x \in Bytes(r), y \in ToSet(data) \ {Zero} : x < y
         /\ \A r \in Reads : \A x \in Bytes(r) : x <= consumed'
<1> DEFINE h == Head(read_queue)
<1>1. h = read_queue[1] /\ 1 \in DOMAIN read_queue
  BY FrontRequest
<1> HIDE DEF h
<1>2. /\ data \in Seq(Nat) /\ consumed' \in Nat /\ consumed' >= consumed
      /\ \A x \in ToSet(data) \ {Zero} :
           x \in ToSet(h.data) \/ (x > consumed /\ x <= consumed')
  BY DEF Gained, h
<1>3. consumed \in Nat /\ ToSet(data) \subseteq Nat
  BY <1>2 DEF ToSet, IInv, TypeOK
<1>4. \A r \in Reads : Bytes(r) \subseteq Nat
  BY DEF IInv, TypeOK, Bytes, ToSet
<1>5. /\ \A x \in ToSet(h.data) : x <= consumed
      /\ \A r \in Reads : \A x \in Bytes(r), y \in ToSet(h.data) \ {Zero} : x < y
      /\ \A r \in Reads : \A x \in Bytes(r) : x <= consumed
  BY <1>1 DEF IInv, Stream
<1>6. \A x \in ToSet(data) : x <= consumed'
  <2>1. ASSUME NEW x \in ToSet(data) PROVE x <= consumed'
    <3>1. CASE x = Zero
      BY <1>2, <3>1 DEF Zero
    <3>2. CASE x # Zero
      <4>1. x \in Nat /\ (x <= consumed \/ x <= consumed')
        BY <1>2, <1>3, <1>5, <3>2
      <4> QED
        BY <1>2, <1>3, <4>1
    <3> QED
      BY <3>1, <3>2
  <2> QED
    BY <2>1
<1>7. ASSUME NEW r \in Reads, NEW x \in Bytes(r), NEW y \in ToSet(data) \ {Zero}
      PROVE  x < y
  <2>1. x \in Nat /\ y \in Nat /\ x <= consumed
    BY <1>3, <1>4, <1>5
  <2>2. y \in ToSet(h.data) \/ y > consumed
    BY <1>2
  <2>3. CASE y \in ToSet(h.data)
    BY <1>5, <2>3
  <2>4. CASE y > consumed
    BY <1>3, <2>1, <2>4
  <2> QED
    BY <2>2, <2>3, <2>4
<1>8. ASSUME NEW r \in Reads, NEW x \in Bytes(r) PROVE x <= consumed'
  <2>1. x \in Nat /\ x <= consumed
    BY <1>4, <1>5
  <2> QED
    BY <1>2, <1>3, <2>1
<1> QED
  BY <1>6, <1>7, <1>8

\* What a callback for reads leaves alone.
UnchangedButReads ==
  UNCHANGED <<owner, called, tasks, write_queue, keep_alive, closing, handle, uv_writes, sent>>

\* The read at the front is answered.
LEMMA AnswerFront ==
  ASSUME IInv, read_queue # <<>>, NEW v \in {"value", "exception"}, NEW data,
         Gained(data, Head(read_queue)),
         answer' = [answer EXCEPT ![Head(read_queue).id] = v],
         received' = [received EXCEPT ![Head(read_queue).id] = data],
         read_queue' = Tail(read_queue), UNCHANGED failed, UnchangedButReads
  PROVE  IInv'
<1> DEFINE h == Head(read_queue)
           t == Tail(read_queue)
<1>1. /\ h \in Request /\ h = read_queue[1] /\ 1 \in DOMAIN read_queue
      /\ h.id \in Reads /\ h.id \in Ids(read_queue, Request)
      /\ h.id \in called /\ answer[h.id] = "pending" /\ received[h.id] = <<>>
      /\ h.id \notin Ids(tasks, Call) /\ h.id \notin ToSet(write_queue)
      /\ t \in Seq(Request)
      /\ Ids(t, Request) \subseteq Ids(read_queue, Request) \ {h.id}
      /\ Distinct(t, Request)
  BY FrontRequest
<1>2. /\ \A x \in ToSet(data) : x <= consumed'
      /\ \A r \in Reads : \A x \in Bytes(r), y \in ToSet(data) \ {Zero} : x < y
      /\ \A r \in Reads : \A x \in Bytes(r) : x <= consumed'
  BY GainedOrder
<1>3. data \in Seq(Nat) /\ consumed' \in Nat
  BY DEF Gained
<1>4. \A j \in DOMAIN t : t[j].data = <<>> /\ Len(t[j].data) <= t[j].capacity
  <2>1. ASSUME NEW j \in DOMAIN t
        PROVE  j + 1 \in DOMAIN read_queue /\ t[j] = read_queue[j + 1] /\ j + 1 # 1
    <3>1. read_queue \in Seq(Request)
      BY DEF IInv, TypeOK
    <3> QED
      BY <3>1
  <2> HIDE DEF t
  <2> QED
    BY <2>1 DEF IInv, Stream
<1>5. /\ answer' = [answer EXCEPT ![h.id] = v] /\ received' = [received EXCEPT ![h.id] = data]
      /\ read_queue' = t
  OBVIOUS
<1> HIDE DEF h, t
<1>6. /\ UNCHANGED <<owner, called, tasks, write_queue, keep_alive, closing, handle,
                     uv_writes, sent, failed>>
  BY DEF UnchangedButReads
<1>7. /\ answer' \in [Reads \cup Writes -> {"pending", "value", "exception"}]
      /\ answer'[h.id] = v /\ \A c \in Reads \cup Writes : c # h.id => answer'[c] = answer[c]
  BY <1>1, <1>5 DEF IInv, TypeOK
<1>8. /\ received' \in [Reads -> Seq(Nat)]
      /\ received'[h.id] = data /\ \A r \in Reads : r # h.id => received'[r] = received[r]
  BY <1>1, <1>3, <1>5 DEF IInv, TypeOK
<1>9. TypeOK'
  BY <1>1, <1>3, <1>5, <1>6, <1>7, <1>8 DEF IInv, TypeOK
<1>10. Life' /\ Matching'
  BY <1>6 DEF IInv, Life, Matching, Alive
<1>11. Calls'
  <2>1. /\ Distinct(tasks, Call) /\ IsInjective(write_queue)
        /\ Ids(tasks, Call) \cap (Ids(read_queue, Request) \cup ToSet(write_queue)) = {}
        /\ \A c \in Ids(tasks, Call) \cup Ids(read_queue, Request) \cup ToSet(write_queue) :
             c \in called /\ answer[c] = "pending"
        /\ \A c \in Reads \cup Writes : c \notin called => answer[c] = "pending"
    BY DEF IInv, Calls
  <2>2. called \subseteq Reads \cup Writes
    BY DEF IInv, TypeOK
  <2>3. \A c \in Ids(tasks, Call) \cup Ids(t, Request) \cup ToSet(write_queue) :
          c \in called /\ answer'[c] = "pending"
    BY <1>1, <1>7, <2>1, <2>2
  <2>4. \A c \in Reads \cup Writes : c \notin called => answer'[c] = "pending"
    BY <1>1, <1>7, <2>1
  <2> QED
    BY <1>1, <1>5, <1>6, <2>1, <2>3, <2>4 DEF Calls
<1>12. Stream'
  <2> DEFINE B(r) == ToSet(received'[r]) \ {Zero}
  <2>1. B(h.id) = ToSet(data) \ {Zero} /\ \A r \in Reads : r # h.id => B(r) = Bytes(r)
    BY <1>8 DEF Bytes
  <2> HIDE DEF B
  <2>2. \A r \in Reads : answer'[r] = "pending" => received'[r] = <<>>
    BY <1>7, <1>8 DEF IInv, Stream
  <2>3. \A r \in Reads : \A x \in B(r) : x <= consumed'
    BY <1>2, <2>1
  <2>4. \A q, r \in Reads :
          q # r => \/ \A x \in B(q), y \in B(r) : x < y
                   \/ \A x \in B(q), y \in B(r) : y < x
    <3>1. ASSUME NEW q \in Reads, NEW r \in Reads, q # r, q # h.id, r # h.id
          PROVE  \/ \A x \in B(q), y \in B(r) : x < y
                 \/ \A x \in B(q), y \in B(r) : y < x
      BY <2>1, <3>1 DEF IInv, Stream
    <3>2. ASSUME NEW r \in Reads, r # h.id
          PROVE  \A x \in B(r), y \in B(h.id) : x < y
      BY <1>2, <2>1, <3>2
    <3> QED
      BY <3>1, <3>2
  <2>5. ASSUME NEW j \in DOMAIN t
        PROVE  /\ \A x \in ToSet(t[j].data) : x <= consumed'
               /\ \A r \in Reads : \A x \in B(r), y \in ToSet(t[j].data) \ {Zero} : x < y
    BY <1>4, EmptyElements
  <2> QED
    BY <1>4, <1>5, <2>2, <2>3, <2>4, <2>5 DEF Stream, Bytes, B
<1> QED
  BY <1>9, <1>10, <1>11, <1>12 DEF IInv

\* The read at the front has more data, and waits for more.
LEMMA KeepFront ==
  ASSUME IInv, read_queue # <<>>, NEW e \in Request, e.id = Head(read_queue).id,
         Len(e.data) <= e.capacity, Gained(e.data, Head(read_queue)),
         read_queue' = [read_queue EXCEPT ![1] = e],
         UNCHANGED <<answer, received, failed>>, UnchangedButReads
  PROVE  IInv'
<1> DEFINE q == [read_queue EXCEPT ![1] = e]
<1>1. read_queue \in Seq(Request) /\ read_queue[1] = Head(read_queue) /\ read_queue[1] \in Request
  BY FrontRequest DEF IInv, TypeOK
<1>2. q \in Seq(Request) /\ Ids(q, Request) \subseteq Ids(read_queue, Request)
  BY <1>1, ReplacedIds
<1>3. Distinct(q, Request)
  <2>1. Distinct(read_queue, Request)
    BY DEF IInv, Calls
  <2> QED
    BY <1>1, <2>1, ReplacedIds
<1>4. /\ \A x \in ToSet(e.data) : x <= consumed'
      /\ \A r \in Reads : \A x \in Bytes(r), y \in ToSet(e.data) \ {Zero} : x < y
      /\ \A r \in Reads : \A x \in Bytes(r) : x <= consumed'
  BY GainedOrder
<1>5. consumed' \in Nat
  BY DEF Gained
<1>6. \A j \in DOMAIN q :
        \/ q[j] = e /\ j = 1
        \/ q[j] = read_queue[j] /\ j \in DOMAIN read_queue /\ j # 1
  BY <1>1
<1>7. read_queue' = q
  OBVIOUS
<1> HIDE DEF q
<1>8. UNCHANGED <<owner, called, tasks, write_queue, keep_alive, closing, handle, uv_writes,
                  sent, answer, received, failed>>
  BY DEF UnchangedButReads
<1>9. TypeOK'
  BY <1>2, <1>5, <1>7, <1>8 DEF IInv, TypeOK
<1>10. Life' /\ Matching'
  BY <1>8 DEF IInv, Life, Matching, Alive
<1>11. Calls'
  BY <1>2, <1>3, <1>7, <1>8 DEF IInv, Calls
<1>12. Stream'
  <2>1. ASSUME NEW j \in DOMAIN q
        PROVE  /\ j # 1 => q[j].data = <<>>
               /\ Len(q[j].data) <= q[j].capacity
               /\ \A x \in ToSet(q[j].data) : x <= consumed'
               /\ \A r \in Reads : \A x \in Bytes(r), y \in ToSet(q[j].data) \ {Zero} : x < y
    <3>1. CASE q[j] = e /\ j = 1
      BY <1>4, <3>1
    <3>2. CASE q[j] = read_queue[j] /\ j \in DOMAIN read_queue /\ j # 1
      <4>1. q[j].data = <<>> /\ Len(q[j].data) <= q[j].capacity
        BY <3>2 DEF IInv, Stream
      <4> QED
        BY <4>1, EmptyElements
    <3> QED
      BY <1>6, <3>1, <3>2
  <2> QED
    BY <1>4, <1>7, <1>8, <2>1 DEF IInv, Stream, Bytes
<1> QED
  BY <1>9, <1>10, <1>11, <1>12 DEF IInv

\* The assertion on what was read fails.
LEMMA TotalFails ==
  ASSUME IInv, consumed' \in Nat, consumed' >= consumed, failed' # "no",
         UNCHANGED <<answer, received, read_queue>>, UnchangedButReads
  PROVE  IInv'
<1>1. UNCHANGED <<owner, called, tasks, write_queue, keep_alive, closing, handle, uv_writes,
                  sent, answer, received, read_queue>>
  BY DEF UnchangedButReads
<1>2. TypeOK'
  BY <1>1 DEF IInv, TypeOK
<1>3. Life' /\ Matching' /\ Calls'
  BY <1>1 DEF IInv, Life, Matching, Calls, Alive
<1>4. Stream'
  <2>1. consumed \in Nat
    BY DEF IInv, TypeOK
  <2>2. \A x \in Nat : x <= consumed => x <= consumed'
    BY <2>1
  <2>3. \A r \in Reads : Bytes(r) \subseteq Nat
    BY DEF IInv, TypeOK, Bytes, ToSet
  <2>4. \A j \in DOMAIN read_queue : ToSet(read_queue[j].data) \subseteq Nat
    <3>1. \A j \in DOMAIN read_queue : read_queue[j].data \in Seq(Nat)
      <4>1. \A j \in DOMAIN read_queue : read_queue[j] \in Request
        BY DEF IInv, TypeOK
      <4>2. \A g \in Request : g.data \in Seq(Nat)
        BY DEF Request
      <4> QED
        BY <4>1, <4>2
    <3>2. ASSUME NEW s \in Seq(Nat) PROVE ToSet(s) \subseteq Nat
      BY DEF ToSet
    <3> QED
      BY <3>1, <3>2
  <2>5. \A r \in Reads : \A x \in Bytes(r) : x <= consumed'
    BY <2>2, <2>3 DEF IInv, Stream
  <2>6. \A j \in DOMAIN read_queue : \A x \in ToSet(read_queue[j].data) : x <= consumed'
    BY <2>2, <2>4 DEF IInv, Stream
  <2> QED
    BY <1>1, <2>5, <2>6 DEF IInv, Stream, Bytes
<1> QED
  BY <1>2, <1>3, <1>4 DEF IInv

\* on_read, when the request at the front was filled with some bytes or with none.
LEMMA ReadFront ==
  ASSUME IInv, read_queue # <<>>, NEW nread \in Nat,
         Read(on_alloc_read(Head(read_queue)), nread)
  PROVE  IInv'
<1> DEFINE h == Head(read_queue)
           req == on_alloc_read(h)
           data == Filled(req, nread)
<1>1. h \in Request /\ Len(h.data) <= h.capacity
  <2>1. h = read_queue[1] /\ 1 \in DOMAIN read_queue /\ h \in Request
    BY FrontRequest
  <2> HIDE DEF h
  <2> QED
    BY <2>1 DEF IInv, Stream
<1>2. /\ consumed' = consumed + nread
      /\ UNCHANGED <<owner, called, tasks, write_queue, keep_alive, closing, handle,
                     uv_writes, sent>>
      /\ \/ failed' = "total" /\ UNCHANGED <<read_queue, answer, received>>
         \/ /\ ~(req.base + nread > req.capacity) /\ UNCHANGED failed
            /\ answer' = [answer EXCEPT ![req.id] = "value"]
            /\ received' = [received EXCEPT ![req.id] = data]
            /\ read_queue' = Tail(read_queue)
         \/ /\ ~(req.base + nread > req.capacity) /\ UNCHANGED <<failed, answer, received>>
            /\ read_queue' = [read_queue EXCEPT ![1] = [req EXCEPT !.data = data]]
  BY Zenon DEF Read, clientVars, answerVars
<1>3. consumed \in Nat /\ consumed' \in Nat /\ consumed' >= consumed
  <2>1. consumed \in Nat
    BY DEF IInv, TypeOK
  <2>2. consumed + nread \in Nat /\ consumed + nread >= consumed
    BY <2>1
  <2> QED
    BY <1>2, <2>1, <2>2, Zenon
<1>4. /\ req \in Request /\ req.id = h.id /\ req.capacity = h.capacity /\ req.base \in Nat
      /\ \A x \in ToSet(req.data) : x = Zero \/ x \in ToSet(h.data)
  BY <1>1, Allocated
<1> HIDE DEF req
<1>5. /\ data \in Seq(Nat) /\ Len(data) = req.base + nread
      /\ \A x \in ToSet(data) :
           x = Zero \/ x \in ToSet(req.data) \/ (x > consumed /\ x <= consumed + nread)
  BY <1>3, <1>4, FilledBytes
<1> HIDE DEF data
<1>6. Gained(data, h)
  BY <1>2, <1>3, <1>4, <1>5 DEF Gained
<1>7. UnchangedButReads
  BY <1>2 DEF UnchangedButReads
<1>8. CASE failed' = "total" /\ UNCHANGED <<read_queue, answer, received>>
  BY <1>3, <1>7, <1>8, TotalFails
<1>9. CASE /\ UNCHANGED failed
           /\ answer' = [answer EXCEPT ![req.id] = "value"]
           /\ received' = [received EXCEPT ![req.id] = data]
           /\ read_queue' = Tail(read_queue)
  <2>1. req.id = Head(read_queue).id /\ Gained(data, Head(read_queue))
    BY <1>4, <1>6
  <2> HIDE DEF h
  <2> QED
    BY <1>7, <1>9, <2>1, AnswerFront
<1>10. CASE /\ ~(req.base + nread > req.capacity) /\ UNCHANGED <<failed, answer, received>>
            /\ read_queue' = [read_queue EXCEPT ![1] = [req EXCEPT !.data = data]]
  <2> DEFINE e == [req EXCEPT !.data = data]
  <2>1. e \in Request /\ e.id = req.id /\ e.data = data /\ e.capacity = req.capacity
    BY <1>4, <1>5 DEF Request
  <2>2. req.base + nread <= req.capacity
    <3>1. req.base \in Nat /\ req.capacity \in Nat
      BY <1>4 DEF Request
    <3> QED
      BY <1>10, <3>1
  <2>3. Len(e.data) <= e.capacity
    BY <1>5, <2>1, <2>2
  <2>4. read_queue' = [read_queue EXCEPT ![1] = e]
    BY <1>10
  <2> HIDE DEF e
  <2>5. e.id = Head(read_queue).id /\ Gained(e.data, Head(read_queue))
    BY <1>4, <1>6, <2>1
  <2> HIDE DEF h
  <2> QED
    BY <1>7, <1>10, <2>1, <2>3, <2>4, <2>5, KeepFront
<1> QED
  BY <1>2, <1>8, <1>9, <1>10

\* The callbacks that read.
LEMMA ReadIInv == ASSUME IInv, ReadData \/ ReadNothing PROVE IInv'
<1>1. read_queue # <<>>
  BY DEF ReadData, ReadNothing
<1>2. CASE ReadNothing
  <2>1. Read(on_alloc_read(Head(read_queue)), 0)
    BY <1>2 DEF ReadNothing
  <2> QED
    BY <1>1, <2>1, ReadFront
<1>3. CASE ReadData
  <2> DEFINE g == on_alloc_read(Head(read_queue))
             n == Minimum(g.len, sent - consumed)
  <2>1. Read(g, n) /\ sent > consumed
    BY <1>3 DEF ReadData
  <2>2. g.len \in Nat
    <3>1. Head(read_queue) \in Request /\ Len(Head(read_queue).data) <= Head(read_queue).capacity
      <4> DEFINE h == Head(read_queue)
      <4>1. h = read_queue[1] /\ 1 \in DOMAIN read_queue /\ h \in Request
        BY <1>1, FrontRequest
      <4> HIDE DEF h
      <4>2. Len(h.data) <= h.capacity
        BY <4>1 DEF IInv, Stream
      <4> QED
        BY <4>1, <4>2 DEF h
    <3>2. g \in Request
      BY <3>1, Allocated
    <3> HIDE DEF g
    <3> QED
      BY <3>2 DEF Request
  <2>3. sent - consumed \in Nat
    <3>1. sent \in Nat /\ consumed \in Nat
      BY DEF IInv, TypeOK
    <3> QED
      BY <2>1, <3>1
  <2> HIDE DEF g
  <2>4. n \in Nat
    BY <2>2, <2>3, Zenon DEF Minimum
  <2> HIDE DEF n
  <2>5. Read(on_alloc_read(Head(read_queue)), n)
    BY <2>1 DEF g
  <2> QED
    BY <1>1, <2>4, <2>5, ReadFront
<1> QED
  BY <1>2, <1>3

\* The stream has ended: the read at the front gets nothing.
LEMMA ReadEndIInv == ASSUME IInv, ReadEnd PROVE IInv'
<1> DEFINE h == Head(read_queue)
<1>1. /\ read_queue # <<>> /\ answer' = [answer EXCEPT ![h.id] = "exception"]
      /\ read_queue' = Tail(read_queue) /\ UNCHANGED <<received, failed, consumed>>
      /\ UnchangedButReads
  BY DEF ReadEnd, clientVars, peerVars, UnchangedButReads
<1>2. received[h.id] = <<>> /\ h.id \in Reads
  BY <1>1, FrontRequest
<1>3. Gained(<<>>, h)
  <2>1. consumed \in Nat /\ consumed >= consumed
    BY DEF IInv, TypeOK
  <2>2. consumed' \in Nat /\ consumed' >= consumed
    BY <1>1, <2>1, Zenon
  <2> HIDE DEF h
  <2> QED
    BY <2>2, EmptyElements DEF Gained
<1> HIDE DEF h
<1>4. received' = [received EXCEPT ![h.id] = <<>>]
  BY <1>1, <1>2 DEF IInv, TypeOK
<1>5. /\ answer' = [answer EXCEPT ![Head(read_queue).id] = "exception"]
      /\ received' = [received EXCEPT ![Head(read_queue).id] = <<>>]
      /\ Gained(<<>>, Head(read_queue))
  BY <1>1, <1>3, <1>4 DEF h
<1> QED
  BY <1>1, <1>5, AnswerFront

------------------------------------------------------------------------------
(* The theorems. *)

\* Every step.
LEMMA NextIInv == IInv /\ [Next]_vars => IInv'
BY ClientIInv, RunReadIInv, RunWriteIInv, RunOtherIInv, WriteIInv, OtherIInv, ReadIInv,
   ReadEndIInv DEF Next, RunTask, Callback, CloseCallback

\* Every state of every socket satisfies the inductive invariant.
THEOREM IInvInvariant == Spec => []IInv
<1>1. Init => IInv
  BY InitIInv
<1>2. IInv /\ [Next]_vars => IInv'
  BY NextIInv
<1> QED
  BY <1>1, <1>2, PTL DEF Spec

\* libuv's raw pointer to the impl is valid as long as the handle is not closed.
THEOREM OwnerSafe == Spec => []HandleHasOwner
<1>1. IInv => HandleHasOwner
  <2> SUFFICES ASSUME IInv, Alive, handle # "closed" PROVE owner \/ keep_alive \/ tasks # <<>>
    BY DEF HandleHasOwner
  <2>1. CASE handle = "open"
    <3>1. owner \/ Close \in ToSet(tasks)
      BY <2>1 DEF IInv, TypeOK, Life
    <3> QED
      BY <3>1, EmptyElements
  <2>2. CASE handle = "closing"
    BY <2>2 DEF IInv, Life
  <2> QED
    BY <2>1, <2>2 DEF IInv, TypeOK
<1> QED
  BY <1>1, IInvInvariant, PTL

\* on_write answers the request that libuv answers.
THEOREM WriteSafe == Spec => []WritesMatch
<1>1. IInv => WritesMatch
  <2> SUFFICES ASSUME IInv PROVE WritesMatch
    OBVIOUS
  <2>1. IsPrefix(uv_writes, write_queue)
    BY DEF IInv, Matching
  <2>2. ASSUME NEW w \in Writes, Contains(write_queue, w) PROVE answer[w] = "pending"
    <3>1. w \in ToSet(write_queue)
      BY <2>2 DEF Contains, ToSet, IInv, TypeOK
    <3> QED
      BY <3>1 DEF IInv, Calls
  <2> QED
    BY <2>1, <2>2 DEF WritesMatch
<1> QED
  BY <1>1, IInvInvariant, PTL

\* Reads share the stream in the order they were asked for.
THEOREM ShareSafe == Spec => []ReadsShareTheStream
<1>1. IInv => ReadsShareTheStream
  <2> SUFFICES ASSUME IInv PROVE ReadsShareTheStream
    OBVIOUS
  <2>1. ASSUME NEW q \in Reads, NEW j \in DOMAIN read_queue, answer[q] # "pending"
        PROVE  read_queue[j].id # q
    <3>1. read_queue[j] \in Request
      BY DEF IInv, TypeOK
    <3>2. read_queue[j].id \in Ids(read_queue, Request)
      BY <3>1, Shapes DEF Ids
    <3> QED
      BY <2>1, <3>2 DEF IInv, Calls
  <2> QED
    BY <2>1 DEF IInv, Stream, ReadsShareTheStream
<1> QED
  BY <1>1, IInvInvariant, PTL

=============================================================================
