---------------------------- MODULE StreamProofs ----------------------------
(***************************************************************************)
(* Proofs about module Stream for every set of fibers and every number of  *)
(* tokens: no reader or writer is lost, no callback meets a null pointer,  *)
(* and no byte is lost, repeated or reordered.                             *)
(***************************************************************************)
EXTENDS Stream, TLAPS, FiniteSetTheorems, SequenceTheorems, WellFoundedInduction

\* Only the running fiber is in user code, and reading_fiber is in read().
OneRuns ==
  /\ running # Nil => fib[running] = "user"
  /\ \A f \in Fibers : fib[f] = "user" => f = running
  /\ reading_fiber # Nil => fib[reading_fiber] = "read"

\* The inductive invariant of the fibers' part of the state.
WaitInv ==
  /\ FiberTypes
  /\ OneRuns
  /\ NoLostReader
  /\ CallbacksHaveReader
  /\ RequestsMatchWaiters

-----------------------------------------------------------------------------
LEMMA QueuedRequests ==
  ASSUME FiberTypes, NEW i \in 1..Len(queue)
  PROVE  queue[i].fiber \in Fibers /\ queue[i].op \in Waits
<1>1. queue[i] \in Requests
  BY DEF FiberTypes
<1> QED BY <1>1 DEF Requests

\* A request is queued by the running fiber, which waits for it.
LEMMA SubmitKeepsWaitInv ==
  ASSUME WaitInv, NEW f \in Fibers, running = f, NEW w \in Waits,
         Submit(f, w), conn' \in Conns, shut' \in BOOLEAN,
         UNCHANGED <<readVars, _timeout, timer>>
  PROVE  WaitInv'
<1> USE StreamAssumption DEF WaitInv
<1> DEFINE r == [fiber |-> f, op |-> w]
<1>1. /\ fib[f] = "user" /\ f # Nil /\ w \in {"write", "shutdown"}
      /\ queue \in Seq(Requests)
      /\ r \in Requests /\ r.fiber = f /\ r.op = w
  BY DEF OneRuns, Waits, FiberTypes, Requests
<1>2. /\ running' = Nil
      /\ fib' \in [Fibers -> Doings]
      /\ \A g \in Fibers : fib'[g] = IF g = f THEN w ELSE fib[g]
  BY <1>1 DEF Submit, Park, FiberTypes, Doings, Waits
<1>3. /\ queue' \in Seq(Requests)
      /\ Len(queue') = Len(queue) + 1 /\ Len(queue) \in Nat
      /\ queue'[Len(queue) + 1] = r
      /\ \A i \in 1..Len(queue) : queue'[i] = queue[i]
      /\ \A i \in 1..Len(queue') : i \in 1..Len(queue) \/ i = Len(queue) + 1
  <2>1. queue' = Append(queue, r)
    BY DEF Submit
  <2> QED BY <1>1, <2>1, AppendProperties
<1> HIDE DEF r
<1>4. UNCHANGED <<reading_fiber, _decoder, reading, timer, _timeout>>
  BY DEF readVars
<1>5. FiberTypes' /\ OneRuns'
  BY <1>1, <1>2, <1>3, <1>4 DEF FiberTypes, OneRuns, Waits
<1>6. NoLostReader' /\ CallbacksHaveReader'
  BY <1>1, <1>2, <1>4 DEF NoLostReader, CallbacksHaveReader, FiberTypes
<1>7. RequestsMatchWaiters'
  <2>1. \A i \in 1..Len(queue) : /\ queue[i].fiber \in Fibers
                                 /\ queue[i].op \in Waits
                                 /\ queue[i].fiber # f
    <3> SUFFICES ASSUME NEW i \in 1..Len(queue)
                 PROVE  /\ queue[i].fiber \in Fibers
                        /\ queue[i].op \in Waits
                        /\ queue[i].fiber # f
      OBVIOUS
    <3>1. fib[queue[i].fiber] = queue[i].op
      BY DEF RequestsMatchWaiters
    <3> QED BY <3>1, <1>1, QueuedRequests DEF Waits
  <2>2. \A i \in 1..Len(queue') : fib'[queue'[i].fiber] = queue'[i].op
    <3> SUFFICES ASSUME NEW i \in 1..Len(queue')
                 PROVE  fib'[queue'[i].fiber] = queue'[i].op
      OBVIOUS
    <3>1. CASE i \in 1..Len(queue)
      <4>1. queue'[i] = queue[i]
        BY <3>1, <1>3
      <4>2. fib'[queue[i].fiber] = fib[queue[i].fiber]
        BY <3>1, <2>1, <1>2
      <4>3. fib[queue[i].fiber] = queue[i].op
        BY <3>1 DEF RequestsMatchWaiters
      <4> QED BY <4>1, <4>2, <4>3
    <3>2. CASE i = Len(queue) + 1
      BY <3>2, <1>1, <1>2, <1>3
    <3> QED BY <3>1, <3>2, <1>3
  <2>3. \A i, j \in 1..Len(queue') :
          queue'[i].fiber = queue'[j].fiber => i = j
    <3>1. \A i \in 1..Len(queue) : queue'[i].fiber = queue[i].fiber
      BY <1>3
    <3>2. queue'[Len(queue) + 1].fiber = f
      BY <1>1, <1>3
    <3>3. \A i, j \in 1..Len(queue) : queue[i].fiber = queue[j].fiber => i = j
      BY DEF RequestsMatchWaiters
    <3> QED BY <2>1, <3>1, <3>2, <3>3, <1>3
  <2>4. ASSUME NEW g \in Fibers, fib'[g] \in Waits
        PROVE  \E i \in 1..Len(queue') : queue'[i].fiber = g
    <3>1. CASE g = f
      BY <3>1, <1>1, <1>3
    <3>2. CASE g # f
      <4>1. PICK i \in 1..Len(queue) : queue[i].fiber = g
        BY <2>4, <3>2, <1>2 DEF RequestsMatchWaiters
      <4>2. i \in 1..Len(queue') /\ queue'[i].fiber = g
        BY <4>1, <1>3
      <4> QED BY <4>2
    <3> QED BY <3>1, <3>2
  <2> QED BY <2>2, <2>3, <2>4 DEF RequestsMatchWaiters
<1> QED BY <1>5, <1>6, <1>7

\* stream_on_write or stream_on_shutdown wakes the fiber of the first request.
LEMMA RequestDoneKeepsWaitInv ==
  ASSUME WaitInv, OnRequestDone
  PROVE  WaitInv'
<1> USE StreamAssumption DEF WaitInv
<1> DEFINE f == Head(queue).fiber
<1>1. /\ queue \in Seq(Requests) /\ queue # <<>>
      /\ Len(queue) \in Nat /\ 1 \in 1..Len(queue) /\ Head(queue) = queue[1]
  BY DEF OnRequestDone, FiberTypes
<1>2. /\ queue' \in Seq(Requests)
      /\ Len(queue') = Len(queue) - 1
      /\ \A i \in 1..Len(queue') : queue'[i] = queue[i + 1]
                                   /\ i + 1 \in 1..Len(queue) /\ i + 1 # 1
  <2>1. queue' = Tail(queue)
    BY DEF OnRequestDone
  <2> QED BY <1>1, <2>1, HeadTailProperties
<1>3. /\ f \in Fibers /\ f # Nil /\ f = queue[1].fiber
      /\ fib[f] \in {"write", "shutdown"} /\ reading_fiber # f
  <2>1. queue[1].fiber \in Fibers /\ queue[1].op \in Waits
    BY <1>1, QueuedRequests
  <2>2. fib[queue[1].fiber] = queue[1].op
    BY <1>1 DEF RequestsMatchWaiters
  <2> QED BY <1>1, <2>1, <2>2 DEF Waits, OneRuns
<1> HIDE DEF f
<1>4. /\ running' = f /\ running = Nil
      /\ fib' \in [Fibers -> Doings]
      /\ \A g \in Fibers : fib'[g] = IF g = f THEN "user" ELSE fib[g]
      /\ UNCHANGED <<reading_fiber, _decoder, reading, timer, _timeout,
                     conn, shut>>
  BY <1>3 DEF f, OnRequestDone, Wake, FiberTypes, Doings, readVars
<1>5. FiberTypes' /\ OneRuns'
  BY <1>2, <1>3, <1>4 DEF FiberTypes, OneRuns
<1>6. NoLostReader' /\ CallbacksHaveReader'
  BY <1>3, <1>4 DEF NoLostReader, CallbacksHaveReader, FiberTypes
<1>7. RequestsMatchWaiters'
  <2>1. \A i \in 1..Len(queue') : queue'[i].fiber \in Fibers \ {f}
    <3> SUFFICES ASSUME NEW i \in 1..Len(queue')
                 PROVE  queue'[i].fiber \in Fibers \ {f}
      OBVIOUS
    <3>1. /\ queue'[i] = queue[i + 1] /\ i + 1 \in 1..Len(queue)
          /\ i + 1 # 1
      BY <1>2
    <3>2. queue[i + 1].fiber \in Fibers
      BY <3>1, QueuedRequests
    <3>3. queue[i + 1].fiber # queue[1].fiber
      BY <3>1, <1>1 DEF RequestsMatchWaiters
    <3> QED BY <3>1, <3>2, <3>3, <1>3
  <2>2. \A i \in 1..Len(queue') : fib'[queue'[i].fiber] = queue'[i].op
    BY <1>2, <1>4, <2>1 DEF RequestsMatchWaiters
  <2>3. \A i, j \in 1..Len(queue') :
          queue'[i].fiber = queue'[j].fiber => i = j
    <3> SUFFICES ASSUME NEW i \in 1..Len(queue'), NEW j \in 1..Len(queue'),
                        queue'[i].fiber = queue'[j].fiber
                 PROVE  i = j
      OBVIOUS
    <3>1. i + 1 = j + 1
      BY <1>2 DEF RequestsMatchWaiters
    <3> QED BY <3>1, <1>1, <1>2
  <2>4. ASSUME NEW g \in Fibers, fib'[g] \in Waits
        PROVE  \E i \in 1..Len(queue') : queue'[i].fiber = g
    <3>1. g # f /\ fib[g] \in Waits
      BY <2>4, <1>4 DEF Waits
    <3>2. PICK i \in 1..Len(queue) : queue[i].fiber = g
      BY <3>1 DEF RequestsMatchWaiters
    <3>3. i # 1
      BY <3>1, <3>2, <1>3
    <3>4. i - 1 \in 1..Len(queue') /\ (i - 1) + 1 = i
      BY <3>2, <3>3, <1>1, <1>2
    <3>5. queue'[i - 1].fiber = g
      BY <3>2, <3>4, <1>2
    <3> QED BY <3>4, <3>5
  <2> QED BY <2>2, <2>3, <2>4 DEF RequestsMatchWaiters
<1> QED BY <1>5, <1>6, <1>7

\* A fiber that neither reads nor has a request queued goes from or to user
\* code, while the state of the reads and of the queue stays.
LEMMA SwitchKeepsWaitInv ==
  ASSUME WaitInv, NEW f \in Fibers, conn' \in Conns,
         UNCHANGED <<readVars, timer, shut, queue>>, _timeout' \in BOOLEAN,
         \/ /\ running = f
            /\ \E why \in {"out", "connect"} : Park(f, why)
         \/ /\ running = Nil /\ fib[f] \in {"out", "connect"}
            /\ Wake(f)
  PROVE  WaitInv'
<1> USE StreamAssumption DEF WaitInv
<1>1. PICK new \in {"out", "connect", "user"} :
         /\ fib' = [fib EXCEPT ![f] = new]
         /\ new = "user" <=> running' = f
         /\ running' \in {f, Nil}
  BY DEF Park, Wake
<1>2. /\ fib[f] \notin {"read", "write", "shutdown"} /\ f # Nil
      /\ running \in {f, Nil}
      /\ reading_fiber # f
  BY DEF OneRuns
<1>3. /\ fib' \in [Fibers -> Doings]
      /\ \A g \in Fibers : fib'[g] = IF g = f THEN new ELSE fib[g]
  BY <1>1 DEF FiberTypes, Doings
<1>4. UNCHANGED <<reading_fiber, _decoder, reading, timer, shut, queue>>
  BY DEF readVars
<1>5. FiberTypes'
  BY <1>1, <1>3, <1>4 DEF FiberTypes
<1>6. OneRuns'
  BY <1>1, <1>2, <1>3, <1>4 DEF OneRuns, FiberTypes
<1>7. NoLostReader' /\ CallbacksHaveReader'
  BY <1>1, <1>2, <1>3, <1>4 DEF NoLostReader, CallbacksHaveReader, FiberTypes
<1>8. RequestsMatchWaiters'
  <2>1. \A i \in 1..Len(queue) :
          /\ queue[i].fiber \in Fibers
          /\ queue[i].fiber # f
    <3> SUFFICES ASSUME NEW i \in 1..Len(queue)
                 PROVE  queue[i].fiber \in Fibers /\ queue[i].fiber # f
      OBVIOUS
    <3>1. fib[queue[i].fiber] = queue[i].op
      BY DEF RequestsMatchWaiters
    <3> QED BY <3>1, <1>2, QueuedRequests DEF Waits
  <2>2. new \notin Waits
    BY <1>1 DEF Waits
  <2> QED BY <2>1, <2>2, <1>3, <1>4 DEF RequestsMatchWaiters
<1> QED BY <1>5, <1>6, <1>7, <1>8

\* The callbacks on_data and on_read_timeout wake the fiber in read().
LEMMA ReaderWokenKeepsWaitInv ==
  ASSUME WaitInv, running = Nil, reading \/ timer, ResumeReader,
         timer' = FALSE, conn' \in Conns,
         UNCHANGED <<_timeout, shut, queue>>
  PROVE  WaitInv'
<1> USE StreamAssumption DEF WaitInv
<1> DEFINE f == reading_fiber
<1>1. f \in Fibers /\ f # Nil /\ fib[f] = "read"
  BY DEF CallbacksHaveReader, FiberTypes
<1>2. /\ running' = f /\ reading_fiber' = Nil /\ _decoder' = Nil
      /\ reading' = FALSE
      /\ fib' = [fib EXCEPT ![f] = "user"]
  BY DEF ResumeReader, Wake
<1>3. \A g \in Fibers : fib[g] = "read" => g = f
  BY DEF NoLostReader
<1> HIDE DEF f
<1>4. /\ fib' \in [Fibers -> Doings]
      /\ \A g \in Fibers : fib'[g] = IF g = f THEN "user" ELSE fib[g]
  BY <1>1, <1>2 DEF FiberTypes, Doings
<1>5. FiberTypes'
  BY <1>1, <1>2, <1>4 DEF FiberTypes
<1>6. OneRuns'
  BY <1>1, <1>2, <1>4 DEF OneRuns
<1>7. NoLostReader' /\ CallbacksHaveReader'
  BY <1>2, <1>3, <1>4 DEF NoLostReader, CallbacksHaveReader
<1>8. RequestsMatchWaiters'
  <2>1. \A i \in 1..Len(queue) :
          /\ queue[i].fiber \in Fibers
          /\ queue[i].fiber # f
    <3> SUFFICES ASSUME NEW i \in 1..Len(queue)
                 PROVE  queue[i].fiber \in Fibers /\ queue[i].fiber # f
      OBVIOUS
    <3>1. fib[queue[i].fiber] = queue[i].op
      BY DEF RequestsMatchWaiters
    <3> QED BY <3>1, <1>1, QueuedRequests DEF Waits
  <2> QED BY <2>1, <1>4 DEF RequestsMatchWaiters, Waits
<1> QED BY <1>5, <1>6, <1>7, <1>8

\* read() parks the running fiber with everything its callbacks need.
LEMMA ReadWaitsKeepsWaitInv ==
  ASSUME WaitInv, NEW f \in Fibers, ReadWaits(f)
  PROVE  WaitInv'
<1> USE StreamAssumption DEF WaitInv
<1>1. /\ running = f /\ f # Nil /\ fib[f] = "user" /\ reading_fiber = Nil
      /\ \A g \in Fibers : fib[g] # "read"
  BY DEF ReadWaits, Calls, Busy, OneRuns, NoLostReader
<1>2. /\ _decoder' \in Decoders /\ _decoder' # Nil
      /\ reading' = TRUE /\ timer' \in BOOLEAN /\ reading_fiber' = f
      /\ UNCHANGED <<_timeout, conn, shut, queue>>
  BY DEF ReadWaits, uvVars, FiberTypes
<1>3. /\ running' = Nil /\ fib' \in [Fibers -> Doings]
      /\ \A g \in Fibers : fib'[g] = IF g = f THEN "read" ELSE fib[g]
  BY DEF ReadWaits, Park, FiberTypes, Doings
<1>4. FiberTypes'
  BY <1>2, <1>3 DEF FiberTypes
<1>5. OneRuns'
  BY <1>1, <1>2, <1>3 DEF OneRuns
<1>6. NoLostReader' /\ CallbacksHaveReader'
  BY <1>1, <1>2, <1>3 DEF NoLostReader, CallbacksHaveReader
<1>7. RequestsMatchWaiters'
  <2>1. \A i \in 1..Len(queue) :
          /\ queue[i].fiber \in Fibers
          /\ queue[i].fiber # f
    <3> SUFFICES ASSUME NEW i \in 1..Len(queue)
                 PROVE  queue[i].fiber \in Fibers /\ queue[i].fiber # f
      OBVIOUS
    <3>1. fib[queue[i].fiber] = queue[i].op
      BY DEF RequestsMatchWaiters
    <3> QED BY <3>1, <1>1, QueuedRequests DEF Waits
  <2>2. UNCHANGED queue
    BY <1>2
  <2> QED BY <2>1, <2>2, <1>3 DEF RequestsMatchWaiters, Waits
<1> QED BY <1>4, <1>5, <1>6, <1>7

\* on_data: a finished or failed decode wakes the reader, and partial data
\* leaves it waiting with the timer armed or not.
LEMMA OnDataKeepsWaitInv ==
  ASSUME WaitInv, OnData
  PROVE  WaitInv'
<1> USE StreamAssumption DEF WaitInv
<1>1. /\ running = Nil /\ reading
      /\ UNCHANGED <<_timeout, conn, shut, queue>>
  BY DEF OnData, uvVars
<1>2. \/ ResumeReader /\ timer' = FALSE
      \/ timer' = _timeout /\ UNCHANGED <<fiberVars, readVars>>
  BY DEF OnData, RaiseReader, ResumeReader, Rearm
<1>3. CASE ResumeReader /\ timer' = FALSE
  BY <1>1, <1>3, ReaderWokenKeepsWaitInv DEF FiberTypes
<1>4. CASE timer' = _timeout /\ UNCHANGED <<fiberVars, readVars>>
  BY <1>1, <1>4 DEF fiberVars, readVars, FiberTypes, OneRuns, NoLostReader,
                    CallbacksHaveReader, RequestsMatchWaiters
<1> QED BY <1>2, <1>3, <1>4

\* The steps that move no fiber.
LEMMA StillKeepsWaitInv ==
  ASSUME WaitInv,
         UNCHANGED <<fiberVars, reading_fiber, shut, queue>>,
         _timeout' \in BOOLEAN, conn' \in Conns,
         \/ UNCHANGED <<_decoder, reading, timer>>
         \/ /\ reading_fiber = Nil /\ _decoder' \in Decoders \cup {Nil}
            /\ reading' \in {FALSE, reading} /\ timer' \in {FALSE, timer}
  PROVE  WaitInv'
<1> USE DEF WaitInv
<1>1. FiberTypes' /\ OneRuns'
  BY DEF FiberTypes, OneRuns, fiberVars
<1>2. NoLostReader' /\ CallbacksHaveReader'
  <2>1. CASE UNCHANGED <<_decoder, reading, timer>>
    BY <2>1 DEF NoLostReader, CallbacksHaveReader, fiberVars
  <2>2. CASE /\ reading_fiber = Nil
             /\ reading' \in {FALSE, reading} /\ timer' \in {FALSE, timer}
    <3>1. \A f \in Fibers : fib[f] # "read"
      BY <2>2, StreamAssumption DEF NoLostReader
    <3>2. ~reading /\ ~timer
      BY <2>2 DEF CallbacksHaveReader
    <3>3. reading' = FALSE /\ timer' = FALSE
      <4>1. reading = FALSE /\ timer = FALSE
        BY <3>2 DEF FiberTypes
      <4> QED BY <2>2, <4>1
    <3>4. fib' = fib
      BY DEF fiberVars
    <3> QED BY <3>1, <3>3, <3>4 DEF NoLostReader, CallbacksHaveReader
  <2> QED BY <2>1, <2>2
<1>3. RequestsMatchWaiters'
  BY DEF RequestsMatchWaiters, fiberVars
<1> QED BY <1>1, <1>2, <1>3

\* The calls of a running fiber.
LEMMA CallKeepsWaitInv ==
  ASSUME WaitInv, NEW f \in Fibers, Call(f)
  PROVE  WaitInv'
<1> USE StreamAssumption
<1>0. conn \in Conns /\ shut \in BOOLEAN /\ _timeout \in BOOLEAN
  BY DEF WaitInv, FiberTypes
<1>1. CASE ReadNow(f)
  BY <1>0, <1>1, StillKeepsWaitInv DEF ReadNow, uvVars, readVars
<1>2. CASE ReadFails(f)
  <2>1. reading_fiber = Nil /\ _decoder' \in Decoders
    BY <1>2 DEF ReadFails, Busy
  <2> QED BY <1>0, <1>2, <2>1, StillKeepsWaitInv DEF ReadFails, uvVars
<1>3. CASE ReadWaits(f)
  BY <1>3, ReadWaitsKeepsWaitInv
<1>4. CASE Write(f)
  BY <1>0, <1>4, SubmitKeepsWaitInv DEF Write, Calls, Waits
<1>5. CASE Shutdown(f)
  <2>1. shut' \in BOOLEAN /\ "shutdown" \in Waits /\ conn' \in Conns
    BY <1>0, <1>5 DEF Shutdown, Waits
  <2> QED BY <1>5, <2>1, SubmitKeepsWaitInv DEF Shutdown, Calls
<1>6. CASE Connect(f)
  <2>1. conn' \in Conns
    BY <1>6 DEF Connect, Conns
  <2> QED BY <1>0, <1>6, <2>1, SwitchKeepsWaitInv DEF Connect, Calls
<1>7. CASE SetTimeout(f)
  BY <1>0, <1>7, StillKeepsWaitInv DEF SetTimeout, uvVars, readVars
<1>8. CASE Close(f)
  <2>1. conn' \in Conns /\ _decoder \in Decoders \cup {Nil}
    BY <1>8 DEF Close, Conns, WaitInv, FiberTypes
  <2> QED BY <1>0, <1>8, <2>1, StillKeepsWaitInv DEF Close
<1> QED BY <1>1, <1>2, <1>3, <1>4, <1>5, <1>6, <1>7, <1>8 DEF Call

\* The invariant of the waiting fibers holds in every reachable state.
THEOREM StreamWaitInvariant == Spec => []WaitInv
<1> USE StreamAssumption
<1>1. Init => WaitInv
  <2> SUFFICES ASSUME Init PROVE WaitInv
    OBVIOUS
  <2>1. FiberTypes
    <3>1. queue \in Seq(Requests)
      BY DEF Init
    <3>2. fib \in [Fibers -> Doings] /\ conn \in Conns
      BY DEF Init, Doings, Conns
    <3> QED BY <3>1, <3>2 DEF Init, FiberTypes
  <2>2. OneRuns /\ NoLostReader /\ CallbacksHaveReader
    BY DEF Init, OneRuns, NoLostReader, CallbacksHaveReader
  <2>3. RequestsMatchWaiters
    BY DEF Init, RequestsMatchWaiters, Waits
  <2> QED BY <2>1, <2>2, <2>3 DEF WaitInv
<1>2. WaitInv /\ [Next]_vars => WaitInv'
  <2> SUFFICES ASSUME WaitInv, [Next]_vars PROVE WaitInv'
    OBVIOUS
  <2>0. conn \in Conns /\ shut \in BOOLEAN /\ _timeout \in BOOLEAN
    BY DEF WaitInv, FiberTypes
  <2>1. CASE \E f \in Fibers : Enter(f) \/ Leave(f)
    BY <2>0, <2>1, SwitchKeepsWaitInv DEF Enter, Leave, uvVars
  <2>2. CASE \E f \in Fibers : Call(f)
    BY <2>2, CallKeepsWaitInv
  <2>3. CASE \E f \in Fibers : OnConnect(f)
    <3>1. PICK f \in Fibers : OnConnect(f)
      BY <2>3
    <3>2. conn' \in Conns
      BY <3>1 DEF OnConnect, Conns
    <3> QED BY <2>0, <3>1, <3>2, SwitchKeepsWaitInv DEF OnConnect
  <2>4. CASE OnData
    BY <2>4, OnDataKeepsWaitInv
  <2>5. CASE OnEof \/ OnTimeout
    BY <2>0, <2>5, ReaderWokenKeepsWaitInv DEF OnEof, OnTimeout, uvVars
  <2>6. CASE OnError
    <3>1. conn' \in Conns
      BY <2>6 DEF OnError, Conns
    <3> QED BY <2>6, <3>1, ReaderWokenKeepsWaitInv DEF OnError
  <2>7. CASE OnRequestDone
    BY <2>7, RequestDoneKeepsWaitInv
  <2>8. CASE (\E kind \in Kinds : PeerSend(kind)) \/ PeerClose
    BY <2>0, <2>8, StillKeepsWaitInv DEF PeerSend, PeerClose, uvVars, readVars
  <2>9. CASE UNCHANGED vars
    BY <2>0, <2>9, StillKeepsWaitInv DEF vars, uvVars, readVars
  <2> QED BY <2>1, <2>2, <2>3, <2>4, <2>5, <2>6, <2>7, <2>8, <2>9 DEF Next
<1> QED BY <1>1, <1>2, PTL DEF Spec

\* No fiber is left in read() without somebody to wake it.
THEOREM StreamNoLostReader == Spec => []NoLostReader
BY StreamWaitInvariant, PTL DEF WaitInv

\* No read callback runs without a reader and a decoder.
THEOREM StreamCallbacksHaveReader == Spec => []CallbacksHaveReader
BY StreamWaitInvariant, PTL DEF WaitInv

\* Requests and the fibers that wait for them match one to one.
THEOREM StreamRequestsMatchWaiters == Spec => []RequestsMatchWaiters
BY StreamWaitInvariant, PTL DEF WaitInv

-----------------------------------------------------------------------------
\* A sequence is what is before a position followed by what is after it.
LEMMA SplitSequence ==
  ASSUME NEW S, NEW s \in Seq(S), NEW n \in 0..Len(s)
  PROVE  /\ SubSeq(s, 1, n) \in Seq(S)
         /\ SubSeq(s, n + 1, Len(s)) \in Seq(S)
         /\ SubSeq(s, 1, n) \o SubSeq(s, n + 1, Len(s)) = s
<1>1. /\ Len(s) \in Nat /\ n \in 0..Len(s) /\ n \in Int /\ n + 1 \in Int
      /\ 1 \in 1..(Len(s) + 1) /\ Len(s) \in Int
  OBVIOUS
<1>2. \A i \in 1..Len(s) : s[i] \in S
  OBVIOUS
<1>3. SubSeq(s, 1, n) \in Seq(S)
  <2>1. \A i \in 1..n : s[i] \in S
    BY <1>1, <1>2
  <2> QED BY <1>1, <2>1, SubSeqProperties
<1>4. SubSeq(s, n + 1, Len(s)) \in Seq(S)
  <2>1. \A i \in (n + 1)..Len(s) : s[i] \in S
    BY <1>1, <1>2
  <2> QED BY <1>1, <2>1, SubSeqProperties
<1>5. SubSeq(s, 1, n) \o SubSeq(s, n + 1, Len(s)) = SubSeq(s, 1, Len(s))
  <2>1. n \in (1 - 1)..Len(s) /\ Len(s) \in n..Len(s)
    BY <1>1
  <2> QED BY <1>1, <2>1, ConcatAdjacentSubSeq
<1>6. SubSeq(s, 1, Len(s)) = s
  BY SubSeqFull
<1> QED BY <1>3, <1>4, <1>5, <1>6

\* The first stop of a buffer that has one is one of its positions.
LEMMA FirstStopExists ==
  ASSUME NEW b \in Seq(1..MaxSent), Stops(b) # {}
  PROVE  /\ FirstStop(b) \in Stops(b) /\ FirstStop(b) \in 1..Len(b)
         /\ \A j \in Stops(b) : FirstStop(b) <= j
<1>1. Stops(b) \subseteq Nat /\ Stops(b) \subseteq 1..Len(b)
  BY DEF Stops
<1>2. \E i \in Stops(b) : \A j \in Stops(b) : ~(<<j, i>> \in OpToRel(<, Nat))
  BY <1>1, WFMin, NatLessThanWellFounded, Zenon
<1>3. PICK i \in Stops(b) : \A j \in Stops(b) : ~(<<j, i>> \in OpToRel(<, Nat))
  BY <1>2
<1>4. \A j \in Stops(b) : i <= j
  <2>1. ASSUME NEW j \in Stops(b) PROVE i <= j
    <3>1. i \in Nat /\ j \in Nat
      BY <1>1
    <3>2. ~(j < i)
      BY <1>3, <3>1, Zenon DEF OpToRel
    <3> QED BY <3>1, <3>2
  <2> QED BY <2>1
<1>5. FirstStop(b) \in Stops(b) /\ \A j \in Stops(b) : FirstStop(b) <= j
  BY <1>4 DEF FirstStop
<1> QED BY <1>1, <1>5

\* A decoder takes no more than there is.
LEMMA TakesBound ==
  ASSUME NEW d, NEW b \in Seq(1..MaxSent)
  PROVE  Takes(d, b) \in 0..Len(b)
<1>1. Len(b) \in Nat
  OBVIOUS
<1> QED BY <1>1, FirstStopExists DEF Takes

LEMMA ConcatTokens ==
  ASSUME NEW s \in Seq(1..MaxSent), NEW t \in Seq(1..MaxSent),
         NEW u \in Seq(1..MaxSent)
  PROVE  (s \o t) \o u = s \o (t \o u)
BY ConcatAssociative

\* pull() moves tokens from the buffer to the decoder and loses none.
LEMMA PullKeepsTokens ==
  ASSUME NEW d, NEW b \in Seq(1..MaxSent), got \in Seq(1..MaxSent), Pull(d, b)
  PROVE  /\ got' \in Seq(1..MaxSent) /\ buffer' \in Seq(1..MaxSent)
         /\ got' \o buffer' = got \o b
<1> DEFINE n == Takes(d, b)
           u == SubSeq(b, 1, n)
           v == SubSeq(b, n + 1, Len(b))
<1>1. n \in 0..Len(b)
  BY TakesBound
<1>2. u \in Seq(1..MaxSent) /\ v \in Seq(1..MaxSent) /\ u \o v = b
  BY <1>1, SplitSequence
<1>3. got' = got \o u /\ buffer' = v
  BY DEF Pull
<1> HIDE DEF u, v
<1>4. got \o u \in Seq(1..MaxSent)
  BY <1>2, ConcatProperties
<1>5. (got \o u) \o v = got \o b
  BY <1>2, ConcatTokens
<1> QED BY <1>2, <1>3, <1>4, <1>5

\* The inductive invariant of the data.
DataInv == DataTypes /\ StreamIntegrity

\* on_data moves tokens from the socket to the buffer and the decoder.
LEMMA OnDataKeepsDataInv ==
  ASSUME DataInv, OnData
  PROVE  DataInv'
<1> USE DEF DataInv
<1> DEFINE T == Seq(1..MaxSent)
<1>1. PICK k \in 1..Len(net) :
         /\ net' = SubSeq(net, k + 1, Len(net))
         /\ Pull(_decoder, Commit(k))
  BY DEF OnData
<1> DEFINE u == SubSeq(net, 1, k)
           v == SubSeq(net, k + 1, Len(net))
<1>2. got \in T /\ buffer \in T /\ net \in T
  BY DEF DataTypes
<1>3. k \in 0..Len(net)
  BY <1>2
<1>4. u \in T /\ v \in T /\ u \o v = net
  BY <1>2, <1>3, SplitSequence
<1>5. net' = v /\ Commit(k) = buffer \o u
  BY <1>1 DEF Commit
<1>6. UNCHANGED <<sent, eof>>
  BY DEF OnData
<1> HIDE DEF u, v
<1>7. buffer \o u \in T
  BY <1>2, <1>4, ConcatProperties
<1>8. Pull(_decoder, buffer \o u)
  BY <1>1, <1>5
<1>9. /\ got' \in T /\ buffer' \in T
      /\ got' \o buffer' = got \o (buffer \o u)
  BY <1>2, <1>7, <1>8, PullKeepsTokens
<1>10. (got \o (buffer \o u)) \o v = (got \o buffer) \o net
  <2>1. (got \o buffer) \o u = got \o (buffer \o u)
    <3>1. u \in T
      BY <1>4
    <3> QED BY <1>2, <3>1, ConcatTokens
  <2>2. got \o buffer \in T
    BY <1>2, ConcatProperties
  <2>3. ((got \o buffer) \o u) \o v = (got \o buffer) \o (u \o v)
    BY <1>4, <2>2, ConcatTokens
  <2> QED BY <1>4, <2>1, <2>3
<1>11. DataTypes'
  BY <1>4, <1>5, <1>6, <1>9 DEF DataTypes
<1>12. StreamIntegrity'
  BY <1>5, <1>6, <1>9, <1>10 DEF StreamIntegrity
<1> QED BY <1>11, <1>12

\* A token that the peer sends is the next one in the socket.
LEMMA PeerSendKeepsDataInv ==
  ASSUME DataInv, NEW kind \in Kinds, PeerSend(kind)
  PROVE  DataInv'
<1> USE StreamAssumption DEF DataInv
<1> DEFINE T == Seq(1..MaxSent)
           n == Len(sent)
           all == got \o buffer
<1>1. /\ sent' = Append(sent, kind) /\ net' = Append(net, n + 1)
      /\ UNCHANGED <<buffer, got, eof>>
      /\ n < MaxSent
  BY DEF PeerSend, dataVars
<1>2. /\ all \in T /\ net \in T /\ n \in Nat /\ n + 1 \in 1..MaxSent
      /\ sent \in Seq(Kinds)
  BY <1>1, ConcatProperties DEF DataTypes
<1>3. /\ sent' \in Seq(Kinds) /\ Len(sent') = n + 1 /\ net' \in T
  BY <1>1, <1>2
<1>4. DataTypes'
  BY <1>1, <1>2, <1>3 DEF DataTypes
<1>5. all \o net = [i \in 1..n |-> i]
  BY DEF StreamIntegrity
<1>6. all' = all
  BY <1>1
<1> HIDE DEF all
<1>7. all \o Append(net, n + 1) = Append(all \o net, n + 1)
  <2>1. /\ Append(net, n + 1) = net \o <<n + 1>>
        /\ Append(all \o net, n + 1) = (all \o net) \o <<n + 1>>
        /\ <<n + 1>> \in T
    <3>1. all \o net \in T
      BY <1>2, ConcatProperties
    <3>2. Append(net, n + 1) = net \o <<n + 1>>
      BY <1>2, AppendIsConcat
    <3>3. Append(all \o net, n + 1) = (all \o net) \o <<n + 1>>
      BY <1>2, <3>1, AppendIsConcat
    <3>4. <<n + 1>> \in T
      BY <1>2
    <3> QED BY <3>2, <3>3, <3>4
  <2> QED BY SMTT(30), <1>2, <2>1, ConcatAssociative
<1>8. Append([i \in 1..n |-> i], n + 1) = [i \in 1..(n + 1) |-> i]
  BY <1>2
<1>9. StreamIntegrity'
  BY <1>1, <1>3, <1>5, <1>6, <1>7, <1>8 DEF StreamIntegrity, all
<1> QED BY <1>4, <1>9

\* A read that the buffer satisfies only moves tokens to the decoder.
LEMMA ReadNowKeepsDataInv ==
  ASSUME DataInv, NEW f \in Fibers, ReadNow(f)
  PROVE  DataInv'
<1> USE DEF DataInv
<1>1. PICK d \in Decoders : Pull(d, buffer)
  BY DEF ReadNow
<1>2. UNCHANGED <<sent, net, eof>>
  BY DEF ReadNow, peerVars
<1>3. /\ got' \in Seq(1..MaxSent) /\ buffer' \in Seq(1..MaxSent)
      /\ got' \o buffer' = got \o buffer
  BY <1>1, PullKeepsTokens DEF DataTypes
<1> QED BY <1>2, <1>3 DEF DataTypes, StreamIntegrity

\* The data invariant holds in every reachable state.
THEOREM StreamDataInvariant == Spec => []DataInv
<1>1. Init => DataInv
  <2> SUFFICES ASSUME Init PROVE DataInv
    OBVIOUS
  <2>1. DataTypes
    <3>1. /\ buffer \in Seq(1..MaxSent) /\ got \in Seq(1..MaxSent)
          /\ net \in Seq(1..MaxSent) /\ sent \in Seq(Kinds)
      BY DEF Init
    <3>2. Len(sent) <= MaxSent
      BY StreamAssumption DEF Init
    <3> QED BY <3>1, <3>2 DEF Init, DataTypes
  <2>2. got \o buffer \o net = <<>>
    BY DEF Init
  <2>3. [i \in 1..Len(sent) |-> i] = <<>>
    BY DEF Init
  <2> QED BY <2>1, <2>2, <2>3 DEF DataInv, StreamIntegrity
<1>2. DataInv /\ [Next]_vars => DataInv'
  <2> SUFFICES ASSUME DataInv, [Next]_vars PROVE DataInv'
    OBVIOUS
  <2>1. CASE UNCHANGED <<dataVars, peerVars>>
    BY <2>1 DEF dataVars, peerVars, DataInv, DataTypes, StreamIntegrity
  <2>2. CASE OnData
    BY <2>2, OnDataKeepsDataInv
  <2>3. CASE \E kind \in Kinds : PeerSend(kind)
    BY <2>3, PeerSendKeepsDataInv
  <2>4. CASE \E f \in Fibers : ReadNow(f)
    BY <2>4, ReadNowKeepsDataInv
  <2>5. CASE PeerClose
    BY <2>5 DEF PeerClose, dataVars, DataInv, DataTypes, StreamIntegrity
  <2>6. CASE \E f \in Fibers : Enter(f) \/ Leave(f) \/ OnConnect(f)
    BY <2>1, <2>6 DEF Enter, Leave, OnConnect
  <2>7. CASE \E f \in Fibers :
               \/ ReadFails(f) \/ ReadWaits(f) \/ Write(f) \/ Shutdown(f)
               \/ Connect(f) \/ SetTimeout(f) \/ Close(f)
    BY <2>1, <2>7 DEF ReadFails, ReadWaits, Write, Shutdown, Connect,
                      SetTimeout, Close
  <2>8. CASE OnEof \/ OnError \/ OnTimeout \/ OnRequestDone
    BY <2>1, <2>8 DEF OnEof, OnError, OnTimeout, OnRequestDone
  <2>9. CASE UNCHANGED vars
    BY <2>1, <2>9 DEF vars
  <2> QED BY <2>2, <2>3, <2>4, <2>5, <2>6, <2>7, <2>8, <2>9 DEF Next, Call
<1> QED BY <1>1, <1>2, PTL DEF Spec

\* No byte of the peer is lost, repeated or reordered on its way to decoders.
THEOREM StreamKeepsBytes == Spec => []StreamIntegrity
BY StreamDataInvariant, PTL DEF DataInv

\* Requests that match their waiting fibers are no more than the fibers.
LEMMA QueueBound ==
  ASSUME FiberTypes, RequestsMatchWaiters
  PROVE  Len(queue) <= Cardinality(Fibers)
<1> DEFINE w == [i \in 1..Len(queue) |-> queue[i].fiber]
<1>1. w \in Injection(1..Len(queue), Fibers)
  <2>1. \A i \in 1..Len(queue) : queue[i].fiber \in Fibers
    BY QueuedRequests
  <2>2. w \in [1..Len(queue) -> Fibers]
    BY <2>1
  <2>3. \A i, j \in 1..Len(queue) : w[i] = w[j] => i = j
    BY DEF RequestsMatchWaiters
  <2> QED BY <2>2, <2>3 DEF Injection, IsInjective
<1>2. Cardinality(1..Len(queue)) <= Cardinality(Fibers)
  BY <1>1, StreamAssumption, FS_Injection
<1>3. Len(queue) \in Nat
  BY DEF FiberTypes
<1>4. Cardinality(1..Len(queue)) = IF 1 > Len(queue) THEN 0
                                  ELSE Len(queue) - 1 + 1
  BY <1>3, FS_Interval
<1> QED BY <1>2, <1>3, <1>4

\* Every variable keeps its type, and the queue its bound.
THEOREM StreamTypeCorrect == Spec => []TypeOK
<1>1. WaitInv /\ DataInv => TypeOK
  BY QueueBound DEF WaitInv, DataInv, TypeOK
<1> QED BY <1>1, StreamWaitInvariant, StreamDataInvariant, PTL

-----------------------------------------------------------------------------
(* The stream implements a channel.                                        *)

\* What has not been taken was sent.
LEMMA ComingWasSent ==
  ASSUME DataInv
  PROVE  /\ Coming \in Seq(1..MaxSent) /\ Len(Coming) \in Nat
         /\ \A i \in 1..Len(Coming) : Coming[i] \in 1..Len(sent)
<1> DEFINE T == Seq(1..MaxSent)
<1>1. got \in T /\ buffer \in T /\ net \in T /\ sent \in Seq(Kinds)
  BY DEF DataInv, DataTypes
<1>2. Coming \in T /\ Len(Coming) \in Nat /\ Len(got) \in Nat /\ Len(sent) \in Nat
  BY <1>1, ConcatProperties DEF Coming
<1>3. got \o Coming = [i \in 1..Len(sent) |-> i]
  BY <1>1, ConcatTokens DEF DataInv, StreamIntegrity, Coming
<1>4. /\ Len(got \o Coming) = Len(got) + Len(Coming)
      /\ \A i \in 1..Len(Coming) : (got \o Coming)[Len(got) + i] = Coming[i]
  BY <1>1, <1>2, ConcatProperties
<1>5. Len(got) + Len(Coming) = Len(sent)
  BY <1>2, <1>3, <1>4
<1>6. ASSUME NEW i \in 1..Len(Coming) PROVE Coming[i] \in 1..Len(sent)
  <2>1. Len(got) + i \in 1..Len(sent)
    BY <1>2, <1>5
  <2> QED BY <1>3, <1>4, <2>1
<1> QED BY <1>2, <1>6

\* A decoder that takes something from the first part of what is coming takes
\* what it would take from all of it.
LEMMA TakesAnAnswer ==
  ASSUME DataInv, NEW d \in Decoders, NEW b \in Seq(1..MaxSent), NEW y \in Seq(1..MaxSent),
         b \o y = Coming, Done(d, b)
  PROVE  Takes(d, b) \in 1..Len(b) /\ Channel!Answers(d, Takes(d, b))
<1> DEFINE n == Takes(d, b)
<1>1. n \in 1..Len(b)
  BY TakesBound DEF Done
<1>2. /\ Len(b) \in Nat /\ Len(y) \in Nat /\ Len(Coming) = Len(b) + Len(y)
      /\ \A i \in 1..Len(b) : Coming[i] = b[i]
  BY ConcatProperties
<1>3. \A i \in 1..Len(b) : sent[b[i]] \in Kinds
  <2>1. ASSUME NEW i \in 1..Len(b) PROVE sent[b[i]] \in Kinds
    <3>1. i \in 1..Len(Coming)
      BY <1>2
    <3>2. b[i] \in 1..Len(sent)
      BY <1>2, <3>1, ComingWasSent
    <3> QED BY <3>2 DEF DataInv, DataTypes
  <2> QED BY <2>1
<1>4. n \in 1..Len(Coming)
  BY <1>1, <1>2
<1>5. ASSUME d = "frame"
      PROVE  sent[b[n]] = "e" /\ \A i \in 1..(n - 1) : sent[b[i]] = "d"
  <2>1. Stops(b) # {} /\ ~Fails(d, b) /\ n = FirstStop(b)
    BY <1>1, <1>5 DEF Takes
  <2>2. n \in Stops(b) /\ \A j \in Stops(b) : n <= j
    BY <2>1, FirstStopExists
  <2>3. sent[b[n]] # "x"
    BY <1>5, <2>1 DEF Fails
  <2>4. sent[b[n]] # "d"
    BY <2>2 DEF Stops
  <2>5. sent[b[n]] = "e"
    BY <1>1, <1>3, <2>3, <2>4 DEF Kinds
  <2>6. ASSUME NEW i \in 1..(n - 1) PROVE sent[b[i]] = "d"
    <3>1. i \in 1..Len(b) /\ ~(n <= i)
      BY <1>1, <1>2
    <3> QED BY <2>2, <3>1 DEF Stops
  <2> QED BY <2>5, <2>6
<1>6. \A i \in 1..(n - 1) : i \in 1..Len(b)
  BY <1>1, <1>2
<1> HIDE DEF n
<1>7. Channel!Answers(d, n)
  BY <1>1, <1>2, <1>4, <1>5, <1>6 DEF Channel!Answers
<1> QED BY <1>1, <1>7 DEF n

\* What is left of a sequence after its first n members.
LEMMA RestOf ==
  ASSUME NEW S, NEW s \in Seq(S), NEW n \in 0..Len(s)
  PROVE  LET v == SubSeq(s, n + 1, Len(s)) IN
         /\ v \in Seq(S) /\ Len(v) = Len(s) - n
         /\ \A i \in 1..(Len(s) - n) : v[i] = s[n + i]
<1> DEFINE v == SubSeq(s, n + 1, Len(s))  L == Len(s)  m == n + 1
<1>1. L \in Nat /\ n \in Nat /\ n <= L /\ m \in Int /\ L \in Int /\ m = n + 1
  OBVIOUS
<1>2. \A i \in m..L : s[i] \in S
  <2>1. \A i \in 1..L : s[i] \in S
    OBVIOUS
  <2> HIDE DEF m, L
  <2>2. \A i \in m..L : i \in 1..L
    BY <1>1
  <2> QED BY <2>1, <2>2
<1>3. /\ v \in Seq(S) /\ Len(v) = IF m <= L THEN L - m + 1 ELSE 0
      /\ \A i \in 1..(L - m + 1) : v[i] = s[m + i - 1]
  <2>1. v = SubSeq(s, m, L)
    OBVIOUS
  <2> HIDE DEF v, m, L
  <2> QED BY <1>1, <1>2, <2>1, SubSeqProperties
<1> HIDE DEF v, m, L
<1>4. L - m + 1 = L - n /\ \A i \in 1..(L - n) : m + i - 1 = n + i
  BY <1>1
<1>5. Len(v) = L - n
  BY <1>1, <1>3
<1>6. \A i \in 1..(L - n) : v[i] = s[n + i]
  BY <1>3, <1>4
<1> QED BY <1>3, <1>5, <1>6 DEF v, L

\* What is left of two sequences after some of the first one.
LEMMA RestOfConcat ==
  ASSUME NEW S, NEW b \in Seq(S), NEW y \in Seq(S), NEW n \in 0..Len(b)
  PROVE  SubSeq(b \o y, n + 1, Len(b \o y)) = SubSeq(b, n + 1, Len(b)) \o y
<1> DEFINE c == b \o y  v == SubSeq(b, n + 1, Len(b))  w == SubSeq(c, n + 1, Len(c))
           z == v \o y  k == Len(b) - n
<1>1. /\ Len(b) \in Nat /\ Len(y) \in Nat /\ n \in Nat /\ n <= Len(b)
      /\ k \in Nat /\ Len(b) = n + k
  OBVIOUS
<1>2. /\ c \in Seq(S) /\ Len(c) = Len(b) + Len(y)
      /\ \A i \in 1..(Len(b) + Len(y)) : c[i] = IF i <= Len(b) THEN b[i] ELSE y[i - Len(b)]
  BY ConcatProperties
<1>3. v \in Seq(S) /\ Len(v) = k /\ \A i \in 1..k : v[i] = b[n + i]
  BY RestOf
<1>4. n \in 0..Len(c)
  BY <1>1, <1>2
<1>5. /\ w \in Seq(S) /\ Len(w) = Len(c) - n
      /\ \A i \in 1..(Len(c) - n) : w[i] = c[n + i]
  <2> HIDE DEF c
  <2> QED BY <1>2, <1>4, RestOf
<1>6. /\ z \in Seq(S) /\ Len(z) = Len(v) + Len(y)
      /\ \A i \in 1..(Len(v) + Len(y)) : z[i] = IF i <= Len(v) THEN v[i] ELSE y[i - Len(v)]
  <2> HIDE DEF v
  <2> QED BY <1>3, ConcatProperties
<1> HIDE DEF c, v, w, z, k
<1>7. Len(w) = k + Len(y) /\ Len(z) = k + Len(y) /\ Len(c) - n = k + Len(y)
  BY <1>1, <1>2, <1>3, <1>5, <1>6
<1>8. ASSUME NEW i \in 1..(k + Len(y)) PROVE w[i] = z[i]
  <2>1. /\ w[i] = c[n + i] /\ z[i] = IF i <= k THEN v[i] ELSE y[i - k]
    BY <1>3, <1>5, <1>6, <1>7
  <2>2. /\ n + i \in 1..(Len(b) + Len(y)) /\ (n + i <= Len(b) <=> i <= k)
        /\ n + i - Len(b) = i - k
    BY <1>1
  <2>3. c[n + i] = IF i <= k THEN b[n + i] ELSE y[i - k]
    BY <1>2, <2>2
  <2>4. i <= k => v[i] = b[n + i]
    BY <1>1, <1>3
  <2> QED BY <2>1, <2>3, <2>4
<1>9. w = z
  BY <1>5, <1>6, <1>7, <1>8, SeqEqual
<1> QED BY <1>9 DEF c, v, w, z

\* pull() is a step of the channel.
LEMMA PullTakes ==
  ASSUME DataInv, NEW d \in Decoders, NEW b \in Seq(1..MaxSent), NEW y \in Seq(1..MaxSent),
         b \o y = Coming, Pull(d, b), net' = y
  PROVE  IF Done(d, b)
         THEN \E n \in 1..Len(Coming) : Channel!Answers(d, n) /\ Channel!Take(n)
         ELSE UNCHANGED <<Coming, got>>
<1> DEFINE n == Takes(d, b)  T == Seq(1..MaxSent)
           u == SubSeq(b, 1, n)  v == SubSeq(b, n + 1, Len(b))
<1>1. n \in 0..Len(b) /\ Len(b) \in Nat /\ Len(y) \in Nat
  BY TakesBound
<1>2. u \in T /\ v \in T /\ u \o v = b
  BY <1>1, SplitSequence
<1>3. got' = got \o u /\ buffer' = v /\ Coming' = v \o y
  BY DEF Pull, Coming
<1>4. CASE Done(d, b)
  <2>1. n \in 1..Len(b) /\ Channel!Answers(d, n)
    BY <1>4, TakesAnAnswer
  <2>2. Coming \in T /\ Len(Coming) = Len(b) + Len(y)
    BY ComingWasSent, ConcatProperties
  <2>3. n \in 1..Len(Coming) /\ n \in 0..Len(Coming)
    BY <1>1, <2>1, <2>2
  <2>4. SubSeq(Coming, 1, n) = u /\ SubSeq(Coming, n + 1, Len(Coming)) = v \o y
    <3> HIDE DEF n
    <3>1. SubSeq(Coming, 1, n) = u
      BY SMTT(30), <1>1, <2>2, <2>3
    <3>2. SubSeq(Coming, n + 1, Len(Coming)) = v \o y
      BY <1>1, RestOfConcat
    <3> QED BY <3>1, <3>2
  <2>5. Channel!Take(n)
    BY <1>3, <2>4 DEF Channel!Take
  <2> QED BY <1>4, <2>1, <2>3, <2>5
<1>5. CASE ~Done(d, b)
  <2>1. n = 0
    BY <1>1, <1>5 DEF Done
  <2>2. u = <<>> /\ v = b
    BY <1>1, <2>1
  <2>3. got' = got
    BY <1>3, <2>2, ConcatEmptySeq DEF DataInv, DataTypes
  <2>4. Coming' = Coming
    BY <1>3, <2>2
  <2> QED BY <1>5, <2>3, <2>4
<1> QED BY <1>4, <1>5

\* A fiber that parks in a call of the stream waits for it, and one that is
\* woken does not.
LEMMA WaitingChanges ==
  ASSUME WaitInv, NEW f \in Fibers
  PROVE  /\ running = f => f \notin Waiting
         /\ \A w \in {"read"} \cup Waits : Park(f, w) => Waiting' = Waiting \cup {f}
         /\ \A w \in {"out", "connect"} :
              running = f /\ Park(f, w) => Waiting' = Waiting
         /\ Wake(f) => Waiting' = Waiting \ {f}
<1> USE StreamAssumption
<1>1. fib \in [Fibers -> Doings]
  BY DEF WaitInv, FiberTypes
<1>2. running = f => f \notin Waiting
  BY DEF WaitInv, OneRuns, Waiting, Waits
<1>3. ASSUME NEW w \in {"read"} \cup Waits, Park(f, w)
      PROVE  Waiting' = Waiting \cup {f}
  BY <1>1, <1>3 DEF Park, Waiting, Waits
<1>4. ASSUME NEW w \in {"out", "connect"}, running = f, Park(f, w)
      PROVE  Waiting' = Waiting
  BY <1>1, <1>2, <1>4 DEF Park, Waiting, Waits
<1>5. ASSUME Wake(f) PROVE Waiting' = Waiting \ {f}
  BY <1>1, <1>5 DEF Wake, Waiting, Waits
<1> QED BY <1>2, <1>3, <1>4, <1>5

\* A step that leaves the state of the channel alone.
ChannelStill == UNCHANGED <<sent, Coming, got, reading_fiber, Wants, queue, Waiting>>

LEMMA StillStutters ==
  ASSUME ChannelStill
  PROVE  UNCHANGED Channel!chvars
BY DEF ChannelStill, Channel!chvars

\* A callback that resumes the reader ends its read.
LEMMA ResumeEndsRead ==
  ASSUME WaitInv, reading \/ timer, ResumeReader
  PROVE  Channel!EndRead
<1>1. reading_fiber \in Fibers /\ reading_fiber # Nil
  BY DEF WaitInv, FiberTypes, CallbacksHaveReader
<1>2. reading_fiber' = Nil /\ Wants' = Nil
  BY DEF ResumeReader, Wants
<1>3. Waiting' = Waiting \ {reading_fiber}
  BY <1>1, WaitingChanges DEF ResumeReader
<1> QED BY <1>1, <1>2, <1>3 DEF Channel!EndRead

\* read(): what the buffer satisfies at once, or the beginning of a wait.
LEMMA ReadsImplement ==
  ASSUME WaitInv, DataInv, NEW f \in Fibers, ReadNow(f) \/ ReadFails(f) \/ ReadWaits(f)
  PROVE  Channel!ReadAtOnce(f) \/ Channel!BeginRead(f) \/ UNCHANGED Channel!chvars
<1> USE StreamAssumption
<1>1. running = f /\ reading_fiber = Nil /\ f \notin Waiting
  BY WaitingChanges DEF ReadNow, ReadFails, ReadWaits, Calls, Busy
<1>2. CASE ReadNow(f)
  <2>1. PICK d \in Decoders : Pull(d, buffer)
    BY <1>2 DEF ReadNow
  <2>2. UNCHANGED <<sent, net, reading_fiber, Wants, queue, Waiting>>
    BY <1>2 DEF ReadNow, peerVars, readVars, uvVars, fiberVars, Wants, Waiting
  <2>3. buffer \in Seq(1..MaxSent) /\ net \in Seq(1..MaxSent) /\ buffer \o net = Coming
    BY DEF DataInv, DataTypes, Coming
  <2>4. IF Done(d, buffer)
        THEN \E n \in 1..Len(Coming) : Channel!Answers(d, n) /\ Channel!Take(n)
        ELSE UNCHANGED <<Coming, got>>
    BY <2>1, <2>2, <2>3, PullTakes
  <2>5. CASE Done(d, buffer)
    <3>1. \E n \in 1..Len(Coming) : Channel!Answers(d, n) /\ Channel!Take(n)
      BY <2>4, <2>5
    <3>2. Channel!ReadAtOnce(f)
      BY <1>1, <2>2, <3>1 DEF Channel!ReadAtOnce, Decoders
    <3> QED BY <3>2
  <2>6. CASE ~Done(d, buffer)
    BY <2>2, <2>4, <2>6, StillStutters DEF ChannelStill
  <2> QED BY <2>5, <2>6
<1>3. CASE ReadFails(f)
  <2>1. UNCHANGED <<running, fib, sent, net, reading_fiber, buffer, got, queue>>
    BY <1>3 DEF ReadFails, peerVars, dataVars, uvVars, fiberVars
  <2>2. ChannelStill
    BY <1>1, <2>1 DEF ChannelStill, Coming, Wants, Waiting
  <2> QED BY <2>2, StillStutters
<1>4. CASE ReadWaits(f)
  <2>1. /\ reading_fiber' = f /\ f # Nil /\ _decoder' \in Decoders /\ Park(f, "read")
        /\ UNCHANGED <<sent, net, buffer, got, queue>>
    BY <1>4 DEF ReadWaits, peerVars, dataVars, uvVars
  <2>2. Waiting' = Waiting \cup {f}
    BY <2>1, WaitingChanges
  <2>3. Wants' \in {"frame", "any"} /\ UNCHANGED Coming
    BY <2>1 DEF Wants, Coming, Decoders
  <2>4. Channel!BeginRead(f)
    BY <1>1, <2>1, <2>2, <2>3 DEF Channel!BeginRead
  <2> QED BY <2>4
<1> QED BY <1>2, <1>3, <1>4

\* write() and shutdown() are requests of the channel, and the other calls do
\* not concern it.
LEMMA CallsImplement ==
  ASSUME WaitInv, NEW f \in Fibers,
         Write(f) \/ Shutdown(f) \/ Connect(f) \/ SetTimeout(f) \/ Close(f)
  PROVE  \/ Channel!Request(f, "write") \/ Channel!Request(f, "shutdown")
         \/ UNCHANGED Channel!chvars
<1>1. running = f /\ f \notin Waiting
  BY WaitingChanges DEF Write, Shutdown, Connect, SetTimeout, Close, Calls
<1>2. UNCHANGED <<sent, net, buffer, got, reading_fiber, _decoder>>
  BY DEF Write, Shutdown, Connect, SetTimeout, Close, peerVars, dataVars, readVars
<1>3. UNCHANGED <<Coming, Wants>>
  BY <1>2 DEF Coming, Wants
<1>4. ASSUME NEW op \in Waits, Submit(f, op) PROVE Channel!Request(f, op)
  <2>1. queue' = Append(queue, [fiber |-> f, op |-> op]) /\ Waiting' = Waiting \cup {f}
    BY <1>4, WaitingChanges DEF Submit
  <2> QED BY <1>1, <1>2, <1>3, <2>1 DEF Channel!Request
<1>5. CASE Write(f)
  BY <1>4, <1>5 DEF Write, Waits
<1>6. CASE Shutdown(f)
  BY <1>4, <1>6 DEF Shutdown, Waits
<1>7. CASE Connect(f)
  <2>1. UNCHANGED queue /\ Park(f, "connect")
    BY <1>7 DEF Connect
  <2>2. UNCHANGED Waiting
    BY <1>1, <2>1, WaitingChanges
  <2> QED BY <1>2, <1>3, <2>1, <2>2, StillStutters DEF ChannelStill
<1>8. CASE SetTimeout(f) \/ Close(f)
  <2>1. UNCHANGED <<queue, fib>>
    BY <1>8 DEF SetTimeout, Close, uvVars, fiberVars
  <2>2. UNCHANGED Waiting
    BY <2>1 DEF Waiting
  <2> QED BY <1>2, <1>3, <2>1, <2>2, StillStutters DEF ChannelStill
<1> QED BY <1>5, <1>6, <1>7, <1>8

\* on_data returns a message to the reader, or an error, or lets it wait.
LEMMA OnDataImplements ==
  ASSUME WaitInv, DataInv, OnData
  PROVE  Channel!ReadReturns \/ Channel!ReadThrows \/ UNCHANGED Channel!chvars
<1> DEFINE T == Seq(1..MaxSent)
<1>1. PICK k \in 1..Len(net) :
         LET b == Commit(k) IN
         /\ net' = SubSeq(net, k + 1, Len(net))
         /\ Pull(_decoder, b)
         /\ \/ Done(_decoder, b) /\ ResumeReader
            \/ Fails(_decoder, b) /\ RaiseReader
            \/ /\ ~Done(_decoder, b) /\ ~Fails(_decoder, b)
               /\ UNCHANGED <<fiberVars, readVars>>
  BY DEF OnData
<1> DEFINE b == Commit(k)  u == SubSeq(net, 1, k)  v == SubSeq(net, k + 1, Len(net))
<1>2. /\ reading /\ reading_fiber # Nil /\ _decoder \in Decoders /\ Wants = _decoder
      /\ UNCHANGED <<sent, queue>>
  BY DEF OnData, WaitInv, CallbacksHaveReader, FiberTypes, uvVars, Wants
<1>3. buffer \in T /\ net \in T /\ k \in 0..Len(net)
  BY DEF DataInv, DataTypes
<1>4. u \in T /\ v \in T /\ u \o v = net
  BY <1>3, SplitSequence
<1>5. b \in T /\ b \o v = Coming
  <2> HIDE DEF u, v
  <2>1. b = buffer \o u
    BY DEF Commit, u
  <2>2. buffer \o u \in T /\ (buffer \o u) \o v = buffer \o (u \o v)
    BY <1>3, <1>4, ConcatTokens, ConcatProperties
  <2> QED BY <1>4, <2>1, <2>2 DEF Coming
<1>6. /\ net' = v /\ Pull(_decoder, b)
      /\ \/ Done(_decoder, b) /\ ResumeReader
         \/ Fails(_decoder, b) /\ RaiseReader
         \/ ~Done(_decoder, b) /\ UNCHANGED <<fiberVars, readVars>>
  BY <1>1
<1> HIDE DEF b, u, v
<1>7. IF Done(_decoder, b)
      THEN \E n \in 1..Len(Coming) : Channel!Answers(_decoder, n) /\ Channel!Take(n)
      ELSE UNCHANGED <<Coming, got>>
  BY <1>2, <1>4, <1>5, <1>6, PullTakes
<1>8. CASE Done(_decoder, b) /\ ResumeReader
  <2>1. Channel!EndRead
    BY <1>2, <1>8, ResumeEndsRead
  <2>2. \E n \in 1..Len(Coming) : Channel!Answers(Wants, n) /\ Channel!Take(n)
    BY <1>2, <1>7, <1>8
  <2> QED BY <1>2, <2>1, <2>2 DEF Channel!ReadReturns
<1>9. CASE Fails(_decoder, b) /\ RaiseReader
  <2>1. ~Done(_decoder, b)
    BY <1>9 DEF Done, Takes, Fails
  <2>2. Channel!EndRead
    BY <1>2, <1>9, ResumeEndsRead DEF RaiseReader, ResumeReader
  <2> QED BY <1>2, <1>7, <2>1, <2>2 DEF Channel!ReadThrows
<1>10. CASE ~Done(_decoder, b) /\ UNCHANGED <<fiberVars, readVars>>
  <2>1. UNCHANGED <<reading_fiber, Wants, Waiting>>
    BY <1>10 DEF readVars, fiberVars, Wants, Waiting
  <2> QED BY <1>2, <1>7, <1>10, <2>1, StillStutters DEF ChannelStill
<1> QED BY <1>6, <1>8, <1>9, <1>10

\* The other callbacks end a read without taking anything, or a request.
LEMMA CallbacksImplement ==
  ASSUME WaitInv, OnEof \/ OnError \/ OnTimeout \/ OnRequestDone
  PROVE  Channel!ReadThrows \/ Channel!RequestEnds
<1>1. UNCHANGED <<sent, Coming, got>>
  BY DEF OnEof, OnError, OnTimeout, OnRequestDone, peerVars, dataVars, Coming
<1>2. CASE OnEof \/ OnError \/ OnTimeout
  <2>1. (reading \/ timer) /\ ResumeReader /\ UNCHANGED queue
    BY <1>2 DEF OnEof, OnError, OnTimeout, uvVars
  <2> QED BY <1>1, <2>1, ResumeEndsRead DEF Channel!ReadThrows
<1>3. CASE OnRequestDone
  <2>1. /\ queue # <<>> /\ queue' = Tail(queue) /\ Wake(Head(queue).fiber)
        /\ UNCHANGED <<reading_fiber, _decoder>>
    BY <1>3 DEF OnRequestDone, readVars
  <2>2. Head(queue).fiber \in Fibers
    <3>1. queue \in Seq(Requests)
      BY DEF WaitInv, FiberTypes
    <3>2. Head(queue) \in Requests
      BY <2>1, <3>1
    <3> QED BY <3>2 DEF Requests
  <2>3. Waiting' = Waiting \ {Head(queue).fiber} /\ UNCHANGED Wants
    BY <2>1, <2>2, WaitingChanges DEF Wants
  <2> QED BY <1>1, <2>1, <2>3 DEF Channel!RequestEnds
<1> QED BY <1>2, <1>3

\* What the peer sends comes last.
LEMMA PeerImplements ==
  ASSUME DataInv, NEW kind \in Kinds, PeerSend(kind)
  PROVE  Channel!Send(kind)
<1>1. /\ sent' = Append(sent, kind) /\ net' = Append(net, Len(sent) + 1)
      /\ UNCHANGED <<buffer, got, reading_fiber, _decoder, fib, queue>>
  BY DEF PeerSend, dataVars, readVars, fiberVars, uvVars
<1>2. /\ buffer \in Seq(1..MaxSent) /\ net \in Seq(1..MaxSent)
      /\ Len(sent) + 1 \in 1..MaxSent
  <2>1. /\ buffer \in Seq(1..MaxSent) /\ net \in Seq(1..MaxSent) /\ Len(sent) \in Nat
        /\ Len(sent) < MaxSent
    BY DEF DataInv, DataTypes, PeerSend
  <2> QED BY <2>1, StreamAssumption
<1>3. buffer \o Append(net, Len(sent) + 1) = Append(buffer \o net, Len(sent) + 1)
  BY SMTT(30), <1>2
<1>4. Coming' = Append(Coming, Len(sent) + 1) /\ UNCHANGED <<Wants, Waiting>>
  BY <1>1, <1>3 DEF Coming, Wants, Waiting
<1> QED BY <1>1, <1>4 DEF Channel!Send

\* A plain stream is a channel: whatever fibers call it, and whatever libuv and
\* the peer do, a read returns the next message of the peer however its bytes
\* arrive, or throws and takes nothing, and each callback ends one call, the one
\* it belongs to.
THEOREM StreamImplementsChannel == Spec => ImplementsChannel
<1>1. Init => Channel!ChInit
  <2> SUFFICES ASSUME Init PROVE Channel!ChInit
    OBVIOUS
  <2>1. Coming = <<>> /\ Wants = Nil /\ Waiting = {}
    BY DEF Init, Coming, Wants, Waiting, Waits
  <2> QED BY <2>1 DEF Init, Channel!ChInit
<1>2. WaitInv /\ DataInv /\ [Next]_vars => [Channel!ChNext]_(Channel!chvars)
  <2> SUFFICES ASSUME WaitInv, DataInv, [Next]_vars
               PROVE  Channel!ChNext \/ UNCHANGED Channel!chvars
    OBVIOUS
  <2>1. CASE \E f \in Fibers : Enter(f) \/ Leave(f) \/ OnConnect(f)
    <3>1. PICK f \in Fibers : Enter(f) \/ Leave(f) \/ OnConnect(f)
      BY <2>1
    <3>2. UNCHANGED <<sent, net, buffer, got, reading_fiber, _decoder, queue>>
      BY <3>1 DEF Enter, Leave, OnConnect, peerVars, dataVars, readVars, uvVars
    <3>3. UNCHANGED <<Coming, Wants>>
      BY <3>2 DEF Coming, Wants
    <3>4. UNCHANGED Waiting
      <4>1. CASE Leave(f)
        BY <4>1, WaitingChanges DEF Leave
      <4>2. CASE Enter(f) \/ OnConnect(f)
        <5>1. f \notin Waiting /\ Wake(f)
          BY <4>2 DEF Enter, OnConnect, Waiting, Waits
        <5> QED BY <5>1, WaitingChanges
      <4> QED BY <3>1, <4>1, <4>2
    <3> QED BY <3>2, <3>3, <3>4, StillStutters DEF ChannelStill
  <2>2. CASE \E f \in Fibers : ReadNow(f) \/ ReadFails(f) \/ ReadWaits(f)
    BY <2>2, ReadsImplement DEF Channel!ChNext
  <2>3. CASE \E f \in Fibers :
               Write(f) \/ Shutdown(f) \/ Connect(f) \/ SetTimeout(f) \/ Close(f)
    BY <2>3, CallsImplement DEF Channel!ChNext
  <2>4. CASE OnData
    BY <2>4, OnDataImplements DEF Channel!ChNext
  <2>5. CASE OnEof \/ OnError \/ OnTimeout \/ OnRequestDone
    BY <2>5, CallbacksImplement DEF Channel!ChNext
  <2>6. CASE \E kind \in Kinds : PeerSend(kind)
    BY <2>6, PeerImplements DEF Channel!ChNext, Kinds
  <2>7. CASE PeerClose \/ UNCHANGED vars
    <3>1. UNCHANGED <<sent, net, buffer, got, reading_fiber, _decoder, queue, fib>>
      BY <2>7 DEF PeerClose, vars, peerVars, dataVars, readVars, uvVars, fiberVars
    <3>2. ChannelStill
      BY <3>1 DEF ChannelStill, Coming, Wants, Waiting
    <3> QED BY <3>2, StillStutters
  <2> QED BY <2>1, <2>2, <2>3, <2>4, <2>5, <2>6, <2>7 DEF Next, Call
<1> QED BY <1>1, <1>2, StreamWaitInvariant, StreamDataInvariant, PTL
        DEF Spec, ImplementsChannel, Channel!ChSpec
=============================================================================
