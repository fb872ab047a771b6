-------------------------- MODULE TlsStreamProofs --------------------------
(***************************************************************************)
(* Proofs about module TlsStream for every set of fibers and any number of *)
(* records: a tls_stream that is shared after its handshake loses no       *)
(* reader, and shared or not it never uses an SSL object it has released.  *)
(***************************************************************************)
EXTENDS TlsStream, SequenceTheorems, WellFoundedInduction, TLAPS

CallSet == [op : {"read", "write"}, stage : {"handshake", "loop"},
            at : {"out", "run", "rx", "flush"}, want : {"ok", "want", "fail"}]

\* Types, as far as the proofs need them.
WaitTypes ==
  /\ fib \in [Fibers -> CallSet]
  /\ queue \in Seq(Fibers)
  /\ reading_fiber \in Fibers \cup {Nil}
  /\ engine = [need |-> engine.need, rx |-> engine.rx, tx |-> engine.tx]
  /\ engine.need \in Nat /\ engine.tx \in Nat
  /\ _handshake_ok \in BOOLEAN

\* A pending write has its fiber waiting for it, and no other one.
WritersWait ==
  /\ \A i \in 1..Len(queue) : fib[queue[i]].at = "flush"
  /\ \A i, j \in 1..Len(queue) : queue[i] = queue[j] => i = j

\* One fiber runs at a time, and never while another one reads.
OneRuns ==
  \A f \in Fibers : fib[f].at = "run" =>
    reading_fiber = Nil /\ \A g \in Fibers : fib[g].at = "run" => g = f

\* The handshake belongs to one fiber.
HandshakeAlone ==
  \A f, g \in Fibers :
    ~_handshake_ok /\ fib[f].at # "out" /\ fib[g].at # "out" => f = g

\* Calls are in their loop after the handshake only, and what waits in a write
\* then does not go on to wait for data: what the engine has to say is written
\* before anything else is done.
NothingHeldBack ==
  /\ \A f \in Fibers :
       /\ fib[f].at # "out" /\ fib[f].stage = "loop" => _handshake_ok
       /\ fib[f].at = "flush" /\ _handshake_ok =>
            fib[f].stage = "loop" /\ fib[f].want = "ok"
       /\ fib[f].at \in {"flush", "rx"} => engine.tx = 0
  /\ _handshake_ok => engine.tx = 0

ReaderInv ==
  /\ WaitTypes
  /\ WritersWait
  /\ OneRuns
  /\ HandshakeAlone
  /\ NothingHeldBack
  /\ NoLostReader

-----------------------------------------------------------------------------
(* Moves of one fiber.                                                     *)

\* What stays true of the engine in every move.
EngineKept ==
  /\ engine' = [need |-> engine'.need, rx |-> engine'.rx, tx |-> engine'.tx]
  /\ engine'.need \in Nat /\ engine'.tx \in Nat
  /\ _handshake_ok' \in BOOLEAN

\* The running fiber returns, goes on or waits for data.
LEMMA RunnerMoves ==
  ASSUME ReaderInv, NEW f \in Fibers, fib[f].at = "run",
         NEW c \in CallSet, fib' = [fib EXCEPT ![f] = c],
         queue' = queue, EngineKept,
         _handshake_ok => _handshake_ok',
         \/ c.at = "rx" /\ reading_fiber' = f /\ reading' = TRUE
         \/ c.at \in {"out", "run"} /\ UNCHANGED <<reading_fiber, reading>>,
         c.at # "out" /\ c.stage = "loop" => _handshake_ok',
         _handshake_ok' \/ c.at = "rx" => engine'.tx = 0
  PROVE  ReaderInv'
<1> USE TlsAssumption DEF ReaderInv
<1>1. /\ fib' \in [Fibers -> CallSet] /\ f # Nil
      /\ fib'[f] = c /\ \A g \in Fibers : g # f => fib'[g] = fib[g]
  BY DEF WaitTypes
<1>2. reading_fiber = Nil /\ ~reading
  BY DEF OneRuns, NoLostReader
<1>3. \A g \in Fibers : g # f => fib[g].at # "run" /\ fib[g].at # "rx"
  BY <1>2 DEF OneRuns, NoLostReader
<1>4. \A g \in Fibers : g # f /\ fib[g].at # "out" => _handshake_ok
  BY DEF HandshakeAlone, WaitTypes
<1>5. WaitTypes'
  BY <1>1 DEF WaitTypes, EngineKept
<1>6. WritersWait'
  <2>1. \A i \in 1..Len(queue) : queue[i] \in Fibers /\ queue[i] # f
    BY DEF WritersWait, WaitTypes
  <2> QED BY <2>1, <1>1 DEF WritersWait
<1>7. OneRuns'
  BY <1>1, <1>2, <1>3 DEF OneRuns
<1>8. HandshakeAlone'
  BY <1>1, <1>4, <1>5 DEF HandshakeAlone, WaitTypes
<1>9. NothingHeldBack'
  BY <1>1, <1>4, <1>5 DEF NothingHeldBack, WaitTypes
<1>10. NoLostReader'
  BY <1>1, <1>2, <1>3 DEF NoLostReader
<1> QED BY <1>5, <1>6, <1>7, <1>8, <1>9, <1>10

\* The running fiber writes.
LEMMA RunnerSubmits ==
  ASSUME ReaderInv, NEW f \in Fibers, fib[f].at = "run",
         NEW r \in {"ok", "want", "fail"}, Submit(f, r), EngineKept,
         engine'.tx = 0, _handshake_ok' = _handshake_ok,
         UNCHANGED <<reading_fiber, reading>>,
         _handshake_ok => fib[f].stage = "loop" /\ r = "ok"
  PROVE  ReaderInv'
<1> USE TlsAssumption DEF ReaderInv
<1>1. /\ fib' \in [Fibers -> CallSet] /\ f # Nil
      /\ fib'[f] = [fib[f] EXCEPT !.at = "flush", !.want = r]
      /\ \A g \in Fibers : g # f => fib'[g] = fib[g]
  BY ZenonT(30) DEF WaitTypes, CallSet, Submit
<1>2. fib'[f].at = "flush" /\ fib'[f].want = r /\ fib'[f].stage = fib[f].stage
  BY <1>1 DEF WaitTypes, CallSet
<1>3. /\ queue' \in Seq(Fibers) /\ Len(queue') = Len(queue) + 1
      /\ queue'[Len(queue) + 1] = f /\ Len(queue) \in Nat
      /\ \A i \in 1..Len(queue) : queue'[i] = queue[i]
  BY AppendProperties DEF Submit, WaitTypes
<1>4. WaitTypes'
  BY <1>1, <1>3 DEF WaitTypes, EngineKept
<1>5. WritersWait'
  <2>1. \A i \in 1..Len(queue) : queue[i] \in Fibers /\ queue[i] # f
    BY DEF WritersWait, WaitTypes
  <2>2. \A i \in 1..Len(queue') : i \in 1..Len(queue) \/ i = Len(queue) + 1
    BY <1>3
  <2>3. \A i \in 1..Len(queue) : fib'[queue'[i]].at = "flush" /\ queue'[i] # f
    BY <2>1, <1>1, <1>3 DEF WritersWait
  <2>4. \A i \in 1..Len(queue') : fib'[queue'[i]].at = "flush"
    BY <2>2, <2>3, <1>2, <1>3
  <2>5. \A i, j \in 1..Len(queue') : queue'[i] = queue'[j] => i = j
    BY <2>2, <2>3, <1>3 DEF WritersWait
  <2> QED BY <2>4, <2>5 DEF WritersWait
<1>6. OneRuns'
  BY <1>1, <1>2 DEF OneRuns
<1>7. HandshakeAlone'
  BY <1>1, <1>2, <1>4 DEF HandshakeAlone, WaitTypes
<1>8. NothingHeldBack'
  BY ZenonT(30), <1>1, <1>2, <1>4 DEF NothingHeldBack, WaitTypes
<1>9. NoLostReader'
  <2>1. reading_fiber' = Nil /\ ~reading'
    BY DEF OneRuns, NoLostReader
  <2>2. \A g \in Fibers : fib'[g].at # "rx"
    BY <1>1, <1>2 DEF OneRuns, NoLostReader
  <2> QED BY <2>1, <2>2 DEF NoLostReader
<1> QED BY <1>4, <1>5, <1>6, <1>7, <1>8, <1>9

\* A writer goes on; after the handshake its call is over.
LEMMA WriterMoves ==
  ASSUME ReaderInv, Idle, queue # <<>>, NEW f \in Fibers, f = Head(queue),
         NEW c \in CallSet, fib' = [fib EXCEPT ![f] = c],
         queue' = Tail(queue), engine' = engine,
         _handshake_ok' \in BOOLEAN, _handshake_ok => _handshake_ok',
         c.at = "out" \/ ~_handshake_ok,
         \/ c.at = "rx" /\ reading_fiber' = f /\ reading' = TRUE
         \/ c.at \in {"out", "run"} /\ UNCHANGED <<reading_fiber, reading>>,
         c.at # "out" /\ c.stage = "loop" => _handshake_ok'
  PROVE  ReaderInv'
<1> USE TlsAssumption DEF ReaderInv
<1>1. /\ fib' \in [Fibers -> CallSet] /\ f # Nil
      /\ fib'[f] = c /\ \A g \in Fibers : g # f => fib'[g] = fib[g]
  BY DEF WaitTypes
<1>2. /\ queue' \in Seq(Fibers) /\ Len(queue) \in Nat
      /\ Len(queue') = Len(queue) - 1 /\ f = queue[1] /\ 1 \in 1..Len(queue)
      /\ \A i \in 1..Len(queue') : /\ queue'[i] = queue[i + 1]
                                   /\ i + 1 \in 1..Len(queue) /\ i + 1 # 1
  BY HeadTailProperties DEF WaitTypes
<1>3. fib[f].at = "flush" /\ engine.tx = 0
  BY <1>2 DEF WritersWait, NothingHeldBack
<1>4. ~_handshake_ok => \A g \in Fibers : g # f => fib[g].at = "out"
  BY <1>3 DEF HandshakeAlone
<1>5. c.at # "out" => reading_fiber = Nil /\ ~reading
  BY <1>3, <1>4 DEF NoLostReader, WaitTypes
<1>6. \A g \in Fibers : fib[g].at # "run"
  BY DEF Idle
<1>7. WaitTypes'
  BY <1>1, <1>2 DEF WaitTypes
<1>8. WritersWait'
  <2>1. \A i \in 1..Len(queue') : queue'[i] \in Fibers /\ queue'[i] # f
    BY <1>2 DEF WritersWait, WaitTypes
  <2>2. \A i \in 1..Len(queue') : fib'[queue'[i]].at = "flush"
    BY <2>1, <1>1, <1>2 DEF WritersWait
  <2>3. \A i, j \in 1..Len(queue') : queue'[i] = queue'[j] => i = j
    BY <1>2 DEF WritersWait
  <2> QED BY <2>2, <2>3 DEF WritersWait
<1>9. OneRuns'
  BY <1>1, <1>5, <1>6 DEF OneRuns
<1>10. HandshakeAlone'
  BY <1>1, <1>4, <1>7 DEF HandshakeAlone, WaitTypes
<1>11. NothingHeldBack'
  BY <1>1, <1>3, <1>4, <1>7 DEF NothingHeldBack, WaitTypes
<1>12. NoLostReader'
  BY <1>1, <1>3, <1>5 DEF NoLostReader
<1> QED BY <1>7, <1>8, <1>9, <1>10, <1>11, <1>12

\* The reader goes on, with data or with an error.
LEMMA ReaderMoves ==
  ASSUME ReaderInv, Idle, reading, NEW f \in Fibers, f = reading_fiber,
         NEW c \in CallSet, fib' = [fib EXCEPT ![f] = c],
         c.at \in {"out", "run"}, StopReading, queue' = queue, EngineKept,
         engine'.tx = engine.tx, _handshake_ok => _handshake_ok',
         c.at # "out" /\ c.stage = "loop" => _handshake_ok'
  PROVE  ReaderInv'
<1> USE TlsAssumption DEF ReaderInv, StopReading
<1>1. /\ fib' \in [Fibers -> CallSet] /\ f # Nil
      /\ fib'[f] = c /\ \A g \in Fibers : g # f => fib'[g] = fib[g]
  BY DEF WaitTypes
<1>2. fib[f].at = "rx" /\ engine.tx = 0
  BY <1>1 DEF NoLostReader, NothingHeldBack
<1>3. ~_handshake_ok => \A g \in Fibers : g # f => fib[g].at = "out"
  BY <1>2 DEF HandshakeAlone
<1>4. \A g \in Fibers : fib[g].at # "run" /\ (fib[g].at = "rx" => g = f)
  BY DEF Idle, NoLostReader
<1>5. WaitTypes'
  BY <1>1 DEF WaitTypes, EngineKept
<1>6. WritersWait'
  <2>1. \A i \in 1..Len(queue) : queue[i] \in Fibers /\ queue[i] # f
    BY <1>2 DEF WritersWait, WaitTypes
  <2> QED BY <2>1, <1>1 DEF WritersWait
<1>7. OneRuns'
  BY <1>1, <1>4 DEF OneRuns
<1>8. HandshakeAlone'
  BY <1>1, <1>3, <1>5 DEF HandshakeAlone, WaitTypes
<1>9. NothingHeldBack'
  BY <1>1, <1>2, <1>3, <1>5 DEF NothingHeldBack, WaitTypes
<1>10. NoLostReader'
  BY <1>1, <1>4 DEF NoLostReader
<1> QED BY <1>5, <1>6, <1>7, <1>8, <1>9, <1>10

-----------------------------------------------------------------------------
(* The steps.                                                              *)

\* handle_want and its callers, in the loop with nothing to write but what
\* SSL_write has just made.
LEMMA HandleWantKeepsReaderInv ==
  ASSUME ReaderInv, NEW f \in Fibers, fib[f].at = "run",
         NEW e, NEW r \in {"ok", "want", "fail"}, HandleWant(f, e, r),
         e = [need |-> e.need, rx |-> e.rx, tx |-> e.tx],
         e.need \in Nat, e.tx \in Nat,
         fib[f].stage = "handshake" <=> ~_handshake_ok,
         _handshake_ok /\ e.tx > 0 => r = "ok"
  PROVE  ReaderInv'
<1>1. fib[f] \in CallSet /\ _handshake_ok \in BOOLEAN
  BY DEF ReaderInv, WaitTypes
<1>2. CASE e.tx > 0
  <2>1. engine' = [e EXCEPT !.tx = 0] /\ _handshake_ok' = _handshake_ok
        /\ reading_fiber' = reading_fiber /\ reading' = reading
    BY <1>2 DEF HandleWant, Pending
  <2>2. EngineKept /\ engine'.tx = 0
    BY <2>1, <1>1 DEF EngineKept
  <2>3. CASE Submit(f, r)
    BY <2>1, <2>2, <2>3, <1>1, <1>2, RunnerSubmits DEF CallSet
  <2>4. CASE Return(f) /\ queue' = queue
    <3>1. NoCall \in CallSet /\ NoCall.at = "out"
      BY DEF NoCall, CallSet
    <3> QED BY <2>1, <2>2, <2>4, <3>1, RunnerMoves DEF Return
  <2> QED BY <2>3, <2>4, <1>2 DEF HandleWant, Pending
<1>3. CASE e.tx = 0
  <2>1. engine' = e /\ Flushed(f, r) /\ queue' = queue
    BY <1>3 DEF HandleWant, Pending
  <2>2. NoCall \in CallSet /\ NoCall.at = "out"
    BY DEF NoCall, CallSet
  <2>3. EngineKept /\ engine'.tx = 0 /\ (_handshake_ok => _handshake_ok')
    BY <2>1, <1>1, <1>3 DEF EngineKept, Flushed, WaitForData
  <2>4. CASE Return(f) /\ reading_fiber' = reading_fiber /\ reading' = reading
    BY <2>1, <2>2, <2>3, <2>4, RunnerMoves DEF Return
  <2>5. CASE fib' = [fib EXCEPT ![f].at = "rx"] /\ reading_fiber' = f
             /\ reading' = TRUE /\ _handshake_ok' = _handshake_ok
    <3> DEFINE c == [fib[f] EXCEPT !.at = "rx"]
    <3>1. c \in CallSet /\ c.at = "rx" /\ c.stage = fib[f].stage
          /\ fib' = [fib EXCEPT ![f] = c]
      BY <1>1, <2>5 DEF CallSet
    <3>2. c.stage = "loop" => _handshake_ok'
      BY <3>1, <2>5
    <3> HIDE DEF c
    <3> QED BY <3>1, <3>2, <2>1, <2>3, <2>5, RunnerMoves
  <2>6. CASE _handshake_ok' = TRUE /\ reading_fiber' = reading_fiber
             /\ reading' = reading
             /\ fib' = [fib EXCEPT ![f].stage = "loop", ![f].at = "run"]
    <3> DEFINE c == [fib[f] EXCEPT !.stage = "loop", !.at = "run"]
    <3>1. c \in CallSet /\ c.at = "run" /\ fib' = [fib EXCEPT ![f] = c]
      BY <1>1, <2>6 DEF CallSet
    <3> HIDE DEF c
    <3> QED BY <3>1, <2>1, <2>3, <2>6, RunnerMoves
  <2> QED BY <2>1, <2>4, <2>5, <2>6 DEF Flushed, WaitForData
<1> QED BY <1>2, <1>3

\* A step of the running fiber.
LEMMA StepKeepsReaderInv ==
  ASSUME ReaderInv, NEW f \in Fibers, Step(f)
  PROVE  ReaderInv'
<1>1. /\ fib[f].at = "run" /\ fib[f] \in CallSet
      /\ _handshake_ok \in BOOLEAN
      /\ engine = [need |-> engine.need, rx |-> engine.rx, tx |-> engine.tx]
      /\ engine.need \in Nat /\ engine.tx \in Nat
      /\ fib[f].stage = "loop" => _handshake_ok
      /\ _handshake_ok => engine.tx = 0
  BY DEF ReaderInv, WaitTypes, NothingHeldBack, Step, Runs, Absorb, Handshake,
         HandshakeOver, ReadNow, ReadRecord, ReadWants, Write
<1>2. NoCall \in CallSet /\ NoCall.at = "out"
  BY DEF NoCall, CallSet
<1>3. CASE Absorb(f)
  <2>1. /\ engine' = [need |-> engine.need - 1, rx |-> Tail(engine.rx),
                      tx |-> engine.tx + 1]
        /\ engine.need > 0 /\ ~_handshake_ok /\ fib[f].stage = "handshake"
        /\ UNCHANGED <<fib, queue, reading_fiber, reading, _handshake_ok>>
    BY <1>3 DEF Absorb, CanAbsorb, Runs
  <2>2. EngineKept
    BY <2>1, <1>1 DEF EngineKept
  <2>3. fib' = [fib EXCEPT ![f] = fib[f]]
    BY <2>1 DEF ReaderInv, WaitTypes
  <2> QED BY <1>1, <2>1, <2>2, <2>3, RunnerMoves
<1>4. CASE Handshake(f)
  BY <1>1, <1>4, HandleWantKeepsReaderInv DEF Handshake, Runs
<1>5. CASE HandshakeOver(f)
  <2>1. EngineKept /\ engine'.tx = 0 /\ _handshake_ok' /\ queue' = queue
        /\ UNCHANGED <<reading_fiber, reading>>
    BY <1>1, <1>5 DEF HandshakeOver, EngineKept, sslVars
  <2>2. CASE Return(f)
    BY <1>1, <1>2, <2>1, <2>2, RunnerMoves DEF Return
  <2>3. CASE fib' = [fib EXCEPT ![f].stage = "loop"]
    <3> DEFINE c == [fib[f] EXCEPT !.stage = "loop"]
    <3>1. c \in CallSet /\ c.at = "run" /\ fib' = [fib EXCEPT ![f] = c]
      BY <1>1, <2>3 DEF CallSet
    <3> HIDE DEF c
    <3> QED BY <1>1, <2>1, <3>1, RunnerMoves
  <2> QED BY <1>5, <2>2, <2>3 DEF HandshakeOver
<1>6. CASE ReadNow(f)
  <2>1. EngineKept /\ engine'.tx = 0 /\ _handshake_ok' /\ queue' = queue
        /\ Return(f) /\ UNCHANGED <<reading_fiber, reading>>
    BY <1>1, <1>6 DEF ReadNow, Runs, EngineKept, sslVars
  <2> QED BY <1>1, <1>2, <2>1, RunnerMoves DEF Return
<1>7. CASE ReadRecord(f)
  <2>1. EngineKept /\ engine'.tx = 0 /\ _handshake_ok' /\ queue' = queue
        /\ UNCHANGED <<reading_fiber, reading>>
    BY <1>1, <1>7 DEF ReadRecord, Runs, EngineKept
  <2>2. CASE Return(f)
    BY <1>1, <1>2, <2>1, <2>2, RunnerMoves DEF Return
  <2>3. CASE fib' = fib
    <3>1. fib' = [fib EXCEPT ![f] = fib[f]]
      BY <2>3 DEF ReaderInv, WaitTypes
    <3> QED BY <1>1, <2>1, <3>1, RunnerMoves
  <2> QED BY <1>7, <2>2, <2>3 DEF ReadRecord
<1>8. CASE ReadWants(f)
  BY <1>1, <1>8, HandleWantKeepsReaderInv DEF ReadWants, Runs
<1>9. CASE Write(f)
  <2> DEFINE e == [engine EXCEPT !.tx = @ + 1]
  <2>1. /\ e = [need |-> e.need, rx |-> e.rx, tx |-> e.tx]
        /\ e.need \in Nat /\ e.tx \in Nat
    BY <1>1
  <2>2. HandleWant(f, e, "ok") /\ fib[f].stage = "loop"
    BY <1>9 DEF Write, Runs
  <2> HIDE DEF e
  <2> QED BY <1>1, <2>1, <2>2, HandleWantKeepsReaderInv
<1> QED BY <1>3, <1>4, <1>5, <1>6, <1>7, <1>8, <1>9 DEF Step

\* A finished write.
LEMMA OnWriteDoneKeepsReaderInv ==
  ASSUME ReaderInv, OnWriteDone
  PROVE  ReaderInv'
<1> DEFINE f == Head(queue)
<1>1. f \in Fibers /\ f = queue[1] /\ 1 \in 1..Len(queue) /\ queue # <<>>
  BY HeadTailProperties DEF OnWriteDone, ReaderInv, WaitTypes
<1>2. /\ fib[f].at = "flush" /\ fib[f] \in CallSet /\ _handshake_ok \in BOOLEAN
      /\ fib[f].stage = "loop" => _handshake_ok
      /\ _handshake_ok => fib[f].stage = "loop" /\ fib[f].want = "ok"
  BY <1>1 DEF ReaderInv, WaitTypes, WritersWait, NothingHeldBack
<1>3. NoCall \in CallSet /\ NoCall.at = "out"
  BY DEF NoCall, CallSet
<1>4. /\ Idle /\ queue' = Tail(queue) /\ engine' = engine
      /\ \/ Flushed(f, fib[f].want)
         \/ Return(f) /\ UNCHANGED <<reading_fiber, reading, _handshake_ok>>
  BY DEF OnWriteDone
<1> HIDE DEF f
<1>5. CASE Return(f) /\ UNCHANGED <<reading_fiber, reading, _handshake_ok>>
  BY <1>1, <1>2, <1>3, <1>4, <1>5, WriterMoves DEF f, Return
<1>6. CASE /\ fib[f].want = "ok" /\ fib[f].stage = "handshake"
           /\ _handshake_ok' = TRUE /\ reading_fiber' = reading_fiber
           /\ reading' = reading
           /\ fib' = [fib EXCEPT ![f].stage = "loop", ![f].at = "run"]
  <2> DEFINE c == [fib[f] EXCEPT !.stage = "loop", !.at = "run"]
  <2>1. c \in CallSet /\ c.at = "run" /\ fib' = [fib EXCEPT ![f] = c]
    BY <1>2, <1>6 DEF CallSet
  <2> HIDE DEF c
  <2> QED BY <1>1, <1>2, <1>4, <1>6, <2>1, WriterMoves DEF f
<1>7. CASE /\ fib[f].want = "want" /\ reading_fiber' = f /\ reading' = TRUE
           /\ _handshake_ok' = _handshake_ok
           /\ fib' = [fib EXCEPT ![f].at = "rx"]
  <2> DEFINE c == [fib[f] EXCEPT !.at = "rx"]
  <2>1. /\ c \in CallSet /\ c.at = "rx" /\ fib' = [fib EXCEPT ![f] = c]
        /\ c.stage = fib[f].stage
    BY <1>2, <1>7 DEF CallSet
  <2> HIDE DEF c
  <2> QED BY <1>1, <1>2, <1>4, <1>7, <2>1, WriterMoves DEF f
<1> QED BY <1>2, <1>4, <1>5, <1>6, <1>7 DEF Flushed, WaitForData, CallSet

\* Data, an error or a timeout.
LEMMA ReaderWokenKeepsReaderInv ==
  ASSUME ReaderInv, OnData \/ OnTimeout \/ OnError
  PROVE  ReaderInv'
<1> DEFINE f == reading_fiber
<1>1. Idle /\ reading /\ StopReading /\ queue' = queue
  BY DEF OnData, OnTimeout, OnError, ReadError
<1>2. f \in Fibers /\ fib[f].at = "rx" /\ fib[f] \in CallSet
  BY <1>1 DEF ReaderInv, NoLostReader, WaitTypes
<1>3. /\ engine = [need |-> engine.need, rx |-> engine.rx, tx |-> engine.tx]
      /\ engine.need \in Nat /\ engine.tx \in Nat /\ _handshake_ok \in BOOLEAN
      /\ fib[f].stage = "loop" => _handshake_ok
  BY <1>2 DEF ReaderInv, WaitTypes, NothingHeldBack
<1> HIDE DEF f
<1>4. CASE OnData
  <2> DEFINE c == [fib[f] EXCEPT !.at = "run"]
  <2>1. /\ c \in CallSet /\ c.at = "run" /\ c.stage = fib[f].stage
        /\ fib' = [fib EXCEPT ![f] = c]
    BY <1>2, <1>4 DEF OnData, f, CallSet
  <2>2. EngineKept /\ engine'.tx = engine.tx /\ (_handshake_ok => _handshake_ok')
    <3>1. \/ engine' = engine /\ _handshake_ok' = TRUE
          \/ /\ _handshake_ok' = _handshake_ok
             /\ \E s : engine' = [engine EXCEPT !.rx = s]
      BY <1>4 DEF OnData, Feed, Fallback
    <3> QED BY <1>3, <3>1 DEF EngineKept
  <2> HIDE DEF c
  <2> QED BY <1>1, <1>2, <1>3, <2>1, <2>2, ReaderMoves DEF f
<1>5. CASE OnTimeout \/ OnError
  <2>1. NoCall \in CallSet /\ NoCall.at = "out"
    BY DEF NoCall, CallSet
  <2>2. EngineKept /\ engine'.tx = engine.tx /\ _handshake_ok' = _handshake_ok
        /\ fib' = [fib EXCEPT ![f] = NoCall]
    BY <1>3, <1>5 DEF OnTimeout, OnError, ReadError, sslVars, EngineKept, Return, f
  <2> QED BY <1>1, <1>2, <1>3, <2>1, <2>2, ReaderMoves DEF f
<1> QED BY <1>4, <1>5

\* A call that is not refused, of a stream that is shared after the handshake.
LEMMA BeginKeepsReaderInv ==
  ASSUME ReaderInv, HandshakeFirst, NEW f \in Fibers, NEW op \in {"read", "write"},
         Begin(f, op)
  PROVE  ReaderInv'
<1> USE TlsAssumption DEF ReaderInv
<1> DEFINE c == [NoCall EXCEPT !.op = op, !.at = "run"]
<1>1. c \in CallSet /\ c.at = "run" /\ c.stage = "handshake"
  BY DEF NoCall, CallSet
<1> HIDE DEF c
<1>2. /\ fib' \in [Fibers -> CallSet] /\ fib'[f] = c
      /\ \A g \in Fibers : g # f => fib'[g] = fib[g]
      /\ fib[f].at = "out" /\ reading_fiber = Nil
      /\ _handshake_ok \/ \A g \in Fibers : fib[g].at = "out"
      /\ \A g \in Fibers : fib[g].at # "run"
  BY <1>1 DEF Begin, WaitTypes, Busy, Idle, c
<1>3. UNCHANGED <<queue, reading_fiber, reading, engine, _handshake_ok>>
  BY DEF Begin, sslVars
<1>4. WaitTypes'
  BY <1>2, <1>3 DEF WaitTypes
<1>5. WritersWait'
  <2>1. \A i \in 1..Len(queue) : queue[i] \in Fibers /\ queue[i] # f
    BY <1>2 DEF WritersWait, WaitTypes
  <2> QED BY <2>1, <1>2, <1>3 DEF WritersWait
<1>6. OneRuns' /\ HandshakeAlone'
  BY <1>1, <1>2, <1>3 DEF OneRuns, HandshakeAlone
<1>7. NothingHeldBack'
  BY <1>1, <1>2, <1>3 DEF NothingHeldBack, WaitTypes
<1>8. NoLostReader'
  BY <1>1, <1>2, <1>3 DEF NoLostReader
<1> QED BY <1>4, <1>5, <1>6, <1>7, <1>8

-----------------------------------------------------------------------------
(* Theorems.                                                               *)

\* A tls_stream that its fibers share after the handshake: ReaderInv is an
\* invariant of read(), write() and the callbacks of libuv.
THEOREM TlsReaderInvariant ==
  ASSUME HandshakeFirst
  PROVE  Spec => []ReaderInv
<1>1. Init => ReaderInv
  <2> SUFFICES ASSUME Init PROVE ReaderInv
    OBVIOUS
  <2>1. /\ \A f \in Fibers : fib[f].at = "out"
        /\ fib = [f \in Fibers |-> NoCall] /\ NoCall \in CallSet
        /\ reading_fiber = Nil /\ ~reading /\ ~_handshake_ok /\ queue = <<>>
    BY DEF Init, NoCall, CallSet
  <2>2. /\ engine = [need |-> engine.need, rx |-> engine.rx, tx |-> engine.tx]
        /\ engine.need \in Nat /\ engine.tx \in Nat /\ _handshake_ok \in BOOLEAN
    BY DEF Init
  <2>3. queue \in Seq(Fibers) /\ Len(queue) = 0
    BY <2>1
  <2>4. WaitTypes /\ WritersWait
    BY <2>1, <2>2, <2>3 DEF WaitTypes, WritersWait
  <2>5. OneRuns /\ HandshakeAlone /\ NothingHeldBack
    BY <2>1 DEF OneRuns, HandshakeAlone, NothingHeldBack
  <2>6. NoLostReader
    BY <2>1 DEF NoLostReader
  <2> QED BY <2>4, <2>5, <2>6 DEF ReaderInv
<1>2. ReaderInv /\ [Next]_vars => ReaderInv'
  <2> SUFFICES ASSUME ReaderInv, [Next]_vars PROVE ReaderInv'
    OBVIOUS
  <2>1. CASE UNCHANGED <<fib, reading_fiber, reading, queue, engine, _handshake_ok>>
    BY <2>1 DEF ReaderInv, WaitTypes, WritersWait, OneRuns, HandshakeAlone,
                NothingHeldBack, NoLostReader
  <2>2. CASE \E f \in Fibers : Step(f) \/ \E op \in {"read", "write"} : Begin(f, op)
    BY <2>2, StepKeepsReaderInv, BeginKeepsReaderInv
  <2>3. CASE OnWriteDone \/ OnData \/ OnTimeout \/ OnError
    BY <2>3, OnWriteDoneKeepsReaderInv, ReaderWokenKeepsReaderInv
  <2>4. CASE \/ PeerFlight \/ \E n \in 0..2 : PeerData(n)
             \/ \E kind \in {"a", "c"} : PeerAlert(kind)
    BY <2>1, <2>4 DEF PeerFlight, PeerData, PeerAlert, Sends, sslVars
  <2>5. CASE UNCHANGED vars
    BY <2>1, <2>5 DEF vars, sslVars
  <2> QED BY <2>2, <2>3, <2>4, <2>5 DEF Next
<1> QED BY <1>1, <1>2, PTL DEF Spec

\* The fiber that waits for data is always the one that reading_fiber names,
\* for any number of fibers that read and write a tls_stream which they share
\* after its handshake (the run tls_shared shows what comes of it before).
THEOREM TlsNoLostReader ==
  ASSUME HandshakeFirst
  PROVE  Spec => []NoLostReader
<1>1. ReaderInv => NoLostReader
  BY DEF ReaderInv
<1> QED BY <1>1, TlsReaderInvariant, PTL

-----------------------------------------------------------------------------
(* The SSL object.                                                         *)

\* Before the first record of the peer the engine has nothing to go on, so that
\* no handshake is over; the SSL object is released then or never.
SslInv ==
  /\ ssl \in BOOLEAN /\ _chelo_recv \in BOOLEAN
  /\ _handshake_ok /\ ssl => _chelo_recv
  /\ ~ssl => _handshake_ok
  /\ side = "client" => ssl /\ _chelo_recv
  /\ ~_chelo_recv => engine.rx = <<>> /\ engine.need > 0
  /\ \A f \in Fibers :
       /\ fib[f].at # "out" /\ fib[f].stage = "loop" => ssl
       /\ fib[f].at = "flush" /\ fib[f].want = "ok" => _chelo_recv

\* A move of one fiber, on a connection that stays what it is.
LEMMA MoveKeepsSslInv ==
  ASSUME ReaderInv, SslInv, NEW f \in Fibers,
         NEW c \in CallSet, fib' = [fib EXCEPT ![f] = c],
         ssl' = ssl, side' = side,
         _chelo_recv' \in BOOLEAN, _chelo_recv => _chelo_recv',
         _handshake_ok' \in BOOLEAN, _handshake_ok => _handshake_ok',
         ssl /\ _handshake_ok' => _chelo_recv',
         ~_chelo_recv' => engine'.rx = <<>> /\ engine'.need > 0,
         c.at # "out" /\ c.stage = "loop" => ssl,
         c.at = "flush" /\ c.want = "ok" => _chelo_recv'
  PROVE  SslInv'
<1>1. /\ fib'[f] = c /\ \A g \in Fibers : g # f => fib'[g] = fib[g]
      /\ _handshake_ok \in BOOLEAN
  BY DEF ReaderInv, WaitTypes
<1>2. \A g \in Fibers :
        /\ fib'[g].at # "out" /\ fib'[g].stage = "loop" => ssl'
        /\ fib'[g].at = "flush" /\ fib'[g].want = "ok" => _chelo_recv'
  BY <1>1 DEF SslInv
<1> QED BY <1>1, <1>2 DEF SslInv

\* handle_want says "ok" of a handshake only when it is complete.
LEMMA HandleWantKeepsSslInv ==
  ASSUME ReaderInv, SslInv, NEW f \in Fibers, NEW e,
         NEW r \in {"ok", "want", "fail"}, HandleWant(f, e, r), ssl,
         UNCHANGED <<ssl, side, _chelo_recv>>,
         e = [need |-> e.need, rx |-> e.rx, tx |-> e.tx],
         e.need = engine.need, e.rx = engine.rx,
         r = "ok" => _chelo_recv
  PROVE  SslInv'
<1>1. /\ fib[f] \in CallSet /\ _handshake_ok \in BOOLEAN
      /\ ssl \in BOOLEAN /\ _chelo_recv \in BOOLEAN
      /\ fib \in [Fibers -> CallSet]
      /\ ~_chelo_recv => e.rx = <<>> /\ e.need > 0
      /\ _handshake_ok => _chelo_recv
  BY DEF ReaderInv, WaitTypes, SslInv
<1>2. engine'.rx = e.rx /\ engine'.need = e.need
  BY DEF HandleWant, Flushed, WaitForData
<1>3. NoCall \in CallSet /\ NoCall.at = "out"
  BY DEF NoCall, CallSet
<1>4. CASE Return(f) /\ _handshake_ok' = _handshake_ok
  BY <1>1, <1>2, <1>3, <1>4, MoveKeepsSslInv DEF Return
<1>5. CASE Submit(f, r) /\ _handshake_ok' = _handshake_ok
  <2> DEFINE c == [fib[f] EXCEPT !.at = "flush", !.want = r]
  <2>1. c \in CallSet /\ c.want = r /\ fib' = [fib EXCEPT ![f] = c]
    BY <1>1, <1>5 DEF CallSet, Submit
  <2> HIDE DEF c
  <2> QED BY <1>1, <1>2, <1>5, <2>1, MoveKeepsSslInv
<1>6. CASE fib' = [fib EXCEPT ![f].at = "rx"] /\ _handshake_ok' = _handshake_ok
  <2> DEFINE c == [fib[f] EXCEPT !.at = "rx"]
  <2>1. c \in CallSet /\ c.at = "rx" /\ fib' = [fib EXCEPT ![f] = c]
    BY <1>1, <1>6 DEF CallSet
  <2> HIDE DEF c
  <2> QED BY <1>1, <1>2, <1>6, <2>1, MoveKeepsSslInv
<1>7. CASE /\ r = "ok" /\ _handshake_ok' = TRUE
           /\ fib' = [fib EXCEPT ![f].stage = "loop", ![f].at = "run"]
  <2> DEFINE c == [fib[f] EXCEPT !.stage = "loop", !.at = "run"]
  <2>1. c \in CallSet /\ c.at = "run" /\ fib' = [fib EXCEPT ![f] = c]
    BY <1>1, <1>7 DEF CallSet
  <2> HIDE DEF c
  <2> QED BY <1>1, <1>2, <1>7, <2>1, MoveKeepsSslInv
<1> QED BY <1>1, <1>4, <1>5, <1>6, <1>7 DEF HandleWant, Flushed, WaitForData

LEMMA StepKeepsSslInv ==
  ASSUME ReaderInv, SslInv, NEW f \in Fibers, Step(f)
  PROVE  SslInv'
<1>1. /\ fib[f].at = "run" /\ fib[f] \in CallSet /\ _handshake_ok \in BOOLEAN
      /\ fib \in [Fibers -> CallSet]
      /\ engine = [need |-> engine.need, rx |-> engine.rx, tx |-> engine.tx]
      /\ engine.need \in Nat /\ engine.tx \in Nat
      /\ fib[f].stage = "loop" => ssl /\ _handshake_ok
      /\ ssl \in BOOLEAN /\ _chelo_recv \in BOOLEAN
      /\ ~_chelo_recv => engine.rx = <<>> /\ engine.need > 0
      /\ _handshake_ok /\ ssl => _chelo_recv
  BY DEF ReaderInv, WaitTypes, NothingHeldBack, SslInv, Step, Runs, Absorb,
         Handshake, HandshakeOver, ReadNow, ReadRecord, ReadWants, Write
<1>2. NoCall \in CallSet /\ NoCall.at = "out"
  BY DEF NoCall, CallSet
<1>3. fib = [fib EXCEPT ![f] = fib[f]]
  BY <1>1
<1>4. UNCHANGED <<ssl, side, _chelo_recv>>
  BY DEF Step, Absorb, Handshake, HandshakeOver, ReadNow, ReadRecord,
         ReadWants, Write, sslVars
<1>5. CASE Absorb(f)
  <2>1. engine.rx # <<>> /\ UNCHANGED <<fib, _handshake_ok>>
    BY <1>5 DEF Absorb, CanAbsorb, First
  <2> QED BY <1>1, <1>3, <1>4, <2>1, MoveKeepsSslInv
<1>6. CASE Handshake(f)
  <2>1. PICK r \in {"ok", "want", "fail"} :
          HandleWant(f, engine, r) /\ (r = "ok" => engine.need = 0) /\ ssl
    BY <1>6 DEF Handshake
  <2> QED BY <1>1, <1>4, <2>1, HandleWantKeepsSslInv
<1>7. CASE HandshakeOver(f)
  <2>1. UNCHANGED <<engine, _handshake_ok>>
    BY <1>7 DEF HandshakeOver, sslVars
  <2>2. CASE Return(f)
    BY <1>1, <1>2, <1>4, <2>1, <2>2, MoveKeepsSslInv DEF Return
  <2>3. CASE ssl /\ fib' = [fib EXCEPT ![f].stage = "loop"]
    <3> DEFINE c == [fib[f] EXCEPT !.stage = "loop"]
    <3>1. c \in CallSet /\ c.at = "run" /\ fib' = [fib EXCEPT ![f] = c]
      BY <1>1, <2>3 DEF CallSet
    <3> HIDE DEF c
    <3> QED BY <1>1, <1>4, <2>1, <2>3, <3>1, MoveKeepsSslInv
  <2> QED BY <1>7, <2>2, <2>3 DEF HandshakeOver
<1>8. CASE ReadNow(f)
  <2>1. Return(f) /\ UNCHANGED <<engine, _handshake_ok>>
    BY <1>8 DEF ReadNow, sslVars
  <2> QED BY <1>1, <1>2, <1>4, <2>1, MoveKeepsSslInv DEF Return
<1>9. CASE ReadRecord(f)
  <2>1. (Return(f) \/ fib' = fib) /\ UNCHANGED _handshake_ok /\ _chelo_recv
    BY <1>1, <1>9 DEF ReadRecord, Runs
  <2> QED BY <1>1, <1>2, <1>3, <1>4, <2>1, MoveKeepsSslInv DEF Return
<1>10. CASE ReadWants(f)
  <2>1. PICK r \in {"want", "fail"} : HandleWant(f, engine, r) /\ ssl
    BY <1>1, <1>10 DEF ReadWants, Runs
  <2> QED BY <1>1, <1>4, <2>1, HandleWantKeepsSslInv
<1>11. CASE Write(f)
  <2> DEFINE e == [engine EXCEPT !.tx = @ + 1]
  <2>1. /\ e = [need |-> e.need, rx |-> e.rx, tx |-> e.tx]
        /\ e.need = engine.need /\ e.rx = engine.rx
    BY <1>1
  <2>2. HandleWant(f, e, "ok") /\ ssl /\ _chelo_recv
    BY <1>1, <1>11 DEF Write, Runs
  <2> HIDE DEF e
  <2> QED BY <1>4, <2>1, <2>2, HandleWantKeepsSslInv
<1> QED BY <1>5, <1>6, <1>7, <1>8, <1>9, <1>10, <1>11 DEF Step

LEMMA OnWriteDoneKeepsSslInv ==
  ASSUME ReaderInv, SslInv, OnWriteDone
  PROVE  SslInv'
<1> DEFINE f == Head(queue)
<1>1. f \in Fibers /\ f = queue[1] /\ 1 \in 1..Len(queue)
  BY HeadTailProperties DEF OnWriteDone, ReaderInv, WaitTypes
<1>2. /\ fib[f].at = "flush" /\ fib[f] \in CallSet /\ _handshake_ok \in BOOLEAN
      /\ fib \in [Fibers -> CallSet]
      /\ fib[f].stage = "loop" => ssl
      /\ fib[f].stage = "handshake" => ~_handshake_ok
      /\ fib[f].want = "ok" => _chelo_recv
      /\ ssl \in BOOLEAN /\ _chelo_recv \in BOOLEAN
      /\ ~ssl => _handshake_ok
      /\ ~_chelo_recv => engine.rx = <<>> /\ engine.need > 0
      /\ _handshake_ok /\ ssl => _chelo_recv
  BY <1>1 DEF ReaderInv, WaitTypes, WritersWait, NothingHeldBack, SslInv
<1>3. NoCall \in CallSet /\ NoCall.at = "out"
  BY DEF NoCall, CallSet
<1>4. /\ UNCHANGED <<engine, ssl, side, _chelo_recv>>
      /\ \/ Flushed(f, fib[f].want)
         \/ Return(f) /\ UNCHANGED _handshake_ok
  BY DEF OnWriteDone
<1> HIDE DEF f
<1>5. CASE Return(f) /\ UNCHANGED _handshake_ok
  BY <1>1, <1>2, <1>3, <1>4, <1>5, MoveKeepsSslInv DEF Return
<1>6. CASE /\ fib[f].want = "ok" /\ fib[f].stage = "handshake"
           /\ _handshake_ok' = TRUE
           /\ fib' = [fib EXCEPT ![f].stage = "loop", ![f].at = "run"]
  <2> DEFINE c == [fib[f] EXCEPT !.stage = "loop", !.at = "run"]
  <2>1. c \in CallSet /\ c.at = "run" /\ fib' = [fib EXCEPT ![f] = c]
    BY <1>2, <1>6 DEF CallSet
  <2> HIDE DEF c
  <2> QED BY <1>1, <1>2, <1>4, <1>6, <2>1, MoveKeepsSslInv
<1>7. CASE _handshake_ok' = _handshake_ok /\ fib' = [fib EXCEPT ![f].at = "rx"]
  <2> DEFINE c == [fib[f] EXCEPT !.at = "rx"]
  <2>1. /\ c \in CallSet /\ c.at = "rx" /\ fib' = [fib EXCEPT ![f] = c]
        /\ c.stage = fib[f].stage
    BY <1>2, <1>7 DEF CallSet
  <2> HIDE DEF c
  <2> QED BY <1>1, <1>2, <1>4, <1>7, <2>1, MoveKeepsSslInv
<1> QED BY <1>2, <1>4, <1>5, <1>6, <1>7 DEF Flushed, WaitForData, CallSet

\* A connection becomes plain before its first flight of a handshake only, and
\* then no fiber is past it.
LEMMA ReaderWokenKeepsSslInv ==
  ASSUME ReaderInv, SslInv, OnData \/ OnTimeout \/ OnError
  PROVE  SslInv'
<1> DEFINE f == reading_fiber
<1>1. f \in Fibers /\ fib[f].at = "rx" /\ fib[f] \in CallSet
  BY DEF ReaderInv, NoLostReader, WaitTypes, OnData, OnTimeout, OnError, ReadError
<1>2. /\ _handshake_ok \in BOOLEAN /\ fib \in [Fibers -> CallSet]
      /\ engine = [need |-> engine.need, rx |-> engine.rx, tx |-> engine.tx]
      /\ ssl \in BOOLEAN /\ _chelo_recv \in BOOLEAN
      /\ ~_chelo_recv => engine.rx = <<>> /\ engine.need > 0
      /\ _handshake_ok /\ ssl => _chelo_recv
      /\ fib[f].stage = "loop" => ssl
  BY <1>1 DEF ReaderInv, WaitTypes, SslInv
<1> HIDE DEF f
<1>3. CASE OnData
  <2> DEFINE c == [fib[f] EXCEPT !.at = "run"]
  <2>1. /\ c \in CallSet /\ c.at = "run" /\ c.stage = fib[f].stage
        /\ fib' = [fib EXCEPT ![f] = c]
    BY <1>1, <1>3 DEF OnData, f, CallSet
  <2> HIDE DEF c
  <2>2. CASE /\ _chelo_recv' = TRUE
             /\ UNCHANGED <<ssl, side, _handshake_ok>>
    BY <1>1, <1>2, <2>1, <2>2, MoveKeepsSslInv
  <2>3. CASE /\ ~_chelo_recv /\ ssl /\ ssl' = FALSE /\ _handshake_ok' = TRUE
             /\ UNCHANGED <<engine, _chelo_recv, side>>
    <3>1. \A g \in Fibers : fib[g].at # "out" => fib[g].stage # "loop"
      BY <1>2, <2>3 DEF ReaderInv, NothingHeldBack
    <3>2. \A g \in Fibers : g # f => fib'[g] = fib[g]
      BY <1>2, <2>1
    <3>3. fib'[f] = c
      BY <1>1, <1>2, <2>1
    <3>4. \A g \in Fibers :
            /\ fib'[g].at # "out" => fib'[g].stage # "loop"
            /\ fib'[g].at = "flush" /\ fib'[g].want = "ok" => _chelo_recv'
      BY <1>1, <2>1, <2>3, <3>1, <3>2, <3>3 DEF SslInv
    <3> QED BY <1>2, <2>3, <3>4 DEF SslInv
  <2> QED BY <1>3, <2>2, <2>3 DEF OnData, Feed, Fallback
<1>4. CASE OnTimeout \/ OnError
  <2>1. NoCall \in CallSet /\ NoCall.at = "out"
    BY DEF NoCall, CallSet
  <2>2. /\ UNCHANGED <<engine, ssl, side, _chelo_recv, _handshake_ok>>
        /\ fib' = [fib EXCEPT ![f] = NoCall]
    BY <1>4 DEF OnTimeout, OnError, ReadError, sslVars, Return, f
  <2> QED BY <1>1, <1>2, <2>1, <2>2, MoveKeepsSslInv
<1> QED BY <1>3, <1>4

LEMMA BeginKeepsSslInv ==
  ASSUME ReaderInv, SslInv, NEW f \in Fibers, NEW op \in {"read", "write"},
         Begin(f, op)
  PROVE  SslInv'
<1> DEFINE c == [NoCall EXCEPT !.op = op, !.at = "run"]
<1>1. /\ c \in CallSet /\ c.at = "run" /\ c.stage = "handshake"
      /\ fib' = [fib EXCEPT ![f] = c]
  BY DEF NoCall, CallSet, Begin
<1> HIDE DEF c
<1>2. UNCHANGED <<engine, ssl, side, _chelo_recv, _handshake_ok>>
  BY DEF Begin, sslVars
<1>3. _handshake_ok \in BOOLEAN
  BY DEF ReaderInv, WaitTypes
<1> QED BY <1>1, <1>2, <1>3, MoveKeepsSslInv DEF SslInv

\* read() and write() of a tls_stream never use the SSL object that a plain
\* connection has released, and connect() never ends up with one.
THEOREM TlsSslPresent ==
  ASSUME HandshakeFirst
  PROVE  Spec => []SslPresent
<1>1. Init => SslInv
  <2> SUFFICES ASSUME Init PROVE SslInv
    OBVIOUS
  <2>1. \A f \in Fibers : fib[f].at = "out"
    BY DEF Init, NoCall
  <2>2. /\ ssl = TRUE /\ _handshake_ok = FALSE /\ side \in {"server", "client"}
        /\ _chelo_recv = (side = "client")
        /\ engine.rx = <<>> /\ engine.need > 0
    BY DEF Init, CheloAfterInit
  <2> QED BY <2>1, <2>2 DEF SslInv
<1>2. ReaderInv /\ SslInv /\ [Next]_vars => SslInv'
  <2> SUFFICES ASSUME ReaderInv, SslInv, [Next]_vars PROVE SslInv'
    OBVIOUS
  <2>1. CASE UNCHANGED <<fib, engine, _handshake_ok, _chelo_recv, ssl, side>>
    BY <2>1 DEF SslInv
  <2>2. CASE \E f \in Fibers : Step(f) \/ \E op \in {"read", "write"} : Begin(f, op)
    BY <2>2, StepKeepsSslInv, BeginKeepsSslInv
  <2>3. CASE OnWriteDone \/ OnData \/ OnTimeout \/ OnError
    BY <2>3, OnWriteDoneKeepsSslInv, ReaderWokenKeepsSslInv
  <2>4. CASE \/ PeerFlight \/ \E n \in 0..2 : PeerData(n)
             \/ \E kind \in {"a", "c"} : PeerAlert(kind)
    BY <2>1, <2>4 DEF PeerFlight, PeerData, PeerAlert, Sends, sslVars
  <2>5. CASE UNCHANGED vars
    BY <2>1, <2>5 DEF vars, sslVars
  <2> QED BY <2>2, <2>3, <2>4, <2>5 DEF Next
<1>3. ReaderInv /\ SslInv => SslPresent
  BY DEF SslInv, SslPresent, Runs, ReaderInv, WaitTypes
<1> QED BY <1>1, <1>2, <1>3, TlsReaderInvariant, PTL DEF Spec

-----------------------------------------------------------------------------
(* The count of messages.                                                  *)

\* The natural numbers are the least set with 0 and the successors of its
\* members.
LEMMA SetInduction ==
  ASSUME NEW S \in SUBSET Nat, 0 \in S, \A n \in S : n + 1 \in S
  PROVE  S = Nat
<1> DEFINE B == Nat \ S
<1> SUFFICES ASSUME B # {} PROVE FALSE
  OBVIOUS
<1>1. PICK n \in B : \A m \in B : n <= m
  <2> HIDE DEF B
  <2>1. B \subseteq Nat
    BY DEF B
  <2>2. PICK n \in B : \A m \in B : ~(<<m, n>> \in OpToRel(<, Nat))
    BY <2>1, NatLessThanWellFounded, WFMin
  <2>3. \A m \in B : ~(m < n)
    BY <2>1, <2>2 DEF OpToRel
  <2> QED BY <2>1, <2>3
<1>2. n # 0 /\ n - 1 \in Nat /\ n - 1 \in S
  BY <1>1
<1> QED BY <1>1, <1>2

\* Only data and plain bytes carry messages.
Records ==
  {r \in [kind : {"h", "d", "c", "a", "p"}, n : Nat] :
     r.kind \in {"h", "c", "a"} => r.n = 0}

\* The function n that counts the messages of s from its beginning.
LEMMA MessagesCounts ==
  ASSUME NEW s \in Seq(Records)
  PROVE  \E n \in [0..Len(s) -> Nat] :
           /\ n[0] = 0 /\ \A i \in 1..Len(s) : n[i] = n[i-1] + s[i].n
           /\ Messages(s) = n[Len(s)]
<1> DEFINE Total(n, i) == IF i = 0 THEN 0 ELSE n[i-1] + s[i].n
           Upto(n, m) == n = [i \in 0..m |-> Total(n, i)]
           S == {m \in Nat : m <= Len(s) => \E n : Upto(n, m)}
<1>1. Len(s) \in Nat /\ \A i \in 1..Len(s) : s[i].n \in Nat
  BY DEF Records
<1>2. 0 \in S
  <2>1. Upto([i \in 0..0 |-> 0], 0)
    OBVIOUS
  <2> HIDE DEF Upto
  <2> QED BY <2>1
<1>3. ASSUME NEW m \in S PROVE m + 1 \in S
  <2> SUFFICES ASSUME m + 1 <= Len(s) PROVE \E n : Upto(n, m + 1)
    OBVIOUS
  <2>1. PICK n : Upto(n, m)
    BY <1>1
  <2> DEFINE k == [i \in 0..(m + 1) |-> IF i = m + 1 THEN n[m] + s[m + 1].n ELSE n[i]]
  <2>2. ASSUME NEW i \in 0..(m + 1) PROVE k[i] = Total(k, i)
    <3>1. CASE i = m + 1
      BY <3>1
    <3>2. CASE i \in 0..m
      <4>1. k[i] = n[i] /\ n[i] = Total(n, i)
        BY <2>1, <3>2
      <4>2. i # 0 => k[i-1] = n[i-1]
        BY <3>2
      <4> QED BY <4>1, <4>2
    <3> QED BY <3>1, <3>2
  <2>3. Upto(k, m + 1)
    BY <2>2
  <2> HIDE DEF k, Upto
  <2> QED BY <2>3
<1>4. S = Nat
  <2>1. S \in SUBSET Nat
    OBVIOUS
  <2> HIDE DEF S
  <2> QED BY <1>2, <1>3, <2>1, SetInduction
<1> DEFINE c == CHOOSE c : Upto(c, Len(s))
<1>5. Upto(c, Len(s))
  <2>1. \E n : Upto(n, Len(s))
    BY <1>1, <1>4
  <2> HIDE DEF Upto
  <2> QED BY <2>1
<1>6. Messages(s) = c[Len(s)]
  BY DEF Messages
<1> HIDE DEF c
<1>7. c[0] = 0 /\ \A i \in 1..Len(s) : c[i] = c[i-1] + s[i].n
  BY <1>1, <1>5
<1>8. c \in [0..Len(s) -> Nat]
  <2> DEFINE T == {i \in Nat : i <= Len(s) => c[i] \in Nat}
  <2>1. 0 \in T
    BY <1>7
  <2>2. ASSUME NEW i \in T PROVE i + 1 \in T
    BY SMTT(30), <1>1, <1>7
  <2>3. T = Nat
    <3>1. T \in SUBSET Nat
      OBVIOUS
    <3> HIDE DEF T
    <3> QED BY <2>1, <2>2, <3>1, SetInduction
  <2>4. \A i \in 0..Len(s) : c[i] \in Nat
    BY <1>1, <2>3
  <2> QED BY <1>5, <2>4
<1> QED BY <1>6, <1>7, <1>8

\* The count is determined by what it is at 0 and what each record adds.
LEMMA MessagesAre ==
  ASSUME NEW s \in Seq(Records),
         NEW c, c[0] = 0, \A i \in 1..Len(s) : c[i] = c[i-1] + s[i].n
  PROVE  Messages(s) = c[Len(s)] /\ Messages(s) \in Nat
<1>1. PICK n \in [0..Len(s) -> Nat] :
           /\ n[0] = 0 /\ \A i \in 1..Len(s) : n[i] = n[i-1] + s[i].n
           /\ Messages(s) = n[Len(s)]
  BY MessagesCounts
<1> DEFINE T == {i \in Nat : i <= Len(s) => c[i] = n[i]}
<1>2. 0 \in T
  BY <1>1
<1>3. ASSUME NEW i \in T PROVE i + 1 \in T
  BY <1>1
<1>4. T = Nat
  <2>1. T \in SUBSET Nat
    OBVIOUS
  <2> HIDE DEF T
  <2> QED BY <1>2, <1>3, <2>1, SetInduction
<1>5. Len(s) \in Nat
  OBVIOUS
<1> QED BY <1>1, <1>4, <1>5

\* The messages of two sequences of records, one after the other.
LEMMA MessagesConcat ==
  ASSUME NEW s \in Seq(Records), NEW t \in Seq(Records)
  PROVE  /\ s \o t \in Seq(Records)
         /\ Messages(s) \in Nat /\ Messages(t) \in Nat
         /\ Messages(s \o t) = Messages(s) + Messages(t)
<1> DEFINE r == s \o t
<1>1. PICK m \in [0..Len(s) -> Nat] :
           /\ m[0] = 0 /\ \A i \in 1..Len(s) : m[i] = m[i-1] + s[i].n
           /\ Messages(s) = m[Len(s)]
  BY MessagesCounts
<1>2. PICK n \in [0..Len(t) -> Nat] :
           /\ n[0] = 0 /\ \A i \in 1..Len(t) : n[i] = n[i-1] + t[i].n
           /\ Messages(t) = n[Len(t)]
  BY MessagesCounts
<1>0. m[Len(s)] \in Nat /\ n[0] \in Nat /\ n[Len(t)] \in Nat
  <2>1. Len(s) \in 0..Len(s) /\ 0 \in 0..Len(t) /\ Len(t) \in 0..Len(t)
    OBVIOUS
  <2> QED BY <2>1
<1> DEFINE c == [i \in 0..(Len(s) + Len(t)) |->
                   IF i <= Len(s) THEN m[i] ELSE m[Len(s)] + n[i - Len(s)]]
<1>3. /\ r \in Seq(Records) /\ Len(r) = Len(s) + Len(t)
      /\ Len(s) \in Nat /\ Len(t) \in Nat
      /\ \A i \in 1..Len(r) : r[i] = IF i <= Len(s) THEN s[i] ELSE t[i - Len(s)]
  OBVIOUS
<1> HIDE DEF r
<1>4. c[0] = 0
  BY <1>1, <1>3
<1>5. ASSUME NEW i \in 1..Len(r) PROVE c[i] = c[i-1] + r[i].n
  <2>1. i \in 0..(Len(s) + Len(t)) /\ i - 1 \in 0..(Len(s) + Len(t))
    BY <1>3
  <2>2. CASE i <= Len(s)
    <3>1. i \in 1..Len(s) /\ i - 1 <= Len(s)
      BY <1>3, <2>2
    <3>2. c[i] = m[i] /\ c[i-1] = m[i-1] /\ r[i] = s[i]
      BY <1>3, <2>1, <2>2, <3>1
    <3> QED BY <1>1, <3>1, <3>2
  <2>3. CASE i > Len(s)
    <3> DEFINE j == i - Len(s)
    <3>1. j \in 1..Len(t) /\ j - 1 \in 0..Len(t) /\ r[i] = t[j]
      BY <1>3, <2>3
    <3>2. c[i] = m[Len(s)] + n[j]
      BY <1>3, <2>1, <2>3
    <3>3. c[i-1] = m[Len(s)] + n[j-1]
      <4>1. CASE j = 1
        <5>1. i - 1 = Len(s)
          BY <1>3, <2>3, <4>1
        <5> QED BY <5>1, <1>0, <1>2, <2>1, <4>1
      <4>2. CASE j # 1
        <5>1. ~(i - 1 <= Len(s)) /\ (i - 1) - Len(s) = j - 1
          BY <1>3, <2>3, <4>2
        <5> QED BY <2>1, <5>1
      <4> QED BY <4>1, <4>2
    <3>4. n[j] = n[j-1] + t[j].n
      BY <1>2, <3>1
    <3>5. m[Len(s)] \in Nat /\ n[j-1] \in Nat /\ t[j].n \in Nat
      <4>1. t[j] \in Records
        BY <3>1, ElementOfSeq
      <4> HIDE DEF j
      <4> QED BY <1>0, <3>1, <4>1 DEF Records
    <3> HIDE DEF c, j
    <3> QED BY <3>1, <3>2, <3>3, <3>4, <3>5
  <2> QED BY <1>3, <2>2, <2>3
<1>6. c[Len(r)] = m[Len(s)] + n[Len(t)]
  BY <1>1, <1>2, <1>3
<1> HIDE DEF c
<1>7. Messages(r) = c[Len(r)]
  BY <1>3, <1>4, <1>5, MessagesAre
<1> QED BY <1>0, <1>1, <1>2, <1>3, <1>6, <1>7 DEF r

\* What is taken from the front, or added at the end, and what stays.
LEMMA MessagesParts ==
  ASSUME NEW s \in Seq(Records)
  PROVE  /\ Messages(<<>>) = 0 /\ Messages(s) \in Nat
         /\ \A r \in Records : /\ Append(s, r) \in Seq(Records)
                               /\ Messages(Append(s, r)) = Messages(s) + r.n
         /\ s # <<>> => /\ Tail(s) \in Seq(Records) /\ Head(s) \in Records
                        /\ Messages(Tail(s)) \in Nat
                        /\ Messages(s) = Head(s).n + Messages(Tail(s))
         /\ \A k \in 1..Len(s) :
              /\ SubSeq(s, 1, k) \in Seq(Records)
              /\ SubSeq(s, k + 1, Len(s)) \in Seq(Records)
              /\ Messages(SubSeq(s, 1, k)) \in Nat
              /\ Messages(SubSeq(s, k + 1, Len(s))) \in Nat
              /\ Messages(s) = Messages(SubSeq(s, 1, k))
                                 + Messages(SubSeq(s, k + 1, Len(s)))
<1>1. Messages(<<>>) = 0
  <2> DEFINE c == [i \in 0..0 |-> 0]
  <2>1. c[0] = 0 /\ <<>> \in Seq(Records) /\ Len(<<>>) = 0
    OBVIOUS
  <2>2. \A i \in 1..Len(<<>>) : c[i] = c[i-1] + (<<>>)[i].n
    OBVIOUS
  <2> HIDE DEF c
  <2> QED BY <2>1, <2>2, MessagesAre
<1>2. Messages(s) \in Nat
  BY MessagesConcat
<1>3. ASSUME NEW r \in Records PROVE Messages(<<r>>) = r.n /\ <<r>> \in Seq(Records)
  <2> DEFINE c == [i \in 0..1 |-> IF i = 0 THEN 0 ELSE r.n]
  <2>1. c[0] = 0 /\ c[1] = r.n /\ <<r>> \in Seq(Records) /\ Len(<<r>>) = 1 /\ (<<r>>)[1] = r
    OBVIOUS
  <2>2. r.n \in Nat
    BY DEF Records
  <2>3. \A i \in 1..Len(<<r>>) : c[i] = c[i-1] + (<<r>>)[i].n
    BY <2>1, <2>2
  <2> HIDE DEF c
  <2> QED BY <2>1, <2>3, MessagesAre
<1>4. ASSUME NEW r \in Records
      PROVE  /\ Append(s, r) \in Seq(Records)
             /\ Messages(Append(s, r)) = Messages(s) + r.n
  <2>1. Append(s, r) = s \o <<r>>
    OBVIOUS
  <2> QED BY <2>1, <1>3, MessagesConcat
<1>5. ASSUME s # <<>>
      PROVE  /\ Tail(s) \in Seq(Records) /\ Head(s) \in Records
             /\ Messages(Tail(s)) \in Nat
             /\ Messages(s) = Head(s).n + Messages(Tail(s))
  <2>1. Tail(s) \in Seq(Records) /\ Head(s) \in Records /\ s = <<Head(s)>> \o Tail(s)
    BY <1>5
  <2>2. /\ Messages(Tail(s)) \in Nat
        /\ Messages(<<Head(s)>> \o Tail(s)) = Messages(<<Head(s)>>) + Messages(Tail(s))
    BY <2>1, <1>3, MessagesConcat
  <2> QED BY <2>1, <2>2, <1>3
<1>6. ASSUME NEW k \in 1..Len(s)
      PROVE  /\ SubSeq(s, 1, k) \in Seq(Records)
             /\ SubSeq(s, k + 1, Len(s)) \in Seq(Records)
             /\ Messages(SubSeq(s, 1, k)) \in Nat
             /\ Messages(SubSeq(s, k + 1, Len(s))) \in Nat
             /\ Messages(s) = Messages(SubSeq(s, 1, k))
                                + Messages(SubSeq(s, k + 1, Len(s)))
  <2> DEFINE a == SubSeq(s, 1, k)
             b == SubSeq(s, k + 1, Len(s))
  <2>1. /\ a \in Seq(Records) /\ Len(a) = k
        /\ \A i \in 1..Len(a) : a[i] = s[i]
    OBVIOUS
  <2>2. /\ b \in Seq(Records) /\ Len(b) = Len(s) - k
        /\ \A i \in 1..Len(b) : b[i] = s[i + k]
    OBVIOUS
  <2> HIDE DEF a, b
  <2>3. a \o b = s
    <3>1. /\ 1 \in 1..(Len(s) + 1) /\ k \in (1 - 1)..Len(s)
          /\ Len(s) \in k..Len(s)
      OBVIOUS
    <3>2. a \o b = SubSeq(s, 1, Len(s))
      BY <3>1, ConcatAdjacentSubSeq DEF a, b
    <3> QED BY <3>2, SubSeqFull
  <2>4. /\ Messages(a) \in Nat /\ Messages(b) \in Nat
        /\ Messages(a \o b) = Messages(a) + Messages(b)
    BY <2>1, <2>2, MessagesConcat
  <2> QED BY <2>1, <2>2, <2>3, <2>4 DEF a, b
<1> QED BY <1>1, <1>2, <1>4, <1>5, <1>6

\* Types, and the count.
CountInv ==
  /\ net \in Seq(Records) /\ engine.rx \in Seq(Records)
  /\ engine = [need |-> engine.need, rx |-> engine.rx, tx |-> engine.tx]
  /\ peer = [flights |-> peer.flights, sent |-> peer.sent, msgs |-> peer.msgs,
             wire |-> peer.wire, plain |-> peer.plain, gone |-> peer.gone]
  /\ buffer \in Nat /\ got \in Nat /\ peer.msgs \in Nat
  /\ MessagesConserved

\* What has been counted stays where it is.
LEMMA NothingCounted ==
  ASSUME CountInv,
         UNCHANGED <<net, buffer, got>>,
         engine' = [need |-> engine'.need, rx |-> engine.rx, tx |-> engine'.tx],
         \/ peer' = peer
         \/ \E w : peer' = [peer EXCEPT !.wire = w]
         \/ \E n : peer' = [peer EXCEPT !.flights = n]
  PROVE  CountInv'
<1>1. engine'.rx = engine.rx
  OBVIOUS
<1>2. /\ peer'.msgs = peer.msgs
      /\ peer' = [flights |-> peer'.flights, sent |-> peer'.sent, msgs |-> peer'.msgs,
                  wire |-> peer'.wire, plain |-> peer'.plain, gone |-> peer'.gone]
  BY DEF CountInv
<1> QED BY <1>1, <1>2 DEF CountInv, MessagesConserved

LEMMA HandleWantCounts ==
  ASSUME CountInv, NEW f, NEW r, NEW e,
         e = [need |-> e.need, rx |-> engine.rx, tx |-> e.tx],
         HandleWant(f, e, r), UNCHANGED <<net, dataVars>>
  PROVE  CountInv'
<1>1. UNCHANGED <<net, buffer, got>>
  BY DEF dataVars
<1>2. engine' = [e EXCEPT !.tx = 0] \/ engine' = e
  BY DEF HandleWant
<1>3. engine' = [need |-> engine'.need, rx |-> engine.rx, tx |-> engine'.tx]
  BY <1>2
<1>4. peer' = peer \/ \E w : peer' = [peer EXCEPT !.wire = w]
  BY DEF HandleWant
<1> QED BY <1>1, <1>3, <1>4, NothingCounted

\* The first record of the engine.
LEMMA FirstRecord ==
  ASSUME CountInv, First(engine) # "none"
  PROVE  /\ engine.rx # <<>> /\ First(engine) = Head(engine.rx).kind
         /\ Head(engine.rx) \in Records /\ Tail(engine.rx) \in Seq(Records)
         /\ Messages(Tail(engine.rx)) \in Nat
         /\ Messages(engine.rx) = Head(engine.rx).n + Messages(Tail(engine.rx))
<1>1. engine.rx # <<>> /\ First(engine) = Head(engine.rx).kind
  BY DEF First
<1>2. engine.rx \in Seq(Records)
  BY DEF CountInv
<1> QED BY <1>1, <1>2, MessagesParts

LEMMA StepCounts ==
  ASSUME CountInv, NEW f \in Fibers, Step(f)
  PROVE  CountInv'
<1>0. /\ engine.rx \in Seq(Records) /\ Messages(engine.rx) \in Nat
      /\ net \in Seq(Records) /\ Messages(net) \in Nat
      /\ buffer \in Nat /\ got \in Nat
      /\ got + buffer + Messages(engine.rx) + Messages(net) = peer.msgs
  BY MessagesParts DEF CountInv, MessagesConserved
<1>1. CASE Absorb(f)
  <2>1. /\ engine' = [need |-> engine.need - 1, rx |-> Tail(engine.rx),
                      tx |-> engine.tx + 1]
        /\ UNCHANGED <<net, buffer, got, peer>> /\ First(engine) = "h"
    BY <1>1 DEF Absorb, dataVars, CanAbsorb
  <2>2. Head(engine.rx).n = 0 /\ Tail(engine.rx) \in Seq(Records)
    BY <2>1, FirstRecord DEF Records
  <2>3. Messages(Tail(engine.rx)) = Messages(engine.rx)
    BY <2>1, <2>2, FirstRecord
  <2>4. engine'.rx = Tail(engine.rx) /\ engine' = [need |-> engine'.need, rx |-> engine'.rx, tx |-> engine'.tx]
    BY <2>1
  <2> QED BY <2>1, <2>2, <2>3, <2>4 DEF CountInv, MessagesConserved
<1>2. CASE Handshake(f)
  <2>1. engine = [need |-> engine.need, rx |-> engine.rx, tx |-> engine.tx]
    BY DEF CountInv
  <2> QED BY <1>2, <2>1, HandleWantCounts DEF Handshake
<1>3. CASE HandshakeOver(f)
  <2>1. UNCHANGED <<net, engine, peer>>
    BY <1>3 DEF HandshakeOver, sslVars
  <2>2. \/ UNCHANGED <<buffer, got>>
        \/ got' = got + buffer /\ buffer' = 0
    BY <1>3 DEF HandshakeOver, dataVars
  <2>3. buffer' \in Nat /\ got' \in Nat /\ got' + buffer' = got + buffer
    BY <1>0, <2>2
  <2> QED BY <2>1, <2>3, <1>0 DEF CountInv, MessagesConserved
<1>4. CASE ReadNow(f)
  <2>1. UNCHANGED <<net, engine, peer>>
    BY <1>4 DEF ReadNow, sslVars
  <2>2. buffer' \in Nat /\ got' \in Nat /\ got' + buffer' = got + buffer
    BY <1>0, <1>4 DEF ReadNow, Buffered
  <2> QED BY <2>1, <2>2, <1>0 DEF CountInv, MessagesConserved
<1>5. CASE ReadRecord(f)
  <2> DEFINE n == buffer + Head(engine.rx).n
  <2>1. /\ First(engine) = "d" /\ UNCHANGED <<net, peer>>
        /\ engine' = [engine EXCEPT !.rx = Tail(@)]
        /\ IF n > 0 THEN buffer' = n - 1 /\ got' = got + 1
           ELSE UNCHANGED <<buffer, got>>
    BY <1>5 DEF ReadRecord, dataVars
  <2>2. /\ engine'.rx = Tail(engine.rx)
        /\ engine' = [need |-> engine'.need, rx |-> engine'.rx, tx |-> engine'.tx]
    BY <2>1 DEF CountInv
  <2>3. /\ Head(engine.rx).n \in Nat /\ Tail(engine.rx) \in Seq(Records)
        /\ Messages(Tail(engine.rx)) \in Nat
        /\ Messages(engine.rx) = Head(engine.rx).n + Messages(Tail(engine.rx))
    BY <2>1, FirstRecord DEF Records
  <2>4. n \in Nat /\ n = buffer + Head(engine.rx).n
    BY SMTT(30), <1>0, <2>3
  <2> HIDE DEF n
  <2>5. buffer' \in Nat /\ got' \in Nat /\ got' + buffer' = got + n
    <3>1. /\ buffer \in Nat /\ got \in Nat /\ Head(engine.rx).n \in Nat
          /\ n \in Nat /\ n = buffer + Head(engine.rx).n
      BY <1>0, <2>3, <2>4
    <3>2. \/ n > 0 /\ buffer' = n - 1 /\ got' = got + 1
          \/ ~(n > 0) /\ buffer' = buffer /\ got' = got
      BY <2>1
    <3> QED BY <3>1, <3>2
  <2>6. got' + buffer' + Messages(engine'.rx) + Messages(net') = peer'.msgs
    <3> DEFINE a == Messages(engine.rx)
               b == Messages(Tail(engine.rx))
               d == Messages(net)
               h == Head(engine.rx).n
    <3>1. a = h + b /\ h \in Nat /\ b \in Nat /\ d \in Nat /\ n = buffer + h
      BY <1>0, <2>3, <2>4
    <3>2. got + buffer + a + d = peer.msgs /\ Messages(engine'.rx) = b /\ Messages(net') = d
      BY <1>0, <2>1, <2>2
    <3> HIDE DEF a, b, d, h
    <3> QED BY <1>0, <2>1, <2>5, <3>1, <3>2
  <2> QED BY <2>1, <2>2, <2>3, <2>5, <2>6, <1>0 DEF CountInv, MessagesConserved
<1>6. CASE ReadWants(f)
  <2>1. engine = [need |-> engine.need, rx |-> engine.rx, tx |-> engine.tx]
    BY DEF CountInv
  <2> QED BY <1>6, <2>1, HandleWantCounts DEF ReadWants
<1>7. CASE Write(f)
  <2> DEFINE e == [engine EXCEPT !.tx = @ + 1]
  <2>1. e = [need |-> e.need, rx |-> engine.rx, tx |-> e.tx]
    BY DEF CountInv
  <2>2. HandleWant(f, e, "ok") /\ UNCHANGED <<net, dataVars>>
    BY <1>7 DEF Write
  <2> HIDE DEF e
  <2> QED BY <2>1, <2>2, HandleWantCounts
<1> QED BY <1>1, <1>2, <1>3, <1>4, <1>5, <1>6, <1>7 DEF Step

LEMMA OnDataCounts ==
  ASSUME CountInv, OnData
  PROVE  CountInv'
<1>0. /\ engine.rx \in Seq(Records) /\ Messages(engine.rx) \in Nat
      /\ net \in Seq(Records) /\ buffer \in Nat /\ got \in Nat
      /\ got + buffer + Messages(engine.rx) + Messages(net) = peer.msgs
  BY MessagesParts DEF CountInv, MessagesConserved
<1>1. PICK k \in 1..Len(net) :
        /\ net' = SubSeq(net, k + 1, Len(net))
        /\ Feed(k) \/ Fallback(k)
  BY DEF OnData
<1> DEFINE s == SubSeq(net, 1, k)
<1>2. /\ s \in Seq(Records) /\ net' \in Seq(Records)
      /\ Messages(s) \in Nat /\ Messages(net') \in Nat
      /\ Messages(net) = Messages(s) + Messages(net')
  BY <1>0, <1>1, MessagesParts
<1>3. peer' = peer
  BY DEF OnData
<1>4. CASE Feed(k)
  <2>1. engine' = [engine EXCEPT !.rx = @ \o s] /\ UNCHANGED <<buffer, got>>
    BY <1>4 DEF Feed, dataVars
  <2>2. /\ engine'.rx = engine.rx \o s
        /\ engine' = [need |-> engine'.need, rx |-> engine'.rx, tx |-> engine'.tx]
    BY <2>1 DEF CountInv
  <2> HIDE DEF s
  <2>3. /\ engine.rx \o s \in Seq(Records)
        /\ Messages(engine.rx \o s) = Messages(engine.rx) + Messages(s)
    BY <1>0, <1>2, MessagesConcat
  <2> QED BY <1>0, <1>2, <1>3, <2>1, <2>2, <2>3 DEF CountInv, MessagesConserved
<1>5. CASE Fallback(k)
  <2>1. buffer' = buffer + Messages(s) /\ UNCHANGED <<engine, got>>
    BY <1>5 DEF Fallback
  <2> HIDE DEF s
  <2> QED BY SMTT(30), <1>0, <1>2, <1>3, <2>1 DEF CountInv, MessagesConserved
<1> QED BY <1>1, <1>4, <1>5

LEMMA SendsCounts ==
  ASSUME CountInv, NEW kind \in {"h", "d", "c", "a", "p"}, NEW n \in Nat,
         kind \in {"h", "c", "a"} => n = 0, Sends(kind, n),
         peer' = [flights |-> peer'.flights, sent |-> peer'.sent, msgs |-> peer'.msgs,
                  wire |-> peer'.wire, plain |-> peer'.plain, gone |-> peer'.gone],
         peer'.msgs = peer.msgs + n
  PROVE  CountInv'
<1> DEFINE r == [kind |-> kind, n |-> n]
<1>1. r \in Records /\ r.n = n
  BY DEF Records
<1>2. net' = Append(net, r) /\ UNCHANGED <<engine, buffer, got>>
  BY DEF Sends, sslVars, dataVars
<1> HIDE DEF r
<1>3. /\ net \in Seq(Records) /\ engine.rx \in Seq(Records)
      /\ buffer \in Nat /\ got \in Nat /\ peer.msgs \in Nat
      /\ got + buffer + Messages(engine.rx) + Messages(net) = peer.msgs
  BY DEF CountInv, MessagesConserved
<1>4. /\ Append(net, r) \in Seq(Records)
      /\ Messages(Append(net, r)) = Messages(net) + n
      /\ Messages(net) \in Nat /\ Messages(engine.rx) \in Nat
  BY <1>1, <1>3, MessagesParts
<1>5. got' + buffer' + Messages(engine'.rx) + Messages(net') = peer'.msgs
  BY <1>2, <1>3, <1>4
<1>6. peer'.msgs \in Nat
  BY <1>3
<1> QED BY <1>2, <1>3, <1>4, <1>5, <1>6 DEF CountInv, MessagesConserved

\* Messages are neither lost nor made up between the socket, the SSL object,
\* the buffer and the decoders, whichever fibers read and write when, and when
\* the connection turns out to be plain.
THEOREM TlsMessagesConserved == Spec => []MessagesConserved
<1>1. Init => CountInv
  <2> SUFFICES ASSUME Init PROVE CountInv
    OBVIOUS
  <2>1. /\ net = <<>> /\ engine.rx = <<>> /\ buffer = 0 /\ got = 0
        /\ engine = [need |-> engine.need, rx |-> engine.rx, tx |-> engine.tx]
    BY DEF Init
  <2>2. /\ peer.msgs = 0
        /\ peer = [flights |-> peer.flights, sent |-> peer.sent, msgs |-> peer.msgs,
                   wire |-> peer.wire, plain |-> peer.plain, gone |-> peer.gone]
    BY DEF Init
  <2>3. <<>> \in Seq(Records) /\ Messages(<<>>) = 0
    <3>1. <<>> \in Seq(Records)
      OBVIOUS
    <3> QED BY <3>1, MessagesParts
  <2> QED BY <2>1, <2>2, <2>3 DEF CountInv, MessagesConserved
<1>2. CountInv /\ [Next]_vars => CountInv'
  <2> SUFFICES ASSUME CountInv, [Next]_vars PROVE CountInv'
    OBVIOUS
  <2>0. /\ engine = [need |-> engine.need, rx |-> engine.rx, tx |-> engine.tx]
        /\ peer = [flights |-> peer.flights, sent |-> peer.sent, msgs |-> peer.msgs,
                   wire |-> peer.wire, plain |-> peer.plain, gone |-> peer.gone]
        /\ peer.msgs \in Nat
    BY DEF CountInv
  <2>1. CASE UNCHANGED <<net, engine, buffer, got, peer>>
    BY <2>1 DEF CountInv, MessagesConserved
  <2>2. ASSUME NEW f \in Fibers, Step(f) PROVE CountInv'
    BY <2>2, StepCounts
  <2>3. CASE OnData
    BY <2>3, OnDataCounts
  <2>4. CASE \/ \E f \in Fibers : \E op \in {"read", "write"} : Begin(f, op)
             \/ OnWriteDone \/ OnTimeout \/ OnError
    BY <2>1, <2>4 DEF Begin, OnWriteDone, OnTimeout, OnError, ReadError, sslVars, dataVars
  <2>5. CASE PeerFlight
    <3>1. Sends("h", 0) /\ peer' = [peer EXCEPT !.flights = @ + 1]
      BY <2>5 DEF PeerFlight
    <3>2. /\ peer'.msgs = peer.msgs + 0
          /\ peer' = [flights |-> peer'.flights, sent |-> peer'.sent,
                      msgs |-> peer'.msgs, wire |-> peer'.wire,
                      plain |-> peer'.plain, gone |-> peer'.gone]
      BY <2>0, <3>1
    <3> QED BY <3>1, <3>2, SendsCounts
  <2>6. ASSUME NEW n \in 0..2, PeerData(n) PROVE CountInv'
    <3>1. /\ Sends("p", n) \/ Sends("d", n)
          /\ peer' = [peer EXCEPT !.sent = @ + 1, !.msgs = @ + n]
      BY <2>6 DEF PeerData
    <3>2. /\ peer'.msgs = peer.msgs + n
          /\ peer' = [flights |-> peer'.flights, sent |-> peer'.sent,
                      msgs |-> peer'.msgs, wire |-> peer'.wire,
                      plain |-> peer'.plain, gone |-> peer'.gone]
      BY <2>0, <3>1
    <3> QED BY <3>1, <3>2, SendsCounts
  <2>7. ASSUME NEW kind \in {"a", "c"}, PeerAlert(kind) PROVE CountInv'
    <3>1. Sends(kind, 0)
      BY <2>7 DEF PeerAlert
    <3>2. PICK b : peer' = [peer EXCEPT !.gone = b]
      BY <2>7 DEF PeerAlert
    <3>3. /\ peer'.msgs = peer.msgs + 0
          /\ peer' = [flights |-> peer'.flights, sent |-> peer'.sent,
                      msgs |-> peer'.msgs, wire |-> peer'.wire,
                      plain |-> peer'.plain, gone |-> peer'.gone]
      BY <2>0, <3>2
    <3> QED BY <3>1, <3>3, SendsCounts
  <2>8. CASE UNCHANGED vars
    BY <2>1, <2>8 DEF vars, sslVars, dataVars
  <2> QED BY <2>2, <2>3, <2>4, <2>5, <2>6, <2>7, <2>8 DEF Next
<1>3. CountInv => MessagesConserved
  BY DEF CountInv
<1> QED BY <1>1, <1>2, <1>3, PTL DEF Spec
=============================================================================
