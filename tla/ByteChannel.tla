---------------------------- MODULE ByteChannel ----------------------------
(***************************************************************************)
(* What a stream promises the fibers that share it: a channel of tokens    *)
(* that at most one fiber reads at a time, and whose requests end in the   *)
(* order in which they were made.  A fiber that calls waits until its own  *)
(* call ends.  What a read returns depends on the tokens alone and not on  *)
(* how they arrive: a "frame" is always the next message, and nothing is   *)
(* taken by a read that fails.                                             *)
(***************************************************************************)
EXTENDS Naturals, Sequences

CONSTANTS Fibers,
          Nil      \* no fiber, and no decoder

VARIABLES
  sent,      \* the kinds of the tokens the peer has sent
  coming,    \* the numbers of those nobody has taken
  taken,     \* the numbers of those that were
  reader,    \* the fiber that waits for tokens
  wants,     \* its decoder
  requests,  \* the writes and shutdowns that have not ended
  waiting    \* the fibers that wait for the channel

chvars == <<sent, coming, taken, reader, wants, requests, waiting>>

ChInit ==
  /\ sent = <<>> /\ coming = <<>> /\ taken = <<>>
  /\ reader = Nil /\ wants = Nil
  /\ requests = <<>> /\ waiting = {}

\* The first n tokens are what a read with decoder d may return.
Answers(d, n) ==
  /\ n \in 1..Len(coming)
  /\ d = "frame" =>
       /\ sent[coming[n]] = "e"
       /\ \A i \in 1..(n - 1) : sent[coming[i]] = "d"

Take(n) ==
  /\ taken' = taken \o SubSeq(coming, 1, n)
  /\ coming' = SubSeq(coming, n + 1, Len(coming))

\* A read that need not wait.
ReadAtOnce(f) ==
  /\ f \notin waiting /\ reader = Nil
  /\ \E d \in {"frame", "any"}, n \in 1..Len(coming) : Answers(d, n) /\ Take(n)
  /\ UNCHANGED <<sent, reader, wants, requests, waiting>>

BeginRead(f) ==
  /\ f \notin waiting /\ reader = Nil
  /\ reader' = f /\ wants' \in {"frame", "any"}
  /\ waiting' = waiting \cup {f}
  /\ UNCHANGED <<sent, coming, taken, requests>>

\* The reader goes on, and nobody reads.
EndRead ==
  /\ reader # Nil
  /\ reader' = Nil /\ wants' = Nil
  /\ waiting' = waiting \ {reader}

ReadReturns ==
  /\ EndRead
  /\ \E n \in 1..Len(coming) : Answers(wants, n) /\ Take(n)
  /\ UNCHANGED <<sent, requests>>

\* A timeout, an error, the end of the stream or a malformed token.
ReadThrows ==
  /\ EndRead
  /\ UNCHANGED <<sent, coming, taken, requests>>

\* A write or a shutdown, and its end, whatever its result.
Request(f, op) ==
  /\ f \notin waiting
  /\ requests' = Append(requests, [fiber |-> f, op |-> op])
  /\ waiting' = waiting \cup {f}
  /\ UNCHANGED <<sent, coming, taken, reader, wants>>

RequestEnds ==
  /\ requests # <<>>
  /\ requests' = Tail(requests)
  /\ waiting' = waiting \ {Head(requests).fiber}
  /\ UNCHANGED <<sent, coming, taken, reader, wants>>

Send(kind) ==
  /\ sent' = Append(sent, kind)
  /\ coming' = Append(coming, Len(sent) + 1)
  /\ UNCHANGED <<taken, reader, wants, requests, waiting>>

ChNext ==
  \/ \E f \in Fibers : \/ ReadAtOnce(f) \/ BeginRead(f)
                       \/ Request(f, "write") \/ Request(f, "shutdown")
  \/ ReadReturns \/ ReadThrows \/ RequestEnds
  \/ \E kind \in {"d", "e", "x"} : Send(kind)

ChSpec == ChInit /\ [][ChNext]_chvars
=============================================================================
