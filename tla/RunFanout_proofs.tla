--------------------------- MODULE RunFanout_proofs ---------------------------
(***************************************************************************)
(* Proofs about RunFanout for every set of clients, every queue size of at *)
(* least two and any number of deltas: the type invariant, order, delivery *)
(* of the terminal events, that only a full queue loses an event, and that *)
(* RunFanout implements RunStream.                                         *)
(***************************************************************************)
EXTENDS RunFanout, TLAPS

(***************************************************************************)
(* One queue, by itself.  `lo` is the position at which the client joined, *)
(* `hi` the length of the log and `got` what the client was given.         *)
(***************************************************************************)
\* Append and Tail, element by element.
LEMMA AppendElements ==
  ASSUME NEW q \in Seq(Nat), NEW x \in Nat
  PROVE  /\ Append(q, x) \in Seq(Nat)
         /\ Len(Append(q, x)) = Len(q) + 1
         /\ DOMAIN Append(q, x) = 1 .. Len(q) + 1
         /\ \A k \in 1 .. Len(q) : Append(q, x)[k] = q[k]
         /\ Append(q, x)[Len(q) + 1] = x
  OBVIOUS

\* The head leaves and every other element moves up by one.
LEMMA TailElements ==
  ASSUME NEW q \in Seq(Nat), q # <<>>
  PROVE  /\ Tail(q) \in Seq(Nat)
         /\ Len(Tail(q)) = Len(q) - 1
         /\ DOMAIN Tail(q) = 1 .. Len(q) - 1
         /\ \A k \in 1 .. Len(q) - 1 : Tail(q)[k] = q[k + 1]
         /\ Head(q) = q[1]
  OBVIOUS

\* Order survives an append of a newer event and the removal of the head.
LEMMA AppendOrdered ==
  ASSUME NEW q \in Seq(Nat), NEW lo \in Nat, NEW hi \in Nat, lo <= hi,
         NEW got \in SUBSET Nat, \A i \in got : i <= hi,
         Ordered(q, lo, hi, got)
  PROVE  Ordered(Append(q, hi + 1), lo, hi + 1, got)
<1> DEFINE r == Append(q, hi + 1)
<1>1. /\ DOMAIN r = 1 .. Len(q) + 1 /\ DOMAIN q = 1 .. Len(q) /\ Len(q) \in Nat
      /\ \A k \in 1 .. Len(q) : r[k] = q[k]
      /\ r[Len(q) + 1] = hi + 1
  BY AppendElements
<1> HIDE DEF r
<1>2. /\ \A k \in DOMAIN q : lo < q[k] /\ q[k] <= hi /\ q[k] \in Nat
      /\ \A k \in DOMAIN q, i \in got : i < q[k]
      /\ \A k, m \in DOMAIN q : k < m => q[k] < q[m]
  BY DEF Ordered
<1>3. \A k \in DOMAIN r : k \in DOMAIN q \/ k = Len(q) + 1
  BY <1>1
<1>4. \A k \in DOMAIN r : lo < r[k] /\ r[k] <= hi + 1
  BY <1>1, <1>2, <1>3
<1>5. \A k \in DOMAIN r, i \in got : i < r[k]
  BY <1>1, <1>2, <1>3
<1>6. \A k, m \in DOMAIN r : k < m => r[k] < r[m]
  BY <1>1, <1>2, <1>3
<1> QED BY <1>4, <1>5, <1>6 DEF Ordered, r

\* What is left of a queue is ordered, also towards the head it gave up.
LEMMA TailOrdered ==
  ASSUME NEW q \in Seq(Nat), q # <<>>, NEW lo \in Nat, NEW hi \in Nat,
         NEW got \in SUBSET Nat, Ordered(q, lo, hi, got)
  PROVE  /\ Ordered(Tail(q), lo, hi, got)
         /\ Ordered(Tail(q), lo, hi, got \cup {Head(q)})
<1>1. /\ DOMAIN Tail(q) = 1 .. Len(q) - 1 /\ DOMAIN q = 1 .. Len(q) /\ Len(q) \in Nat
      /\ \A k \in 1 .. Len(q) - 1 : Tail(q)[k] = q[k + 1]
      /\ Head(q) = q[1] /\ 1 \in DOMAIN q
  BY TailElements
<1>2. /\ \A k \in DOMAIN q : lo < q[k] /\ q[k] <= hi /\ q[k] \in Nat
      /\ \A k \in DOMAIN q, i \in got : i < q[k]
      /\ \A k, m \in DOMAIN q : k < m => q[k] < q[m]
  BY DEF Ordered
<1> DEFINE r == Tail(q)
<1>3. DOMAIN r = 1 .. Len(q) - 1 /\ \A k \in DOMAIN r : k + 1 \in DOMAIN q /\ r[k] = q[k + 1]
  BY <1>1
<1> HIDE DEF r
<1>4. \A k \in DOMAIN r : lo < r[k] /\ r[k] <= hi
  BY <1>2, <1>3
<1>5. \A k \in DOMAIN r, i \in got \cup {Head(q)} : i < r[k]
  BY <1>1, <1>2, <1>3
<1>6. \A k, m \in DOMAIN r : k < m => r[k] < r[m]
  BY <1>1, <1>2, <1>3
<1> QED BY <1>4, <1>5, <1>6 DEF Ordered, r

\* The queue a put leaves is a queue: typed, within its bound, ordered.
LEMMA PutOrdered ==
  ASSUME NEW q \in Seq(Nat), Len(q) <= Cap,
         NEW lo \in Nat, NEW hi \in Nat, lo <= hi,
         NEW got \in SUBSET Nat, \A i \in got : i <= hi,
         NEW kind \in Kind,
         Ordered(q, lo, hi, got)
  PROVE  /\ Put(q, hi + 1, kind) \in Seq(Nat)
         /\ Len(Put(q, hi + 1, kind)) <= Cap
         /\ Ordered(Put(q, hi + 1, kind), lo, hi + 1, got)
<1> USE CapAssumption
<1>1. CASE Len(q) < Cap
  <2>1. Put(q, hi + 1, kind) = Append(q, hi + 1)
    BY <1>1 DEF Put
  <2>2. Append(q, hi + 1) \in Seq(Nat) /\ Len(Append(q, hi + 1)) = Len(q) + 1
    BY AppendElements
  <2>3. Ordered(Append(q, hi + 1), lo, hi + 1, got)
    BY AppendOrdered
  <2>4. Len(Append(q, hi + 1)) <= Cap
    BY <1>1, <2>2
  <2> QED BY <2>1, <2>2, <2>3, <2>4
<1>2. CASE ~(Len(q) < Cap) /\ kind \in Terminal
  <2>1. Put(q, hi + 1, kind) = Append(Tail(q), hi + 1)
    BY <1>2 DEF Put
  <2>2. q # <<>> /\ Tail(q) \in Seq(Nat) /\ Len(Tail(q)) = Len(q) - 1
    BY <1>2, TailElements
  <2>3. Ordered(Tail(q), lo, hi, got)
    BY <2>2, TailOrdered
  <2>4. Ordered(Append(Tail(q), hi + 1), lo, hi + 1, got)
    BY <2>2, <2>3, AppendOrdered
  <2>5. /\ Append(Tail(q), hi + 1) \in Seq(Nat)
        /\ Len(Append(Tail(q), hi + 1)) = Len(Tail(q)) + 1
    BY <2>2, AppendElements
  <2>6. Len(Append(Tail(q), hi + 1)) <= Cap
    BY <2>2, <2>5
  <2> QED BY <2>1, <2>4, <2>5, <2>6
<1>3. CASE ~(Len(q) < Cap) /\ kind \notin Terminal
  <2>1. Put(q, hi + 1, kind) = q
    BY <1>3 DEF Put
  <2>2. Ordered(q, lo, hi + 1, got)
    <3>1. \A k \in DOMAIN q : q[k] \in Nat
      OBVIOUS
    <3> QED BY <3>1 DEF Ordered
  <2> QED BY <2>1, <2>2
<1> QED BY <1>1, <1>2, <1>3

\* A terminal event is in the queue after its put.
LEMMA PutTerminal ==
  ASSUME NEW q \in Seq(Nat), NEW i \in Nat, NEW kind \in Terminal
  PROVE  i \in Range(Put(q, i, kind))
<1> USE CapAssumption
<1>1. CASE Len(q) < Cap
  <2>1. Append(q, i)[Len(q) + 1] = i /\ Len(q) + 1 \in DOMAIN Append(q, i)
    OBVIOUS
  <2> QED BY <1>1, <2>1 DEF Put, Range
<1>2. CASE ~(Len(q) < Cap)
  <2>1. Tail(q) \in Seq(Nat)
    BY <1>2
  <2>2. Append(Tail(q), i)[Len(Tail(q)) + 1] = i /\ Len(Tail(q)) + 1 \in DOMAIN Append(Tail(q), i)
    BY <2>1
  <2> QED BY <1>2, <2>2 DEF Put, Range
<1> QED BY <1>1, <1>2

\* A put loses nothing but the head of a full queue, and that only for a
\* terminal event.
LEMMA PutKeeps ==
  ASSUME NEW q \in Seq(Nat), NEW i \in Nat, NEW kind \in Kind, NEW j \in Range(q),
         Len(q) < Cap \/ kind \notin Terminal \/ j # Head(q)
  PROVE  j \in Range(Put(q, i, kind))
<1> USE CapAssumption
<1>0. PICK k \in DOMAIN q : q[k] = j
  BY DEF Range
<1>1. CASE Len(q) < Cap
  <2>1. Append(q, i)[k] = j /\ k \in DOMAIN Append(q, i)
    BY <1>0
  <2> QED BY <1>1, <2>1 DEF Put, Range
<1>2. CASE ~(Len(q) < Cap) /\ kind \in Terminal
  <2>1. k # 1 /\ k \in 2 .. Len(q)
    BY <1>0, <1>2
  <2>2. Tail(q) \in Seq(Nat) /\ Len(Tail(q)) = Len(q) - 1 /\ Tail(q)[k - 1] = j
    BY <1>0, <1>2, <2>1
  <2>3. Append(Tail(q), i)[k - 1] = j /\ k - 1 \in DOMAIN Append(Tail(q), i)
    BY <2>1, <2>2
  <2> QED BY <1>2, <2>3 DEF Put, Range
<1>3. CASE ~(Len(q) < Cap) /\ kind \notin Terminal
  BY <1>3 DEF Put
<1> QED BY <1>1, <1>2, <1>3

\* The head of a full ordered queue is never the newest event.
LEMMA HeadNotNewest ==
  ASSUME NEW q \in Seq(Nat), NEW lo \in Nat, NEW hi \in Nat, NEW got,
         Len(q) >= Cap, Ordered(q, lo, hi, got)
  PROVE  Head(q) # hi
<1>1. 1 \in DOMAIN q /\ 2 \in DOMAIN q /\ Head(q) = q[1]
  BY CapAssumption
<1>2. q[1] < q[2] /\ q[2] <= hi /\ q[1] \in Nat /\ q[2] \in Nat
  BY <1>1 DEF Ordered
<1> QED BY <1>1, <1>2

-----------------------------------------------------------------------------
(***************************************************************************)
(* The inductive invariant.  What the safety properties lack to be         *)
(* inductive: open streams are subscribed (so every put reaches them), the *)
(* log has a terminal event only at its end, streams that drain have seen  *)
(* the run over, and every client joined before the ending.                *)
(***************************************************************************)
LogShape ==
  /\ ~over => \A i \in 1 .. Len(log) : log[i] = Delta
  /\ over => Len(log) > 0 /\ log[Len(log)] = "done"

\* A stream that was not created yet has nothing of the run.
IdleClean ==
  \A c \in Client :
    stream[c] = "idle" => c \notin subscribers /\ queue[c] = <<>> /\ received[c] = {}

Bookkeeping ==
  \A c \in Client :
    /\ stream[c] \in Running => c \in subscribers
    /\ stream[c] \in {"draining", "ended"} => over
    /\ joined[c] <= Len(log)
    /\ over => joined[c] < Len(log)
    /\ \A i \in received[c] : joined[c] < i /\ i <= Len(log)

IInv ==
  /\ TypeOK
  /\ LogShape
  /\ IdleClean
  /\ Bookkeeping
  /\ DeliveredInOrder
  /\ TerminalEventsReachOpenStreams
  /\ EndedStreamsSawTheEnding

\* The invariant holds of a run that was just registered, with one subscriber
\* and nothing published.
THEOREM InitIInv == Init => IInv
<1> SUFFICES ASSUME Init PROVE IInv
  OBVIOUS
<1> USE StarterAssumption, CapAssumption DEF Init
<1>1. TypeOK
  <2>1. log \in Seq(Kind) /\ subscribers \subseteq Client /\ lagged \subseteq Client
    OBVIOUS
  <2>4. over \in BOOLEAN
    OBVIOUS
  <2>2. queue \in [Client -> Seq(Nat)] /\ \A c \in Client : Len(queue[c]) <= Cap
    OBVIOUS
  <2>3. stream \in [Client -> Stage] /\ joined \in [Client -> Nat] /\ received \in [Client -> SUBSET Nat]
    BY DEF Stage
  <2> QED BY <2>1, <2>2, <2>3, <2>4 DEF TypeOK
<1>2. LogShape /\ Bookkeeping /\ IdleClean
  BY DEF LogShape, Bookkeeping, IdleClean, Running
<1>3. DeliveredInOrder
  BY DEF DeliveredInOrder, Ordered
<1>4. TerminalEventsReachOpenStreams /\ EndedStreamsSawTheEnding
  BY DEF TerminalEventsReachOpenStreams, EndedStreamsSawTheEnding, Due
<1> QED BY <1>1, <1>2, <1>3, <1>4 DEF IInv

\* What a put of event Len(log) + 1 does to every queue of a state in which
\* qs are the queues and n events are published.
LEMMA FanOutQueues ==
  ASSUME NEW qs \in [Client -> Seq(Nat)], \A c \in Client : Len(qs[c]) <= Cap,
         NEW n \in Nat, NEW kind \in Kind,
         joined \in [Client -> Nat], received \in [Client -> SUBSET Nat],
         \A c \in Client : joined[c] <= n /\ \A i \in received[c] : i <= n,
         \A c \in Client : Ordered(qs[c], joined[c], n, received[c])
  PROVE  /\ FanOut(qs, n + 1, kind) \in [Client -> Seq(Nat)]
         /\ \A c \in Client :
              /\ Len(FanOut(qs, n + 1, kind)[c]) <= Cap
              /\ Ordered(FanOut(qs, n + 1, kind)[c], joined[c], n + 1, received[c])
<1> SUFFICES ASSUME NEW c \in Client
             PROVE  LET r == IF c \in subscribers THEN Put(qs[c], n + 1, kind) ELSE qs[c]
                    IN  /\ r \in Seq(Nat)
                        /\ Len(r) <= Cap
                        /\ Ordered(r, joined[c], n + 1, received[c])
  BY DEF FanOut
<1>1. CASE c \in subscribers
  <2>1. /\ qs[c] \in Seq(Nat) /\ Len(qs[c]) <= Cap
        /\ joined[c] \in Nat /\ joined[c] <= n
        /\ received[c] \in SUBSET Nat /\ \A i \in received[c] : i <= n
        /\ Ordered(qs[c], joined[c], n, received[c])
    OBVIOUS
  <2> QED BY <1>1, <2>1, PutOrdered
<1>2. CASE c \notin subscribers
  <2>1. qs[c] \in Seq(Nat) /\ Len(qs[c]) <= Cap /\ Ordered(qs[c], joined[c], n, received[c])
    OBVIOUS
  <2>2. \A k \in DOMAIN qs[c] : qs[c][k] \in Nat
    BY <2>1
  <2> QED BY <1>2, <2>1, <2>2 DEF Ordered
<1> QED BY <1>1, <1>2

-----------------------------------------------------------------------------
(* The steps that publish. *)

\* What IInv says of the queues before a put.
LEMMA QueuesBeforePut ==
  ASSUME IInv
  PROVE  /\ queue \in [Client -> Seq(Nat)] /\ \A c \in Client : Len(queue[c]) <= Cap
         /\ Len(log) \in Nat
         /\ joined \in [Client -> Nat] /\ received \in [Client -> SUBSET Nat]
         /\ \A c \in Client : joined[c] <= Len(log) /\ \A i \in received[c] : i <= Len(log)
         /\ \A c \in Client : Ordered(queue[c], joined[c], Len(log), received[c])
  BY DEF IInv, TypeOK, Bookkeeping, DeliveredInOrder

\* A delta goes to the end of a queue or nowhere.
LEMMA PublishDeltaStep == IInv /\ PublishDelta => IInv'
<1> SUFFICES ASSUME IInv, PublishDelta PROVE IInv'
  OBVIOUS
<1>1. /\ log' = Append(log, Delta) /\ log \in Seq(Kind)
      /\ Len(log') = Len(log) + 1
      /\ \A i \in 1 .. Len(log) : log'[i] = log[i]
      /\ log'[Len(log) + 1] = Delta
      /\ log' \in Seq(Kind)
  BY DEF PublishDelta, IInv, TypeOK, Kind
<1>2. ~over /\ over' = over
  BY DEF PublishDelta
<1>3. /\ queue' \in [Client -> Seq(Nat)] /\ \A c \in Client : Len(queue'[c]) <= Cap
      /\ \A c \in Client : Ordered(queue'[c], joined[c], Len(log'), received[c])
  BY QueuesBeforePut, FanOutQueues, <1>1 DEF PublishDelta, Kind
<1>4. TypeOK'
  <2>1. lagged' \subseteq Client
    BY DEF PublishDelta, Full, IInv, TypeOK
  <2> QED BY <1>1, <1>2, <1>3, <2>1 DEF PublishDelta, IInv, TypeOK
<1>5. \A i \in 1 .. Len(log') : log'[i] = Delta
  BY <1>1, <1>2 DEF IInv, LogShape
<1>6. LogShape'
  BY <1>2, <1>5 DEF LogShape
<1>7. Bookkeeping'
  BY <1>1, <1>2, QueuesBeforePut DEF PublishDelta, IInv, Bookkeeping
<1>8. DeliveredInOrder'
  BY <1>3 DEF PublishDelta, DeliveredInOrder
<1>9. TerminalEventsReachOpenStreams'
  <2>1. ASSUME NEW c \in Client PROVE Due(c)' = {}
    BY <1>1, <1>5, QueuesBeforePut DEF PublishDelta, Due, Terminal, Delta
  <2> QED BY <2>1 DEF TerminalEventsReachOpenStreams
<1>10. EndedStreamsSawTheEnding'
  BY <1>2 DEF PublishDelta, IInv, Bookkeeping, EndedStreamsSawTheEnding
<1>11. IdleClean'
  <2> SUFFICES ASSUME NEW c \in Client, stream[c] = "idle"
               PROVE  c \notin subscribers /\ queue'[c] = <<>> /\ received[c] = {}
    BY DEF PublishDelta, IdleClean
  <2> QED BY DEF PublishDelta, FanOut, IInv, IdleClean
<1> QED BY <1>4, <1>6, <1>7, <1>8, <1>9, <1>10, <1>11 DEF IInv

\* The one terminal event of a run that completes, fails or is cancelled.
LEMMA EndWithDoneStep == IInv /\ EndWithDone => IInv'
<1> SUFFICES ASSUME IInv, EndWithDone PROVE IInv'
  OBVIOUS
<1>1. /\ log' = Append(log, "done") /\ log \in Seq(Kind)
      /\ Len(log') = Len(log) + 1
      /\ \A i \in 1 .. Len(log) : log'[i] = log[i]
      /\ log'[Len(log) + 1] = "done"
      /\ log' \in Seq(Kind)
  BY DEF EndWithDone, IInv, TypeOK, Kind, Terminal
<1>2. ~over /\ over' = TRUE
  BY DEF EndWithDone
<1>3. /\ queue' \in [Client -> Seq(Nat)] /\ \A c \in Client : Len(queue'[c]) <= Cap
      /\ \A c \in Client : Ordered(queue'[c], joined[c], Len(log'), received[c])
  BY QueuesBeforePut, FanOutQueues, <1>1 DEF EndWithDone, Kind, Terminal
<1>4. TypeOK'
  <2>1. lagged' \subseteq Client
    BY DEF EndWithDone, Full, IInv, TypeOK
  <2> QED BY <1>1, <1>2, <1>3, <2>1 DEF EndWithDone, IInv, TypeOK
<1>5. LogShape'
  BY <1>1, <1>2, QueuesBeforePut DEF LogShape
<1>6. Bookkeeping'
  BY <1>1, <1>2, QueuesBeforePut DEF EndWithDone, IInv, Bookkeeping
<1>7. DeliveredInOrder'
  BY <1>3 DEF EndWithDone, DeliveredInOrder
<1>8. TerminalEventsReachOpenStreams'
  <2> SUFFICES ASSUME NEW c \in Client, stream[c] \in Running
               PROVE  Due(c)' \subseteq received[c] \cup Range(queue'[c])
    BY DEF EndWithDone, TerminalEventsReachOpenStreams
  <2>1. Due(c)' \subseteq {Len(log) + 1}
    BY <1>1, <1>2, QueuesBeforePut DEF EndWithDone, Due, IInv, LogShape, Terminal, Delta
  <2>2. c \in subscribers
    BY DEF IInv, Bookkeeping
  <2>3. queue'[c] = Put(queue[c], Len(log) + 1, "done")
    BY <2>2 DEF EndWithDone, FanOut
  <2>4. Len(log) + 1 \in Range(queue'[c])
    BY <2>3, PutTerminal, QueuesBeforePut DEF Terminal
  <2> QED BY <2>1, <2>4
<1>9. EndedStreamsSawTheEnding'
  BY <1>2 DEF EndWithDone, IInv, Bookkeeping, EndedStreamsSawTheEnding
<1>10. IdleClean'
  <2> SUFFICES ASSUME NEW c \in Client, stream[c] = "idle"
               PROVE  c \notin subscribers /\ queue'[c] = <<>> /\ received[c] = {}
    BY DEF EndWithDone, IdleClean
  <2> QED BY DEF EndWithDone, FanOut, IInv, IdleClean
<1> QED BY <1>4, <1>5, <1>6, <1>7, <1>8, <1>9, <1>10 DEF IInv

\* The `interrupt` and the `done` of a pausing run: the eviction that makes
\* room for the second never takes the first, because a full ordered queue of
\* at least two events has an older one at its head.
LEMMA EndWithInterruptStep == IInv /\ EndWithInterrupt => IInv'
<1> SUFFICES ASSUME IInv, EndWithInterrupt PROVE IInv'
  OBVIOUS
<1> DEFINE n     == Len(log)
           first == FanOut(queue, n + 1, "interrupt")
<1>0. n \in Nat /\ log \in Seq(Kind) /\ n + 2 = (n + 1) + 1
  BY DEF IInv, TypeOK
<1>1. /\ log' = log \o <<"interrupt", "done">>
      /\ Len(log') = n + 2
      /\ \A i \in 1 .. n : log'[i] = log[i]
      /\ log'[n + 2] = "done"
      /\ log' \in Seq(Kind)
  BY <1>0 DEF EndWithInterrupt, Kind, Terminal
<1>2. ~over /\ over' = TRUE /\ queue' = FanOut(first, (n + 1) + 1, "done")
  BY <1>0 DEF EndWithInterrupt
<1>3. /\ first \in [Client -> Seq(Nat)] /\ \A c \in Client : Len(first[c]) <= Cap
      /\ \A c \in Client : Ordered(first[c], joined[c], n + 1, received[c])
  BY QueuesBeforePut, FanOutQueues DEF Kind, Terminal
<1>4. \A c \in Client : joined[c] <= n + 1 /\ \A i \in received[c] : i <= n + 1
  BY QueuesBeforePut
<1>5. /\ queue' \in [Client -> Seq(Nat)] /\ \A c \in Client : Len(queue'[c]) <= Cap
      /\ \A c \in Client : Ordered(queue'[c], joined[c], n + 2, received[c])
  <2> HIDE DEF first, n
  <2>1. n + 1 \in Nat /\ joined \in [Client -> Nat] /\ received \in [Client -> SUBSET Nat]
    BY <1>0, QueuesBeforePut
  <2> QED BY <1>0, <1>2, <1>3, <1>4, <2>1, FanOutQueues DEF Kind, Terminal
<1>6. TypeOK'
  <2>1. lagged' \subseteq Client
    BY DEF EndWithInterrupt, Full, IInv, TypeOK
  <2> QED BY <1>1, <1>2, <1>5, <2>1 DEF EndWithInterrupt, IInv, TypeOK
<1>7. LogShape'
  BY <1>0, <1>1, <1>2 DEF LogShape
<1>8. Bookkeeping'
  BY <1>0, <1>1, <1>2, QueuesBeforePut DEF EndWithInterrupt, IInv, Bookkeeping
<1>9. DeliveredInOrder'
  BY <1>1, <1>5 DEF EndWithInterrupt, DeliveredInOrder
<1>10. TerminalEventsReachOpenStreams'
  <2> SUFFICES ASSUME NEW c \in Client, stream[c] \in Running
               PROVE  Due(c)' \subseteq received[c] \cup Range(queue'[c])
    BY DEF EndWithInterrupt, TerminalEventsReachOpenStreams
  <2>1. Due(c)' \subseteq {n + 1, n + 2}
    <3>1. ASSUME NEW i \in Due(c)' PROVE i \in {n + 1, n + 2}
      <4>1. i \in 1 .. n + 2 /\ log'[i] \in Terminal
        BY <1>1, QueuesBeforePut DEF EndWithInterrupt, Due
      <4>2. i \notin 1 .. n
        BY <1>1, <1>2, <4>1 DEF IInv, LogShape, Terminal, Delta
      <4> QED BY <1>0, <4>1, <4>2
    <3> QED BY <3>1
  <2>2. c \in subscribers
    BY DEF IInv, Bookkeeping
  <2>3. /\ first[c] = Put(queue[c], n + 1, "interrupt")
        /\ queue'[c] = Put(first[c], (n + 1) + 1, "done")
    BY <1>2, <2>2 DEF FanOut
  <2>4. n + 1 \in Range(first[c])
    BY <1>0, <2>3, PutTerminal, QueuesBeforePut DEF Terminal
  <2> HIDE DEF first, n
  <2>5. first[c] \in Seq(Nat) /\ Ordered(first[c], joined[c], n + 1, received[c])
        /\ joined[c] \in Nat /\ n + 1 \in Nat
    BY <1>0, <1>3, QueuesBeforePut
  <2>6. Len(first[c]) < Cap \/ n + 1 # Head(first[c])
    <3>1. CASE Len(first[c]) >= Cap
      BY <2>5, <3>1, HeadNotNewest
    <3>2. CASE ~(Len(first[c]) >= Cap)
      BY <2>5, <3>2, CapAssumption
    <3> QED BY <3>1, <3>2
  <2>7. n + 1 \in Range(queue'[c])
    BY <1>0, <2>3, <2>4, <2>5, <2>6, PutKeeps DEF Kind, Terminal
  <2>8. n + 2 \in Range(queue'[c])
    BY <1>0, <2>3, <2>5, PutTerminal DEF Terminal
  <2> QED BY <2>1, <2>7, <2>8
<1>11. EndedStreamsSawTheEnding'
  BY <1>2 DEF EndWithInterrupt, IInv, Bookkeeping, EndedStreamsSawTheEnding
<1>12. IdleClean'
  <2> SUFFICES ASSUME NEW c \in Client, stream[c] = "idle"
               PROVE  c \notin subscribers /\ queue'[c] = <<>> /\ received[c] = {}
    BY DEF EndWithInterrupt, IdleClean
  <2> QED BY DEF EndWithInterrupt, FanOut, IInv, IdleClean
<1> QED BY <1>6, <1>7, <1>8, <1>9, <1>10, <1>11, <1>12 DEF IInv

-----------------------------------------------------------------------------
(* The steps of a client. *)

\* A client attaches with an empty queue, so nothing is due to it yet.
LEMMA AttachStep == ASSUME NEW c \in Client PROVE IInv /\ Attach(c) => IInv'
<1> SUFFICES ASSUME IInv, Attach(c) PROVE IInv'
  OBVIOUS
<1> USE DEF Attach
<1>0. Len(log) \in Nat
  BY DEF IInv, TypeOK
<1>1. queue[c] = <<>> /\ received[c] = {}
  BY DEF IInv, IdleClean
<1>2. TypeOK'
  BY <1>0 DEF IInv, TypeOK, Stage
<1>3. LogShape'
  BY DEF IInv, LogShape
<1>4. Bookkeeping'
  BY <1>0, <1>1 DEF IInv, TypeOK, Bookkeeping, Running
<1>5. DeliveredInOrder'
  <2>1. Ordered(<<>>, Len(log), Len(log), {})
    BY DEF Ordered
  <2> QED BY <1>1, <2>1 DEF IInv, TypeOK, DeliveredInOrder
<1>6. TerminalEventsReachOpenStreams'
  <2>1. Due(c)' = {}
    BY <1>0 DEF IInv, TypeOK, Due
  <2>2. \A d \in Client \ {c} : Due(d)' = Due(d) /\ stream'[d] = stream[d]
    BY DEF IInv, TypeOK, Due
  <2> QED BY <2>1, <2>2 DEF IInv, TerminalEventsReachOpenStreams
<1>7. EndedStreamsSawTheEnding'
  <2>1. \A d \in Client : stream'[d] # "ended"
    BY DEF IInv, TypeOK, Bookkeeping
  <2> QED BY <2>1 DEF EndedStreamsSawTheEnding
<1>8. IdleClean'
  BY DEF IInv, TypeOK, IdleClean
<1> QED BY <1>2, <1>3, <1>4, <1>5, <1>6, <1>7, <1>8 DEF IInv

\* A step of c that moves no event.
LEMMA StageStep ==
  ASSUME NEW c \in Client, NEW s \in Stage, IInv,
         stream' = [stream EXCEPT ![c] = s],
         subscribers' \in {subscribers, subscribers \ {c}},
         stream[c] # "idle", s # "idle",
         s \in Running => stream[c] \in Running /\ subscribers' = subscribers,
         s \in {"draining", "ended"} => over,
         s = "ended" => stream[c] \in Running /\ queue[c] = <<>>,
         UNCHANGED <<log, over, queue, joined, received, lagged>>
  PROVE  IInv'
<1>0. \A d \in Client : stream'[d] = IF d = c THEN s ELSE stream[d]
  BY DEF IInv, TypeOK
<1>1. TypeOK'
  BY DEF IInv, TypeOK
<1>2. LogShape'
  BY DEF IInv, LogShape
<1>3. Bookkeeping'
  BY <1>0 DEF IInv, Bookkeeping
<1>4. DeliveredInOrder'
  BY DEF IInv, DeliveredInOrder
<1>5. \A d \in Client : Due(d)' = Due(d)
  BY DEF Due
<1>6. TerminalEventsReachOpenStreams'
  BY <1>0, <1>5 DEF IInv, TerminalEventsReachOpenStreams
<1>7. EndedStreamsSawTheEnding'
  <2> SUFFICES ASSUME NEW d \in Client, stream'[d] = "ended"
               PROVE  /\ Due(d) \subseteq received[d]
                      /\ Len(log) \in received[d] /\ log[Len(log)] = "done"
    BY <1>5 DEF EndedStreamsSawTheEnding
  <2>1. CASE d # c
    BY <1>0, <2>1 DEF IInv, EndedStreamsSawTheEnding
  <2>2. CASE d = c
    <3>1. over /\ stream[c] \in Running /\ queue[c] = <<>>
      BY <1>0, <2>2
    <3>2. Range(queue[c]) = {}
      BY <3>1 DEF Range
    <3>3. Due(c) \subseteq received[c]
      BY <3>1, <3>2 DEF IInv, TerminalEventsReachOpenStreams
    <3>4. Len(log) \in Due(c) /\ log[Len(log)] = "done"
      BY <3>1 DEF IInv, LogShape, Bookkeeping, TypeOK, Due, Terminal
    <3> QED BY <2>2, <3>3, <3>4
  <2> QED BY <2>1, <2>2
<1>8. IdleClean'
  BY <1>0 DEF IInv, IdleClean
<1> QED BY <1>1, <1>2, <1>3, <1>4, <1>6, <1>7, <1>8 DEF IInv

\* A step that gives c the head of its queue.
LEMMA TakeStep ==
  ASSUME NEW c \in Client, IInv, queue[c] # <<>>, TakeHead(c),
         stream[c] \in {"live", "draining"},
         stream' \in {stream, [stream EXCEPT ![c] = "draining"]},
         stream' # stream => over,
         UNCHANGED <<log, over, subscribers, joined, lagged>>
  PROVE  IInv'
<1>0. /\ queue[c] \in Seq(Nat) /\ received[c] \in SUBSET Nat /\ Len(log) \in Nat
      /\ joined[c] \in Nat /\ Len(queue[c]) <= Cap
  BY DEF IInv, TypeOK
<1>1. /\ queue'[c] = Tail(queue[c]) /\ received'[c] = received[c] \cup {Head(queue[c])}
      /\ \A d \in Client \ {c} : queue'[d] = queue[d] /\ received'[d] = received[d]
  BY DEF TakeHead, IInv, TypeOK
<1>2. /\ Tail(queue[c]) \in Seq(Nat) /\ Len(Tail(queue[c])) = Len(queue[c]) - 1
      /\ Head(queue[c]) = queue[c][1] /\ 1 \in DOMAIN queue[c]
  BY <1>0, TailElements
<1>3. joined[c] < Head(queue[c]) /\ Head(queue[c]) <= Len(log) /\ Head(queue[c]) \in Nat
  BY <1>0, <1>2 DEF IInv, DeliveredInOrder, Ordered
<1>4. \A d \in Client : stream'[d] \in {stream[d], "draining"} /\ (d # c => stream'[d] = stream[d])
                        /\ (stream'[d] # stream[d] => over)
  BY DEF IInv, TypeOK
<1>5. \A d \in Client : /\ stream'[d] \in Running => stream[d] \in Running
                        /\ stream'[d] = "ended" => d # c
                        /\ stream'[d] = "idle" => d # c
  BY <1>4 DEF Running, IInv, TypeOK
<1>6. TypeOK'
  <2>1. stream' \in [Client -> Stage]
    BY DEF IInv, TypeOK, Stage
  <2>2. queue' \in [Client -> Seq(Nat)] /\ received' \in [Client -> SUBSET Nat]
    BY <1>0, <1>2, <1>3 DEF TakeHead, IInv, TypeOK
  <2>3. \A d \in Client : Len(queue'[d]) <= Cap
    <3>1. Len(queue'[c]) <= Cap
      BY <1>0, <1>1, <1>2, CapAssumption
    <3> QED BY <1>1, <3>1 DEF IInv, TypeOK
  <2> QED BY <2>1, <2>2, <2>3 DEF IInv, TypeOK
<1>7. LogShape'
  BY DEF IInv, LogShape
<1>8. Bookkeeping'
  BY <1>1, <1>3, <1>4, <1>5 DEF IInv, Bookkeeping
<1>9. DeliveredInOrder'
  <2>1. Ordered(Tail(queue[c]), joined[c], Len(log), received[c] \cup {Head(queue[c])})
    BY <1>0, TailOrdered DEF IInv, DeliveredInOrder
  <2> QED BY <1>1, <2>1 DEF IInv, DeliveredInOrder
<1>10. \A d \in Client : Due(d)' = Due(d)
  BY DEF Due
<1>11. TerminalEventsReachOpenStreams'
  <2> SUFFICES ASSUME NEW d \in Client, stream[d] \in Running, NEW i \in Due(d)
               PROVE  i \in received'[d] \cup Range(queue'[d])
    BY <1>5, <1>10 DEF TerminalEventsReachOpenStreams
  <2>0. i \in received[d] \cup Range(queue[d])
    BY DEF IInv, TerminalEventsReachOpenStreams
  <2>1. CASE d # c
    BY <1>1, <2>0, <2>1
  <2>2. CASE d = c /\ i \in received[c]
    BY <1>1, <2>2
  <2>3. CASE d = c /\ i \in Range(queue[c])
    <3>1. PICK k \in DOMAIN queue[c] : queue[c][k] = i
      BY <2>3 DEF Range
    <3>2. CASE k = 1
      BY <1>1, <1>2, <2>3, <3>1, <3>2
    <3>3. CASE k # 1
      <4>1. k - 1 \in DOMAIN Tail(queue[c]) /\ Tail(queue[c])[k - 1] = i
        BY <1>0, <3>1, <3>3, TailElements, SMTT(30)
      <4> QED BY <1>1, <2>3, <4>1 DEF Range
    <3> QED BY <3>2, <3>3
  <2> QED BY <2>0, <2>1, <2>2, <2>3
<1>12. EndedStreamsSawTheEnding'
  BY <1>1, <1>4, <1>5, <1>10 DEF IInv, EndedStreamsSawTheEnding
<1>13. IdleClean'
  BY <1>1, <1>4, <1>5 DEF IInv, IdleClean
<1> QED BY <1>6, <1>7, <1>8, <1>9, <1>11, <1>12, <1>13 DEF IInv

\* IInv is inductive: one step per action.
LEMMA NextIInv == IInv /\ [Next]_vars => IInv'
<1> SUFFICES ASSUME IInv, [Next]_vars PROVE IInv'
  OBVIOUS
<1>1. CASE UNCHANGED vars
  BY <1>1 DEF vars, IInv, TypeOK, LogShape, IdleClean, Bookkeeping, DeliveredInOrder,
              TerminalEventsReachOpenStreams, EndedStreamsSawTheEnding, Due
<1>2. CASE PublishDelta
  BY <1>2, PublishDeltaStep
<1>3. CASE EndWithDone
  BY <1>3, EndWithDoneStep
<1>4. CASE EndWithInterrupt
  BY <1>4, EndWithInterruptStep
<1>5. ASSUME NEW c \in Client, Attach(c) PROVE IInv'
  BY <1>5, AttachStep
<1>6. ASSUME NEW c \in Client, Open(c) PROVE IInv'
  BY <1>6, StageStep DEF Open, Stage, Running
<1>7. ASSUME NEW c \in Client, Take(c) PROVE IInv'
  BY <1>7, TakeStep DEF Take
<1>8. ASSUME NEW c \in Client, SeeDone(c) PROVE IInv'
  <2>1. CASE queue[c] = <<>>
    BY <1>8, <2>1, StageStep DEF SeeDone, Stage, Running
  <2>2. CASE queue[c] # <<>>
    BY <1>8, <2>2, TakeStep DEF SeeDone
  <2> QED BY <2>1, <2>2
<1>9. ASSUME NEW c \in Client, Drain(c) PROVE IInv'
  BY <1>9, TakeStep DEF Drain
<1>10. ASSUME NEW c \in Client, EndStream(c) PROVE IInv'
  <2>1. over
    BY <1>10 DEF EndStream, IInv, Bookkeeping
  <2> QED BY <1>10, <2>1, StageStep DEF EndStream, Stage, Running
<1>11. ASSUME NEW c \in Client, Detach(c) PROVE IInv'
  BY <1>11, StageStep DEF Detach, Stage, Running
<1>12. ASSUME NEW c \in Client, DetachEarly(c) PROVE IInv'
  BY <1>12, StageStep DEF DetachEarly, Stage, Running
<1> QED BY <1>1, <1>2, <1>3, <1>4, <1>5, <1>6, <1>7, <1>8, <1>9, <1>10, <1>11, <1>12 DEF Next

\* The inductive invariant of the queues, from which the properties follow.
THEOREM Invariance == Spec => []IInv
  BY InitIInv, NextIInv, PTL DEF Spec

\* The variables keep their types and no queue grows beyond its maxsize.
THEOREM TypeCorrect == Spec => []TypeOK
<1>1. IInv => TypeOK
  BY DEF IInv
<1> QED BY <1>1, Invariance, PTL

\* Every client is served in publication order.
THEOREM Order == Spec => []DeliveredInOrder
<1>1. IInv => DeliveredInOrder
  BY DEF IInv
<1> QED BY <1>1, Invariance, PTL

\* No open stream loses a terminal event, for any number of clients and any
\* queue that holds at least two events.
THEOREM TerminalDelivery == Spec => []TerminalEventsReachOpenStreams
<1>1. IInv => TerminalEventsReachOpenStreams
  BY DEF IInv
<1> QED BY <1>1, Invariance, PTL

\* A stream that the server ends has delivered the ending of the run.
THEOREM CompleteEnding == Spec => []EndedStreamsSawTheEnding
<1>1. IInv => EndedStreamsSawTheEnding
  BY DEF IInv
<1> QED BY <1>1, Invariance, PTL

-----------------------------------------------------------------------------
(***************************************************************************)
(* What a client with room in its queue is given.                          *)
(***************************************************************************)
\* A queue with room keeps all it has and takes the event.
LEMMA PutWithRoom ==
  ASSUME NEW q \in Seq(Nat), Len(q) < Cap, NEW i \in Nat, NEW kind \in Kind
  PROVE  Range(q) \cup {i} \subseteq Range(Put(q, i, kind))
<1>1. \A j \in Range(q) : j \in Range(Put(q, i, kind))
  BY PutKeeps
<1>2. i \in Range(Append(q, i))
  <2>1. Append(q, i)[Len(q) + 1] = i /\ Len(q) + 1 \in DOMAIN Append(q, i)
    OBVIOUS
  <2> QED BY <2>1 DEF Range
<1>3. Put(q, i, kind) = Append(q, i)
  BY DEF Put
<1> QED BY <1>1, <1>2, <1>3

\* What leaves a queue is its head.
LEMMA TailRange ==
  ASSUME NEW q \in Seq(Nat), q # <<>>
  PROVE  Range(q) \subseteq {Head(q)} \cup Range(Tail(q))
<1> SUFFICES ASSUME NEW k \in DOMAIN q PROVE q[k] \in {Head(q)} \cup Range(Tail(q))
  BY DEF Range
<1>1. /\ DOMAIN Tail(q) = 1 .. Len(q) - 1 /\ DOMAIN q = 1 .. Len(q) /\ Len(q) \in Nat
      /\ \A j \in 1 .. Len(q) - 1 : Tail(q)[j] = q[j + 1]
      /\ Head(q) = q[1]
  BY TailElements
<1>2. CASE k = 1
  BY <1>1, <1>2
<1>3. CASE k # 1
  <2>1. k - 1 \in DOMAIN Tail(q) /\ (k - 1) + 1 = k
    BY <1>1, <1>3
  <2>2. Tail(q)[k - 1] = q[k]
    BY <1>1, <2>1
  <2> QED BY <2>1, <2>2 DEF Range
<1> QED BY <1>2, <1>3

\* One publish, to the queues qs: who had room holds one event more.
LEMMA PublishKeeps ==
  ASSUME NEW qs \in [Client -> Seq(Nat)], NEW n \in Nat, NEW kind \in Kind, NEW c \in Client,
         c \in subscribers, c \notin Full(qs), Len(qs[c]) \in Nat,
         NEW lo \in Nat, NEW got \in SUBSET Nat, (lo + 1) .. n \subseteq got \cup Range(qs[c])
  PROVE  (lo + 1) .. (n + 1) \subseteq got \cup Range(FanOut(qs, n + 1, kind)[c])
<1>1. FanOut(qs, n + 1, kind)[c] = Put(qs[c], n + 1, kind)
  BY DEF FanOut
<1>2. Len(qs[c]) < Cap
  BY CapAssumption DEF Full
<1>3. Range(qs[c]) \cup {n + 1} \subseteq Range(Put(qs[c], n + 1, kind))
  BY <1>2, PutWithRoom
<1>4. (lo + 1) .. (n + 1) \subseteq ((lo + 1) .. n) \cup {n + 1}
  OBVIOUS
<1> QED BY <1>1, <1>3, <1>4

\* No step makes a client with room lose an event.
LEMMA LossStep == IInv /\ OnlyFullQueuesLose /\ [Next]_vars => OnlyFullQueuesLose'
<1> SUFFICES ASSUME IInv, OnlyFullQueuesLose, [Next]_vars, NEW c \in Client, c \notin lagged',
                    stream'[c] \in Running \cup {"ended"}
             PROVE  (joined'[c] + 1) .. Len(log') \subseteq received'[c] \cup Range(queue'[c])
  BY DEF OnlyFullQueuesLose
<1> DEFINE Given == (joined[c] + 1) .. Len(log) \subseteq received[c] \cup Range(queue[c])
<1>1. /\ queue \in [Client -> Seq(Nat)] /\ Len(log) \in Nat /\ log \in Seq(Kind) /\ Len(queue[c]) \in Nat
      /\ joined \in [Client -> Nat] /\ received \in [Client -> SUBSET Nat]
      /\ stream \in [Client -> Stage] /\ joined[c] \in Nat /\ received[c] \in SUBSET Nat
  BY DEF IInv, TypeOK
<1>2. c \notin lagged /\ stream[c] \in Running \cup {"ended"} => Given
  BY DEF OnlyFullQueuesLose
<1>3. /\ stream[c] \in Running => c \in subscribers
      /\ stream[c] = "ended" => over
  BY DEF IInv, Bookkeeping
<1>p. ASSUME stream' = stream, ~over PROVE c \in subscribers
  BY <1>p, <1>3
<1>4. CASE PublishDelta
  <2>1. /\ log' = Append(log, Delta) /\ queue' = FanOut(queue, Len(log) + 1, Delta)
        /\ lagged' = lagged \cup Full(queue) /\ stream' = stream /\ ~over
        /\ joined' = joined /\ received' = received /\ Delta \in Kind
    BY <1>4 DEF PublishDelta, Kind
  <2>2. Len(log') = Len(log) + 1 /\ Given /\ c \notin Full(queue)
    BY <1>1, <1>2, <2>1
  <2> QED BY <1>1, <1>p, <2>1, <2>2, PublishKeeps
<1>5. CASE EndWithDone
  <2>1. /\ log' = Append(log, "done") /\ queue' = FanOut(queue, Len(log) + 1, "done")
        /\ lagged' = lagged \cup Full(queue) /\ stream' = stream /\ ~over
        /\ joined' = joined /\ received' = received /\ "done" \in Kind
    BY <1>5 DEF EndWithDone, Kind, Terminal
  <2>2. Len(log') = Len(log) + 1 /\ Given /\ c \notin Full(queue)
    BY <1>1, <1>2, <2>1
  <2> QED BY <1>1, <1>p, <2>1, <2>2, PublishKeeps
<1>6. CASE EndWithInterrupt
  <2> DEFINE qs == FanOut(queue, Len(log) + 1, "interrupt")
             m  == Len(log) + 1
  <2>1. /\ log' = log \o <<"interrupt", "done">> /\ queue' = FanOut(qs, Len(log) + 2, "done")
        /\ lagged' = lagged \cup Full(queue) \cup Full(qs) /\ stream' = stream /\ ~over
        /\ joined' = joined /\ received' = received /\ "done" \in Kind /\ "interrupt" \in Kind
    BY <1>6 DEF EndWithInterrupt, Kind, Terminal
  <2>2. Len(log') = m + 1 /\ m \in Nat /\ Given /\ c \notin Full(queue) /\ c \notin Full(qs)
        /\ Len(log) + 2 = m + 1
    BY <1>1, <1>2, <2>1
  <2>3. (joined[c] + 1) .. m \subseteq received[c] \cup Range(qs[c])
    BY <1>1, <1>p, <2>1, <2>2, PublishKeeps
  <2>4. qs \in [Client -> Seq(Nat)] /\ Len(qs[c]) \in Nat
    <3>1. /\ \A d \in Client : Len(queue[d]) <= Cap
          /\ \A d \in Client : joined[d] <= Len(log) /\ \A i \in received[d] : i <= Len(log)
          /\ \A d \in Client : Ordered(queue[d], joined[d], Len(log), received[d])
      BY QueuesBeforePut
    <3>2. qs \in [Client -> Seq(Nat)]
      BY <1>1, <2>1, <3>1, FanOutQueues
    <3> HIDE DEF qs
    <3> QED BY <3>2
  <2> HIDE DEF qs, m
  <2>5. (joined[c] + 1) .. (m + 1) \subseteq received[c] \cup Range(FanOut(qs, m + 1, "done")[c])
    BY <1>1, <1>p, <2>1, <2>2, <2>3, <2>4, PublishKeeps
  <2> QED BY <2>1, <2>2, <2>5
<1>7. ASSUME NEW d \in Client, Attach(d) PROVE (joined'[c] + 1) .. Len(log') \subseteq received'[c] \cup Range(queue'[c])
  <2>1. /\ stream' = [stream EXCEPT ![d] = "opening"] /\ joined' = [joined EXCEPT ![d] = Len(log)]
        /\ log' = log /\ queue' = queue /\ received' = received /\ lagged' = lagged
    BY <1>7 DEF Attach
  <2>2. CASE d = c
    BY <1>1, <2>1, <2>2
  <2>3. CASE d # c
    BY <1>1, <1>2, <2>1, <2>3
  <2> QED BY <2>2, <2>3
<1>8. ASSUME NEW d \in Client, queue[d] # <<>>, TakeHead(d), stream[d] \in Running, log' = log,
             joined' = joined, lagged' = lagged, \A e \in Client \ {d} : stream'[e] = stream[e]
      PROVE  (joined'[c] + 1) .. Len(log') \subseteq received'[c] \cup Range(queue'[c])
  <2>1. CASE d = c
    <3>1. /\ queue'[c] = Tail(queue[c]) /\ received'[c] = received[c] \cup {Head(queue[c])}
          /\ Range(queue[c]) \subseteq {Head(queue[c])} \cup Range(Tail(queue[c])) /\ Given
      BY <1>1, <1>2, <1>8, <2>1, TailRange DEF TakeHead
    <3> QED BY <1>8, <3>1
  <2>2. CASE d # c
    BY <1>1, <1>2, <1>8, <2>2 DEF TakeHead
  <2> QED BY <2>1, <2>2
<1>9. ASSUME NEW d \in Client, queue' = queue, received' = received, log' = log, joined' = joined,
             lagged' = lagged, stream[d] \in Running, \A e \in Client \ {d} : stream'[e] = stream[e]
      PROVE  (joined'[c] + 1) .. Len(log') \subseteq received'[c] \cup Range(queue'[c])
  BY <1>2, <1>9
<1>10. ASSUME NEW d \in Client, SeeDone(d) PROVE (joined'[c] + 1) .. Len(log') \subseteq received'[c] \cup Range(queue'[c])
  <2>1. stream[d] \in Running /\ log' = log /\ joined' = joined /\ lagged' = lagged
        /\ \A e \in Client \ {d} : stream'[e] = stream[e]
    BY <1>1, <1>10 DEF SeeDone, Running
  <2> QED BY <1>8, <1>9, <1>10, <2>1 DEF SeeDone
<1>11. ASSUME NEW d \in Client, Take(d) \/ Drain(d)
       PROVE (joined'[c] + 1) .. Len(log') \subseteq received'[c] \cup Range(queue'[c])
  BY <1>8, <1>11 DEF Take, Drain, Running
<1>12. ASSUME NEW d \in Client, Open(d) \/ EndStream(d) \/ Detach(d) \/ DetachEarly(d)
       PROVE (joined'[c] + 1) .. Len(log') \subseteq received'[c] \cup Range(queue'[c])
  BY <1>1, <1>9, <1>12 DEF Open, EndStream, Detach, DetachEarly, Running
<1>13. CASE UNCHANGED vars
  BY <1>2, <1>13 DEF vars
<1> QED BY <1>4, <1>5, <1>6, <1>7, <1>10, <1>11, <1>12, <1>13 DEF Next

\* A client that had room in its queue at every publish missed nothing.
THEOREM Lossless == Spec => []OnlyFullQueuesLose
<1>1. Init => OnlyFullQueuesLose
  BY DEF Init, OnlyFullQueuesLose, Running
<1> QED BY <1>1, LossStep, Invariance, PTL DEF Spec

-----------------------------------------------------------------------------
(* Refinement of RunStream. *)

\* A registered run is a run of RunStream with its starter watching.
LEMMA RefineInit == Init => Contract!Init
  BY DEF Init, Contract!Init, Phase, Running

\* Every action is one of RunStream or leaves its variables alone.
LEMMA RefineNext == IInv /\ [Next]_vars => [Contract!Next]_(Contract!vars)
<1> SUFFICES ASSUME IInv, [Next]_vars PROVE [Contract!Next]_(Contract!vars)
  OBVIOUS
<1> DEFINE phase == [c \in Client |-> Phase(stream[c])]
<1> USE DEF Contract!vars
<1>0. stream \in [Client -> Stage]
  BY DEF IInv, TypeOK
<1>1. CASE UNCHANGED vars
  BY <1>1 DEF vars
<1>2. CASE PublishDelta
  BY <1>2 DEF PublishDelta, Contract!Next, Contract!Emit, Delta, Contract!Delta
<1>3. CASE EndWithDone
  <2>1. log' = log \o <<"done">>
    BY <1>3 DEF EndWithDone, IInv, TypeOK
  <2>2. Contract!Close(<<"done">>)
    BY <1>3, <2>1 DEF EndWithDone, Contract!Close
  <2> QED BY <2>2 DEF Contract!Next, Contract!Endings
<1>4. CASE EndWithInterrupt
  <2>1. Contract!Close(<<"interrupt", "done">>)
    BY <1>4 DEF EndWithInterrupt, Contract!Close
  <2> QED BY <2>1 DEF Contract!Next, Contract!Endings
<1>5. ASSUME NEW c \in Client, Attach(c) PROVE [Contract!Next]_(Contract!vars)
  <2>1. phase' = [phase EXCEPT ![c] = "watching"] /\ phase[c] = "out"
    BY <1>0, <1>5 DEF Attach, Phase, Running
  <2>2. Contract!Join(c)
    BY <1>5, <2>1 DEF Attach, Contract!Join
  <2> QED BY <2>2 DEF Contract!Next
<1>6. ASSUME NEW c \in Client, Open(c) PROVE [Contract!Next]_(Contract!vars)
  <2>1. phase' = phase
    BY <1>0, <1>6 DEF Open, Phase, Running
  <2> QED BY <1>6, <2>1 DEF Open
<1>7. ASSUME NEW c \in Client, queue[c] # <<>>, TakeHead(c), phase[c] = "watching",
             phase' = phase, UNCHANGED <<log, over, joined>>
      PROVE  [Contract!Next]_(Contract!vars)
  <2>1. /\ queue[c] \in Seq(Nat) /\ joined[c] \in Nat /\ Len(log) \in Nat
        /\ Ordered(queue[c], joined[c], Len(log), received[c])
    BY DEF IInv, TypeOK, DeliveredInOrder
  <2>2. Head(queue[c]) = queue[c][1] /\ 1 \in DOMAIN queue[c] /\ Head(queue[c]) \in Nat
    BY <1>7, <2>1
  <2>3. /\ Head(queue[c]) \in (joined[c] + 1) .. Len(log)
        /\ \A j \in received[c] : j < Head(queue[c])
    BY <2>1, <2>2 DEF Ordered
  <2>4. Contract!See(c, Head(queue[c]))
    BY <1>7, <2>3 DEF TakeHead, Contract!See
  <2>5. Head(queue[c]) \in 1 .. Len(log)
    BY <2>1, <2>3
  <2> QED BY <2>4, <2>5 DEF Contract!Next
<1>8. ASSUME NEW c \in Client, Take(c) \/ Drain(c) PROVE [Contract!Next]_(Contract!vars)
  BY <1>7, <1>8 DEF Take, Drain, Phase, Running
<1>9. ASSUME NEW c \in Client, SeeDone(c) PROVE [Contract!Next]_(Contract!vars)
  <2>1. phase' = phase /\ phase[c] = "watching"
    BY <1>0, <1>9 DEF SeeDone, Phase, Running
  <2>2. CASE queue[c] = <<>>
    BY <1>9, <2>1, <2>2 DEF SeeDone
  <2>3. CASE queue[c] # <<>>
    BY <1>7, <1>9, <2>1, <2>3 DEF SeeDone
  <2> QED BY <2>2, <2>3
<1>10. ASSUME NEW c \in Client, EndStream(c) PROVE [Contract!Next]_(Contract!vars)
  <2>1. phase' = [phase EXCEPT ![c] = "ended"] /\ phase[c] = "watching"
    BY <1>0, <1>10 DEF EndStream, Phase, Running
  <2>2. over
    BY <1>10 DEF EndStream, IInv, Bookkeeping
  <2>3. Due(c) \subseteq received[c]
    BY <1>10 DEF EndStream, IInv, TerminalEventsReachOpenStreams, Running, Range
  <2>4. Contract!TerminalsAfter(log, joined[c]) = Due(c)
    BY DEF Contract!TerminalsAfter, Due, Terminal, Contract!Terminal
  <2>5. Contract!End(c)
    BY <1>10, <2>1, <2>2, <2>3, <2>4 DEF EndStream, Contract!End
  <2> QED BY <2>5 DEF Contract!Next
<1>11. ASSUME NEW c \in Client, Detach(c) \/ DetachEarly(c) PROVE [Contract!Next]_(Contract!vars)
  <2>1. phase' = [phase EXCEPT ![c] = "left"] /\ phase[c] = "watching"
    BY <1>0, <1>11 DEF Detach, DetachEarly, Phase, Running
  <2>2. Contract!Leave(c)
    BY <1>11, <2>1 DEF Detach, DetachEarly, Contract!Leave
  <2> QED BY <2>2 DEF Contract!Next
<1> QED BY <1>1, <1>2, <1>3, <1>4, <1>5, <1>6, <1>8, <1>9, <1>10, <1>11 DEF Next

\* The bounded, evicting queues keep the promise of RunStream.
THEOREM Refinement == Spec => ImplementsRunStream
  BY RefineInit, RefineNext, Invariance, PTL DEF Spec, Contract!Spec, ImplementsRunStream
=============================================================================
