--------------------------- MODULE NotificationHub ---------------------------
(***************************************************************************)
(* One user's channel of the NotificationHub (core/notification_hub.py):   *)
(* the ring of recent events, the subscribers' queues, and the clients of  *)
(* GET /notifications/stream, which reconnect with the last sequence       *)
(* number they saw.  Every operation is free of awaits.                    *)
(***************************************************************************)
EXTENDS Integers, Sequences, FiniteSets

CONSTANTS
  Client,       \* the connections' owners
  RecentLimit,  \* RECENT_LIMIT, 200
  QueueBound,   \* the bound of a subscriber's queue, 128
  MaxEvents,    \* bound: events in the life of one process
  MaxRestarts   \* bound: restarts of the process

ASSUME HubAssumption ==
  RecentLimit \in Nat \ {0} /\ QueueBound \in Nat \ {0} /\ MaxEvents \in Nat /\ MaxRestarts \in Nat

VARIABLES
  seq,      \* _seq of the user: the last number given
  recent,   \* _recent: the numbers in the ring, oldest first
  inbox,    \* _subscribers: the queue of each connected client, otherwise Off
  last,     \* the client's `since`: the last number it saw, 0 for None
  seen,     \* history: the numbers a client got in this life of the process
  first,    \* history: the first number it could get in it
  missed,   \* history: one of the documented losses hit the client
  restarts

hubHistory == <<seen, first, missed>>
hubVars == <<seq, recent, inbox, last, hubHistory, restarts>>

Off == <<0>>   \* no queue: 0 is no event's number
Connected(c) == inbox[c] # Off
Full(q) == Len(q) >= QueueBound

HubInit ==
  /\ seq = 0 /\ recent = <<>>
  /\ inbox = [c \in Client |-> Off]
  /\ last = [c \in Client |-> 0]
  /\ seen = [c \in Client |-> <<>>]
  /\ first = [c \in Client |-> 1]
  /\ missed = [c \in Client |-> FALSE]
  /\ restarts = 0

\* publish: into the ring, and into every queue that has room.
PublishEvent ==
  /\ seq < MaxEvents
  /\ seq' = seq + 1
  /\ recent' = LET r == Append(recent, seq') IN IF Len(r) > RecentLimit THEN Tail(r) ELSE r
  /\ inbox' = [c \in Client |-> IF Connected(c) /\ ~Full(inbox[c])
                                THEN Append(inbox[c], seq') ELSE inbox[c]]
  /\ missed' = [c \in Client |-> missed[c] \/ (Connected(c) /\ Full(inbox[c]))]
  /\ UNCHANGED <<last, seen, first, restarts>>

\* What the ring still has after `since`: its numbers ascend.
Replay(since) ==
  SubSeq(recent, 1 + Cardinality({i \in DOMAIN recent : recent[i] <= since}), Len(recent))

\* A mutant of SubscribeClient: the event last seen is replayed once more.
SubscribeAgain(c) ==
  /\ ~Connected(c)
  /\ LET replay == Replay(last[c] - 1) IN
     /\ inbox' = [inbox EXCEPT ![c] = SubSeq(replay, 1, IF Full(replay) THEN QueueBound ELSE Len(replay))]
     /\ missed' = [missed EXCEPT ![c] = @ \/ Len(replay) > QueueBound
                                          \/ (last[c] > 0 /\ seq > last[c] + Len(replay))]
     /\ first' = [first EXCEPT ![c] = IF last[c] = 0 /\ recent # <<>> THEN Head(recent) ELSE @]
  /\ UNCHANGED <<seq, recent, last, seen, restarts>>

\* subscribe: the queue is seeded oldest first until it is full.
SubscribeClient(c) ==
  /\ ~Connected(c)
  /\ LET replay == Replay(last[c]) IN
     /\ inbox' = [inbox EXCEPT ![c] = SubSeq(replay, 1, IF Full(replay) THEN QueueBound ELSE Len(replay))]
     /\ missed' = [missed EXCEPT ![c] = @ \/ Len(replay) > QueueBound
                                          \/ (last[c] > 0 /\ seq > last[c] + Len(replay))]
     /\ first' = [first EXCEPT ![c] = IF last[c] = 0 /\ recent # <<>> THEN Head(recent) ELSE @]
  /\ UNCHANGED <<seq, recent, last, seen, restarts>>

\* notification_stream yields an event; the 15 second ping changes nothing.
TakeEvent(c) ==
  /\ Connected(c) /\ inbox[c] # <<>>
  /\ last' = [last EXCEPT ![c] = Head(inbox[c])]
  /\ seen' = [seen EXCEPT ![c] = Append(@, Head(inbox[c]))]
  /\ inbox' = [inbox EXCEPT ![c] = Tail(@)]
  /\ UNCHANGED <<seq, recent, first, missed, restarts>>

\* The connection goes, and its queue with it.
UnsubscribeClient(c) ==
  /\ Connected(c)
  /\ inbox' = [inbox EXCEPT ![c] = Off]
  /\ UNCHANGED <<seq, recent, last, hubHistory, restarts>>

\* The hub is memory of the process; the clients remember their `since`.
RestartHub ==
  /\ restarts < MaxRestarts /\ restarts' = restarts + 1
  /\ seq' = 0 /\ recent' = <<>>
  /\ inbox' = [c \in Client |-> Off]
  /\ seen' = [c \in Client |-> <<>>]
  /\ first' = [c \in Client |-> 1]
  /\ missed' = [c \in Client |-> last[c] > 0]
  /\ UNCHANGED last

HubNext ==
  \/ PublishEvent \/ RestartHub
  \/ \E c \in Client : SubscribeClient(c) \/ TakeEvent(c) \/ UnsubscribeClient(c)

HubSpec == HubInit /\ [][HubNext]_hubVars

-----------------------------------------------------------------------------
Run(a, b) == [i \in 1..(b + 1 - a) |-> a + i - 1]

\* What a connected client got and has in its queue runs, without a gap or a
\* repeat over any number of reconnections, from the first event it could get to
\* the last one published, unless its queue was full, the ring had turned over, or
\* the process restarted under a `since` it kept (notification_hub.py:31-59); and
\* it ascends whatever was missed.
NotificationsAreExact ==
  \A c \in Client : Connected(c) =>
    LET all == seen[c] \o inbox[c] IN
    /\ \A i \in 1..Len(all) - 1 : all[i] < all[i + 1]
    /\ ~missed[c] => all = Run(first[c], seq)
=============================================================================
