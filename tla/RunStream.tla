------------------------------ MODULE RunStream ------------------------------
(***************************************************************************)
(* What an agent run promises the clients that watch it, and nothing of   *)
(* how the promise is kept.  A run is an append-only log of events that is *)
(* closed once, by a final `done` that an `interrupt` may precede.  A      *)
(* client that is attached sees log positions in increasing order, starts *)
(* after the position at which it attached, and may miss deltas; its       *)
(* stream may end by itself only after it saw every terminal event.        *)
(*                                                                         *)
(* RunFanout implements this specification with a bounded queue for every *)
(* client.                                                                 *)
(***************************************************************************)
EXTENDS Naturals, Sequences

CONSTANTS
  Client,      \* the HTTP streams that ever attach to the run
  Starter      \* the stream of the request that started it

VARIABLES
  log,         \* the kinds of the events published, in order
  over,        \* the run has finished
  phase,       \* "out", "watching", "ended" or "left", for each client
  joined,      \* the length of the log when the client attached
  received     \* the log positions the client has been given

vars == <<log, over, phase, joined, received>>

Delta    == "delta"
Terminal == {"interrupt", "done"}
Endings  == {<<"done">>, <<"interrupt", "done">>}

\* The positions of the terminal events published since position j.
TerminalsAfter(events, j) ==
  {i \in (j + 1) .. Len(events) : events[i] \in Terminal}

Init ==
  /\ log = <<>>
  /\ over = FALSE
  /\ phase = [c \in Client |-> IF c = Starter THEN "watching" ELSE "out"]
  /\ joined = [c \in Client |-> 0]
  /\ received = [c \in Client |-> {}]

Emit ==
  /\ ~over
  /\ log' = Append(log, Delta)
  /\ UNCHANGED <<over, phase, joined, received>>

Close(ending) ==
  /\ ~over
  /\ log' = log \o ending
  /\ over' = TRUE
  /\ UNCHANGED <<phase, joined, received>>

Join(c) ==
  /\ ~over
  /\ phase[c] = "out"
  /\ phase' = [phase EXCEPT ![c] = "watching"]
  /\ joined' = [joined EXCEPT ![c] = Len(log)]
  /\ UNCHANGED <<log, over, received>>

See(c, i) ==
  /\ phase[c] = "watching"
  /\ i \in (joined[c] + 1) .. Len(log)
  /\ \A j \in received[c] : j < i
  /\ received' = [received EXCEPT ![c] = @ \cup {i}]
  /\ UNCHANGED <<log, over, phase, joined>>

End(c) ==
  /\ over
  /\ phase[c] = "watching"
  /\ TerminalsAfter(log, joined[c]) \subseteq received[c]
  /\ phase' = [phase EXCEPT ![c] = "ended"]
  /\ UNCHANGED <<log, over, joined, received>>

Leave(c) ==
  /\ phase[c] = "watching"
  /\ phase' = [phase EXCEPT ![c] = "left"]
  /\ UNCHANGED <<log, over, joined, received>>

Next ==
  \/ Emit
  \/ \E ending \in Endings : Close(ending)
  \/ \E c \in Client :
       \/ Join(c)
       \/ End(c)
       \/ Leave(c)
       \/ \E i \in 1 .. Len(log) : See(c, i)

Spec == Init /\ [][Next]_vars
=============================================================================
